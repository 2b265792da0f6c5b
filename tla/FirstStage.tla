------------------------------- MODULE FirstStage -------------------------------
(***************************************************************************)
(* The first stage of the loader: main of main/iblinit.c with the I2C and  *)
(* the SPI reader (ibliniti2c.c and iblinitspinor.c, alike but for the bus *)
(* driver they call).  It reads the map and the configuration from the     *)
(* flash, then pulls the boot table through a fifo that is refilled one    *)
(* checked block at a time, and jumps to what the table loaded.            *)
(*                                                                         *)
(* A read of the flash may report an error, or return bytes with one bit   *)
(* inverted: HeaderNoise and DataNoise are the weights of the bits that    *)
(* may be.  MaxFaults bounds both, and is the only bound of the model.  The *)
(* map and the configuration are read without noise.                       *)
(***************************************************************************)
EXTENDS BootTable, RomImage

CONSTANTS
    Images,             \* the programs: [entry, sections : Seq([addr, data])]
    I_MAX_BLOCK_SIZE,
    TI_BTBL_BLOCK_SIZE, \* bytes the wrapper pulls at a time
    HeaderNoise,        \* bits inverted in the read of a block's length
    DataNoise,          \* and in the read of the block
    MemoryLen,
    Untouched,          \* what memory holds before the boot
    MaxFaults

Inverted(byte, bit) == IF (byte \div bit) % 2 = 1 THEN byte - bit ELSE byte + bit

ASSUME FirstStageAssumption ==
    /\ I_MAX_BLOCK_SIZE \in Nat /\ I_MAX_BLOCK_SIZE >= BLOCK_DATA + HeaderBytes
    /\ I_MAX_BLOCK_SIZE % 2 = 0 /\ I_MAX_BLOCK_SIZE < 2^16
    /\ TI_BTBL_BLOCK_SIZE \in {n \in Nat \ {0} : n % 4 = 0}
    /\ HeaderNoise \subseteq {2^k : k \in 0 .. 7} /\ DataNoise \subseteq {2^k : k \in 0 .. 7}
    /\ MemoryLen \in Nat /\ Untouched \in 0 .. 255 /\ MaxFaults \in Nat

\* Programs as hex6x writes them, in whole 16 bit words, their sections at word
\* boundaries (coreCopyData stores words), and small enough that addresses in
\* the flash and in memory have 32 bits.
ASSUME ImagesAssumption ==
    \A image \in Images :
        /\ Is32Bit(image.entry)
        /\ image.sections \in Seq([addr : Nat, data : Seq(0 .. 255)])
        /\ \A k \in DOMAIN image.sections :
               LET s == image.sections[k]
               IN /\ Is32Bit(s.addr) /\ s.addr % 4 = 0
                  /\ s.addr + Len(s.data) <= MemoryLen
                  /\ Is32Bit(Len(s.data)) /\ Len(s.data) > 0 /\ Len(s.data) % 2 = 0
        /\ \A j, k \in DOMAIN image.sections :
               LET s == image.sections[j]
                   t == image.sections[k]
               IN j # k => s.addr + Len(s.data) <= t.addr \/ t.addr + Len(t.data) <= s.addr
        /\ \A endians \in (SUBSET {"little", "big"}) \ {{}},
              device \in {"i2c", "spi", "other"} :
               LET rom == BuildFlash(image, endians, device)
               IN Is32Bit(rom.start + Len(rom.bytes))

\* Nothing checks the length that is read of a block before the block is read
\* with it.  Only noise that makes it too large for the buffer is noticed.
ASSUME LengthsNoticed ==
    \A n \in HeaderBytes .. BLOCK_DATA + HeaderBytes, bit \in HeaderNoise :
        /\ Word16(Inverted(n \div 2^8, bit), n % 2^8) > I_MAX_BLOCK_SIZE
        /\ Word16(n \div 2^8, Inverted(n % 2^8, bit)) > I_MAX_BLOCK_SIZE

VARIABLES
    image,       \* the program in the flash
    flash,       \* what romparse made of it
    summed,      \* the map was given a checksum afterwards
    device,      \* the boot device: "i2c" or "spi"; "other" is none of these
    endian,
    sum,         \* what the checksum of a map with a checksum comes to: the
                 \* loop runs past the map, over what the stack holds
    pc,
    readAddress, \* i2cReadAddress or spiReadAddress
    busAddress,  \* i2cBusAddress
    iFifoIn, iFifoOut, iData,
    len,         \* of the block being read
    inst,        \* tiBootTable
    wrap,        \* the wrapper: [readSize, blockSize, data]
    memory,
    entry,
    faults,
    delivered    \* history: bytes of the table handed to the wrapper

hardware == <<image, flash, summed, device, endian, sum>>
fifo == <<iFifoIn, iFifoOut, iData>>
position == <<readAddress, busAddress>>
reader == <<position, fifo, len>>
loader == <<inst, wrap, memory, entry>>
vars == <<hardware, pc, reader, loader, faults, delivered>>

-----------------------------------------------------------------------------
(* The flash.                                                              *)

\* Only the lower half of the address is sent to the EEPROM, which starts over
\* at its end.
hwI2cMasterRead(byte_addr, byte_len, eeprom_i2c_id) ==
    [i \in 1 .. byte_len |->
        FlashByte(flash, eeprom_i2c_id * DEVICE_BYTES
                             + ((byte_addr + i - 1) % DEVICE_BYTES))]

hwSpiRead(addr, sizeBytes) ==
    [i \in 1 .. sizeBytes |-> FlashByte(flash, addr + i - 1)]

FlashBytes(n) ==
    IF device = "i2c" THEN hwI2cMasterRead(readAddress, n, busAddress)
    ELSE hwSpiRead(readAddress, n)

WithNoise(bytes, bits) ==
    {[bytes EXCEPT ![i] = Inverted(@, bit)] : i \in DOMAIN bytes, bit \in bits}

Fault == faults < MaxFaults /\ faults' = faults + 1

\* What a read that reports success may return.
Readings(n, bits) ==
    {FlashBytes(n)}
        \cup (IF faults < MaxFaults THEN WithNoise(FlashBytes(n), bits) ELSE {})

Counted(bytes) ==
    faults' = IF bytes = FlashBytes(Len(bytes)) THEN faults ELSE faults + 1

\* What is not overwritten of iData stays.
Stored(bytes) ==
    [i \in DOMAIN iData |-> IF i \in DOMAIN bytes THEN bytes[i] ELSE iData[i]]

\* A read that fails has stored the bytes up to where it did.  On I2C that may
\* be all of them, since a dummy byte follows; nothing is read of no bytes.
FailedRead(n) ==
    /\ Fault /\ n # 0
    /\ \E k \in 0 .. (IF device = "i2c" THEN n ELSE n - 1) :
           iData' = Stored(FlashBytes(k))

-----------------------------------------------------------------------------
(* main, iblInitI2c and iblInitSpiNor.                                     *)

Goto(label) == pc' = label

\* Whether the I2C controller could be set up is not looked at.
InitDevice ==
    /\ pc = "main"
    /\ \/ device = "other" /\ Goto("failed")
       \/ device \in {"i2c", "spi"} /\ Goto("map")
       \/ device = "spi" /\ Goto("failed")
    /\ UNCHANGED <<hardware, reader, loader, faults, delivered>>

MapTable ==
    IF device = "i2c" THEN hwI2cMasterRead(MAP_ADDR, MapBytes, I2C_BUS_ADDR)
    ELSE hwSpiRead(MAP_ADDR, MapBytes)

NoAddress == -1   \* 0xffffffff: the map has no table for this endianness

\* The third word of the map is addrLe, the fifth addrBe, the first length.
TableAddress ==
    LET at == IF endian = "little" THEN 4 ELSE 12
        bytes == SubSeq(MapTable, at + 1, at + 4)
    IN IF bytes = <<255, 255, 255, 255>> THEN NoAddress
       ELSE Word32(Word16(bytes[1], bytes[2]), Word16(bytes[3], bytes[4]))

MapAccepted ==
    /\ Word16(MapTable[1], MapTable[2]) = MapBytes
    /\ ~ summed \/ sum = 0

\* A variant that stays with the EEPROM the table begins in.
SameBus(address) == IF pc = "map" THEN address \div DEVICE_BYTES ELSE busAddress

Bus(address) == address \div DEVICE_BYTES

\* The address is taken before the map is looked at; one that has the wrong
\* length, does not add up or cannot be read is read again.
ReadMap ==
    /\ pc = "map"
    /\ \/ Fault /\ UNCHANGED <<pc, position>>
       \/ /\ readAddress' = TableAddress
          /\ busAddress' = Bus(readAddress')
          /\ Goto(IF MapAccepted THEN "config" ELSE "map")
          /\ UNCHANGED faults
    /\ UNCHANGED <<hardware, fifo, len, loader, delivered>>

\* The same for the configuration, of which nothing below depends.
ReadConfig ==
    /\ pc = "config"
    /\ \/ Fault /\ UNCHANGED pc
       \/ /\ Goto(IF readAddress = NoAddress THEN "failed" ELSE "boot")
          /\ UNCHANGED faults
    /\ UNCHANGED <<hardware, reader, loader, delivered>>

-----------------------------------------------------------------------------
(* iblBootBtbl.                                                            *)

\* It returns an error only if it gets no memory, since the readers never do.
StartBtbl ==
    /\ pc = "boot"
    /\ Goto("pull") \/ Goto("failed")
    /\ UNCHANGED <<hardware, reader, loader, faults, delivered>>

SizeToRead ==
    CASE inst.state = "PAD" -> 2
      [] inst.state \in {"INIT", "SIZE", "ADDR"} -> 4
      [] inst.state = "DATA" -> inst.section_size_bytes

\* readSize counts down to 0 before the state of the processor is looked at.
Pull ==
    /\ pc = "pull"
    /\ wrap.readSize # 0 \/ inst.state # "FLUSH"
    /\ LET readSize == IF wrap.readSize = 0 THEN SizeToRead ELSE wrap.readSize
       IN wrap' = [readSize |-> readSize,
                   blockSize |-> Lower(readSize, TI_BTBL_BLOCK_SIZE),
                   data |-> << >>]
    /\ Goto("read")
    /\ UNCHANGED <<hardware, reader, inst, memory, entry, faults, delivered>>

Jump ==
    /\ pc = "pull" /\ wrap.readSize = 0 /\ inst.state = "FLUSH"
    /\ entry' = inst.code_start_addr
    /\ Goto("entered")
    /\ UNCHANGED <<hardware, reader, inst, wrap, memory, faults, delivered>>

\* The words the wrapper makes of the bytes; behind an odd number of bytes
\* is whatever the buffer held.
PulledWords ==
    [j \in 1 .. CHIP_BYTES_TO_UINT16(wrap.blockSize) |->
        Word16(wrap.data[2 * j - 1],
               IF 2 * j <= Len(wrap.data) THEN wrap.data[2 * j] ELSE Untouched)]

StartProcess ==
    /\ pc = "read" /\ Len(wrap.data) = wrap.blockSize
    /\ inst' = [inst EXCEPT !.p_data = 1, !.data_size_uint16 = Len(PulledWords)]
    /\ Goto("process")
    /\ UNCHANGED <<hardware, reader, wrap, memory, entry, faults, delivered>>

Process ==
    /\ pc = "process" /\ inst.data_size_uint16 # 0
    /\ inst' = BootTblStep(inst, PulledWords)
    /\ memory' = IF inst.state = "DATA"
                 THEN coreCopyData(memory, inst.section_addr, PulledWords,
                                   inst.p_data, BytesAtHand(inst), endian)
                 ELSE memory
    /\ UNCHANGED <<hardware, pc, reader, wrap, entry, faults, delivered>>

EndProcess ==
    /\ pc = "process" /\ inst.data_size_uint16 = 0
    /\ wrap' = [wrap EXCEPT !.readSize = @ - wrap.blockSize]
    /\ Goto("pull")
    /\ UNCHANGED <<hardware, reader, inst, memory, entry, faults, delivered>>

-----------------------------------------------------------------------------
(* The fifo, and the blocks that fill it.                                  *)

iFifoCount ==
    IF iFifoIn >= iFifoOut THEN iFifoIn - iFifoOut
    ELSE iFifoIn + I_MAX_BLOCK_SIZE - iFifoOut

\* A variant that leaves the indices where they are when they meet.
NoReset(in, out) ==
    [in |-> in, out |-> out + 1]

\* The indices after a byte is taken out.
AfterRead(in, out) ==
    LET next == out + 1
    IN CASE next = in -> [in |-> 0, out |-> 0]
         [] next # in /\ next >= I_MAX_BLOCK_SIZE -> [in |-> in, out |-> 0]
         [] OTHER -> [in |-> in, out |-> next]

\* The byte loop of iblI2cRead and iblSpiRead.  After a block is read a byte
\* is taken, whether there is one or not.
FifoEmpty ==
    /\ pc = "read" /\ Len(wrap.data) < wrap.blockSize /\ iFifoCount = 0
    /\ Goto("header")
    /\ UNCHANGED <<hardware, reader, loader, faults, delivered>>

iFifoRead ==
    /\ \/ pc = "read" /\ Len(wrap.data) < wrap.blockSize /\ iFifoCount # 0
       \/ pc = "take"
    /\ wrap' = [wrap EXCEPT !.data = Append(@, iData[iFifoOut + 1])]
    /\ iFifoIn' = AfterRead(iFifoIn, iFifoOut).in
    /\ iFifoOut' = AfterRead(iFifoIn, iFifoOut).out
    /\ delivered' = delivered + 1
    /\ Goto("read")
    /\ UNCHANGED <<hardware, position, iData, len, inst, memory, entry, faults>>

\* A variant that takes a block that fills the buffer for an oversized one.
FitsWithRoom(n) == n < I_MAX_BLOCK_SIZE

Fits(n) == n <= I_MAX_BLOCK_SIZE

\* A length that does not fit is read again, as a read that fails.
ReadHeader ==
    /\ pc = "header"
    /\ \/ FailedRead(HeaderBytes) /\ UNCHANGED <<pc, len>>
       \/ \E bytes \in Readings(HeaderBytes, HeaderNoise) :
              /\ Counted(bytes)
              /\ iData' = Stored(bytes)
              /\ len' = Word16(bytes[1], bytes[2])
              /\ Goto(IF Fits(len') THEN "block" ELSE "header")
    /\ UNCHANGED <<hardware, position, iFifoIn, iFifoOut, loader, delivered>>

\* An odd last byte is summed with what follows it in the buffer.
SumsUp(buffer, n) ==
    onesComplementChksum([j \in 1 .. (n + 1) \div 2 |->
        Word16(buffer[2 * j - 1], buffer[2 * j])]) \in {0, 2^16 - 1}

ReadBlock ==
    /\ pc = "block"
    /\ \/ FailedRead(len) /\ UNCHANGED <<pc, position, iFifoIn, iFifoOut>>
       \/ \E bytes \in Readings(len, DataNoise) :
              /\ Counted(bytes)
              /\ iData' = Stored(bytes)
              /\ \/ /\ SumsUp(iData', len)
                    /\ readAddress' = readAddress + len
                    /\ busAddress' = Bus(readAddress')
                    /\ iFifoIn' = len
                    /\ iFifoOut' = HeaderBytes
                    /\ Goto("take")
                 \/ /\ ~ SumsUp(iData', len)
                    /\ Goto("header")
                    /\ UNCHANGED <<position, iFifoIn, iFifoOut>>
    /\ UNCHANGED <<hardware, len, loader, delivered>>

-----------------------------------------------------------------------------

Init ==
    /\ image \in Images
    /\ device \in {"i2c", "spi", "other"}
    /\ \E endians \in (SUBSET {"little", "big"}) \ {{}} :
           flash = BuildFlash(image, endians, device)
    /\ summed \in BOOLEAN
    /\ endian \in {"little", "big"}
    /\ sum \in {0, 1}
    /\ pc = "main"
    /\ readAddress = 0 /\ busAddress = 0
    /\ iFifoIn = 0 /\ iFifoOut = 0
    /\ iData = [i \in 1 .. I_MAX_BLOCK_SIZE |-> 0]
    /\ len = 0
    /\ inst = BootTblStart
    /\ wrap = [readSize |-> 0, blockSize |-> 0, data |-> << >>]
    /\ memory = [a \in 0 .. MemoryLen - 1 |-> Untouched]
    /\ entry = 0 /\ faults = 0 /\ delivered = 0

Next ==
    \/ InitDevice \/ ReadMap \/ ReadConfig
    \/ StartBtbl \/ Pull \/ Jump \/ StartProcess \/ Process \/ EndProcess
    \/ FifoEmpty \/ iFifoRead \/ ReadHeader \/ ReadBlock

Spec == Init /\ [][Next]_vars /\ WF_vars(Next)
=================================================================================
