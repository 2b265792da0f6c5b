-------------------------------- MODULE RomImage --------------------------------
(***************************************************************************)
(* How util/romparse lays out the boot flash from a map file (the           *)
(* i2crom.map.pre and spiRom.map.pre of make/): boot parameters for the    *)
(* ROM of the device, a map table, room for the configurations, and the    *)
(* program files.  Addresses are 32 bits: on the I2C bus the upper half is *)
(* the bus address of an EEPROM, so that an image larger than one goes on  *)
(* in the next.                                                            *)
(***************************************************************************)
EXTENDS BootImage

CONSTANTS
    I2C_BUS_ADDR,   \* 0x50 or 0x51: the first EEPROM
    DEVICE_BYTES,   \* 2^16: what an address within an EEPROM can reach
    FILE_ALIGN,     \* 0x80: file_align of the layout
    PARAM_BYTES,    \* of boot parameters, before everything else
    MAP_ADDR,       \* IBL_CFG_I2C_MAP_TABLE_DATA_ADDR
    CONFIG_ADDR_1,  \* 0x500 and 0x800: the pads for the configurations
    CONFIG_ADDR_2,
    CONFIG_LEN,     \* 0x300
    INIT_BYTES      \* of the first stage itself

MapBytes == 20      \* sizeof(iblBootMap_t)

\* The tool ends with an error when parts overlap.  Blocks start on multiples
\* of their size, so that none lies in two EEPROMs.
ASSUME RomImageAssumption ==
    /\ {I2C_BUS_ADDR, PARAM_BYTES, MAP_ADDR, CONFIG_ADDR_1, CONFIG_ADDR_2, CONFIG_LEN,
        INIT_BYTES} \subseteq Nat
    /\ {DEVICE_BYTES, FILE_ALIGN} \subseteq Nat \ {0}
    /\ FILE_ALIGN % (BLOCK_DATA + HeaderBytes) = 0
    /\ DEVICE_BYTES % FILE_ALIGN = 0
    /\ PARAM_BYTES <= MAP_ADDR
    /\ MAP_ADDR + MapBytes <= CONFIG_ADDR_1
    /\ CONFIG_ADDR_1 + CONFIG_LEN <= CONFIG_ADDR_2
    /\ CONFIG_ADDR_2 + CONFIG_LEN <= DEVICE_BYTES

-----------------------------------------------------------------------------
(* The map file.                                                           *)

FileEntry(index) == [type |-> "file", index |-> index]
PadEntry(id) == [type |-> "pad", index |-> id]
NoFile == 0   \* an empty file name

Layout(endians) ==
    [type |-> "layout", address |-> MAP_ADDR,
     plt |-> <<FileEntry(IF "little" \in endians THEN 2 ELSE NoFile), PadEntry(1),
               FileEntry(IF "big" \in endians THEN 1 + Cardinality(endians) ELSE NoFile),
               PadEntry(Cardinality(endians))>>]

Pad(address, len) == [type |-> "pad", address |-> address, len |-> len]

\* The second pad of the map file for SPI has its fields mixed up: its length
\* is the upper half of the address, 0.
Pads(endians, device) ==
    <<Pad(CONFIG_ADDR_1, CONFIG_LEN)>>
        \o (IF Cardinality(endians) = 2
            THEN <<Pad(CONFIG_ADDR_2, IF device = "spi" THEN 0 ELSE CONFIG_LEN)>>
            ELSE << >>)

\* Only the files of a layout are aligned.
File(data, align) == [data |-> data, align |-> align]

ProgFiles(image, endians) ==
    <<File([i \in 1 .. INIT_BYTES |-> 0], 1)>>
        \o (IF "little" \in endians
            THEN <<File(Blocks(Table(image, "little")), FILE_ALIGN)>> ELSE << >>)
        \o (IF "big" \in endians
            THEN <<File(Blocks(Table(image, "big")), FILE_ALIGN)>> ELSE << >>)

-----------------------------------------------------------------------------
(* createOutput.                                                           *)

Size(item) == IF item.type = "layout" THEN 4 * Len(item.plt) + 4 ELSE item.len

\* Where the tables and the pads end.  One of these without an address, which
\* only a layout may be, follows the one before.
AfterItem(romStart, base, item) ==
    IF item.type = "layout" /\ romStart + item.address = 0
    THEN base + Size(item)
    ELSE romStart + item.address + Size(item)

AlignedUp(address, align) == align * ((address + align - 1) \div align)

\* The address of each program file, when the first may begin at base.
AddressBytes(base, files) ==
    LET address[k \in DOMAIN files] ==
            AlignedUp(IF k = 1 THEN base ELSE address[k - 1] + Len(files[k - 1].data),
                      files[k].align)
    IN address

EntryWord(entry, romStart, pads, addressBytes) ==
    CASE entry.type = "pad" -> Bytes32(romStart + pads[entry.index].address)
      [] entry.type = "file" /\ entry.index = NoFile -> <<255, 255, 255, 255>>
      [] OTHER -> Bytes32(addressBytes[entry.index])

\* The header is the length and no checksum.
LayoutBytes(layout, romStart, pads, addressBytes) ==
    Bytes16(Size(layout)) \o Bytes16(0)
        \o FlattenSeq([j \in DOMAIN layout.plt |->
                           EntryWord(layout.plt[j], romStart, pads, addressBytes)])

imagePad(imageSoFar, length, fillVal) ==
    imageSoFar \o [i \in 1 .. length - Len(imageSoFar) |-> fillVal]

\* Where the last of the tables and pads ends, in the order of the map file.
TablesEnd(romStart, items) ==
    LET end[k \in 0 .. Len(items)] ==
            IF k = 0 THEN romStart + PARAM_BYTES
            ELSE AfterItem(romStart, end[k - 1], items[k])
    IN end[Len(items)]

\* The parameters, and then each part at its address.
Image(parts, fillVal) ==
    LET image[k \in 0 .. Len(parts)] ==
            IF k = 0 THEN [i \in 1 .. PARAM_BYTES |-> 0]
            ELSE imagePad(image[k - 1], parts[k].at, fillVal) \o parts[k].bytes
    IN image[Len(parts)]

createOutput(romBase, layout, pads, files, fillVal) ==
    LET romStart == romBase * DEVICE_BYTES
        addressBytes == AddressBytes(TablesEnd(romStart, <<layout>> \o pads), files)
        parts ==
            <<[at |-> layout.address,
               bytes |-> LayoutBytes(layout, romStart, pads, addressBytes)]>>
            \o [k \in DOMAIN files |->
                [at |-> addressBytes[k] - romStart, bytes |-> files[k].data]]
    IN [start |-> romStart, bytes |-> Image(parts, fillVal)]

\* The flash a board with this boot device is given.
BuildFlash(image, endians, device) ==
    createOutput(IF device = "i2c" THEN I2C_BUS_ADDR ELSE 0,
                 Layout(endians), Pads(endians, device),
                 ProgFiles(image, endians),
                 IF device = "spi" THEN 255 ELSE 0)

\* Past what was written the flash is erased.
FlashByte(flash, address) ==
    IF address - flash.start \in 0 .. Len(flash.bytes) - 1
    THEN flash.bytes[address - flash.start + 1] ELSE 255
=================================================================================
