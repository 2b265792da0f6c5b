----------------------------- MODULE LoadersProofs -----------------------------
(***************************************************************************)
(* Proofs about the COFF and ELF loaders, for all files a linker makes,    *)
(* every size of the load buffer and every failure of the boot module.     *)
(***************************************************************************)
EXTENDS LoadersProperties, WellFoundedInduction, TLAPS

-----------------------------------------------------------------------------
(* Arithmetic.                                                             *)

\* Min of a set of numbers is its least.
LEMMA LeastOf ==
    ASSUME NEW S, S \subseteq Nat, S # {}
    PROVE  Min(S) \in S
  <1> DEFINE R == {ss \in Nat \X Nat : ss[1] < ss[2]}
  <1>1. IsWellFoundedOn(R, Nat)
    BY NatLessThanWellFounded DEF OpToRel
  <1>2. PICK x \in S : \A y \in S : ~(<<y, x>> \in R)
    BY <1>1, WFMin
  <1>3. \A y \in S : x <= y
    <2> TAKE y \in S
    <2>1. x \in Nat /\ y \in Nat
      OBVIOUS
    <2>2. ~(y < x)
      BY <1>2, <2>1
    <2> QED
      BY <2>1, <2>2
  <1> QED
    BY <1>3 DEF Min

\* Min of two numbers.
LEMMA LesserOf ==
    ASSUME NEW a \in Int, NEW b \in Int
    PROVE  Min({a, b}) = IF a <= b THEN a ELSE b
  <1> DEFINE m == IF a <= b THEN a ELSE b
  <1>1. m \in {a, b} /\ \A y \in {a, b} : m <= y
    OBVIOUS
  <1>2. \A x \in {a, b} : (\A y \in {a, b} : x <= y) => x = m
    OBVIOUS
  <1> QED
    BY <1>1, <1>2 DEF Min

\* Quotient and remainder.
LEMMA Division ==
    ASSUME NEW p \in Nat \ {0}, NEW x \in Int
    PROVE  /\ x \div p \in Int /\ x % p \in 0 .. p - 1
           /\ x = p * (x \div p) + (x % p)
  OBVIOUS

\* Multiples of p are p apart.
LEMMA Multiples ==
    ASSUME NEW p \in Nat \ {0}, NEW q \in Int, NEW r \in Int, q >= r + 1
    PROVE  p * q >= p * r + p
  OBVIOUS

\* Quotient and remainder are determined by their sum.
LEMMA DivisionUnique ==
    ASSUME NEW p \in Nat \ {0}, NEW q \in Int, NEW r \in 0 .. p - 1
    PROVE  (p * q + r) \div p = q /\ (p * q + r) % p = r
  <1> DEFINE x == p * q + r
             d == x \div p
             m == x % p
  <1>1. x \in Int
    OBVIOUS
  <1>2. d \in Int /\ m \in 0 .. p - 1 /\ x = p * d + m
    BY <1>1, Division
  <1>3. x = p * q + r
    OBVIOUS
  <1> HIDE DEF x, d, m
  <1>4. ~(d >= q + 1) /\ ~(q >= d + 1)
    BY <1>1, <1>2, <1>3, Multiples
  <1>5. d = q /\ m = r
    BY <1>2, <1>3, <1>4
  <1> QED
    BY <1>5 DEF x, d, m

\* The multiples of the alignment.
Boundary(n) == n % INIT_ALIGN = 0

\* A boundary is a multiple of the alignment.
LEMMA BoundaryIs ==
    ASSUME NEW n \in Int
    PROVE  Boundary(n) <=> \E q \in Int : n = INIT_ALIGN * q
  <1>1. INIT_ALIGN \in Nat \ {0}
    BY CoffAssumption
  <1>2. ASSUME Boundary(n) PROVE n = INIT_ALIGN * (n \div INIT_ALIGN) /\ n \div INIT_ALIGN \in Int
    BY <1>1, <1>2, Division DEF Boundary
  <1>3. ASSUME NEW q \in Int, n = INIT_ALIGN * q PROVE Boundary(n)
    <2>1. 0 \in 0 .. INIT_ALIGN - 1 /\ n = INIT_ALIGN * q + 0
      BY <1>1, <1>3
    <2> QED
      BY <1>1, <2>1, DivisionUnique DEF Boundary
  <1> QED
    BY <1>2, <1>3

\* Aligned (n) is the first boundary from n on.
LEMMA AlignedIs ==
    ASSUME NEW n \in Nat
    PROVE  /\ Aligned(n) \in Nat /\ Boundary(Aligned(n))
           /\ n <= Aligned(n) /\ Aligned(n) < n + INIT_ALIGN
  <1> DEFINE p == INIT_ALIGN
             x == n + p - 1
             q == x \div p
             r == x % p
  <1>1. p \in Nat \ {0} /\ x \in Int
    BY CoffAssumption
  <1>2. q \in Int /\ r \in 0 .. p - 1 /\ x = p * q + r
    BY <1>1, Division
  <1>3. Aligned(n) = q * p
    BY DEF Aligned
  <1> HIDE DEF q, r
  <1>4. q * p = p * q /\ p * q \in Int
    BY <1>1, <1>2
  <1>5. n <= p * q /\ p * q < n + p
    BY <1>1, <1>2, <1>4
  <1>6. Boundary(p * q)
    BY <1>2, <1>4, BoundaryIs
  <1> QED
    BY <1>3, <1>4, <1>5, <1>6

\* No two boundaries are closer than that.
LEMMA FirstBoundary ==
    ASSUME NEW n \in Nat, NEW b \in Nat, Boundary(b), n <= b
    PROVE  Aligned(n) <= b
  <1> DEFINE a == Aligned(n)
  <1>1. a \in Nat /\ Boundary(a) /\ a < n + INIT_ALIGN
    BY AlignedIs
  <1>2. PICK q \in Int : a = INIT_ALIGN * q
    BY <1>1, BoundaryIs
  <1>3. PICK r \in Int : b = INIT_ALIGN * r
    BY BoundaryIs
  <1>4. INIT_ALIGN \in Nat \ {0}
    BY CoffAssumption
  <1> HIDE DEF a
  <1>5. CASE q >= r + 1
    <2>1. a >= b + INIT_ALIGN
      BY <1>2, <1>3, <1>4, <1>5, Multiples
    <2> QED
      BY <1>1, <1>4, <2>1
  <1>6. CASE q <= r
    <2>1. CASE q = r
      BY <1>2, <1>3, <2>1 DEF a
    <2>2. CASE r >= q + 1
      <3>1. b >= a + INIT_ALIGN
        BY <1>2, <1>3, <1>4, <2>2, Multiples
      <3> QED
        BY <1>1, <1>4, <3>1 DEF a
    <2> QED
      BY <1>6, <2>1, <2>2
  <1> QED
    BY <1>5, <1>6

\* Aligning keeps the order.
LEMMA AlignedMonotone ==
    ASSUME NEW m \in Nat, NEW n \in Nat, m <= n
    PROVE  Aligned(m) <= Aligned(n) /\ (n <= Aligned(m) => Aligned(n) = Aligned(m))
  <1>1. Aligned(m) \in Nat /\ Aligned(n) \in Nat /\ n <= Aligned(n)
        /\ Boundary(Aligned(m)) /\ Boundary(Aligned(n))
    BY AlignedIs
  <1>2. Aligned(m) <= Aligned(n)
    BY <1>1, FirstBoundary
  <1>3. n <= Aligned(m) => Aligned(n) <= Aligned(m)
    BY <1>1, FirstBoundary
  <1> QED
    BY <1>1, <1>2, <1>3

\* Behind a boundary, the boundaries are those counted from it.
LEMMA BoundarySum ==
    ASSUME NEW b \in Nat, Boundary(b), NEW n \in Nat
    PROVE  Boundary(b + n) <=> Boundary(n)
  <1>1. PICK q \in Int : b = INIT_ALIGN * q
    BY BoundaryIs
  <1>2. INIT_ALIGN \in Int
    BY CoffAssumption
  <1>3. ASSUME NEW r \in Int, n = INIT_ALIGN * r PROVE b + n = INIT_ALIGN * (q + r)
    BY <1>1, <1>2, <1>3
  <1>4. ASSUME NEW r \in Int, b + n = INIT_ALIGN * r PROVE n = INIT_ALIGN * (r - q)
    BY <1>1, <1>2, <1>4
  <1>5. Boundary(n) => Boundary(b + n)
    <2> SUFFICES ASSUME Boundary(n) PROVE Boundary(b + n)
      OBVIOUS
    <2>1. PICK r \in Int : n = INIT_ALIGN * r
      BY BoundaryIs
    <2>2. q + r \in Int /\ b + n \in Int /\ b + n = INIT_ALIGN * (q + r)
      BY <2>1, <1>3
    <2> QED
      BY <2>2, BoundaryIs
  <1>6. Boundary(b + n) => Boundary(n)
    <2> SUFFICES ASSUME Boundary(b + n) PROVE Boundary(n)
      OBVIOUS
    <2>1. PICK r \in Int : b + n = INIT_ALIGN * r
      BY BoundaryIs
    <2>2. r - q \in Int /\ n \in Int /\ n = INIT_ALIGN * (r - q)
      BY <2>1, <1>4
    <2> QED
      BY <2>2, BoundaryIs
  <1> QED
    BY <1>5, <1>6

\* Alignment in the buffer is alignment in the table.
LEMMA AlignedShift ==
    ASSUME NEW b \in Nat, Boundary(b), NEW n \in Nat
    PROVE  Aligned(b + n) = b + Aligned(n)
  <1>1. b + n \in Nat
    OBVIOUS
  <1>2. /\ Aligned(n) \in Nat /\ Boundary(Aligned(n)) /\ n <= Aligned(n)
        /\ Aligned(b + n) \in Nat /\ Boundary(Aligned(b + n)) /\ b + n <= Aligned(b + n)
    BY <1>1, AlignedIs
  <1>3. Aligned(b + n) <= b + Aligned(n)
    <2>1. Boundary(b + Aligned(n)) /\ b + Aligned(n) \in Nat /\ b + n <= b + Aligned(n)
      BY SMTT(30), <1>2, BoundarySum
    <2> QED
      BY <1>1, <2>1, FirstBoundary
  <1>4. Aligned(n) <= Aligned(b + n) - b
    <2> DEFINE k == Aligned(b + n) - b
    <2>1. k \in Nat /\ n <= k /\ Boundary(b + k)
      BY <1>2
    <2>2. Boundary(k)
      BY <2>1, BoundarySum
    <2> QED
      BY <2>1, <2>2, FirstBoundary
  <1> QED
    BY <1>2, <1>3, <1>4

-----------------------------------------------------------------------------
(* The invariant.                                                          *)

CoffSteps == {"coff", "opthdr", "secthdrs", "sections", "cinit"}
ElfSteps == {"elf", "phdr", "validate", "segments"}

Files == {im.name : im \in Images} \cup {"junk", "zero", "none"}
FileUnit == [file : Files, pos : Nat]
Devices == [pos : Nat, lost : BOOLEAN, ok : BOOLEAN, bytes : Seq(FileUnit), sought : BOOLEAN]

LoaderTypes ==
    /\ image \in Images
    /\ dev \in Devices
    /\ memory \in [0 .. MemoryLen - 1 -> FileUnit]
    /\ pc \in CoffSteps \cup ElfSteps \cup {"idle", "returned", "astray"}
    /\ hidden \in BOOLEAN /\ leftover \in BOOLEAN
    /\ init_size \in Nat /\ init_addr \in Int /\ i \in Nat /\ nbytes \in Nat
    /\ packet \in Seq(FileUnit)

\* What is known at each step, wherever the data come from.
Phases ==
    /\ pc \in CoffSteps => image.format = "coff"
    /\ pc \in ElfSteps => image.format = "elf"
    /\ entry # 0 => pc \in {"segments", "returned"}
    /\ pc \in CoffSteps \cup ElfSteps /\ ~hidden => ~dev.lost
    /\ pc \in {"secthdrs", "sections", "cinit"} /\ image.opthdr = 1 => entry_point = image.entry
    /\ pc = "segments" => entry = image.entry /\ SizesValid /\ segments \subseteq PtLoad
    /\ pc \in {"sections", "cinit"} => todo \subseteq OfKind("load") \cup OfKind("cinit")
    /\ pc = "sections" /\ todo # {} /\ Section.kind = "load" =>
           nbytes <= Section.size /\ packet = << >>
    /\ pc = "cinit" => todo # {} /\ Section.kind = "cinit"

InSections == pc \in {"sections", "cinit"} /\ todo # {}
InTable == InSections /\ Section.kind = "cinit"

\* The load buffer holds units of the table, from the one that nbytes counts to,
\* and begins on a boundary of a record.
Buffered ==
    /\ \A k \in DOMAIN packet :
           \/ packet[k] = [file |-> image.name, pos |-> Section.pos + nbytes + k - 1]
           \/ hidden /\ packet[k] = Junk
    /\ nbytes < Section.size =>
           /\ nbytes % INIT_ALIGN = 0
           /\ nbytes + Len(packet) <= Section.size /\ Len(packet) <= LOADBUFSIZE
    /\ pc = "cinit" =>
           /\ nbytes < Section.size
           /\ i <= Len(packet)
           /\ Len(packet) = LOADBUFSIZE \/ nbytes + Len(packet) = Section.size

\* The units of a file are in memory, if the boot module gave the right ones.
Kept(addr, pos, n) == hidden \/ Placed(addr, pos, n)
RecordKept(r) == Kept(r.addr, r.pos, r.size)

\* The position in the table is behind a record, in front of the next;
Between(c, cur) ==
    \E p \in Ends(image, c) :
        /\ p <= cur /\ cur <= c.pos + Aligned(p - c.pos)
        /\ \A r \in RecordsIn(image, c) : r.pos <= p => RecordKept(r)

\* or behind the last one;
Behind(c, cur) ==
    /\ \A q \in c.pos + Aligned(cur - c.pos) .. c.pos + c.size - 1 : image.words[q] = 0
    /\ \A r \in RecordsIn(image, c) : RecordKept(r)

\* or in the data of one, which goes where its address says.
Within(c, cur) ==
    \E r \in RecordsIn(image, c) :
        /\ r.pos <= cur
        /\ init_addr = r.addr + (cur - r.pos)
        /\ init_size = r.pos + r.size - cur
        /\ Kept(r.addr, r.pos, cur - r.pos)
        /\ \A q \in RecordsIn(image, c) : q.pos < r.pos => RecordKept(q)

Position == Section.pos + nbytes + (IF pc = "cinit" THEN i ELSE 0)

AtRecord ==
    IF init_size = 0 THEN Between(Section, Position) \/ Behind(Section, Position)
    ELSE Within(Section, Position)

Records ==
    /\ pc \in {"opthdr", "secthdrs", "sections", "cinit"} /\ ~leftover /\ ~InTable =>
           init_size = 0
    /\ InTable /\ ~leftover => AtRecord

\* What has been loaded stays.
SectionsKept ==
    pc \in {"sections", "cinit"} /\ ~Misled =>
        /\ \A k \in OfKind("load") \ todo :
               Kept(image.parts[k].addr, image.parts[k].pos, image.parts[k].size)
        /\ \A k \in OfKind("cinit") \ todo :
               \A r \in RecordsIn(image, image.parts[k]) : RecordKept(r)
        /\ todo # {} /\ Section.kind = "load" => Kept(Section.addr, Section.pos, nbytes)

SegmentsKept ==
    pc = "segments" => \A k \in PtLoad \ segments : hidden \/ InPlace(image.parts[k])

LoadersInv ==
    /\ LoaderTypes
    /\ Phases
    /\ InTable => Buffered
    /\ Records
    /\ SectionsKept
    /\ SegmentsKept
    /\ EntryMeansLoaded

-----------------------------------------------------------------------------
(* The boot module and the memory.                                         *)

Unit(p) == [file |-> image.name, pos |-> p]

\* What the file holds, and what stands for a failed read, are units.
LEMMA UnitTypes ==
    ASSUME image \in Images
    PROVE  /\ \A p \in Nat : Unit(p) \in FileUnit
           /\ Junk \in FileUnit /\ Zero \in FileUnit /\ Unwritten \in FileUnit
           /\ \A p : Unit(p) # Junk /\ Unit(p) # Zero
  <1>1. image.name \in Files /\ image.name \notin {"junk", "zero", "none"}
    BY LoaderAssumption DEF Files
  <1>2. {"junk", "zero", "none"} \subseteq Files
    BY DEF Files
  <1> QED
    BY <1>1, <1>2 DEF Unit, FileUnit, Junk, Zero, Unwritten, NoFile

\* The units of a stretch of the file.
LEMMA FileBytesAre ==
    ASSUME image \in Images, NEW p \in Nat, NEW n \in Nat
    PROVE  /\ FileBytes(p, n) \in Seq(FileUnit) /\ Len(FileBytes(p, n)) = n
           /\ \A k \in 1 .. n : FileBytes(p, n)[k] = Unit(p + k - 1)
  <1>1. \A k \in 1 .. n : p + k - 1 \in Nat
    OBVIOUS
  <1>2. FileBytes(p, n) = [k \in 1 .. n |-> Unit(p + k - 1)]
    BY DEF FileBytes, Unit
  <1> QED
    BY <1>1, <1>2, UnitTypes

\* A read serves the next units of the file, or junk once the stream is lost.
LEMMA ServedIs ==
    ASSUME image \in Images, NEW d \in Devices, NEW n \in Nat, NEW b \in Served(d, n)
    PROVE  /\ b \in Seq(FileUnit) /\ Len(b) = n
           /\ \A k \in 1 .. n : b[k] = Unit(d.pos + k - 1) \/ (d.lost /\ b[k] = Junk)
           /\ ~d.lost => b = FileBytes(d.pos, n)
  <1>1. d.pos \in Nat
    BY DEF Devices
  <1>2. CASE b = FileBytes(d.pos, n)
    BY <1>1, <1>2, FileBytesAre
  <1>3. CASE d.lost /\ b = [k \in 1 .. n |-> Junk]
    BY <1>3, UnitTypes
  <1> QED
    BY <1>2, <1>3 DEF Served

\* fseek leaves the stream at the target, or reports or hides a failure.
LEMMA SeekIs ==
    ASSUME NEW d \in Devices, NEW p \in Nat, NEW s \in Seeks(d, p)
    PROVE  /\ s \in Devices /\ s.ok = d.ok /\ s.bytes = d.bytes
           /\ s.sought => s.pos = p /\ s.lost = d.lost
           /\ ~s.sought => s.lost
  <1>1. s = [d EXCEPT !.pos = p, !.sought = TRUE]
           \/ \E q \in {d.pos, p} : s = [d EXCEPT !.pos = q, !.sought = FALSE, !.lost = TRUE]
    BY DEF Seeks
  <1> QED
    BY <1>1 DEF Devices

\* fread gives the next units, or fewer and a failure.
LEMMA ReadIs ==
    ASSUME image \in Images, NEW d \in Devices, NEW n \in Nat, NEW f \in Reads(d, n)
    PROVE  /\ f \in Devices /\ f.sought = d.sought
           /\ Len(f.bytes) <= n /\ (f.ok => Len(f.bytes) = n)
           /\ f.ok => f.lost = d.lost
           /\ f.ok => \A k \in 1 .. n :
                         f.bytes[k] = Unit(d.pos + k - 1) \/ (d.lost /\ f.bytes[k] = Junk)
           /\ f.ok /\ ~d.lost => f.bytes = FileBytes(d.pos, n)
           /\ ~f.ok => f.lost
  <1>1. PICK b \in Served(d, n) :
           f \in {ReadAll(d, b)}
                 \cup {ReadFailed(d, q, SubSeq(b, 1, k)) : q \in {d.pos, d.pos + n}, k \in 0 .. n}
    BY DEF Reads
  <1>2. /\ b \in Seq(FileUnit) /\ Len(b) = n
        /\ \A k \in 1 .. n : b[k] = Unit(d.pos + k - 1) \/ (d.lost /\ b[k] = Junk)
        /\ ~d.lost => b = FileBytes(d.pos, n)
    BY ServedIs
  <1>3. d.pos \in Nat /\ d.pos + n \in Nat
    BY DEF Devices
  <1>4. CASE f = ReadAll(d, b)
    <2>1. f = [d EXCEPT !.pos = d.pos + n, !.ok = TRUE, !.bytes = b]
      BY <1>2, <1>4 DEF ReadAll
    <2>2. f \in Devices /\ f.ok /\ f.bytes = b /\ f.lost = d.lost /\ f.sought = d.sought
      BY <1>2, <1>3, <2>1 DEF Devices
    <2> QED
      BY <1>2, <2>2
  <1>5. ASSUME NEW q \in {d.pos, d.pos + n}, NEW k \in 0 .. n,
               f = ReadFailed(d, q, SubSeq(b, 1, k))
        PROVE  /\ f \in Devices /\ ~f.ok /\ f.lost /\ f.sought = d.sought
               /\ Len(f.bytes) <= n
    <2>1. SubSeq(b, 1, k) \in Seq(FileUnit) /\ Len(SubSeq(b, 1, k)) = k
      BY <1>2
    <2>2. /\ f \in Devices /\ ~f.ok /\ f.lost /\ f.sought = d.sought
          /\ f.bytes = SubSeq(b, 1, k)
      BY <1>3, <1>5, <2>1 DEF Devices, ReadFailed
    <2> QED
      BY <2>1, <2>2
  <1> QED
    BY <1>1, <1>4, <1>5

\* What fseek and fread give, if the results looked at are good.
LEMMA FetchIs ==
    ASSUME image \in Images, dev \in Devices,
           NEW p \in Nat, NEW n \in Nat, NEW seekChecked \in BOOLEAN,
           NEW f \in Fetches(p, n, seekChecked)
    PROVE  /\ f \in Devices
           /\ Len(f.bytes) <= n /\ (f.ok => Len(f.bytes) = n)
           /\ f.ok /\ seekChecked => f.sought
           /\ f.ok /\ f.sought =>
                 /\ f.lost = dev.lost
                 /\ \A k \in 1 .. n :
                       f.bytes[k] = Unit(p + k - 1) \/ (dev.lost /\ f.bytes[k] = Junk)
                 /\ ~dev.lost => f.bytes = FileBytes(p, n)
  <1>1. PICK s \in Seeks(dev, p) :
           f \in IF seekChecked /\ ~s.sought THEN {[s EXCEPT !.ok = FALSE, !.bytes = << >>]}
                 ELSE Reads(s, n)
    BY DEF Fetches
  <1>2. /\ s \in Devices
        /\ s.sought => s.pos = p /\ s.lost = dev.lost
    BY SeekIs
  <1>3. CASE seekChecked /\ ~s.sought
    <2>1. f = [s EXCEPT !.ok = FALSE, !.bytes = << >>]
      BY <1>1, <1>3
    <2>2. << >> \in Seq(FileUnit) /\ Len(<< >>) = 0
      OBVIOUS
    <2>3. f \in Devices /\ ~f.ok /\ f.bytes = << >>
      BY <1>2, <2>1, <2>2 DEF Devices
    <2> QED
      BY <2>2, <2>3
  <1>4. CASE ~(seekChecked /\ ~s.sought)
    <2>1. f \in Reads(s, n)
      BY <1>1, <1>4
    <2> QED
      BY <1>2, <1>4, <2>1, ReadIs
  <1> QED
    BY <1>3, <1>4

\* A read the caller checks gives the units asked for.
LEMMA CheckedFetchIs ==
    ASSUME image \in Images, dev \in Devices, NEW p \in Nat, NEW n \in Nat,
           NEW f \in Fetches(p, n, TRUE)
    PROVE  /\ f \in Devices /\ f.bytes \in Seq(FileUnit)
           /\ f.ok =>
                 /\ f.lost = dev.lost /\ Len(f.bytes) = n
                 /\ \A k \in 1 .. n :
                       f.bytes[k] = Unit(p + k - 1) \/ (dev.lost /\ f.bytes[k] = Junk)
  <1> DEFINE checked == TRUE
  <1>1. checked \in BOOLEAN /\ f \in Fetches(p, n, checked) /\ checked
    OBVIOUS
  <1> HIDE DEF checked
  <1>2. f \in Devices /\ (f.ok => Len(f.bytes) = n)
    BY <1>1, FetchIs
  <1>3. f.ok => f.sought
    BY <1>1, FetchIs
  <1>4. f.ok /\ f.sought =>
           /\ f.lost = dev.lost
           /\ \A k \in 1 .. n : f.bytes[k] = Unit(p + k - 1) \/ (dev.lost /\ f.bytes[k] = Junk)
    BY <1>1, FetchIs
  <1>5. f.bytes \in Seq(FileUnit)
    BY <1>2 DEF Devices
  <1> QED
    BY <1>2, <1>3, <1>4, <1>5

\* A write changes the addresses from its first to its last and no other.
LEMMA WriteIs ==
    ASSUME memory \in [0 .. MemoryLen - 1 -> FileUnit], NEW addr \in Int,
           NEW bytes \in Seq(FileUnit)
    PROVE  /\ Write(addr, bytes) \in [0 .. MemoryLen - 1 -> FileUnit]
           /\ \A a \in 0 .. MemoryLen - 1 :
                 Write(addr, bytes)[a] = IF a \in addr .. addr + Len(bytes) - 1
                                         THEN bytes[a - addr + 1] ELSE memory[a]
  <1>1. MemoryLen \in Nat
    BY LoaderAssumption
  <1>2. ASSUME NEW a \in 0 .. MemoryLen - 1, a \in addr .. addr + Len(bytes) - 1
        PROVE  bytes[a - addr + 1] \in FileUnit
    <2>1. a - addr + 1 \in 1 .. Len(bytes)
      BY <1>1, <1>2
    <2> QED
      BY <2>1
  <1> QED
    BY <1>1, <1>2 DEF Write

\* Writing elsewhere takes nothing away;
LEMMA KeptApart ==
    ASSUME LoaderTypes, NEW addr \in Int, NEW bytes \in Seq(FileUnit),
           memory' = Write(addr, bytes), image' = image, hidden => hidden',
           NEW a \in Nat, NEW p \in Nat, NEW n \in Nat,
           a .. a + n - 1 \subseteq 0 .. MemoryLen - 1,
           (a .. a + n - 1) \cap (addr .. addr + Len(bytes) - 1) = {},
           Kept(a, p, n)
    PROVE  Kept(a, p, n)'
  <1> SUFFICES ASSUME ~hidden' PROVE Placed(a, p, n)'
    BY DEF Kept
  <1>1. Placed(a, p, n)
    BY DEF Kept
  <1> SUFFICES ASSUME NEW k \in 0 .. n - 1
               PROVE  memory'[a + k] = [file |-> image.name, pos |-> p + k]
    BY DEF Placed
  <1>2. a + k \in a .. a + n - 1
    OBVIOUS
  <1>3. a + k \in 0 .. MemoryLen - 1 /\ a + k \notin addr .. addr + Len(bytes) - 1
    BY <1>2
  <1>4. memory'[a + k] = memory[a + k]
    BY <1>3, WriteIs DEF LoaderTypes
  <1> QED
    BY <1>1, <1>4 DEF Placed

\* writing the next units adds them.
LEMMA KeptMore ==
    ASSUME LoaderTypes, NEW a \in Nat, NEW p \in Nat, NEW m \in Nat,
           NEW bytes \in Seq(FileUnit),
           memory' = Write(a + m, bytes), image' = image, hidden => hidden',
           a .. a + m + Len(bytes) - 1 \subseteq 0 .. MemoryLen - 1,
           \A k \in 1 .. Len(bytes) : bytes[k] = Unit(p + m + k - 1) \/ hidden',
           Kept(a, p, m)
    PROVE  Kept(a, p, m + Len(bytes))'
  <1> SUFFICES ASSUME ~hidden' PROVE Placed(a, p, m + Len(bytes))'
    BY DEF Kept
  <1>1. Placed(a, p, m)
    BY DEF Kept
  <1> SUFFICES ASSUME NEW k \in 0 .. m + Len(bytes) - 1
               PROVE  memory'[a + k] = [file |-> image.name, pos |-> p + k]
    BY DEF Placed
  <1>2. a + k \in a .. a + m + Len(bytes) - 1 /\ k \in Nat
    OBVIOUS
  <1>3. a + k \in 0 .. MemoryLen - 1
    BY <1>2
  <1>4. memory'[a + k] = IF a + k \in a + m .. a + m + Len(bytes) - 1
                         THEN bytes[a + k - (a + m) + 1] ELSE memory[a + k]
    BY <1>3, WriteIs DEF LoaderTypes
  <1>5. CASE k < m
    <2>1. a + k \notin a + m .. a + m + Len(bytes) - 1 /\ k \in 0 .. m - 1
      BY <1>2, <1>5
    <2> QED
      BY <1>1, <1>4, <2>1 DEF Placed
  <1>6. CASE k >= m
    <2>1. /\ a + k \in a + m .. a + m + Len(bytes) - 1
          /\ a + k - (a + m) + 1 = k - m + 1 /\ k - m + 1 \in 1 .. Len(bytes)
          /\ p + m + (k - m + 1) - 1 = p + k
      BY <1>2, <1>6
    <2>2. bytes[k - m + 1] = Unit(p + m + (k - m + 1) - 1)
      BY <2>1
    <2> QED
      BY <1>4, <2>1, <2>2 DEF Unit
  <1> QED
    BY <1>2, <1>5, <1>6

-----------------------------------------------------------------------------
(* Files.                                                                  *)

\* What the assumptions say of the image at hand.
LEMMA ImageIs ==
    ASSUME NEW im \in Images
    PROVE  /\ im.format \in {"coff", "elf"} /\ im.accepted \in BOOLEAN /\ im.opthdr \in {0, 1}
           /\ im.entry \in Nat \ {0} /\ im.phoff \in Nat /\ im.end \in Nat
           /\ im.parts \in Seq(Parts) /\ im.inits \subseteq Inits
           /\ Len(im.parts) \in Nat /\ DOMAIN im.parts = 1 .. Len(im.parts)
           /\ \A k \in DOMAIN im.parts : im.parts[k] \in Parts
  <1>1. im.parts \in Seq(Parts)
    BY LoaderAssumption
  <1>2. /\ Len(im.parts) \in Nat /\ DOMAIN im.parts = 1 .. Len(im.parts)
        /\ \A k \in DOMAIN im.parts : im.parts[k] \in Parts
    BY <1>1
  <1> QED
    BY <1>1, <1>2, LoaderAssumption, ImagesAssumption

\* The memory of the parts and the records of one file.
LEMMA ImageMemory ==
    ASSUME NEW im \in Images
    PROVE  /\ \A k \in DOMAIN im.parts : PartMemory(im.parts[k]) \subseteq 0 .. MemoryLen - 1
           /\ \A r \in im.inits : InitMemory(r) \subseteq 0 .. MemoryLen - 1
           /\ \A k, l \in DOMAIN im.parts :
                  k # l => PartMemory(im.parts[k]) \cap PartMemory(im.parts[l]) = {}
           /\ \A q, r \in im.inits : q # r => InitMemory(q) \cap InitMemory(r) = {}
           /\ \A k \in DOMAIN im.parts, r \in im.inits :
                  PartMemory(im.parts[k]) \cap InitMemory(r) = {}
  BY ImagesAssumption DEF Disjoint

\* FirstOf picks one of the numbers, of a section loaded from its data if there is one.
LEMMA FirstOfIs ==
    ASSUME NEW parts \in Seq(Parts), NEW S, S \subseteq DOMAIN parts, S # {}
    PROVE  FirstOf(parts, S) \in S /\ FirstOf(parts, S) \in DOMAIN parts
  <1> DEFINE loads == {k \in S : parts[k].kind = "load"}
             T == IF loads # {} THEN loads ELSE S
  <1>1. DOMAIN parts \subseteq Nat
    <2>1. DOMAIN parts = 1 .. Len(parts) /\ Len(parts) \in Nat
      OBVIOUS
    <2> QED
      BY <2>1
  <1>2. T \subseteq S /\ T \subseteq Nat /\ T # {}
    BY <1>1
  <1>3. FirstOf(parts, S) = Min(T)
    BY DEF FirstOf
  <1> HIDE DEF T
  <1>4. Min(T) \in T
    BY <1>2, LeastOf
  <1> QED
    BY <1>2, <1>3, <1>4

\* OfKind is a set of section numbers.
LEMMA OfKindIs ==
    ASSUME NEW kind
    PROVE  OfKind(kind) \subseteq DOMAIN image.parts
  BY DEF OfKind

\* The current section is one of those to load.
LEMMA CurrentIs ==
    ASSUME image \in Images, todo # {}, todo \subseteq OfKind("load") \cup OfKind("cinit")
    PROVE  /\ Current \in todo /\ Current \in DOMAIN image.parts
           /\ Section \in Parts /\ Section.size > 0
           /\ Section.kind = "load" => Current \in OfKind("load")
           /\ Section.kind = "cinit" => Current \in OfKind("cinit")
           /\ Section.kind \in {"load", "cinit"}
  <1>1. todo \subseteq DOMAIN image.parts
    BY OfKindIs
  <1>2. Current \in todo /\ Current \in DOMAIN image.parts
    BY <1>1, ImageIs, FirstOfIs DEF Current
  <1> QED
    BY <1>2, ImageIs DEF Section, OfKind

\* In a COFF file a section takes no more memory than it has data.
LEMMA CoffParts ==
    ASSUME image \in Images, image.format = "coff", NEW k \in OfKind("load")
    PROVE  /\ image.parts[k] \in Parts
           /\ PartMemory(image.parts[k]) =
                  image.parts[k].addr .. image.parts[k].addr + image.parts[k].size - 1
           /\ image.parts[k].memsz = image.parts[k].size
  <1>1. k \in DOMAIN image.parts /\ image.parts[k].kind = "load" /\ image.parts[k].size > 0
    BY DEF OfKind
  <1>2. image.parts[k].memsz = image.parts[k].size
    BY <1>1, ImagesAssumption
  <1> QED
    BY <1>1, <1>2, ImageIs DEF PartMemory

\* The initialization table of a file the loader is in.
LEMMA CoffTables ==
    ASSUME image \in Images, image.format = "coff", NEW k \in OfKind("cinit")
    PROVE  /\ image.parts[k] \in Parts /\ CinitTable(image, image.parts[k])
           /\ RecordsIn(image, image.parts[k]) \subseteq image.inits
           /\ RecordsIn(image, image.parts[k]) \subseteq Inits
  <1>1. k \in DOMAIN image.parts /\ image.parts[k].kind = "cinit"
    BY DEF OfKind
  <1>2. CinitTable(image, image.parts[k])
    BY <1>1, ImagesAssumption
  <1> QED
    BY <1>1, <1>2, ImageIs DEF RecordsIn

-----------------------------------------------------------------------------
(* Starting, and the headers.                                              *)

\* Outside the loops little has to hold.
LEMMA Outside ==
    ASSUME LoaderTypes', Phases', pc' \notin {"sections", "cinit", "segments"},
           pc' = "returned" => entry' = 0,
           pc' \in {"opthdr", "secthdrs"} /\ ~leftover' => init_size' = 0
    PROVE  LoadersInv'
  <1>1. ~InTable'
    BY DEF InTable, InSections
  <1>2. Records' /\ SectionsKept' /\ SegmentsKept' /\ EntryMeansLoaded'
    BY <1>1 DEF Records, SectionsKept, SegmentsKept, EntryMeansLoaded
  <1> QED
    BY <1>1, <1>2 DEF LoadersInv

\* The invariant is kept when a load begins,
LEMMA StartLoadStep ==
    ASSUME LoadersInv, StartLoad, UNCHANGED <<coffVars, segments>>
    PROVE  LoadersInv'
  <1> USE DEF StartLoad, LoadersInv
  <1>1. PICK lost \in BOOLEAN : dev' = [Closed EXCEPT !.lost = lost] /\ hidden' = lost
    OBVIOUS
  <1>2. dev' = [pos |-> 0, lost |-> lost, ok |-> TRUE, bytes |-> << >>, sought |-> TRUE]
    BY <1>1 DEF Closed
  <1>3. dev' \in Devices /\ dev'.lost = lost
    <2>1. << >> \in Seq(FileUnit)
      OBVIOUS
    <2> QED
      BY <1>2, <2>1 DEF Devices
  <1>4. image' \in Images /\ image'.format \in {"coff", "elf"}
    BY ImageIs
  <1>5. LoaderTypes'
    BY <1>1, <1>3, <1>4 DEF LoaderTypes, coffVars, CoffSteps, ElfSteps
  <1>6. Phases'
    BY <1>1, <1>3, <1>4 DEF Phases, CoffSteps, ElfSteps
  <1> QED
    BY <1>4, <1>5, <1>6, Outside

\* when the caller tries again after a failure,
LEMMA RetryStep ==
    ASSUME LoadersInv, Retry, UNCHANGED <<coffVars, segments>>
    PROVE  LoadersInv'
  <1> USE DEF Retry, Goes, LoadersInv
  <1>1. LoaderTypes'
    BY DEF LoaderTypes, coffVars
  <1>2. Phases'
    BY DEF Phases, CoffSteps, ElfSteps
  <1> QED
    BY <1>1, <1>2, Outside

\* by the file header of a COFF file,
LEMMA FileHeaderStep ==
    ASSUME LoadersInv, CloadFileHeader, UNCHANGED segments
    PROVE  LoadersInv'
  <1> USE DEF CloadFileHeader, LoadersInv
  <1>1. dev' \in Fetches(FilHdr, 1, TRUE)
    OBVIOUS
  <1>2. image \in Images /\ dev \in Devices /\ FilHdr \in Nat
    BY DEF LoaderTypes, FilHdr
  <1>3. dev' \in Devices /\ (dev'.ok => dev'.lost = dev.lost)
    BY <1>1, <1>2, FetchIs
  <1>4. \/ Returns(0, FALSE)
        \/ dev'.ok /\ Goes(FilHdrPos)
        \/ dev'.ok /\ Goes("astray")
    BY DEF ReadAs, CloadFails
  <1>5. entry = 0 /\ (~hidden => ~dev.lost) /\ image.format = "coff"
    BY DEF Phases, CoffSteps
  <1>6. FilHdrPos \in {"opthdr", "secthdrs"} /\ (FilHdrPos = "secthdrs" => image.opthdr # 1)
    BY DEF FilHdrPos
  <1>7. LoaderTypes'
    BY <1>3, <1>4, <1>6 DEF LoaderTypes, Returns, Goes, initVars, loopVars, CoffSteps
  <1>8. Phases'
    BY <1>3, <1>4, <1>5, <1>6 DEF Phases, Returns, Goes, CoffSteps, ElfSteps
  <1>9. leftover' = (init_size # 0) /\ init_size' = init_size
    BY DEF initVars
  <1> QED
    BY <1>4, <1>5, <1>6, <1>7, <1>8, <1>9, Outside DEF Returns, Goes

\* by its optional header,
LEMMA OptHeaderStep ==
    ASSUME LoadersInv, CloadOptHeader, UNCHANGED segments
    PROVE  LoadersInv'
  <1> USE DEF CloadOptHeader, LoadersInv
  <1>1. dev' \in Fetches(OptHdr, 1, FALSE)
    OBVIOUS
  <1>2. image \in Images /\ dev \in Devices /\ OptHdr \in Nat /\ hidden \in BOOLEAN
    BY DEF LoaderTypes, OptHdr
  <1>3. dev' \in Devices /\ (dev'.ok /\ dev'.sought => dev'.lost = dev.lost)
    BY <1>1, <1>2, FetchIs
  <1>4. \/ Returns(0, FALSE)
        \/ dev'.ok /\ Goes("secthdrs") /\ entry_point' = image.entry
        \/ dev'.ok /\ Goes("astray")
    BY DEF ReadAs, CloadFails
  <1>5. entry = 0 /\ (~hidden => ~dev.lost) /\ image.format = "coff"
    BY DEF Phases, CoffSteps
  <1>6. hidden' \in BOOLEAN /\ (hidden => hidden') /\ (~dev'.sought => hidden')
    BY <1>2, <1>3 DEF Hide, Devices
  <1>7. LoaderTypes'
    BY <1>3, <1>4, <1>6 DEF LoaderTypes, Returns, Goes, initVars, loopVars, CoffSteps
  <1>8. Phases'
    BY <1>3, <1>4, <1>5, <1>6 DEF Phases, Returns, Goes, CoffSteps, ElfSteps
  <1>9. ~leftover' => init_size' = 0
    BY DEF initVars, Records, InTable, InSections
  <1> QED
    BY <1>4, <1>5, <1>7, <1>8, <1>9, Outside DEF Returns, Goes

\* A table begins in front of its first record.
LEMMA TableBegins ==
    ASSUME NEW im \in Images, NEW c \in Parts, CinitTable(im, c)
    PROVE  \E p \in Ends(im, c) :
              /\ p <= c.pos /\ c.pos <= c.pos + Aligned(p - c.pos)
              /\ \A r \in RecordsIn(im, c) : ~(r.pos <= p)
  <1>1. c.pos \in Ends(im, c) /\ c.pos \in Nat /\ c.pos - c.pos = 0
    BY DEF Ends, Parts
  <1>2. Aligned(0) \in Nat
    BY AlignedIs
  <1>3. \A r \in RecordsIn(im, c) : c.pos + 2 <= r.pos /\ r.pos \in Nat
    BY ImageIs DEF CinitTable, RecordsIn, Inits
  <1>4. \A r \in RecordsIn(im, c) : ~(r.pos <= c.pos)
    BY <1>1, <1>3
  <1> QED
    BY <1>1, <1>2, <1>4

\* A section is about to be loaded.
LEMMA SectionBegins ==
    ASSUME image \in Images, image.format = "coff", image' = image, pc' = "sections",
           nbytes' = 0, packet' = << >>,
           todo' \subseteq OfKind("load") \cup OfKind("cinit")
    PROVE  /\ todo' # {} =>
                  /\ Section'.size \in Nat /\ nbytes' <= Section'.size
                  /\ Kept(Section.addr, Section.pos, nbytes)'
           /\ InTable' => Buffered' /\ Between(Section, Position)'
  <1>1. ASSUME todo' # {}
        PROVE  /\ Section' \in Parts /\ Section' = image.parts[Current']
               /\ Section'.kind = "cinit" => Current' \in OfKind("cinit")
    <2>1. todo' \subseteq DOMAIN image.parts
      BY OfKindIs
    <2>2. Current' \in todo' /\ Current' \in DOMAIN image.parts
      BY <1>1, <2>1, ImageIs, FirstOfIs DEF Current
    <2> QED
      BY <2>2, ImageIs DEF Section, OfKind
  <1>2. ASSUME todo' # {}
        PROVE  /\ Section'.size \in Nat /\ nbytes' <= Section'.size
               /\ Kept(Section.addr, Section.pos, nbytes)'
    BY <1>1, <1>2 DEF Parts, Kept, Placed
  <1>3. InTable' => Buffered'
    <2>1. 0 % INIT_ALIGN = 0 /\ LOADBUFSIZE \in Nat
      BY CoffAssumption
    <2>2. << >> \in Seq(FileUnit) /\ DOMAIN << >> = {} /\ Len(<< >>) = 0
      OBVIOUS
    <2> QED
      BY <1>2, <2>1, <2>2 DEF Buffered, InTable, InSections
  <1>4. ASSUME InTable' PROVE Between(Section, Position)'
    <2> DEFINE c == image.parts[Current']
    <2>1. c = Section' /\ Current' \in OfKind("cinit") /\ c \in Parts
      BY <1>1, <1>4 DEF InTable, InSections
    <2>2. Position' = c.pos
      BY <2>1 DEF Position, Parts
    <2>3. CinitTable(image, c)
      BY <2>1, CoffTables
    <2> HIDE DEF c
    <2> QED
      BY <2>1, <2>2, <2>3, TableBegins DEF Between
  <1> QED
    BY <1>2, <1>3, <1>4

\* by the section headers,
LEMMA SectHeadersStep ==
    ASSUME LoadersInv, CloadSectHeaders, UNCHANGED segments
    PROVE  LoadersInv'
  <1> USE DEF CloadSectHeaders, LoadersInv
  <1> DEFINE n == Len(image.parts)
  <1>1. image \in Images /\ dev \in Devices /\ hidden \in BOOLEAN /\ n \in Nat /\ SectHdrs \in Nat
    BY ImageIs DEF LoaderTypes, SectHdrs
  <1>2. dev' \in Fetches(SectHdrs, n, FALSE)
    OBVIOUS
  <1>3. dev' \in Devices /\ (dev'.ok /\ dev'.sought => dev'.lost = dev.lost)
    <2> HIDE DEF n
    <2> QED
      BY <1>1, <1>2, FetchIs
  <1>4. \/ Returns(0, FALSE)
        \/ dev'.ok /\ Goes("sections")
        \/ dev'.ok /\ Goes("astray")
    BY DEF ReadAs, CloadFails
  <1>5. entry = 0 /\ (~hidden => ~dev.lost) /\ image.format = "coff"
    BY DEF Phases, CoffSteps
  <1>6. hidden' \in BOOLEAN /\ (hidden => hidden') /\ (~dev'.sought => hidden')
    BY <1>1, <1>3 DEF Hide, Devices
  <1>7. << >> \in Seq(FileUnit)
    OBVIOUS
  <1>8. LoaderTypes'
    BY <1>3, <1>4, <1>6, <1>7 DEF LoaderTypes, Returns, Goes, initVars, CoffSteps
  <1>9. /\ todo' = OfKind("load") \cup OfKind("cinit") /\ nbytes' = 0 /\ packet' = << >>
        /\ image' = image /\ UNCHANGED <<initVars, leftover>>
    OBVIOUS
  <1>10. pc' = "sections" =>
             /\ todo' # {} => nbytes' <= Section'.size /\ Kept(Section.addr, Section.pos, nbytes)'
             /\ InTable' => Buffered' /\ Between(Section, Position)'
    BY <1>1, <1>5, <1>9, SectionBegins
  <1>11. Phases'
    BY <1>3, <1>4, <1>5, <1>6, <1>9, <1>10
       DEF Phases, Returns, Goes, CoffSteps, ElfSteps, OfKind
  <1>12. CASE pc' # "sections"
    BY <1>4, <1>8, <1>11, <1>12, Outside DEF Returns, Goes
  <1>13. CASE pc' = "sections"
    <2>1. ~leftover' => init_size' = 0
      BY <1>9 DEF initVars, Records, InTable, InSections
    <2>2. Records'
      BY <1>10, <1>13, <2>1 DEF Records, AtRecord
    <2>3. /\ OfKind("load")' \ todo' = {} /\ OfKind("cinit")' \ todo' = {}
      BY <1>9 DEF OfKind
    <2>4. SectionsKept'
      BY <1>10, <1>13, <2>3 DEF SectionsKept
    <2> QED
      BY <1>8, <1>10, <1>11, <1>13, <2>2, <2>4 DEF SegmentsKept, EntryMeansLoaded
  <1> QED
    BY <1>12, <1>13

-----------------------------------------------------------------------------
(* The sections.                                                           *)

\* What else of the file is in memory stays there.
LEMMA OthersKept ==
    ASSUME LoaderTypes, image.format = "coff", image' = image, hidden => hidden',
           NEW addr \in Int, NEW bytes \in Seq(FileUnit), memory' = Write(addr, bytes)
    PROVE  /\ \A k \in OfKind("load") :
                  /\ PartMemory(image.parts[k]) \cap (addr .. addr + Len(bytes) - 1) = {}
                  /\ Kept(image.parts[k].addr, image.parts[k].pos, image.parts[k].size)
                  => Kept(image.parts[k].addr, image.parts[k].pos, image.parts[k].size)'
           /\ \A r \in image.inits :
                  /\ InitMemory(r) \cap (addr .. addr + Len(bytes) - 1) = {}
                  /\ RecordKept(r)
                  => RecordKept(r)'
  <1>1. image \in Images
    BY DEF LoaderTypes
  <1>2. ASSUME NEW k \in OfKind("load"),
               PartMemory(image.parts[k]) \cap (addr .. addr + Len(bytes) - 1) = {},
               Kept(image.parts[k].addr, image.parts[k].pos, image.parts[k].size)
        PROVE  Kept(image.parts[k].addr, image.parts[k].pos, image.parts[k].size)'
    <2> DEFINE p == image.parts[k]
    <2>1. p \in Parts /\ PartMemory(p) = p.addr .. p.addr + p.size - 1
      BY <1>1, CoffParts
    <2>2. k \in DOMAIN image.parts
      BY OfKindIs
    <2>3. PartMemory(p) \subseteq 0 .. MemoryLen - 1
      BY <1>1, <2>2, ImageMemory
    <2>4. p.addr \in Nat /\ p.pos \in Nat /\ p.size \in Nat
      BY <2>1 DEF Parts
    <2>5. Kept(p.addr, p.pos, p.size)'
      <3> HIDE DEF p
      <3>1. Kept(p.addr, p.pos, p.size)
        BY <1>2 DEF p
      <3>2. (p.addr .. p.addr + p.size - 1) \cap (addr .. addr + Len(bytes) - 1) = {}
        BY <1>2, <2>1 DEF p
      <3>3. p' = p
        BY DEF p
      <3> QED
        BY <2>1, <2>3, <2>4, <3>1, <3>2, <3>3, KeptApart
    <2> QED
      BY <2>5
  <1>3. ASSUME NEW r \in image.inits,
               InitMemory(r) \cap (addr .. addr + Len(bytes) - 1) = {}, RecordKept(r)
        PROVE  RecordKept(r)'
    <2>1. r.addr \in Nat /\ r.pos \in Nat /\ r.size \in Nat
      BY <1>1, ImageIs DEF Inits
    <2>2. r.addr .. r.addr + r.size - 1 \subseteq 0 .. MemoryLen - 1
      BY <1>1, ImageMemory DEF InitMemory
    <2> QED
      BY <1>3, <2>1, <2>2, KeptApart DEF InitMemory, RecordKept
  <1> QED
    BY <1>2, <1>3

\* and by the data of a section.
LEMMA SectDataStep ==
    ASSUME LoadersInv, CloadSectData, UNCHANGED segments
    PROVE  LoadersInv'
  <1> USE DEF CloadSectData, LoadersInv
  <1> DEFINE size == IF Section.size - nbytes <= LOADBUFSIZE THEN Section.size - nbytes
                     ELSE LOADBUFSIZE
             excess == Len(packet)
             from == Section.pos + nbytes + excess
  <1>1. /\ image \in Images /\ dev \in Devices /\ hidden \in BOOLEAN /\ nbytes \in Nat
        /\ packet \in Seq(FileUnit) /\ image.format = "coff" /\ entry = 0
        /\ memory \in [0 .. MemoryLen - 1 -> FileUnit]
        /\ (~hidden => ~dev.lost) /\ LOADBUFSIZE \in Nat
        /\ todo \subseteq OfKind("load") \cup OfKind("cinit")
    BY CoffAssumption DEF LoaderTypes, Phases, CoffSteps
  <1>2. /\ Current \in todo /\ Current \in DOMAIN image.parts /\ Section \in Parts
        /\ Section.kind = "load" => Current \in OfKind("load")
        /\ Section.kind = "cinit" => Current \in OfKind("cinit")
        /\ Section.kind \in {"load", "cinit"}
    BY <1>1, CurrentIs
  <1>3. /\ Section.pos \in Nat /\ Section.size \in Nat /\ Section.addr \in Nat
        /\ Section.size - nbytes \in Int /\ nbytes < Section.size
    BY <1>1, <1>2 DEF Parts
  <1>4. Min({Section.size - nbytes, LOADBUFSIZE}) = size
    BY SMTT(30), <1>1, <1>3, LesserOf
  <1>5. InTable <=> Section.kind = "cinit"
    BY DEF InTable, InSections
  <1>6. excess \in Nat /\ excess <= size /\ size \in Nat /\ size <= Section.size - nbytes
    <2>1. CASE Section.kind = "load"
      <3>1. packet = << >>
        BY <2>1 DEF Phases
      <3>2. excess = 0
        BY <3>1
      <3> QED
        BY <1>1, <1>3, <3>2
    <2>2. CASE Section.kind = "cinit"
      <3>1. nbytes + excess <= Section.size /\ excess <= LOADBUFSIZE
        BY <1>3, <1>5, <2>2 DEF Buffered
      <3> QED
        BY SMTT(30), <1>1, <1>3, <3>1
    <2> QED
      BY <1>2, <2>1, <2>2
  <1>7. PICK f \in Fetches(from, size - excess, TRUE) :
            /\ dev' = f
            /\ \/ ~f.ok /\ CloadFails /\ UNCHANGED <<memory, loopVars>>
               \/ /\ f.ok /\ Section.kind = "load"
                  /\ memory' = Write(Section.addr + nbytes, f.bytes)
                  /\ nbytes' = nbytes + size
                  /\ Goes(pc) /\ UNCHANGED <<todo, packet, i>>
               \/ /\ f.ok /\ Section.kind = "cinit"
                  /\ packet' = packet \o f.bytes /\ i' = 0
                  /\ Goes("cinit") /\ UNCHANGED <<memory, todo, nbytes>>
    BY <1>4
  <1>8. /\ pc = "sections" /\ todo # {}
        /\ UNCHANGED <<image, hidden, attempts, entry_point, initVars, leftover>>
    OBVIOUS
  <1> HIDE DEF size, excess, from, CloadSectData
  <1>9. from \in Nat /\ size - excess \in Nat /\ from = Section.pos + nbytes + excess
    BY <1>1, <1>3, <1>6 DEF from
  <1>10. /\ f \in Devices /\ f.bytes \in Seq(FileUnit)
         /\ f.ok =>
               /\ f.lost = dev.lost /\ Len(f.bytes) = size - excess
               /\ \A k \in 1 .. size - excess :
                     f.bytes[k] = Unit(from + k - 1) \/ (hidden /\ f.bytes[k] = Junk)
    <2>1. /\ f \in Devices /\ f.bytes \in Seq(FileUnit)
          /\ f.ok =>
                /\ f.lost = dev.lost /\ Len(f.bytes) = size - excess
                /\ \A k \in 1 .. size - excess :
                      f.bytes[k] = Unit(from + k - 1) \/ (dev.lost /\ f.bytes[k] = Junk)
      BY <1>1, <1>9, CheckedFetchIs
    <2> QED
      BY <1>1, <2>1
  <1>11. CASE ~f.ok
    <2>1. Returns(0, FALSE) /\ UNCHANGED <<memory, loopVars>> /\ dev' = f
      BY <1>7, <1>11 DEF CloadFails
    <2>2. LoaderTypes'
      BY <1>8, <1>10, <2>1 DEF LoaderTypes, Returns, initVars, loopVars
    <2>3. Phases'
      BY <1>8, <2>1 DEF Phases, Returns, CoffSteps, ElfSteps
    <2> QED
      BY <2>1, <2>2, <2>3, Outside DEF Returns
  <1>12. CASE f.ok /\ Section.kind = "load"
    <2>1. /\ dev' = f /\ memory' = Write(Section.addr + nbytes, f.bytes)
          /\ nbytes' = nbytes + size /\ pc' = "sections"
          /\ UNCHANGED <<entry, loaded, todo, packet, i>>
      BY <1>7, <1>8, <1>12 DEF Goes
    <2>2. packet = << >> /\ excess = 0
      BY <1>8, <1>12 DEF Phases, excess
    <2>3. /\ Section' = Section /\ OfKind("load")' = OfKind("load")
          /\ OfKind("cinit")' = OfKind("cinit") /\ Misled' = Misled
      BY <1>8, <2>1 DEF Section, Current, OfKind, Misled
    <2>4. Len(f.bytes) = size /\ \A k \in 1 .. size :
             f.bytes[k] = Unit(Section.pos + nbytes + k - 1) \/ hidden
      <3>1. size - excess = size /\ from = Section.pos + nbytes
        BY <1>1, <1>3, <1>6, <1>9, <2>2
      <3> QED
        BY <1>10, <1>12, <3>1
    <2>5. Section.addr + nbytes \in Int /\ Write(Section.addr + nbytes, f.bytes) \in [0 .. MemoryLen - 1 -> FileUnit]
      <3>1. Section.addr + nbytes \in Int
        BY <1>1, <1>3
      <3> QED
        BY <1>1, <1>10, <3>1, WriteIs
    <2>6. LoaderTypes'
      BY <1>1, <1>6, <1>8, <1>10, <2>1, <2>5 DEF LoaderTypes, initVars
    <2>7. Phases'
      BY <1>1, <1>3, <1>6, <1>8, <1>10, <1>12, <2>1, <2>2, <2>3
         DEF Phases, CoffSteps, ElfSteps
    <2>8. ~InTable'
      BY <1>12, <2>3 DEF InTable, InSections
    <2>9. Records'
      BY <1>5, <1>8, <1>12, <2>8 DEF Records, initVars
    <2>10. ASSUME ~Misled
           PROVE  /\ \A k \in OfKind("load") \ todo :
                        Kept(image.parts[k].addr, image.parts[k].pos, image.parts[k].size)'
                  /\ \A k \in OfKind("cinit") \ todo :
                        \A r \in RecordsIn(image, image.parts[k]) : RecordKept(r)'
                  /\ Kept(Section.addr, Section.pos, nbytes)'
      <3>1. SectionsKept
        OBVIOUS
      <3>2. /\ PartMemory(Section) = Section.addr .. Section.addr + Section.size - 1
            /\ PartMemory(Section) \subseteq 0 .. MemoryLen - 1
        BY <1>1, <1>2, <1>12, CoffParts, ImageMemory DEF Section
      <3>3. Section.addr + nbytes .. Section.addr + nbytes + Len(f.bytes) - 1
               \subseteq PartMemory(Section)
        BY SMTT(30), <1>1, <1>3, <1>6, <2>4, <3>2
      <3>4. ASSUME NEW k \in OfKind("load") \ todo
            PROVE  Kept(image.parts[k].addr, image.parts[k].pos, image.parts[k].size)'
        <4>1. k # Current /\ k \in DOMAIN image.parts
          BY <1>2, OfKindIs
        <4>2. PartMemory(image.parts[k]) \cap PartMemory(Section) = {}
          BY <1>1, <1>2, <4>1, ImageMemory DEF Section
        <4>3. Kept(image.parts[k].addr, image.parts[k].pos, image.parts[k].size)
          BY <1>8, <2>10, <3>1 DEF SectionsKept
        <4>4. PartMemory(image.parts[k])
                \cap (Section.addr + nbytes .. Section.addr + nbytes + Len(f.bytes) - 1) = {}
          BY <3>3, <4>2
        <4>5. Section.addr + nbytes \in Int
          BY <1>1, <1>3
        <4> QED
          BY <1>1, <1>8, <1>10, <2>1, <4>3, <4>4, <4>5, OthersKept
      <3>5. ASSUME NEW k \in OfKind("cinit") \ todo, NEW r \in RecordsIn(image, image.parts[k])
            PROVE  RecordKept(r)'
        <4>1. r \in image.inits
          BY DEF RecordsIn
        <4>2. PartMemory(Section) \cap InitMemory(r) = {}
          BY <1>1, <1>2, <4>1, ImageMemory DEF Section
        <4>3. RecordKept(r)
          BY <1>8, <2>10, <3>1 DEF SectionsKept
        <4>4. InitMemory(r)
                \cap (Section.addr + nbytes .. Section.addr + nbytes + Len(f.bytes) - 1) = {}
          BY <3>3, <4>2
        <4>5. Section.addr + nbytes \in Int
          BY <1>1, <1>3
        <4> QED
          BY <1>1, <1>8, <1>10, <2>1, <4>1, <4>3, <4>4, <4>5, OthersKept
      <3>6. Kept(Section.addr, Section.pos, nbytes)'
        <4>1. Kept(Section.addr, Section.pos, nbytes)
          BY <1>8, <1>12, <2>10, <3>1 DEF SectionsKept
        <4>2. Section.addr .. Section.addr + nbytes + Len(f.bytes) - 1 \subseteq 0 .. MemoryLen - 1
          BY SMTT(60), <1>1, <1>3, <1>6, <2>4, <3>2
        <4> DEFINE a == Section.addr
                   p == Section.pos
                   m == nbytes
        <4>3. /\ a \in Nat /\ p \in Nat /\ m \in Nat /\ Kept(a, p, m)
              /\ memory' = Write(a + m, f.bytes) /\ image' = image /\ hidden' = hidden
              /\ a .. a + m + Len(f.bytes) - 1 \subseteq 0 .. MemoryLen - 1
              /\ \A k \in 1 .. Len(f.bytes) : f.bytes[k] = Unit(p + m + k - 1) \/ hidden'
          BY <1>1, <1>3, <1>8, <2>1, <2>4, <4>1, <4>2
        <4>4. Section'.addr = a /\ Section'.pos = p /\ nbytes' = m + Len(f.bytes)
          BY <2>1, <2>3, <2>4
        <4> HIDE DEF a, p, m
        <4> QED
          BY <1>10, <4>3, <4>4, KeptMore
      <3> QED
        BY <3>4, <3>5, <3>6
    <2>11. SectionsKept'
      BY <1>8, <2>1, <2>3, <2>10 DEF SectionsKept
    <2> QED
      BY <2>1, <2>6, <2>7, <2>8, <2>9, <2>11 DEF SegmentsKept, EntryMeansLoaded
  <1>13. CASE f.ok /\ Section.kind = "cinit"
    <2>1. /\ dev' = f /\ packet' = packet \o f.bytes /\ i' = 0 /\ pc' = "cinit"
          /\ UNCHANGED <<entry, loaded, memory, todo, nbytes>>
      BY <1>7, <1>13 DEF Goes
    <2>2. /\ Section' = Section /\ OfKind("load")' = OfKind("load")
          /\ OfKind("cinit")' = OfKind("cinit") /\ Misled' = Misled
      BY <1>8, <2>1 DEF Section, Current, OfKind, Misled
    <2>3. packet \o f.bytes \in Seq(FileUnit) /\ Len(packet \o f.bytes) = size
      BY <1>1, <1>6, <1>10, <1>13 DEF excess
    <2>4. LoaderTypes'
      BY <1>1, <1>8, <1>10, <2>1, <2>3 DEF LoaderTypes, initVars, CoffSteps
    <2>5. Phases'
      BY <1>1, <1>8, <1>10, <1>13, <2>1, <2>2 DEF Phases, CoffSteps, ElfSteps
    <2>6. Buffered /\ InTable
      BY <1>5, <1>13
    <2>7. Buffered'
      <3>1. ASSUME NEW k \in DOMAIN packet'
            PROVE  \/ packet'[k] = [file |-> image.name, pos |-> Section.pos + nbytes + k - 1]
                   \/ hidden /\ packet'[k] = Junk
        <4>1. k \in 1 .. size
          BY <2>1, <2>3
        <4>2. CASE k <= excess
          <5>1. k \in DOMAIN packet /\ packet'[k] = packet[k]
            BY <1>1, <1>6, <1>10, <2>1, <4>1, <4>2 DEF excess
          <5> QED
            BY <2>6, <5>1 DEF Buffered
        <4>3. CASE k > excess
          <5>1. /\ k - excess \in 1 .. size - excess
                /\ packet'[k] = f.bytes[k - excess]
                /\ from + (k - excess) - 1 = Section.pos + nbytes + k - 1
            <6>1. k - excess \in 1 .. size - excess
              BY <1>6, <4>1, <4>3
            <6>2. k \in Len(packet) + 1 .. Len(packet) + Len(f.bytes)
              BY <1>6, <1>10, <1>13, <4>1, <4>3 DEF excess
            <6>3. packet'[k] = f.bytes[k - Len(packet)]
              BY <1>1, <1>10, <2>1, <6>2
            <6>4. from + (k - excess) - 1 = Section.pos + nbytes + k - 1
              BY SMTT(60), <1>1, <1>3, <1>6, <1>9, <4>1
            <6> QED
              BY <6>1, <6>3, <6>4 DEF excess
          <5>2. f.bytes[k - excess] = Unit(from + (k - excess) - 1)
                   \/ (hidden /\ f.bytes[k - excess] = Junk)
            BY <1>10, <1>13, <5>1
          <5> QED
            BY <5>1, <5>2 DEF Unit
        <4> QED
          BY <1>6, <4>1, <4>2, <4>3
      <3>2. size <= LOADBUFSIZE /\ nbytes + size <= Section.size
            /\ (size = LOADBUFSIZE \/ nbytes + size = Section.size)
        BY SMTT(60), <1>1, <1>3 DEF size
      <3>3. nbytes % INIT_ALIGN = 0
        BY <1>3, <2>6 DEF Buffered
      <3>4. /\ image' = image /\ hidden' = hidden /\ nbytes' = nbytes /\ Section' = Section
            /\ pc' = "cinit" /\ i' = 0 /\ Len(packet') = size
        BY <1>8, <2>1, <2>2, <2>3
      <3>5. \A k \in DOMAIN packet' :
               \/ packet'[k] = [file |-> image'.name, pos |-> Section'.pos + nbytes' + k - 1]
               \/ hidden' /\ packet'[k] = Junk
        BY <3>1, <3>4
      <3> QED
        BY <1>3, <1>6, <3>2, <3>3, <3>4, <3>5 DEF Buffered
    <2>8. InTable'
      BY <1>8, <1>13, <2>1, <2>2 DEF InTable, InSections
    <2>9. Position' = Position
      BY <1>8, <2>1, <2>2 DEF Position
    <2>10. Records'
      <3>1. ~leftover => AtRecord
        BY <2>6 DEF Records
      <3>2. ~leftover => AtRecord'
        BY <1>8, <2>1, <2>2, <2>9, <3>1
           DEF AtRecord, Between, Behind, Within, RecordKept, Kept, Placed, initVars
      <3> QED
        BY <1>8, <2>8, <3>2 DEF Records
    <2>11. SectionsKept'
      BY <1>8, <1>13, <2>1, <2>2 DEF SectionsKept, RecordKept, Kept, Placed
    <2> QED
      BY <2>1, <2>4, <2>5, <2>7, <2>10, <2>11 DEF SegmentsKept, EntryMeansLoaded
  <1> QED
    BY <1>2, <1>11, <1>12, <1>13

\* Past the last record all of them have been copied.
LEMMA TableEnds ==
    ASSUME NEW im \in Images, NEW c \in Parts, CinitTable(im, c),
           NEW p \in Ends(im, c), NEW cur \in Nat,
           cur <= c.pos + Aligned(p - c.pos), cur >= c.pos + c.size
    PROVE  \A r \in RecordsIn(im, c) : r.pos <= p
  <1> DEFINE at == c.pos + Aligned(p - c.pos)
  <1>1. c.pos \in Nat /\ c.size \in Nat
    BY DEF Parts
  <1>2. p \in Nat /\ p - c.pos \in Nat
    BY <1>1, ImageIs DEF Ends, RecordsIn, Inits
  <1>3. at \in Nat
    BY <1>1, <1>2, AlignedIs
  <1>4. \A r \in RecordsIn(im, c) : r.pos <= p \/ r.pos >= at + 2
    BY DEF CinitTable
  <1>5. \A r \in RecordsIn(im, c) : r.pos \in Nat /\ r.pos <= c.pos + c.size - 1
    BY <1>1, ImageIs DEF RecordsIn, Inits
  <1>6. cur <= at
    OBVIOUS
  <1> HIDE DEF at
  <1>7. \A r \in RecordsIn(im, c) : ~(r.pos >= at + 2)
    BY <1>1, <1>3, <1>5, <1>6
  <1> QED
    BY <1>4, <1>7

\* With its table read to the end, all its records are in memory.
LEMMA TableDone ==
    ASSUME LoadersInv, InTable, ~leftover, pc = "sections", nbytes >= Section.size
    PROVE  init_size = 0 /\ \A r \in RecordsIn(image, Section) : RecordKept(r)
  <1> DEFINE c == Section
  <1>1. /\ image \in Images /\ image.format = "coff" /\ nbytes \in Nat /\ init_size \in Nat
        /\ todo # {} /\ todo \subseteq OfKind("load") \cup OfKind("cinit")
        /\ c.kind = "cinit" /\ AtRecord
    BY DEF LoadersInv, LoaderTypes, Phases, InTable, InSections, Records, CoffSteps
  <1>2. c \in Parts /\ Current \in OfKind("cinit")
    BY <1>1, CurrentIs
  <1>3. CinitTable(image, c) /\ RecordsIn(image, c) \subseteq Inits
    BY <1>1, <1>2, CoffTables DEF Section
  <1>4. /\ c.pos \in Nat /\ c.size \in Nat
        /\ Position = c.pos + nbytes /\ Position \in Nat /\ Position >= c.pos + c.size
    BY <1>1, <1>2 DEF Position, Parts
  <1> HIDE DEF c
  <1>5. init_size = 0
    <2>1. ASSUME Within(c, Position) PROVE init_size <= 0
      <3>1. PICK r \in RecordsIn(image, c) : init_size = r.pos + r.size - Position
        BY <2>1 DEF Within
      <3>2. r.pos \in Nat /\ r.size \in Nat /\ r.pos + r.size <= c.pos + c.size
        BY <1>3 DEF CinitTable, Inits
      <3> QED
        BY <1>4, <3>1, <3>2
    <2> QED
      BY <1>1, <2>1 DEF AtRecord, c
  <1>6. CASE Between(c, Position)
    <2>1. PICK p \in Ends(image, c) :
              /\ Position <= c.pos + Aligned(p - c.pos)
              /\ \A r \in RecordsIn(image, c) : r.pos <= p => RecordKept(r)
      BY <1>6 DEF Between
    <2>2. \A r \in RecordsIn(image, c) : r.pos <= p
      BY <1>1, <1>2, <1>3, <1>4, <2>1, TableEnds
    <2> QED
      BY <1>5, <2>1, <2>2 DEF c
  <1>7. CASE Behind(c, Position)
    BY <1>5, <1>7 DEF Behind, c
  <1> QED
    BY <1>1, <1>5, <1>6, <1>7 DEF AtRecord, c

\* The invariant is kept when a section is done,
LEMMA SectDoneStep ==
    ASSUME LoadersInv, CloadSectDone, UNCHANGED segments
    PROVE  LoadersInv'
  <1> USE DEF CloadSectDone, LoadersInv
  <1>1. /\ image \in Images /\ image.format = "coff" /\ nbytes \in Nat
        /\ todo \subseteq OfKind("load") \cup OfKind("cinit")
    BY DEF LoaderTypes, Phases, CoffSteps
  <1>2. /\ Current \in todo /\ Section \in Parts
        /\ Section.kind = "load" => Current \in OfKind("load")
        /\ Section.kind = "cinit" => Current \in OfKind("cinit")
        /\ Section.kind \in {"load", "cinit"}
    BY <1>1, CurrentIs
  <1>3. /\ image' = image /\ pc' = "sections" /\ nbytes' = 0 /\ packet' = << >>
        /\ todo' = todo \ {Current} /\ hidden' = hidden /\ memory' = memory /\ dev' = dev
        /\ entry' = entry /\ leftover' = leftover /\ init_size' = init_size
        /\ init_addr' = init_addr /\ i' = i /\ entry_point' = entry_point
    BY DEF fileVars, initVars
  <1>4. /\ OfKind("load")' = OfKind("load") /\ OfKind("cinit")' = OfKind("cinit")
        /\ Misled' = Misled
    BY <1>3 DEF OfKind, Misled
  <1>5. /\ todo' # {} => nbytes' <= Section'.size /\ Kept(Section.addr, Section.pos, nbytes)'
        /\ InTable' => Buffered' /\ Between(Section, Position)'
    BY <1>1, <1>3, SectionBegins
  <1>6. << >> \in Seq(FileUnit)
    OBVIOUS
  <1>7. LoaderTypes'
    BY <1>3, <1>6 DEF LoaderTypes
  <1>8. Phases'
    BY <1>3, <1>4, <1>5 DEF Phases, CoffSteps, ElfSteps
  <1>9. Section.kind = "cinit" => InTable
    BY DEF InTable, InSections
  <1>10. ~leftover => init_size = 0
    BY <1>2, <1>9, TableDone DEF Records, InTable, InSections
  <1>11. Records'
    BY <1>3, <1>5, <1>10 DEF Records, AtRecord
  <1>12. ASSUME ~Misled
         PROVE  /\ \A k \in OfKind("load") \ todo' :
                      Kept(image.parts[k].addr, image.parts[k].pos, image.parts[k].size)
                /\ \A k \in OfKind("cinit") \ todo' :
                      \A r \in RecordsIn(image, image.parts[k]) : RecordKept(r)
    <2>1. SectionsKept
      OBVIOUS
    <2>2. /\ \A k \in OfKind("load") \ todo :
                Kept(image.parts[k].addr, image.parts[k].pos, image.parts[k].size)
          /\ \A k \in OfKind("cinit") \ todo :
                \A r \in RecordsIn(image, image.parts[k]) : RecordKept(r)
      BY <1>12, <2>1 DEF SectionsKept
    <2>3. CASE Section.kind = "load"
      <3>1. nbytes = Section.size
        BY <1>1, <1>2, <2>3 DEF Phases, Parts
      <3>2. Kept(Section.addr, Section.pos, Section.size)
        BY <1>12, <2>1, <2>3, <3>1 DEF SectionsKept
      <3>3. Current \notin OfKind("cinit")
        BY <2>3 DEF OfKind, Section
      <3> QED
        BY <1>3, <2>2, <3>2, <3>3 DEF Section
    <2>4. CASE Section.kind = "cinit"
      <3>1. ~leftover
        BY <1>2, <1>12, <2>4 DEF Misled
      <3>2. \A r \in RecordsIn(image, Section) : RecordKept(r)
        BY <1>9, <2>4, <3>1, TableDone
      <3>3. Current \notin OfKind("load")
        BY <2>4 DEF OfKind, Section
      <3> QED
        BY <1>3, <2>2, <3>2, <3>3 DEF Section
    <2> QED
      BY <1>2, <2>3, <2>4
  <1>13. SectionsKept'
    BY <1>3, <1>4, <1>5, <1>12 DEF SectionsKept, RecordKept, Kept, Placed
  <1> QED
    BY <1>3, <1>5, <1>7, <1>8, <1>11, <1>13 DEF SegmentsKept, EntryMeansLoaded

\* With no section left all of the file is in memory.
LEMMA CoffLoaded ==
    ASSUME LoadersInv, pc = "sections", todo = {}, ~hidden, ~Misled
    PROVE  ImageLoaded
  <1>1. image \in Images /\ image.format = "coff" /\ SectionsKept
    BY DEF LoadersInv, LoaderTypes, Phases, CoffSteps
  <1>2. \A k \in OfKind("load") : InPlace(image.parts[k])
    <2> TAKE k \in OfKind("load")
    <2> DEFINE p == image.parts[k]
    <2>1. Placed(p.addr, p.pos, p.size)
      BY <1>1 DEF SectionsKept, Kept
    <2>2. p.memsz = p.size /\ p \in Parts
      BY <1>1, CoffParts
    <2>3. p.size .. p.memsz - 1 = {}
      BY <2>2 DEF Parts
    <2> QED
      BY <2>1, <2>3 DEF InPlace
  <1>3. ASSUME NEW p \in LoadedParts PROVE InPlace(p)
    <2>1. PICK k \in DOMAIN image.parts : p = image.parts[k] /\ p.kind = "load"
      BY DEF LoadedParts, Range
    <2>2. p.size \in Nat /\ p.addr \in Nat
      BY <1>1, <2>1, ImageIs DEF Parts
    <2>3. CASE p.size > 0
      <3>1. k \in OfKind("load")
        BY <2>1, <2>3 DEF OfKind
      <3> QED
        BY <1>2, <2>1, <3>1
    <2>4. CASE p.size = 0
      BY <2>4 DEF InPlace, Placed
    <2> QED
      BY <2>2, <2>3, <2>4
  <1>4. ASSUME NEW r \in image.inits PROVE Placed(r.addr, r.pos, r.size)
    <2>1. PICK k \in DOMAIN image.parts :
              image.parts[k].kind = "cinit" /\ r \in RecordsIn(image, image.parts[k])
      BY <1>1, ImagesAssumption
    <2>2. image.parts[k].size > 0
      <3> DEFINE c == image.parts[k]
      <3>1. c.pos \in Nat /\ c.size \in Nat
        BY <1>1, ImageIs DEF Parts
      <3>2. r.pos \in c.pos .. c.pos + c.size - 1
        BY <2>1 DEF RecordsIn
      <3> HIDE DEF c
      <3>3. c.size > 0
        BY <3>1, <3>2
      <3> QED
        BY <3>3 DEF c
    <2>3. k \in OfKind("cinit")
      BY <2>1, <2>2 DEF OfKind
    <2>4. RecordKept(r)
      BY <1>1, <2>1, <2>3 DEF SectionsKept
    <2> QED
      BY <2>4 DEF RecordKept, Kept
  <1> QED
    BY <1>3, <1>4 DEF ImageLoaded

\* and when there is none left.
LEMMA CloadDoneStep ==
    ASSUME LoadersInv, CloadDone, UNCHANGED segments
    PROVE  LoadersInv'
  <1> USE DEF CloadDone, LoadersInv
  <1>1. /\ pc = "sections" /\ todo = {} /\ pc' = "returned" /\ entry' = entry_point
        /\ UNCHANGED <<image, dev, memory, hidden, attempts, coffVars>>
    BY DEF Returns
  <1>2. UNCHANGED <<entry_point, init_size, init_addr, todo, nbytes, packet, i, leftover>>
    BY <1>1 DEF coffVars
  <1>3. LoaderTypes'
    BY <1>1, <1>2 DEF LoaderTypes
  <1>4. Phases'
    BY <1>1, <1>2 DEF Phases, CoffSteps, ElfSteps
  <1>5. ~InTable' /\ Records' /\ SectionsKept' /\ SegmentsKept'
    BY <1>1 DEF InTable, InSections, Records, SectionsKept, SegmentsKept
  <1>6. ASSUME ~hidden, ~Misled PROVE ImageLoaded /\ (image.opthdr = 1 => entry_point = image.entry)
    BY <1>1, <1>6, CoffLoaded DEF Phases
  <1>7. EntryMeansLoaded'
    <2>1. Misled' = Misled /\ ImageLoaded' = ImageLoaded
      BY <1>1, <1>2 DEF Misled, OfKind, ImageLoaded, LoadedParts, InPlace, Placed
    <2> QED
      BY <1>1, <1>2, <1>6, <2>1 DEF EntryMeansLoaded
  <1> QED
    BY <1>3, <1>4, <1>5, <1>7

-----------------------------------------------------------------------------
(* The table of records.                                                   *)

\* What holds while a table is processed.
LEMMA CinitIs ==
    ASSUME LoadersInv, pc = "cinit"
    PROVE  /\ image \in Images /\ image.format = "coff" /\ entry = 0 /\ todo # {}
           /\ Section.kind = "cinit" /\ Section \in Parts /\ Current \in OfKind("cinit")
           /\ Section.pos \in Nat /\ Section.size \in Nat
           /\ CinitTable(image, Section)
           /\ RecordsIn(image, Section) \subseteq image.inits \cap Inits
           /\ InTable /\ Buffered /\ (~leftover => AtRecord)
           /\ Position = Section.pos + nbytes + i
           /\ nbytes \in Nat /\ i \in Nat /\ packet \in Seq(FileUnit) /\ Len(packet) \in Nat
           /\ init_size \in Nat /\ init_addr \in Int /\ hidden \in BOOLEAN
  <1>1. LoaderTypes /\ Phases /\ (InTable => Buffered) /\ Records
    BY DEF LoadersInv
  <1>2. /\ image \in Images /\ image.format = "coff" /\ entry = 0 /\ todo # {}
        /\ Section.kind = "cinit" /\ todo \subseteq OfKind("load") \cup OfKind("cinit")
    BY <1>1 DEF LoaderTypes, Phases, CoffSteps
  <1>3. Section \in Parts /\ Current \in OfKind("cinit")
    BY <1>2, CurrentIs
  <1>4. CinitTable(image, Section) /\ RecordsIn(image, Section) \subseteq image.inits \cap Inits
    BY <1>2, <1>3, CoffTables DEF Section
  <1>5. InTable /\ Buffered /\ (~leftover => AtRecord)
    BY <1>1, <1>2 DEF InTable, InSections, Records
  <1>6. Position = Section.pos + nbytes + i
    BY DEF Position
  <1>7. Section.pos \in Nat /\ Section.size \in Nat
    BY <1>3 DEF Parts
  <1>8. /\ nbytes \in Nat /\ i \in Nat /\ packet \in Seq(FileUnit) /\ Len(packet) \in Nat
        /\ init_size \in Nat /\ init_addr \in Int /\ hidden \in BOOLEAN
    BY <1>1 DEF LoaderTypes
  <1> QED
    BY <1>2, <1>3, <1>4, <1>5, <1>6, <1>7, <1>8

\* The buffer holds the next units of the table.
LEMMA BufferIs ==
    ASSUME LoadersInv, pc = "cinit"
    PROVE  /\ nbytes < Section.size /\ Boundary(nbytes) /\ i <= Len(packet)
           /\ nbytes + Len(packet) <= Section.size
           /\ Boundary(Len(packet)) \/ nbytes + Len(packet) = Section.size
           /\ \A k \in 1 .. Len(packet) :
                 \/ packet[k] = Unit(Section.pos + nbytes + k - 1)
                 \/ hidden /\ packet[k] = Junk
  <1>1. Buffered /\ nbytes < Section.size /\ packet \in Seq(FileUnit)
    BY CinitIs DEF Buffered
  <1>2. Boundary(LOADBUFSIZE)
    BY CoffAssumption DEF Boundary
  <1>3. Boundary(Len(packet)) \/ nbytes + Len(packet) = Section.size
    BY <1>1, <1>2 DEF Buffered
  <1>4. DOMAIN packet = 1 .. Len(packet)
    BY <1>1
  <1> QED
    BY <1>1, <1>3, <1>4 DEF Buffered, Boundary, Unit

\* What the loader takes for a size or an address is one, or nothing like it.
LEMMA WordIs ==
    ASSUME LoadersInv, pc = "cinit", NEW j \in Nat, j + 1 <= Len(packet)
    PROVE  /\ Section.pos + nbytes + j \in Section.pos .. Section.pos + Section.size - 1
           /\ image.words[Section.pos + nbytes + j] \in Nat
           /\ Word(j) = image.words[Section.pos + nbytes + j] \/ Word(j) = -1
  <1> DEFINE at == Section.pos + nbytes + j
  <1>1. j + 1 \in 1 .. Len(packet)
    BY CinitIs
  <1>2. packet[j + 1] = Unit(at) \/ packet[j + 1] = Junk
    <2>1. Section.pos + nbytes + (j + 1) - 1 = at
      BY CinitIs
    <2>2. \/ packet[j + 1] = Unit(Section.pos + nbytes + (j + 1) - 1)
          \/ packet[j + 1] = Junk
      BY <1>1, BufferIs
    <2> HIDE DEF at
    <2> QED
      BY <2>1, <2>2
  <1>3. at \in Section.pos .. Section.pos + Section.size - 1
    <2> DEFINE p == Section.pos
               n == Section.size
    <2>1. /\ p \in Nat /\ n \in Nat /\ nbytes \in Nat /\ Len(packet) \in Nat
          /\ nbytes + Len(packet) <= n
      BY CinitIs, BufferIs
    <2> HIDE DEF p, n
    <2>2. p + nbytes + j \in p .. p + n - 1
      BY <2>1
    <2> QED
      BY <2>1, <2>2 DEF p, n
  <1>4. image.words[at] \in Nat
    BY <1>3, CinitIs DEF CinitTable
  <1>5. Word(j) = image.words[at] \/ Word(j) = -1
    <2> DEFINE u == packet[j + 1]
    <2>1. Word(j) = IF u.file = image.name THEN image.words[u.pos] ELSE -1
      BY DEF Word
    <2> HIDE DEF u, at
    <2>2. u = Unit(at) \/ u = Junk
      BY <1>2 DEF u
    <2>3. CASE u = Unit(at)
      BY <2>1, <2>3 DEF Unit
    <2>4. CASE u = Junk
      <3>1. u.file = "junk" /\ image.name # "junk"
        BY <2>4, CinitIs, LoaderAssumption DEF Junk, NoFile
      <3> QED
        BY <2>1, <3>1
    <2> QED
      BY <2>2, <2>3, <2>4
  <1> QED
    BY <1>3, <1>4, <1>5

\* Between two records, or behind the last, and what the next size is there.
LEMMA AtBoundary ==
    ASSUME LoadersInv, pc = "cinit", ~leftover, init_size = 0,
           NEW at \in Nat, at = Section.pos + nbytes + Aligned(i)
    PROVE  /\ Between(Section, at) \/ Behind(Section, at)
           /\ \/ \E r \in RecordsIn(image, Section) :
                    /\ r.pos = at + 2
                    /\ image.words[at] = r.size /\ image.words[at + 1] = r.addr
                    /\ \A q \in RecordsIn(image, Section) : q.pos < r.pos => RecordKept(q)
              \/ /\ \A q \in at .. Section.pos + Section.size - 1 : image.words[q] = 0
                 /\ \A r \in RecordsIn(image, Section) : RecordKept(r)
  <1> DEFINE c == Section
             x == nbytes + i
  <1>1. /\ image \in Images /\ c.pos \in Nat /\ c.size \in Nat /\ nbytes \in Nat /\ i \in Nat
        /\ Boundary(nbytes) /\ CinitTable(image, c) /\ RecordsIn(image, c) \subseteq Inits
    BY CinitIs, BufferIs
  <1>2. x \in Nat /\ Aligned(x) \in Nat /\ Aligned(i) \in Nat /\ x <= Aligned(x)
    BY <1>1, AlignedIs
  <1>3. at = c.pos + Aligned(x)
    BY <1>1, <1>2, AlignedShift
  <1>4. Between(c, c.pos + x) \/ Behind(c, c.pos + x)
    <2>1. Position = c.pos + x
      BY <1>1, CinitIs
    <2> QED
      BY <2>1, CinitIs DEF AtRecord
  <1> HIDE DEF c, x
  <1>5. Aligned(Aligned(x)) \in Nat /\ Aligned(x) <= Aligned(Aligned(x))
    BY <1>2, AlignedIs
  <1>6. CASE Between(c, c.pos + x)
    <2>1. PICK p \in Ends(image, c) :
              /\ p <= c.pos + x /\ c.pos + x <= c.pos + Aligned(p - c.pos)
              /\ \A r \in RecordsIn(image, c) : r.pos <= p => RecordKept(r)
      BY <1>6 DEF Between
    <2> DEFINE y == p - c.pos
    <2>2. p \in Nat /\ y \in Nat
      <3>1. CASE p = c.pos
        BY <1>1, <3>1
      <3>2. ASSUME NEW r \in RecordsIn(image, c), p = r.pos + r.size PROVE p \in Nat /\ y \in Nat
        BY <1>1, <3>2 DEF CinitTable, Inits
      <3> QED
        BY <3>1, <3>2 DEF Ends
    <2>3. Aligned(y) \in Nat
      BY <2>2, AlignedIs
    <2>4. y <= x /\ x <= Aligned(y)
      BY <1>1, <1>2, <2>1, <2>2, <2>3
    <2>5. Aligned(x) = Aligned(y)
      BY <1>2, <2>2, <2>4, AlignedMonotone
    <2>6. at = c.pos + Aligned(p - c.pos)
      BY <1>3, <2>5
    <2>7. /\ \A r \in RecordsIn(image, c) : r.pos <= p \/ r.pos >= at + 2
          /\ \/ \E r \in RecordsIn(image, c) : r.pos = at + 2
             \/ \A q \in at .. c.pos + c.size - 1 : image.words[q] = 0
      BY <1>1, <2>6 DEF CinitTable
    <2> HIDE DEF y
    <2>8. Between(c, at)
      <3>1. p <= at
        BY <1>1, <1>2, <1>3, <2>1, <2>2
      <3> QED
        BY <2>1, <2>6, <3>1 DEF Between
    <2>9. ASSUME NEW r \in RecordsIn(image, c), r.pos = at + 2
          PROVE  /\ image.words[at] = r.size /\ image.words[at + 1] = r.addr
                 /\ \A q \in RecordsIn(image, c) : q.pos < r.pos => RecordKept(q)
      <3>1. image.words[r.pos - 2] = r.size /\ image.words[r.pos - 1] = r.addr
        BY <1>1 DEF CinitTable
      <3>2. r.pos - 2 = at /\ r.pos - 1 = at + 1
        BY <2>9
      <3>3. ASSUME NEW q \in RecordsIn(image, c), q.pos < r.pos PROVE q.pos <= p
        <4>1. q.pos \in Nat
          BY <1>1 DEF Inits
        <4>2. q.pos <= p \/ q.pos >= at + 2
          BY <2>7
        <4> QED
          BY <2>9, <3>3, <4>1, <4>2
      <3> QED
        BY <2>1, <3>1, <3>2, <3>3
    <2>10. ASSUME \A q \in at .. c.pos + c.size - 1 : image.words[q] = 0
           PROVE  \A r \in RecordsIn(image, c) : RecordKept(r)
      <3> SUFFICES ASSUME NEW r \in RecordsIn(image, c) PROVE r.pos <= p
        BY <2>1
      <3>1. /\ r.pos \in Nat /\ r.size \in Nat \ {0}
            /\ r.pos + r.size <= c.pos + c.size /\ image.words[r.pos - 2] = r.size
        BY <1>1 DEF Inits, CinitTable
      <3>2. ASSUME r.pos >= at + 2 PROVE r.pos - 2 \in at .. c.pos + c.size - 1
        BY <1>1, <3>1, <3>2
      <3> QED
        BY <2>7, <2>10, <3>1, <3>2
    <2> QED
      BY <2>7, <2>8, <2>9, <2>10 DEF c
  <1>7. CASE Behind(c, c.pos + x)
    <2>1. c.pos + x - c.pos = x /\ at - c.pos = Aligned(x)
      BY <1>1, <1>2, <1>3
    <2>2. /\ \A q \in at .. c.pos + c.size - 1 : image.words[q] = 0
          /\ \A r \in RecordsIn(image, c) : RecordKept(r)
      <3> DEFINE cur == c.pos + x
      <3>1. cur - c.pos = x
        BY <1>1, <1>2
      <3>2. Behind(c, cur)
        BY <1>7
      <3> HIDE DEF cur
      <3>3. c.pos + Aligned(cur - c.pos) = at
        BY <1>3, <3>1
      <3> QED
        BY <3>2, <3>3 DEF Behind
    <2>3. \A q \in c.pos + Aligned(at - c.pos) .. c.pos + c.size - 1 : image.words[q] = 0
      <3> DEFINE b == Aligned(Aligned(x))
      <3>1. c.pos + Aligned(at - c.pos) = c.pos + b /\ b \in Nat /\ b >= Aligned(x)
        BY <1>5, <2>1
      <3> HIDE DEF b
      <3>2. c.pos + b .. c.pos + c.size - 1 \subseteq at .. c.pos + c.size - 1
        BY <1>1, <1>2, <1>3, <3>1
      <3> QED
        BY <2>2, <3>1, <3>2
    <2> QED
      BY <2>2, <2>3 DEF Behind, c
  <1> QED
    BY <1>4, <1>6, <1>7

RecordAt(cur) ==
    IF init_size = 0 THEN Between(Section, cur) \/ Behind(Section, cur)
    ELSE Within(Section, cur)

\* What is left of a sequence behind its first n elements.
LEMMA SequenceTail ==
    ASSUME NEW S, NEW s \in Seq(S), NEW n \in Nat, NEW t, t = SubSeq(s, n + 1, Len(s))
    PROVE  /\ t \in Seq(S)
           /\ n < Len(s) => Len(t) = Len(s) - n
           /\ n >= Len(s) => Len(t) = 0
           /\ \A k \in 1 .. Len(t) : t[k] = s[n + k] /\ n + k \in 1 .. Len(s)
  <1>1. Len(s) \in Nat /\ \A k \in 1 .. Len(s) : s[k] \in S
    OBVIOUS
  <1>2. CASE n < Len(s)
    <2>1. \A k \in n + 1 .. Len(s) : s[k] \in S
      BY <1>1
    <2>2. t \in Seq(S) /\ Len(t) = Len(s) - n
      BY <1>1, <1>2, <2>1
    <2>3. ASSUME NEW k \in 1 .. Len(t)
          PROVE  t[k] = s[n + k] /\ n + k \in 1 .. Len(s)
      <3>1. k \in Nat /\ 1 <= k /\ k <= Len(s) - n
        BY <1>1, <1>2, <2>2
      <3>2. n + k \in 1 .. Len(s) /\ k \in 1 .. Len(s) - (n + 1) + 1 /\ n + 1 + k - 1 = n + k
        BY <1>1, <1>2, <3>1
      <3>3. t[k] = s[n + k]
        BY <1>1, <1>2, <3>2
      <3> QED
        BY <3>2, <3>3
    <2> QED
      BY <1>2, <2>2, <2>3
  <1>3. CASE n >= Len(s)
    <2>1. t \in Seq(S) /\ Len(t) = 0
      BY <1>1, <1>3
    <2> QED
      BY <1>1, <1>3, <2>1
  <1> QED
    BY <1>1, <1>2, <1>3

\* A buffer is left where the table continues.
LEMMA BufferDoneStep ==
    ASSUME LoadersInv, pc = "cinit", NEW n \in Nat, BufferDone(n),
           i <= n, nbytes + n < Section.size => Boundary(n),
           ~leftover => RecordAt(Section.pos + nbytes + n),
           UNCHANGED <<image, dev, memory, hidden, entry_point, todo, leftover, segments>>
    PROVE  LoadersInv'
  <1>1. /\ image \in Images /\ image.format = "coff" /\ entry = 0 /\ todo # {}
        /\ Section.kind = "cinit" /\ Section.pos \in Nat /\ Section.size \in Nat
        /\ nbytes \in Nat /\ packet \in Seq(FileUnit) /\ Len(packet) \in Nat
        /\ nbytes < Section.size /\ Boundary(nbytes) /\ nbytes + Len(packet) <= Section.size
    BY CinitIs, BufferIs
  <1>2. /\ pc' = "sections" /\ nbytes' = nbytes + n /\ packet' = SubSeq(packet, n + 1, Len(packet))
        /\ UNCHANGED <<image, dev, memory, hidden, entry, loaded, entry_point, init_size, init_addr,
                       todo, i, leftover, segments>>
    BY DEF BufferDone, Goes, initVars
  <1>3. /\ Section' = Section /\ OfKind("load")' = OfKind("load")
        /\ OfKind("cinit")' = OfKind("cinit") /\ Misled' = Misled
    BY <1>2 DEF Section, Current, OfKind, Misled
  <1>4. /\ packet' \in Seq(FileUnit)
        /\ n < Len(packet) => Len(packet') = Len(packet) - n
        /\ n >= Len(packet) => Len(packet') = 0
        /\ \A k \in 1 .. Len(packet') : packet'[k] = packet[n + k] /\ n + k \in 1 .. Len(packet)
    BY <1>1, <1>2, SequenceTail
  <1>5. LoaderTypes'
    BY <1>1, <1>2, <1>4 DEF LoadersInv, LoaderTypes, CoffSteps
  <1>6. Phases'
    BY <1>1, <1>2, <1>3 DEF LoadersInv, Phases, CoffSteps, ElfSteps
  <1>7. InTable'
    BY <1>1, <1>2, <1>3 DEF InTable, InSections
  <1>8. Buffered'
    <2>1. ASSUME NEW k \in 1 .. Len(packet')
          PROVE  \/ packet'[k] = [file |-> image.name, pos |-> Section.pos + nbytes' + k - 1]
                 \/ hidden /\ packet'[k] = Junk
      <3>1. packet'[k] = packet[n + k] /\ n + k \in 1 .. Len(packet) /\ k \in Nat
        BY <1>4
      <3>2. Section.pos + nbytes + (n + k) - 1 = Section.pos + nbytes' + k - 1
        BY SMTT(60), <1>1, <1>2, <3>1
      <3>3. \/ packet[n + k] = Unit(Section.pos + nbytes + (n + k) - 1)
            \/ hidden /\ packet[n + k] = Junk
        BY <3>1, BufferIs
      <3> QED
        BY <3>1, <3>2, <3>3 DEF Unit
    <2>2. nbytes' < Section.size => Boundary(nbytes')
      BY <1>1, <1>2, BoundarySum
    <2>3. nbytes' < Section.size =>
              nbytes' + Len(packet') <= Section.size /\ Len(packet') <= LOADBUFSIZE
      <3>1. Len(packet) <= LOADBUFSIZE /\ LOADBUFSIZE \in Nat
        BY <1>1, CinitIs, CoffAssumption DEF Buffered
      <3> QED
        <4> DEFINE l == Len(packet)
                   m == Len(packet')
                   size == Section.size
        <4>1. /\ l \in Nat /\ m \in Nat /\ nbytes \in Nat /\ size \in Nat /\ nbytes' = nbytes + n
              /\ nbytes + l <= size /\ l <= LOADBUFSIZE
              /\ n < l => m = l - n
              /\ n >= l => m = 0
          BY <1>1, <1>2, <1>4, <3>1
        <4> HIDE DEF l, m, size
        <4>2. nbytes' < size => nbytes' + m <= size /\ m <= LOADBUFSIZE
          BY <3>1, <4>1
        <4> QED
          BY <4>2 DEF m, size
    <2>4. DOMAIN packet' = 1 .. Len(packet')
      BY <1>4
    <2>5. \A k \in DOMAIN packet' :
              \/ packet'[k] = [file |-> image'.name, pos |-> Section'.pos + nbytes' + k - 1]
              \/ hidden' /\ packet'[k] = Junk
      <3> TAKE k \in DOMAIN packet'
      <3>1. k \in 1 .. Len(packet')
        BY <2>4
      <3>2. image'.name = image.name /\ Section'.pos = Section.pos /\ hidden' = hidden
        BY <1>2, <1>3
      <3>3. \/ packet'[k] = [file |-> image.name, pos |-> Section.pos + nbytes' + k - 1]
            \/ hidden /\ packet'[k] = Junk
        BY <2>1, <3>1
      <3> QED
        BY <3>2, <3>3
    <2> QED
      BY <1>2, <1>3, <2>2, <2>3, <2>5 DEF Buffered, Boundary
  <1>9. Records'
    <2>1. Position' = Section.pos + nbytes + n
      BY <1>1, <1>2, <1>3 DEF Position
    <2>2. ~leftover => AtRecord'
      BY <1>2, <1>3, <2>1
         DEF AtRecord, RecordAt, Between, Behind, Within, RecordKept, Kept, Placed
    <2> QED
      BY <1>2, <1>7, <2>2 DEF Records
  <1>10. SectionsKept'
    BY <1>1, <1>2, <1>3 DEF LoadersInv, SectionsKept, RecordKept, Kept, Placed
  <1> QED
    BY <1>2, <1>5, <1>6, <1>8, <1>9, <1>10 DEF LoadersInv, SegmentsKept, EntryMeansLoaded

\* The invariant is kept when the buffer has been read,
LEMMA CinitBufferDoneStep ==
    ASSUME LoadersInv, CinitBufferDone, UNCHANGED segments
    PROVE  LoadersInv'
  <1> USE DEF CinitBufferDone
  <1> DEFINE n == Len(packet)
  <1>1. i = n /\ n \in Nat
    BY CinitIs, BufferIs
  <1>2. nbytes + n < Section.size => Boundary(n)
    BY CinitIs, BufferIs
  <1>3. ~leftover => RecordAt(Section.pos + nbytes + n)
    BY <1>1, CinitIs DEF AtRecord, RecordAt
  <1>4. BufferDone(n)
    OBVIOUS
  <1> HIDE DEF n
  <1> QED
    BY <1>1, <1>2, <1>3, <1>4, BufferDoneStep

\* by the size and the address of a record,
LEMMA CinitRecordStep ==
    ASSUME LoadersInv, CinitRecord, UNCHANGED segments
    PROVE  LoadersInv'
  <1> USE DEF CinitRecord
  <1> DEFINE j == Aligned(i)
             c == Section
             at == c.pos + nbytes + j
  <1>1. /\ image \in Images /\ image.format = "coff" /\ entry = 0 /\ todo # {}
        /\ c.kind = "cinit" /\ c.pos \in Nat /\ c.size \in Nat /\ CinitTable(image, c)
        /\ RecordsIn(image, c) \subseteq Inits
        /\ nbytes \in Nat /\ i \in Nat /\ packet \in Seq(FileUnit) /\ Len(packet) \in Nat
        /\ Boundary(Len(packet)) \/ nbytes + Len(packet) = c.size
        /\ nbytes + Len(packet) <= c.size /\ i <= Len(packet)
    BY CinitIs, BufferIs
  <1>2. j \in Nat /\ Boundary(j) /\ i <= j /\ at \in Nat /\ at = c.pos + nbytes + j
    <2>1. j \in Nat /\ Boundary(j) /\ i <= j
      BY <1>1, AlignedIs
    <2> HIDE DEF j, c
    <2> QED
      BY <1>1, <2>1
  <1>3. /\ pc = "cinit" /\ init_size = 0
        /\ UNCHANGED <<image, dev, memory, hidden, entry_point, todo, leftover, segments>>
    OBVIOUS
  <1>4. ASSUME ~leftover
        PROVE  /\ Between(c, at) \/ Behind(c, at)
               /\ \/ \E r \in RecordsIn(image, c) :
                        /\ r.pos = at + 2
                        /\ image.words[at] = r.size /\ image.words[at + 1] = r.addr
                        /\ \A q \in RecordsIn(image, c) : q.pos < r.pos => RecordKept(q)
                  \/ /\ \A q \in at .. c.pos + c.size - 1 : image.words[q] = 0
                     /\ \A r \in RecordsIn(image, c) : RecordKept(r)
    BY <1>2, <1>3, <1>4, AtBoundary
  <1>5. ASSUME j + 1 <= Len(packet)
        PROVE  /\ at \in c.pos .. c.pos + c.size - 1 /\ image.words[at] \in Nat
               /\ Word(j) = image.words[at] \/ Word(j) = -1
    BY <1>2, <1>3, <1>5, WordIs
  <1>6. ASSUME j + 2 <= Len(packet)
        PROVE  /\ at + 1 \in c.pos .. c.pos + c.size - 1 /\ image.words[at + 1] \in Nat
               /\ Word(j + 1) = image.words[at + 1] \/ Word(j + 1) = -1
    <2>1. j + 1 \in Nat /\ (j + 1) + 1 <= Len(packet) /\ c.pos + nbytes + (j + 1) = at + 1
      <3> HIDE DEF j, c, at
      <3> QED
        BY SMTT(60), <1>1, <1>2, <1>6
    <2> QED
      BY <1>3, <2>1, WordIs
  <1>7. CASE BufferDone(j)
    <2>1. ~leftover => RecordAt(at)
      BY <1>3, <1>4 DEF RecordAt
    <2> HIDE DEF j
    <2> QED
      BY <1>2, <1>3, <1>7, <2>1, BufferDoneStep
  <1>8. CASE j + 1 <= Len(packet) /\ Word(j) = 0 /\ BufferDone(Len(packet))
    <2> DEFINE n == Len(packet)
               to == c.pos + nbytes + n
    <2>1. image.words[at] = 0 /\ at \in c.pos .. c.pos + c.size - 1
      BY <1>5, <1>8
    <2>2. ASSUME ~leftover PROVE Behind(c, to)
      <3>1. ~ \E r \in RecordsIn(image, c) : image.words[at] = r.size
        BY <1>1, <2>1 DEF Inits
      <3>2. /\ \A q \in at .. c.pos + c.size - 1 : image.words[q] = 0
            /\ \A r \in RecordsIn(image, c) : RecordKept(r)
        BY <1>4, <2>2, <3>1
      <3>3. to - c.pos \in Nat /\ to >= at /\ Aligned(to - c.pos) \in Nat /\ at \in Nat
            /\ Aligned(to - c.pos) >= to - c.pos
        <4> HIDE DEF c, j
        <4>1. to - c.pos = nbytes + n
          BY <1>1
        <4>2. nbytes + n \in Nat /\ to >= at
          BY SMTT(30), <1>1, <1>2, <1>8
        <4> HIDE DEF to, at, n
        <4>3. to - c.pos \in Nat
          BY <4>1, <4>2
        <4> QED
          BY <1>2, <4>2, <4>3, AlignedIs
      <3> HIDE DEF at, to, c
      <3>4. c.pos + Aligned(to - c.pos) .. c.pos + c.size - 1 \subseteq at .. c.pos + c.size - 1
        <4> DEFINE x == Aligned(to - c.pos)
        <4>1. x \in Nat /\ x >= to - c.pos
          BY <3>3
        <4> HIDE DEF x
        <4>2. c.pos \in Nat /\ to >= at /\ at \in Nat /\ to \in Int /\ c.size \in Nat
          BY <1>1, <3>3 DEF to
        <4> QED
          BY <4>1, <4>2 DEF x
      <3> QED
        BY <3>2, <3>4 DEF Behind
    <2>3. ~leftover => RecordAt(to)
      BY <1>3, <2>2 DEF RecordAt
    <2>4. n \in Nat /\ i <= n /\ (nbytes + n < Section.size => Boundary(n)) /\ BufferDone(n)
      BY <1>1, <1>8
    <2> HIDE DEF n
    <2> QED
      BY <1>3, <2>3, <2>4, BufferDoneStep
  <1>9. CASE /\ j + 2 <= Len(packet) /\ Word(j) > 0
             /\ init_size' = Word(j) /\ init_addr' = Word(j + 1) /\ i' = j + 2
             /\ IF Word(j + 1) \in 0 .. MemoryLen THEN Goes(pc) ELSE Goes("astray")
             /\ UNCHANGED <<nbytes, packet>>
    <2>1. /\ Word(j) = image.words[at] /\ Word(j) \in Nat \ {0}
          /\ Word(j + 1) \in Int /\ (Word(j + 1) = image.words[at + 1] \/ Word(j + 1) = -1)
      <3> HIDE DEF j, c, at
      <3>1. j + 1 <= Len(packet)
        BY <1>1, <1>2, <1>9
      <3> QED
        BY <1>5, <1>6, <1>9, <3>1
    <2>2. j + 2 \in Nat /\ j + 2 <= Len(packet)
      BY <1>2, <1>9
    <2>3. /\ init_size' \in Nat \ {0} /\ init_addr' \in Int /\ i' \in Nat
          /\ pc' = "cinit" \/ pc' = "astray"
          /\ UNCHANGED <<nbytes, packet, entry, loaded>>
      BY <1>3, <1>9, <2>1, <2>2 DEF Goes
    <2>4. LoaderTypes'
      BY <1>3, <2>3 DEF LoadersInv, LoaderTypes, CoffSteps
    <2>5. /\ Section' = Section /\ OfKind("load")' = OfKind("load")
          /\ OfKind("cinit")' = OfKind("cinit") /\ Misled' = Misled
      BY <1>3 DEF Section, Current, OfKind, Misled
    <2>6. Phases'
      BY <1>1, <1>3, <2>3, <2>5 DEF LoadersInv, Phases, CoffSteps, ElfSteps
    <2>7. CASE pc' = "astray"
      BY <2>4, <2>6, <2>7, Outside
    <2>8. CASE pc' = "cinit"
      <3>1. InTable' /\ Section'.kind = "cinit"
        BY <1>1, <1>3, <2>5, <2>8 DEF InTable, InSections
      <3>2. Buffered'
        BY <1>3, <1>9, <2>2, <2>3, <2>5, <2>8, CinitIs DEF Buffered
      <3>3. Position' = at + 2
        <4>1. Position' = Section.pos + nbytes + (j + 2)
          BY <1>9, <2>3, <2>5, <2>8 DEF Position
        <4>2. c.pos + nbytes + (j + 2) = at + 2
          <5> HIDE DEF j, c, at
          <5> QED
            BY SMTT(60), <1>1, <1>2
        <4> QED
          BY <4>1, <4>2
      <3>4. ASSUME ~leftover PROVE Within(Section, Position)'
        <4>1. Word(j + 1) # -1
          <5>1. Word(j + 1) \in 0 .. MemoryLen
            BY <1>9, <2>8 DEF Goes
          <5> QED
            BY <5>1
        <4>2. at \in at .. c.pos + c.size - 1
          BY <1>1, <1>2, <1>5, <1>9
        <4>3. PICK r \in RecordsIn(image, c) :
                  /\ r.pos = at + 2
                  /\ image.words[at] = r.size /\ image.words[at + 1] = r.addr
                  /\ \A q \in RecordsIn(image, c) : q.pos < r.pos => RecordKept(q)
          BY <1>4, <2>1, <3>4, <4>2
        <4>4. /\ r.pos \in Nat /\ r.size \in Nat /\ r.addr \in Nat /\ at + 2 \in Nat
          BY <1>1, <1>2, <4>3 DEF Inits
        <4>5. init_addr' = r.addr /\ init_size' = r.size
          BY <1>9, <2>1, <4>1, <4>3
        <4>6. /\ Position' - r.pos = 0 /\ r.pos <= Position'
              /\ init_addr' = r.addr + (Position' - r.pos)
              /\ init_size' = r.pos + r.size - Position'
          BY <3>3, <4>3, <4>4, <4>5
        <4>7. Kept(r.addr, r.pos, Position - r.pos)'
          BY <4>6 DEF Kept, Placed
        <4>8. \A q \in RecordsIn(image, c) : q.pos < r.pos => RecordKept(q)'
          BY <1>3, <4>3 DEF RecordKept, Kept, Placed
        <4>9. r \in RecordsIn(image', Section') /\ RecordsIn(image', Section') = RecordsIn(image, c)
          BY <1>3, <2>5, <4>3
        <4> QED
          BY <4>6, <4>7, <4>8, <4>9 DEF Within
      <3>5. Records'
        BY <1>3, <2>3, <3>1, <3>4 DEF Records, AtRecord
      <3>6. SectionsKept'
        BY <1>3, <2>5, <2>8, <3>1 DEF LoadersInv, SectionsKept, RecordKept, Kept, Placed
      <3> QED
        BY <2>4, <2>6, <2>8, <3>2, <3>5, <3>6 DEF LoadersInv, SegmentsKept, EntryMeansLoaded
    <2> QED
      BY <2>3, <2>7, <2>8
  <1>10. CASE Goes("astray") /\ UNCHANGED <<nbytes, packet, i, initVars>>
    <2>1. /\ pc' = "astray"
          /\ UNCHANGED <<nbytes, packet, i, init_size, init_addr, entry, loaded>>
      BY <1>10 DEF Goes, initVars
    <2>2. LoaderTypes'
      BY <1>3, <2>1 DEF LoadersInv, LoaderTypes
    <2>3. Phases'
      BY <1>1, <1>3, <2>1 DEF LoadersInv, Phases, CoffSteps, ElfSteps
    <2> QED
      BY <2>1, <2>2, <2>3, Outside
  <1> QED
    BY <1>7, <1>8, <1>9, <1>10

\* Writing a record again changes nothing.
LEMMA KeptSame ==
    ASSUME LoaderTypes, NEW a \in Nat, NEW p \in Nat, NEW m \in Nat, NEW n \in Nat,
           NEW bytes \in Seq(FileUnit), m + Len(bytes) <= n,
           memory' = Write(a + m, bytes), image' = image, hidden => hidden',
           a .. a + n - 1 \subseteq 0 .. MemoryLen - 1,
           \A k \in 1 .. Len(bytes) : bytes[k] = Unit(p + m + k - 1) \/ hidden',
           Kept(a, p, n)
    PROVE  Kept(a, p, n)'
  <1> SUFFICES ASSUME ~hidden' PROVE Placed(a, p, n)'
    BY DEF Kept
  <1>1. Placed(a, p, n)
    BY DEF Kept
  <1> SUFFICES ASSUME NEW k \in 0 .. n - 1
               PROVE  memory'[a + k] = [file |-> image.name, pos |-> p + k]
    BY DEF Placed
  <1>2. a + k \in a .. a + n - 1 /\ k \in Nat
    OBVIOUS
  <1>3. a + k \in 0 .. MemoryLen - 1
    BY <1>2
  <1>4. memory'[a + k] = IF a + k \in a + m .. a + m + Len(bytes) - 1
                         THEN bytes[a + k - (a + m) + 1] ELSE memory[a + k]
    BY <1>3, WriteIs DEF LoaderTypes
  <1>5. CASE a + k \notin a + m .. a + m + Len(bytes) - 1
    BY <1>1, <1>4, <1>5 DEF Placed
  <1>6. CASE a + k \in a + m .. a + m + Len(bytes) - 1
    <2>1. /\ a + k - (a + m) + 1 = k - m + 1 /\ k - m + 1 \in 1 .. Len(bytes)
          /\ p + m + (k - m + 1) - 1 = p + k
      BY <1>2, <1>6
    <2>2. bytes[k - m + 1] = Unit(p + m + (k - m + 1) - 1)
      BY <2>1
    <2> QED
      BY <1>4, <1>6, <2>1, <2>2 DEF Unit
  <1> QED
    BY <1>5, <1>6

\* Part of a record is copied to its place.
LEMMA CinitDataIs ==
    ASSUME LoadersInv, CinitData
    PROVE  \E n \in Nat, bytes \in Seq(FileUnit) :
              /\ n > 0 /\ n <= init_size /\ i + n <= Len(packet)
              /\ Len(bytes) = n /\ \A k \in 1 .. n : bytes[k] = packet[i + k]
              /\ memory' = Write(init_addr, bytes)
              /\ init_addr' = init_addr + n /\ init_size' = init_size - n /\ i' = i + n
  <1> DEFINE l == Len(packet) - i
             n == Min({l, init_size})
             bytes == SubSeq(packet, i + 1, i + n)
  <1>1. pc = "cinit" /\ init_size # 0 /\ i < Len(packet)
    BY DEF CinitData
  <1>2. /\ packet \in Seq(FileUnit) /\ i \in Nat /\ init_size \in Nat /\ Len(packet) \in Nat
        /\ l \in Nat /\ l > 0
    BY <1>1, CinitIs
  <1>3. n = IF l <= init_size THEN l ELSE init_size
    BY <1>2, LesserOf
  <1>4. /\ memory' = Write(init_addr, bytes)
        /\ init_addr' = init_addr + n /\ init_size' = init_size - n /\ i' = i + n
    BY DEF CinitData
  <1> HIDE DEF n
  <1>5. n \in Nat /\ n > 0 /\ n <= init_size /\ i + n <= Len(packet)
    BY <1>1, <1>2, <1>3
  <1>6. /\ bytes \in Seq(FileUnit) /\ Len(bytes) = n
        /\ \A k \in 1 .. n : bytes[k] = packet[i + k]
    BY <1>2, <1>5
  <1> HIDE DEF bytes
  <1> QED
    BY <1>4, <1>5, <1>6

\* Part of a record is copied to its place.
LEMMA RecordData ==
    ASSUME LoadersInv, CinitData, UNCHANGED segments, ~leftover
    PROVE  /\ AtRecord'
           /\ \A q \in image.inits : RecordKept(q) => RecordKept(q)'
           /\ \A k \in OfKind("load") :
                  Kept(image.parts[k].addr, image.parts[k].pos, image.parts[k].size)
                  => Kept(image.parts[k].addr, image.parts[k].pos, image.parts[k].size)'
  <1> DEFINE c == Section
             cur == c.pos + nbytes + i
  <1>a. /\ pc = "cinit" /\ init_size # 0
        /\ UNCHANGED <<image, dev, pc, hidden, todo, nbytes, packet>>
    BY DEF CinitData
  <1>b. PICK n \in Nat, bytes \in Seq(FileUnit) :
              /\ n > 0 /\ n <= init_size /\ i + n <= Len(packet)
              /\ Len(bytes) = n /\ \A k \in 1 .. n : bytes[k] = packet[i + k]
              /\ memory' = Write(init_addr, bytes)
              /\ init_addr' = init_addr + n /\ init_size' = init_size - n /\ i' = i + n
    BY CinitDataIs
  <1>1. /\ image \in Images /\ image.format = "coff" /\ LoaderTypes
        /\ c.pos \in Nat /\ c.size \in Nat /\ CinitTable(image, c)
        /\ RecordsIn(image, c) \subseteq image.inits \cap Inits
        /\ nbytes \in Nat /\ i \in Nat /\ packet \in Seq(FileUnit) /\ Len(packet) \in Nat
        /\ init_addr \in Int /\ init_size \in Nat /\ Position = cur
    BY <1>a, CinitIs DEF LoadersInv
  <1>c. c.pos \in Nat /\ c.size \in Nat /\ nbytes \in Nat /\ i \in Nat /\ cur \in Nat
    BY <1>1
  <1>2. Section' = Section /\ Position' = cur + n
    <2>1. Section' = Section
      BY <1>a DEF Section, Current
    <2>2. Position' = c.pos + nbytes + (i + n)
      BY <1>a, <1>b, <2>1 DEF Position
    <2> HIDE DEF c
    <2> QED
      BY SMTT(30), <1>c, <2>1, <2>2
  <1>3. Within(c, cur)
    BY <1>a, <1>1, CinitIs DEF AtRecord
  <1>4. /\ Len(bytes) = n
        /\ \A k \in 1 .. n : bytes[k] = packet[i + k] /\ i + k \in 1 .. Len(packet)
    BY SMTT(30), <1>b, <1>1
  <1>5. \A k \in 1 .. n : bytes[k] = Unit(cur + k - 1) \/ hidden'
    <2> TAKE k \in 1 .. n
    <2>1. bytes[k] = packet[i + k] /\ i + k \in 1 .. Len(packet) /\ k \in Nat
      BY <1>4
    <2>2. \/ packet[i + k] = Unit(Section.pos + nbytes + (i + k) - 1)
          \/ hidden
      BY <1>a, <2>1, BufferIs
    <2>3. Section.pos + nbytes + (i + k) - 1 = cur + k - 1
      <3> HIDE DEF c
      <3>1. c.pos + nbytes + (i + k) - 1 = c.pos + nbytes + i + k - 1
        <4>1. k \in Nat
          BY <2>1
        <4> QED
          BY <1>c, <4>1
      <3> QED
        BY <3>1 DEF c
    <2> QED
      BY <1>a, <2>1, <2>2, <2>3
  <1> HIDE DEF c, cur
  <1>6. PICK r \in RecordsIn(image, c) :
            /\ r.pos <= cur
            /\ init_addr = r.addr + (cur - r.pos)
            /\ init_size = r.pos + r.size - cur
            /\ Kept(r.addr, r.pos, cur - r.pos)
            /\ \A q \in RecordsIn(image, c) : q.pos < r.pos => RecordKept(q)
    BY <1>3 DEF Within
  <1>7. PICK a \in Nat, p \in Nat, z \in Nat, m \in Nat :
            a = r.addr /\ p = r.pos /\ z = r.size /\ cur = p + m /\ m = cur - p
    <2>1. r.addr \in Nat /\ r.pos \in Nat /\ r.size \in Nat
      BY <1>1, <1>6 DEF Inits
    <2> DEFINE y == r.pos
    <2>2. y \in Nat /\ y <= cur
      BY <1>6, <2>1
    <2> HIDE DEF y
    <2>3. cur - y \in Nat /\ cur = y + (cur - y)
      BY <1>c, <2>2
    <2> QED
      BY <2>1, <2>3 DEF y
  <1>d. cur = p + m /\ m = cur - p
    BY <1>7
  <1>8. /\ r \in image.inits
        /\ init_addr = a + m /\ init_size = p + z - cur /\ Kept(a, p, m)
        /\ RecordKept(r) = Kept(a, p, z) /\ InitMemory(r) = a .. a + z - 1
    BY <1>1, <1>6, <1>7 DEF RecordKept, InitMemory
  <1>9. RecordKept(r)' = Kept(a, p, z)'
    BY <1>7 DEF RecordKept
  <1>10. n \in Nat /\ n > 0 /\ m + n <= z /\ init_size' = z - (m + n) /\ init_addr' = a + (m + n)
    <2>1. init_size = z - m /\ init_addr = a + m
      BY <1>d, <1>8
    <2>2. n > 0 /\ n <= init_size /\ init_addr' = init_addr + n /\ init_size' = init_size - n
      BY <1>b
    <2> QED
      BY <1>d, <2>1, <2>2
  <1>11. /\ \A k \in 1 .. Len(bytes) : bytes[k] = Unit(p + m + k - 1) \/ hidden'
         /\ memory' = Write(a + m, bytes) /\ memory' = Write(init_addr, bytes)
         /\ Len(bytes) = n /\ image' = image /\ hidden' = hidden
    BY <1>a, <1>b, <1>4, <1>5, <1>7, <1>8
  <1>12. a .. a + z - 1 \subseteq 0 .. MemoryLen - 1
    BY <1>1, <1>7, <1>8, ImageMemory
  <1>13. init_addr .. init_addr + Len(bytes) - 1 \subseteq InitMemory(r)
    <2>1. a + m .. a + m + n - 1 \subseteq a .. a + z - 1
      BY <1>d, <1>10
    <2> QED
      BY <1>8, <1>11, <2>1
  <1>14. Kept(a, p, m + n)'
    <2>1. a .. a + m + Len(bytes) - 1 \subseteq 0 .. MemoryLen - 1
      <3>1. a .. a + m + n - 1 \subseteq a .. a + z - 1
        BY <1>d, <1>10
      <3> QED
        BY <1>11, <1>12, <3>1
    <2>2. Kept(a, p, m) /\ LoaderTypes
      BY <1>1, <1>8
    <2>3. Kept(a, p, m + Len(bytes))'
      BY <1>11, <2>1, <2>2, KeptMore
    <2> QED
      BY <1>11, <2>3
  <1>15. ASSUME NEW q \in image.inits, RecordKept(q) PROVE RecordKept(q)'
    <2>1. CASE q = r
      <3>1. Kept(a, p, z) /\ LoaderTypes /\ m + Len(bytes) <= z
        BY <1>1, <1>8, <1>10, <1>11, <1>15, <2>1
      <3>2. Kept(a, p, z)'
        BY <1>11, <1>12, <3>1, KeptSame
      <3> QED
        BY <1>9, <2>1, <3>2
    <2>2. CASE q # r
      <3>1. InitMemory(q) \cap InitMemory(r) = {}
        BY <1>1, <1>8, <2>2, ImageMemory
      <3>2. InitMemory(q) \cap (init_addr .. init_addr + Len(bytes) - 1) = {}
        BY <1>13, <3>1
      <3> QED
        BY <1>1, <1>11, <1>15, <3>2, OthersKept
    <2> QED
      BY <2>1, <2>2
  <1>16. ASSUME NEW k \in OfKind("load"),
                Kept(image.parts[k].addr, image.parts[k].pos, image.parts[k].size)
         PROVE  Kept(image.parts[k].addr, image.parts[k].pos, image.parts[k].size)'
    <2>1. PartMemory(image.parts[k]) \cap InitMemory(r) = {}
      BY <1>1, <1>8, ImageMemory, OfKindIs
    <2>2. PartMemory(image.parts[k]) \cap (init_addr .. init_addr + Len(bytes) - 1) = {}
      BY <1>13, <2>1
    <2> QED
      BY <1>1, <1>11, <1>16, <2>2, OthersKept
  <1>17. /\ RecordsIn(image, c) \subseteq image.inits /\ Section' = c /\ Position' = cur + n
         /\ RecordsIn(image', Section') = RecordsIn(image, c)
         /\ Ends(image', Section') = Ends(image, c)
    BY <1>1, <1>2, <1>11 DEF c
  <1>18. ASSUME init_size' # 0 PROVE AtRecord'
    <2>1. /\ p <= cur + n /\ (cur + n) - p = m + n
          /\ init_addr' = a + ((cur + n) - p) /\ init_size' = p + z - (cur + n)
      BY <1>d, <1>10
    <2>2. \A q \in RecordsIn(image, c) : q.pos < r.pos => RecordKept(q)'
      BY <1>6, <1>15, <1>17
    <2>3. Kept(r.addr, r.pos, Position - r.pos)'
      <3>1. Position' - r.pos = m + n
        BY <1>7, <1>17, <2>1
      <3>2. Kept(r.addr, r.pos, m + n)'
        BY <1>7, <1>14
      <3> QED
        BY <3>1, <3>2 DEF Kept
    <2>4. Within(Section, Position)'
      <3>1. /\ r.pos <= Position' /\ init_addr' = r.addr + (Position' - r.pos)
            /\ init_size' = r.pos + r.size - Position'
        <4>1. Position' = cur + n /\ r.pos = p /\ r.addr = a /\ r.size = z
          BY <1>7, <1>17
        <4> QED
          BY <2>1, <4>1, Zenon
      <3>2. r \in RecordsIn(image', Section')
        BY <1>6, <1>17
      <3>3. \A q \in RecordsIn(image', Section') : q.pos < r.pos => RecordKept(q)'
        BY <1>17, <2>2
      <3> QED
        BY <2>3, <3>1, <3>2, <3>3 DEF Within
    <2> QED
      BY <1>18, <2>4 DEF AtRecord
  <1>19. ASSUME init_size' = 0 PROVE AtRecord'
    <2>1. m + n = z /\ cur + n = p + z
      BY <1>d, <1>10, <1>19
    <2>2. RecordKept(r)'
      BY <1>9, <1>14, <2>1
    <2>3. ASSUME NEW q \in RecordsIn(image, c), q.pos <= p + z
          PROVE  RecordKept(q)'
      <3>1. q.pos \in Nat /\ q.size \in Nat
        BY <1>1 DEF Inits
      <3>2. q = r \/ q.pos + q.size < p \/ p + z < q.pos
        BY <1>1, <1>7 DEF CinitTable
      <3>3. q = r \/ q.pos < p
        <4> DEFINE y == q.pos
        <4>1. y \in Nat /\ q.size \in Nat /\ (q = r \/ y + q.size < p \/ p + z < y) /\ y <= p + z
          BY <2>3, <3>1, <3>2
        <4> HIDE DEF y
        <4>2. q = r \/ y < p
          BY <4>1
        <4> QED
          BY <4>2 DEF y
      <3> QED
        BY <1>6, <1>7, <1>15, <1>17, <2>2, <3>3
    <2>4. p + z \in Ends(image, c)
      BY <1>7 DEF Ends
    <2>5. cur + n <= c.pos + Aligned((p + z) - c.pos)
      <3> DEFINE x == cur + n - c.pos
      <3>1. x \in Nat
        <4>1. c.pos + 2 <= p
          BY <1>1, <1>7 DEF CinitTable
        <4> QED
          BY <1>c, <1>d, <1>10, <4>1
      <3>2. x <= Aligned(x) /\ Aligned(x) \in Nat
        BY <3>1, AlignedIs
      <3>3. (p + z) - c.pos = x
        BY <1>c, <1>d, <1>10, <2>1
      <3>4. cur + n = c.pos + x
        BY <1>c, <1>10
      <3> HIDE DEF x
      <3> QED
        BY <1>c, <3>1, <3>2, <3>3, <3>4
    <2>6. cur + n <= cur + n
      BY <1>c, <1>10
    <2>7. Between(Section, Position)'
      <3> DEFINE y == p + z
      <3>1. y \in Ends(image', Section')
        BY <1>17, <2>4
      <3>2. y <= Position' /\ Position' <= Section'.pos + Aligned(y - Section'.pos)
        <4>1. Position' = cur + n /\ Section' = c /\ y = cur + n
          BY <1>17, <2>1
        <4>2. cur + n <= c.pos + Aligned(y - c.pos)
          BY <2>5
        <4> QED
          BY <2>6, <4>1, <4>2, Zenon
      <3>3. \A q \in RecordsIn(image', Section') : q.pos <= y => RecordKept(q)'
        BY <1>17, <2>3
      <3> HIDE DEF y
      <3> QED
        BY <3>1, <3>2, <3>3 DEF Between
    <2> QED
      BY <1>19, <2>7 DEF AtRecord
  <1> QED
    BY <1>15, <1>16, <1>18, <1>19

\* and by the data of a record.
LEMMA CinitDataStep ==
    ASSUME LoadersInv, CinitData, UNCHANGED segments
    PROVE  LoadersInv'
  <1>1. /\ pc = "cinit"
        /\ UNCHANGED <<image, dev, pc, entry, loaded, hidden, entry_point, todo, nbytes, packet,
                       leftover, segments>>
    BY DEF CinitData
  <1>2. PICK n \in Nat, bytes \in Seq(FileUnit) :
              /\ n > 0 /\ n <= init_size /\ i + n <= Len(packet)
              /\ memory' = Write(init_addr, bytes)
              /\ init_addr' = init_addr + n /\ init_size' = init_size - n /\ i' = i + n
    BY CinitDataIs
  <1>3. /\ LoaderTypes /\ Phases /\ Buffered /\ InTable /\ SectionsKept
        /\ i \in Nat /\ init_size \in Nat /\ init_addr \in Int
        /\ image.format = "coff" /\ Current \in OfKind("cinit") /\ Section.kind = "cinit"
        /\ RecordsIn(image, Section) \subseteq image.inits
    BY <1>1, CinitIs DEF LoadersInv
  <1>4. i' \in Nat /\ i' <= Len(packet) /\ init_size' \in Nat /\ init_addr' \in Int
    BY <1>2, <1>3
  <1>5. memory' \in [0 .. MemoryLen - 1 -> FileUnit]
    BY <1>2, <1>3, WriteIs DEF LoaderTypes
  <1>6. LoaderTypes'
    BY <1>1, <1>3, <1>4, <1>5 DEF LoaderTypes
  <1>7. /\ Section' = Section /\ OfKind("load")' = OfKind("load")
        /\ OfKind("cinit")' = OfKind("cinit") /\ Misled' = Misled
    BY <1>1 DEF Section, Current, OfKind, Misled
  <1>8. Phases'
    BY <1>1, <1>3, <1>7 DEF Phases, CoffSteps, ElfSteps
  <1>9. InTable'
    BY <1>1, <1>3, <1>7 DEF InTable, InSections
  <1>10. Buffered'
    BY <1>1, <1>3, <1>4, <1>7 DEF Buffered
  <1>11. Records'
    BY <1>1, <1>9, RecordData DEF Records
  <1>12. SectionsKept'
    <2>1. SUFFICES ASSUME ~Misled
                   PROVE  /\ \A k \in OfKind("load") \ todo :
                                Kept(image.parts[k].addr, image.parts[k].pos, image.parts[k].size)'
                          /\ \A k \in OfKind("cinit") \ todo :
                                \A r \in RecordsIn(image, image.parts[k]) : RecordKept(r)'
      BY <1>1, <1>3, <1>7 DEF SectionsKept
    <2>2. ~leftover
      BY <1>3, <2>1 DEF Misled
    <2>3. /\ \A k \in OfKind("load") \ todo :
                Kept(image.parts[k].addr, image.parts[k].pos, image.parts[k].size)
          /\ \A k \in OfKind("cinit") \ todo :
                \A r \in RecordsIn(image, image.parts[k]) : RecordKept(r)
      BY <1>1, <1>3, <2>1 DEF SectionsKept
    <2>4. \A k : RecordsIn(image, image.parts[k]) \subseteq image.inits
      BY DEF RecordsIn
    <2> QED
      BY <2>2, <2>3, <2>4, RecordData
  <1> QED
    BY <1>1, <1>6, <1>8, <1>10, <1>11, <1>12 DEF LoadersInv, SegmentsKept, EntryMeansLoaded

-----------------------------------------------------------------------------
(* The segments.                                                           *)

\* The invariant is kept by the header of an ELF file,
LEMMA ElfFileHeaderStep ==
    ASSUME LoadersInv, DloadFileHeader, UNCHANGED coffVars
    PROVE  LoadersInv'
  <1> USE DEF DloadFileHeader, LoadersInv
  <1>1. dev' \in Reads(dev, 1)
    OBVIOUS
  <1>2. image \in Images /\ dev \in Devices /\ hidden \in BOOLEAN
    BY DEF LoaderTypes
  <1>3. dev' \in Devices /\ (dev'.ok => dev'.lost = dev.lost)
    BY <1>1, <1>2, ReadIs
  <1>4. \/ Returns(entry, FALSE)
        \/ Goes("phdr")
        \/ Goes("astray")
    BY DEF ReadAs
  <1>5. entry = 0 /\ (~hidden => ~dev.lost) /\ image.format = "elf"
    BY DEF Phases, ElfSteps
  <1>6. hidden' \in BOOLEAN /\ (hidden => hidden') /\ (~dev'.ok => hidden')
    BY <1>2, <1>3 DEF Hide, Devices
  <1>7. UNCHANGED <<image, memory, segments, entry_point, init_size, init_addr, todo, nbytes,
                    packet, i, leftover>>
    BY DEF coffVars
  <1>8. LoaderTypes'
    BY <1>3, <1>4, <1>6, <1>7 DEF LoaderTypes, Returns, Goes, ElfSteps
  <1>9. Phases'
    BY <1>3, <1>4, <1>5, <1>6, <1>7 DEF Phases, Returns, Goes, CoffSteps, ElfSteps
  <1> QED
    BY <1>4, <1>5, <1>8, <1>9, Outside DEF Returns, Goes

\* by its program headers,
LEMMA ProgramHeaderStep ==
    ASSUME LoadersInv, DloadProgramHeaderTable, UNCHANGED coffVars
    PROVE  LoadersInv'
  <1> USE DEF DloadProgramHeaderTable, LoadersInv
  <1> DEFINE n == Len(image.parts)
             p == image.phoff
  <1>1. image \in Images /\ dev \in Devices /\ hidden \in BOOLEAN /\ n \in Nat /\ p \in Nat
    BY ImageIs DEF LoaderTypes
  <1>2. dev' \in Fetches(p, n, FALSE)
    OBVIOUS
  <1>3. dev' \in Devices /\ (dev'.ok /\ dev'.sought => dev'.lost = dev.lost)
    <2> HIDE DEF n, p
    <2> QED
      BY <1>1, <1>2, FetchIs
  <1>4. \/ Returns(entry, FALSE)
        \/ Goes("validate")
        \/ Goes("astray")
    BY DEF ReadAs
  <1>5. entry = 0 /\ (~hidden => ~dev.lost) /\ image.format = "elf"
    BY DEF Phases, ElfSteps
  <1>6. hidden' \in BOOLEAN /\ (hidden => hidden') /\ (~dev'.sought \/ ~dev'.ok => hidden')
    BY <1>1, <1>3 DEF Hide, Devices
  <1>7. UNCHANGED <<image, memory, segments, entry_point, init_size, init_addr, todo, nbytes,
                    packet, i, leftover>>
    BY DEF coffVars
  <1>8. LoaderTypes'
    BY <1>3, <1>4, <1>6, <1>7 DEF LoaderTypes, Returns, Goes, ElfSteps
  <1>9. Phases'
    BY <1>3, <1>4, <1>5, <1>6, <1>7 DEF Phases, Returns, Goes, CoffSteps, ElfSteps
  <1> QED
    BY <1>4, <1>5, <1>8, <1>9, Outside DEF Returns, Goes

\* and by the allocation of its segments.
LEMMA StaticExecutableStep ==
    ASSUME LoadersInv, DloadStaticExecutable, UNCHANGED coffVars
    PROVE  LoadersInv'
  <1> USE DEF DloadStaticExecutable, LoadersInv
  <1>1. image \in Images /\ dev \in Devices /\ hidden \in BOOLEAN /\ image.end \in Nat
    BY ImageIs DEF LoaderTypes
  <1>2. dev' \in Seeks(dev, image.end)
    OBVIOUS
  <1>3. dev' \in Devices /\ (dev'.sought => dev'.lost = dev.lost)
    BY <1>1, <1>2, SeekIs
  <1>4. \/ Returns(entry, FALSE)
        \/ /\ SizesValid /\ entry' = image.entry /\ segments' = PtLoad
           /\ pc' = "segments" /\ UNCHANGED loaded
    OBVIOUS
  <1>5. entry = 0 /\ (~hidden => ~dev.lost) /\ image.format = "elf"
    BY DEF Phases, ElfSteps
  <1>6. hidden' \in BOOLEAN /\ (hidden => hidden') /\ (~dev'.sought => hidden')
    BY <1>1, <1>3 DEF Hide, Devices
  <1>7. UNCHANGED <<image, memory, entry_point, init_size, init_addr, todo, nbytes,
                    packet, i, leftover>>
    BY DEF coffVars
  <1>8. LoaderTypes'
    BY <1>3, <1>4, <1>6, <1>7 DEF LoaderTypes, Returns, ElfSteps
  <1>9. PtLoad' = PtLoad /\ SizesValid' = SizesValid
    BY <1>7 DEF PtLoad, SizesValid
  <1>10. Phases'
    BY <1>3, <1>4, <1>5, <1>6, <1>7, <1>9 DEF Phases, Returns, CoffSteps, ElfSteps
  <1>11. CASE Returns(entry, FALSE)
    BY <1>5, <1>8, <1>10, <1>11, Outside DEF Returns
  <1>12. CASE segments' = PtLoad /\ pc' = "segments"
    <2>1. ~InTable' /\ Records' /\ SectionsKept' /\ EntryMeansLoaded'
      BY <1>12 DEF InTable, InSections, Records, SectionsKept, EntryMeansLoaded
    <2>2. SegmentsKept'
      BY <1>9, <1>12 DEF SegmentsKept
    <2> QED
      BY <1>8, <1>10, <2>1, <2>2
  <1> QED
    BY <1>4, <1>11, <1>12

\* Data with zeros behind.
LEMMA Tailed ==
    ASSUME NEW b \in Seq(FileUnit), NEW n \in Nat, Len(b) <= n, Zero \in FileUnit,
           NEW w, w = b \o [k \in 1 .. n - Len(b) |-> Zero]
    PROVE  /\ w \in Seq(FileUnit) /\ Len(w) = n
           /\ \A k \in 1 .. Len(b) : w[k] = b[k]
           /\ \A k \in Len(b) + 1 .. n : w[k] = Zero
  <1> DEFINE t == [k \in 1 .. n - Len(b) |-> Zero]
  <1>1. t \in Seq(FileUnit) /\ Len(t) = n - Len(b) /\ \A k \in 1 .. n - Len(b) : t[k] = Zero
    OBVIOUS
  <1> HIDE DEF t
  <1>2. w = b \o t
    BY DEF t
  <1>3. w \in Seq(FileUnit) /\ Len(w) = n /\ \A k \in 1 .. Len(b) : w[k] = b[k]
    BY <1>1, <1>2
  <1>4. \A k \in Len(b) + 1 .. n : w[k] = t[k - Len(b)] /\ k - Len(b) \in 1 .. n - Len(b)
    BY <1>1, <1>2
  <1> QED
    BY <1>1, <1>3, <1>4

\* The segments are parts of the file, each in the device's memory, apart from the others.
LEMMA SegmentIs ==
    ASSUME image \in Images, SizesValid, NEW k \in PtLoad
    PROVE  LET s == image.parts[k] IN
           /\ k \in DOMAIN image.parts /\ k \in Nat
           /\ s \in Parts /\ s.kind = "load" /\ s.size <= s.memsz
           /\ s.addr \in Nat /\ s.pos \in Nat /\ s.size \in Nat /\ s.memsz \in Nat
           /\ s.size > 0 => s.addr .. s.addr + s.memsz - 1 \subseteq 0 .. MemoryLen - 1
           /\ \A l \in PtLoad : l # k /\ s.size > 0 =>
                  PartMemory(image.parts[l]) \cap (s.addr .. s.addr + s.memsz - 1) = {}
  <1> DEFINE s == image.parts[k]
  <1>1. k \in DOMAIN image.parts /\ s.kind = "load" /\ s.size <= s.memsz
    BY DEF PtLoad, SizesValid
  <1>2. s \in Parts /\ k \in Nat
    BY <1>1, ImageIs
  <1>3. s.size > 0 => PartMemory(s) = s.addr .. s.addr + s.memsz - 1
    BY <1>1 DEF PartMemory
  <1>4. PartMemory(s) \subseteq 0 .. MemoryLen - 1
    BY <1>1, ImageMemory
  <1>5. \A l \in PtLoad : l # k => PartMemory(image.parts[l]) \cap PartMemory(s) = {}
    BY <1>1, ImageMemory DEF PtLoad
  <1>6. s.addr \in Nat /\ s.pos \in Nat /\ s.size \in Nat /\ s.memsz \in Nat
    BY <1>2 DEF Parts
  <1> QED
    BY <1>1, <1>2, <1>3, <1>4, <1>5, <1>6

\* Loading one leaves the others as they are.
LEMMA InPlaceApart ==
    ASSUME LoaderTypes, SizesValid, image' = image, NEW k \in PtLoad,
           NEW addr \in Nat, NEW w \in Seq(FileUnit), memory' = Write(addr, w),
           PartMemory(image.parts[k]) \cap (addr .. addr + Len(w) - 1) = {},
           InPlace(image.parts[k])
    PROVE  InPlace(image.parts[k])'
  <1> DEFINE s == image.parts[k]
  <1>1. image \in Images
    BY DEF LoaderTypes
  <1>2. PICK a \in Nat, p \in Nat, n \in Nat, z \in Nat :
            a = s.addr /\ p = s.pos /\ n = s.size /\ z = s.memsz /\ n <= z
    BY <1>1, SegmentIs
  <1>3. n > 0 => a .. a + z - 1 \subseteq 0 .. MemoryLen - 1
    BY <1>1, <1>2, SegmentIs
  <1>4. n > 0 => (a .. a + z - 1) \cap (addr .. addr + Len(w) - 1) = {}
    <2>1. s.kind = "load"
      BY DEF PtLoad
    <2> QED
      BY <1>2, <2>1 DEF PartMemory
  <1>5. /\ \A j \in 0 .. n - 1 : memory[a + j] = [file |-> image.name, pos |-> p + j]
        /\ n > 0 => \A j \in n .. z - 1 : memory[a + j] = Zero
    BY <1>2 DEF InPlace, Placed
  <1>6. n > 0 => \A j \in 0 .. z - 1 : memory'[a + j] = memory[a + j]
    <2> SUFFICES ASSUME n > 0, NEW j \in 0 .. z - 1 PROVE memory'[a + j] = memory[a + j]
      OBVIOUS
    <2>1. a + j \in a .. a + z - 1
      <3>1. n <= z
        BY <1>2
      <3> QED
        BY <3>1
    <2>2. a + j \in 0 .. MemoryLen - 1 /\ a + j \notin addr .. addr + Len(w) - 1
      BY <1>3, <1>4, <2>1
    <2> QED
      BY <2>2, WriteIs DEF LoaderTypes
  <1>7. /\ \A j \in 0 .. n - 1 : memory'[a + j] = [file |-> image.name, pos |-> p + j]
        /\ n > 0 => \A j \in n .. z - 1 : memory'[a + j] = Zero
    <2>1. \A j \in 0 .. n - 1 : n > 0 /\ j \in 0 .. z - 1
      BY SMTT(60), <1>2
    <2>2. \A j \in n .. z - 1 : j \in 0 .. z - 1
      BY <1>2
    <2> QED
      BY <1>5, <1>6, <2>1, <2>2
  <1> QED
    BY <1>2, <1>7 DEF InPlace, Placed

\* What a write leaves at its addresses.
LEMMA WrittenIs ==
    ASSUME LoaderTypes, NEW a \in Nat, NEW z \in Nat, NEW w \in Seq(FileUnit), Len(w) = z,
           memory' = Write(a, w), a .. a + z - 1 \subseteq 0 .. MemoryLen - 1
    PROVE  \A j \in 0 .. z - 1 : memory'[a + j] = w[j + 1]
  <1> TAKE j \in 0 .. z - 1
  <1>1. a + j \in a .. a + z - 1 /\ (a + j) - a + 1 = j + 1
    OBVIOUS
  <1>2. a + j \in 0 .. MemoryLen - 1
    BY <1>1
  <1>3. \A x \in 0 .. MemoryLen - 1 :
            memory'[x] = IF x \in a .. a + Len(w) - 1 THEN w[x - a + 1] ELSE memory[x]
    BY WriteIs DEF LoaderTypes
  <1> QED
    BY <1>1, <1>2, <1>3

\* The bytes of a segment with what follows them.
SegmentBytes(w, s) ==
    /\ \A j \in 1 .. s.size : w[j] = Unit(s.pos + j - 1)
    /\ \A j \in s.size + 1 .. s.memsz : w[j] = Zero

SegmentTail(b, s) == b \o [j \in 1 .. s.memsz - Len(b) |-> Zero]

\* What is written of a segment.
LEMMA StaticSegmentIs ==
    ASSUME LoadersInv, pc = "segments", segments # {},
           NEW f, f \in Fetches(image.parts[Min(segments)].pos, image.parts[Min(segments)].size, FALSE)
    PROVE  LET s == image.parts[Min(segments)]
               w == SegmentTail(f.bytes, s)
           IN  /\ f \in Devices /\ w \in Seq(FileUnit) /\ Len(w) = s.memsz
               /\ ~hidden /\ f.ok /\ f.sought => ~f.lost /\ SegmentBytes(w, s)
  <1> DEFINE k == Min(segments)
             s == image.parts[k]
             w == SegmentTail(f.bytes, s)
  <1>1. /\ image \in Images /\ dev \in Devices /\ SizesValid /\ segments \subseteq PtLoad
        /\ (~hidden => ~dev.lost)
    BY DEF LoadersInv, LoaderTypes, Phases, ElfSteps
  <1>2. k \in PtLoad
    <2>1. segments \subseteq Nat
      BY <1>1, SegmentIs
    <2> QED
      BY <1>1, <2>1, LeastOf
  <1>3. PICK p \in Nat, n \in Nat, z \in Nat : p = s.pos /\ n = s.size /\ z = s.memsz /\ n <= z
    BY <1>1, <1>2, SegmentIs
  <1>4. f \in Fetches(p, n, FALSE)
    BY <1>3
  <1>5. /\ f \in Devices /\ Len(f.bytes) <= n
        /\ f.ok /\ f.sought => f.lost = dev.lost /\ (~dev.lost => f.bytes = FileBytes(p, n))
    BY ZenonT(60), <1>1, <1>4, FetchIs
  <1>6. PICK b \in Seq(FileUnit) : b = f.bytes
    BY <1>5 DEF Devices
  <1>7. Zero \in FileUnit /\ Len(b) <= z /\ w = b \o [j \in 1 .. z - Len(b) |-> Zero]
    BY <1>1, <1>3, <1>5, <1>6, UnitTypes DEF SegmentTail
  <1> HIDE DEF w
  <1>8. /\ w \in Seq(FileUnit) /\ Len(w) = z
        /\ \A j \in 1 .. Len(b) : w[j] = b[j]
        /\ \A j \in Len(b) + 1 .. z : w[j] = Zero
    BY <1>7, Tailed
  <1>9. ASSUME ~hidden, f.ok, f.sought
        PROVE  ~f.lost /\ SegmentBytes(w, s)
    <2>1. ~f.lost /\ b = FileBytes(p, n)
      BY <1>1, <1>5, <1>6, <1>9
    <2>2. Len(b) = n /\ \A j \in 1 .. n : b[j] = Unit(p + j - 1)
      BY <1>1, <2>1, FileBytesAre
    <2> QED
      BY <1>3, <1>8, <2>1, <2>2 DEF SegmentBytes
  <1> QED
    BY <1>3, <1>5, <1>8, <1>9 DEF w

\* The invariant is kept by the loading of a segment,
LEMMA StaticSegmentStep ==
    ASSUME LoadersInv, LoadStaticSegment, UNCHANGED coffVars
    PROVE  LoadersInv'
  <1>a. PICK k : k = Min(segments)
    OBVIOUS
  <1> DEFINE s == image.parts[k]
  <1>1. /\ pc = "segments" /\ segments # {} /\ segments' = segments \ {k}
        /\ UNCHANGED <<image, pc, entry, loaded, attempts>>
    BY <1>a DEF LoadStaticSegment
  <1>2. UNCHANGED <<entry_point, init_size, init_addr, todo, nbytes, packet, i, leftover>>
    BY DEF coffVars
  <1>3. /\ LoaderTypes /\ Phases /\ image \in Images /\ dev \in Devices /\ SizesValid
        /\ segments \subseteq PtLoad /\ hidden \in BOOLEAN
        /\ \A l \in PtLoad \ segments : hidden \/ InPlace(image.parts[l])
    BY <1>1 DEF LoadersInv, LoaderTypes, Phases, ElfSteps, SegmentsKept
  <1>4. k \in PtLoad
    <2>1. segments \subseteq Nat
      BY <1>3, SegmentIs
    <2> QED
      BY <1>a, <1>1, <1>3, <2>1, LeastOf
  <1>5. /\ dev' \in Devices /\ memory' \in [0 .. MemoryLen - 1 -> FileUnit] /\ hidden' \in BOOLEAN
        /\ hidden => hidden'
        /\ ~hidden' /\ ~dev.lost => ~dev'.lost
        /\ hidden' \/ InPlace(s)'
        /\ \A l \in PtLoad : l # k /\ InPlace(image.parts[l]) => InPlace(image.parts[l])'
    <2>1. CASE s.size = 0 /\ UNCHANGED <<dev, memory, hidden>>
      <3>1. InPlace(s)'
        BY <1>1, <2>1 DEF InPlace, Placed
      <3> QED
        BY <1>1, <1>3, <2>1, <3>1 DEF LoaderTypes, InPlace, Placed
    <2>2. ASSUME s.size > 0,
                 NEW f \in Fetches(s.pos, s.size, FALSE),
                 dev' = f, Hide(~f.sought \/ ~f.ok),
                 memory' = Write(s.addr, f.bytes \o [j \in 1 .. s.memsz - Len(f.bytes) |-> Zero])
          PROVE  /\ dev' \in Devices /\ memory' \in [0 .. MemoryLen - 1 -> FileUnit] /\ hidden' \in BOOLEAN
                 /\ hidden => hidden'
                 /\ ~hidden' /\ ~dev.lost => ~dev'.lost
                 /\ hidden' \/ InPlace(s)'
                 /\ \A l \in PtLoad : l # k /\ InPlace(image.parts[l]) => InPlace(image.parts[l])'
      <3> DEFINE v == SegmentTail(f.bytes, s)
      <3>1. /\ f \in Devices /\ v \in Seq(FileUnit) /\ Len(v) = s.memsz
            /\ ~hidden /\ f.ok /\ f.sought => ~f.lost /\ SegmentBytes(v, s)
        BY <1>a, <1>1, <2>2, StaticSegmentIs
      <3>2. PICK w \in Seq(FileUnit) : w = v
        BY <3>1
      <3> HIDE DEF v
      <3>3. PICK a \in Nat, p \in Nat, n \in Nat, z \in Nat :
                a = s.addr /\ p = s.pos /\ n = s.size /\ z = s.memsz
        BY <1>3, <1>4, SegmentIs
      <3>4. n <= z /\ a .. a + z - 1 \subseteq 0 .. MemoryLen - 1
        BY <1>3, <1>4, <2>2, <3>3, SegmentIs
      <3>5. \A l \in PtLoad : l # k => PartMemory(image.parts[l]) \cap (a .. a + z - 1) = {}
        BY SMTT(60), <1>3, <1>4, <2>2, <3>3, SegmentIs
      <3>6. /\ memory' = Write(a, w) /\ Len(w) = z
            /\ ~hidden /\ f.ok /\ f.sought =>
                   /\ ~f.lost
                   /\ \A j \in 1 .. n : w[j] = Unit(p + j - 1)
                   /\ \A j \in n + 1 .. z : w[j] = Zero
        BY <2>2, <3>1, <3>2, <3>3 DEF v, SegmentTail, SegmentBytes
      <3>7. f.ok \in BOOLEAN /\ f.sought \in BOOLEAN
        BY <3>1 DEF Devices
      <3>8. hidden' \in BOOLEAN /\ (hidden' <=> (hidden \/ ~f.sought \/ ~f.ok))
        <4>1. hidden' = (hidden \/ (~f.sought \/ ~f.ok))
          BY <2>2 DEF Hide
        <4> QED
          BY <1>3, <3>7, <4>1
      <3>9. memory' \in [0 .. MemoryLen - 1 -> FileUnit]
        BY <1>3, <3>6, WriteIs DEF LoaderTypes
      <3>10. ASSUME ~hidden' PROVE InPlace(s)' /\ ~dev'.lost
        <4>1. /\ \A j \in 1 .. n : w[j] = Unit(p + j - 1)
              /\ \A j \in n + 1 .. z : w[j] = Zero
              /\ ~f.lost /\ memory' = Write(a, w) /\ Len(w) = z
          BY <3>6, <3>8, <3>10
        <4>2. /\ \A j \in 0 .. n - 1 : memory'[a + j] = [file |-> image.name, pos |-> p + j]
              /\ \A j \in n .. z - 1 : memory'[a + j] = Zero
          <5>1. \A j \in 0 .. z - 1 : memory'[a + j] = w[j + 1]
            BY <1>3, <3>4, <4>1, WrittenIs
          <5>2. ASSUME NEW j \in 0 .. n - 1
                PROVE  memory'[a + j] = [file |-> image.name, pos |-> p + j]
            <6>1. j \in 0 .. z - 1 /\ j + 1 \in 1 .. n /\ p + (j + 1) - 1 = p + j
              BY <3>4
            <6>2. w[j + 1] = Unit(p + (j + 1) - 1)
              BY <4>1, <6>1
            <6> QED
              BY <5>1, <6>1, <6>2 DEF Unit
          <5>3. ASSUME NEW j \in n .. z - 1 PROVE memory'[a + j] = Zero
            <6>1. j \in 0 .. z - 1 /\ j + 1 \in n + 1 .. z
              OBVIOUS
            <6> QED
              BY <4>1, <5>1, <6>1
          <5> QED
            BY <5>2, <5>3
        <4>3. InPlace(s)'
          BY <1>1, <3>3, <4>2 DEF InPlace, Placed
        <4> QED
          BY <2>2, <4>1, <4>3
      <3>11. ASSUME NEW l \in PtLoad, l # k, InPlace(image.parts[l])
             PROVE  InPlace(image.parts[l])'
        <4>1. PartMemory(image.parts[l]) \cap (a .. a + Len(w) - 1) = {}
          BY <3>5, <3>6, <3>11
        <4> QED
          BY <1>1, <1>3, <3>6, <3>11, <4>1, InPlaceApart
      <3> QED
        BY <2>2, <3>1, <3>8, <3>9, <3>10, <3>11
    <2> QED
      BY <1>a, <1>1, <2>1, <2>2 DEF LoadStaticSegment
  <1>6. LoaderTypes'
    BY <1>1, <1>2, <1>3, <1>5 DEF LoaderTypes
  <1>7. PtLoad' = PtLoad /\ SizesValid' = SizesValid
    BY <1>1 DEF PtLoad, SizesValid
  <1>8. Phases'
    BY <1>1, <1>2, <1>3, <1>5, <1>7 DEF Phases, CoffSteps, ElfSteps
  <1>9. ~InTable' /\ Records' /\ SectionsKept' /\ EntryMeansLoaded'
    BY <1>1 DEF InTable, InSections, Records, SectionsKept, EntryMeansLoaded
  <1>10. ASSUME NEW l \in PtLoad \ segments' PROVE hidden' \/ InPlace(image.parts[l])'
    <2>1. CASE l = k
      BY <1>5, <2>1
    <2>2. CASE l # k
      BY <1>1, <1>3, <1>5, <1>10, <2>2
    <2> QED
      BY <2>1, <2>2
  <1>11. SegmentsKept'
    BY <1>1, <1>7, <1>10 DEF SegmentsKept
  <1> QED
    BY <1>6, <1>8, <1>9, <1>11 DEF LoadersInv

\* and when there is none left.
LEMMA DloadDoneStep ==
    ASSUME LoadersInv, DloadDone, UNCHANGED coffVars
    PROVE  LoadersInv'
  <1> USE DEF DloadDone, LoadersInv
  <1>1. /\ pc = "segments" /\ segments = {} /\ pc' = "returned" /\ entry' = entry
        /\ UNCHANGED <<image, dev, memory, hidden, attempts, segments>>
    BY DEF Returns
  <1>2. UNCHANGED <<entry_point, init_size, init_addr, todo, nbytes, packet, i, leftover>>
    BY DEF coffVars
  <1>3. LoaderTypes'
    BY <1>1, <1>2 DEF LoaderTypes
  <1>4. Phases'
    BY <1>1, <1>2 DEF Phases, CoffSteps, ElfSteps
  <1>5. ~InTable' /\ Records' /\ SectionsKept' /\ SegmentsKept'
    BY <1>1 DEF InTable, InSections, Records, SectionsKept, SegmentsKept
  <1>6. ASSUME ~hidden PROVE ImageLoaded /\ entry = image.entry
    <2>1. /\ image \in Images /\ image.format = "elf" /\ entry = image.entry
      BY <1>1 DEF LoaderTypes, Phases, ElfSteps
    <2>2. image.inits = {}
      BY <2>1, ImagesAssumption
    <2>3. \A k \in PtLoad : InPlace(image.parts[k])
      BY <1>1, <1>6 DEF SegmentsKept
    <2>4. ASSUME NEW p \in LoadedParts PROVE InPlace(p)
      <3>1. PICK k \in DOMAIN image.parts : p = image.parts[k] /\ p.kind = "load"
        BY DEF LoadedParts, Range
      <3> QED
        BY <2>3, <3>1 DEF PtLoad
    <2> QED
      BY <2>1, <2>2, <2>4 DEF ImageLoaded
  <1>7. EntryMeansLoaded'
    <2>1. ImageLoaded' = ImageLoaded
      BY <1>1 DEF ImageLoaded, LoadedParts, InPlace, Placed
    <2> QED
      BY <1>1, <1>6, <2>1 DEF EntryMeansLoaded
  <1> QED
    BY <1>3, <1>4, <1>5, <1>7

-----------------------------------------------------------------------------
(* What is written.                                                        *)

Changed == {a \in DOMAIN memory : memory'[a] # memory[a]}

\* An address that changed was written.
LEMMA ChangedIs ==
    ASSUME LoaderTypes, NEW addr \in Int, NEW bytes \in Seq(FileUnit),
           memory' = Write(addr, bytes)
    PROVE  Changed \subseteq addr .. addr + Len(bytes) - 1
  <1>1. DOMAIN memory = 0 .. MemoryLen - 1
    BY DEF LoaderTypes
  <1> SUFFICES ASSUME NEW a \in 0 .. MemoryLen - 1, a \notin addr .. addr + Len(bytes) - 1
               PROVE  memory'[a] = memory[a]
    BY <1>1 DEF Changed
  <1> QED
    BY WriteIs DEF LoaderTypes

\* The memory of a part or a record is the image's.
LEMMA InFootprint ==
    /\ \A k \in DOMAIN image.parts :
          image.parts[k].kind = "load" => PartMemory(image.parts[k]) \subseteq Footprint
    /\ \A r \in image.inits : InitMemory(r) \subseteq Footprint
  <1>1. ASSUME NEW k \in DOMAIN image.parts, image.parts[k].kind = "load"
        PROVE  PartMemory(image.parts[k]) \subseteq Footprint
    <2>1. image.parts[k] \in LoadedParts
      BY <1>1 DEF LoadedParts, Range
    <2> QED
      BY <2>1 DEF Footprint
  <1>2. ASSUME NEW r \in image.inits PROVE InitMemory(r) \subseteq Footprint
    BY DEF Footprint
  <1> QED
    BY <1>1, <1>2

\* A step that writes nothing writes nothing outside the image.
LEMMA NothingWritten ==
    ASSUME memory' = memory
    PROVE  Changed = {}
  BY DEF Changed

\* The data of a section goes to the section's memory,
LEMMA SectDataWrites ==
    ASSUME LoadersInv, CloadSectData
    PROVE  Changed \subseteq Footprint
  <1> DEFINE l == Len(packet)
             n == Min({Section.size - nbytes, LOADBUFSIZE})
  <1>1. PICK f \in Fetches(Section.pos + nbytes + l, n - l, TRUE) :
            \/ UNCHANGED memory
            \/ f.ok /\ Section.kind = "load" /\ memory' = Write(Section.addr + nbytes, f.bytes)
    BY DEF CloadSectData
  <1>2. CASE UNCHANGED memory
    BY <1>2, NothingWritten
  <1>3. CASE f.ok /\ Section.kind = "load" /\ memory' = Write(Section.addr + nbytes, f.bytes)
    <2>1. pc = "sections" /\ todo # {} /\ nbytes < Section.size
      BY DEF CloadSectData
    <2>2. /\ LoaderTypes /\ image \in Images /\ dev \in Devices /\ nbytes \in Nat
          /\ image.format = "coff" /\ packet = << >>
          /\ todo \subseteq OfKind("load") \cup OfKind("cinit") /\ LOADBUFSIZE \in Nat
      BY <1>3, <2>1, CoffAssumption DEF LoadersInv, LoaderTypes, Phases, CoffSteps
    <2>3. Section \in Parts /\ Current \in OfKind("load") /\ Section = image.parts[Current]
      BY <1>3, <2>1, <2>2, CurrentIs DEF Section
    <2>4. PICK a \in Nat, p \in Nat, z \in Nat : a = Section.addr /\ p = Section.pos /\ z = Section.size
      BY <2>3 DEF Parts
    <2>5. nbytes < z
      BY <2>1, <2>4
    <2>6. n = (IF z - nbytes <= LOADBUFSIZE THEN z - nbytes ELSE LOADBUFSIZE) /\ l = 0
      <3>1. z - nbytes \in Int
        BY <2>2, <2>4
      <3>2. l = 0
        BY <2>2
      <3>3. n = Min({z - nbytes, LOADBUFSIZE})
        BY <2>4
      <3> QED
        BY <2>2, <3>1, <3>2, <3>3, LesserOf
    <2> HIDE DEF n, l
    <2>7. n \in Nat /\ n - l = n /\ nbytes + n <= z /\ p + nbytes + l \in Nat
      BY <2>2, <2>5, <2>6
    <2>8. PICK q \in Nat : q = Section.pos + nbytes + l
      BY <2>4, <2>7
    <2>9. f.bytes \in Seq(FileUnit) /\ Len(f.bytes) = n
      <3>1. f \in Fetches(q, n, TRUE)
        BY <2>7, <2>8
      <3> QED
        <4>1. image \in Images /\ dev \in Devices /\ n \in Nat /\ f.ok
          BY <1>3, <2>2, <2>7
        <4>2. f.ok => Len(f.bytes) = n
          BY <3>1, <4>1, CheckedFetchIs
        <4>3. f.bytes \in Seq(FileUnit)
          BY <3>1, <4>1, CheckedFetchIs
        <4> QED
          BY <4>1, <4>2, <4>3
    <2>10. a + nbytes \in Int /\ memory' = Write(a + nbytes, f.bytes)
      BY <1>3, <2>2, <2>4
    <2>11. Changed \subseteq (a + nbytes) .. (a + nbytes) + n - 1
      BY <2>2, <2>9, <2>10, ChangedIs
    <2>12. (a + nbytes) .. (a + nbytes) + n - 1 \subseteq a .. a + z - 1
      BY <2>2, <2>7
    <2>13. PartMemory(Section) = a .. a + z - 1
      BY <2>2, <2>3, <2>4, CoffParts
    <2>14. PartMemory(Section) \subseteq Footprint
      BY <1>3, <2>3, OfKindIs, InFootprint
    <2> QED
      BY <2>11, <2>12, <2>13, <2>14
  <1> QED
    BY <1>1, <1>2, <1>3

\* the data of a record to the variable's,
LEMMA CinitDataWrites ==
    ASSUME LoadersInv, CinitData, ~Misled
    PROVE  Changed \subseteq Footprint
  <1>1. PICK n \in Nat, bytes \in Seq(FileUnit) :
            /\ n <= init_size /\ Len(bytes) = n /\ memory' = Write(init_addr, bytes)
    BY CinitDataIs
  <1>2. pc = "cinit" /\ init_size # 0
    BY DEF CinitData
  <1>3. /\ LoaderTypes /\ image \in Images /\ init_addr \in Int /\ init_size \in Nat
        /\ AtRecord /\ RecordsIn(image, Section) \subseteq image.inits \cap Inits
        /\ Position \in Nat
    <2>1. ~leftover
      BY <1>2, CinitIs DEF Misled
    <2>2. LoaderTypes
      BY DEF LoadersInv
    <2>3. Position \in Nat
      <3>1. Position = Section.pos + nbytes + i /\ Section.pos \in Nat /\ nbytes \in Nat /\ i \in Nat
        BY <1>2, CinitIs
      <3> QED
        BY <3>1
    <2> QED
      BY <1>2, <2>1, <2>2, <2>3, CinitIs
  <1>4. PICK r \in RecordsIn(image, Section) :
            /\ r.pos <= Position
            /\ init_addr = r.addr + (Position - r.pos)
            /\ init_size = r.pos + r.size - Position
    BY <1>2, <1>3 DEF AtRecord, Within
  <1>5. PICK a \in Nat, p \in Nat, z \in Nat : a = r.addr /\ p = r.pos /\ z = r.size
    BY <1>3 DEF Inits
  <1>6. /\ p <= Position /\ init_addr = a + (Position - p) /\ init_size = p + z - Position
    BY <1>4, <1>5
  <1>7. init_addr .. init_addr + n - 1 \subseteq a .. a + z - 1
    <2>1. n <= init_size /\ Position \in Nat
      BY <1>1, <1>3
    <2> QED
      BY <1>6, <2>1
  <1>8. InitMemory(r) = a .. a + z - 1 /\ InitMemory(r) \subseteq Footprint
    BY <1>3, <1>5, InFootprint DEF InitMemory
  <1>9. Changed \subseteq init_addr .. init_addr + n - 1
    BY <1>1, <1>3, ChangedIs
  <1> QED
    BY <1>7, <1>8, <1>9

\* and a segment to the segment's.
LEMMA StaticSegmentWrites ==
    ASSUME LoadersInv, LoadStaticSegment
    PROVE  Changed \subseteq Footprint
  <1>1. PICK k : k = Min(segments)
    OBVIOUS
  <1> DEFINE s == image.parts[k]
  <1>2. /\ pc = "segments" /\ segments # {}
        /\ \/ UNCHANGED memory
           \/ /\ s.size > 0
              /\ \E f \in Fetches(s.pos, s.size, FALSE) :
                    memory' = Write(s.addr, SegmentTail(f.bytes, s))
    BY <1>1 DEF LoadStaticSegment, SegmentTail
  <1>3. CASE UNCHANGED memory
    BY <1>3, NothingWritten
  <1>4. ASSUME s.size > 0, NEW f \in Fetches(s.pos, s.size, FALSE),
               memory' = Write(s.addr, SegmentTail(f.bytes, s))
        PROVE  Changed \subseteq Footprint
    <2>1. /\ LoaderTypes /\ image \in Images /\ SizesValid /\ segments \subseteq PtLoad
      BY <1>2 DEF LoadersInv, LoaderTypes, Phases, ElfSteps
    <2>2. k \in PtLoad
      <3>1. segments \subseteq Nat
        BY <2>1, SegmentIs
      <3> QED
        BY <1>1, <1>2, <2>1, <3>1, LeastOf
    <2>3. PICK w \in Seq(FileUnit) : w = SegmentTail(f.bytes, s) /\ Len(w) = s.memsz
      BY <1>1, <1>2, <1>4, StaticSegmentIs
    <2>4. s.addr \in Nat /\ s.kind = "load" /\ k \in DOMAIN image.parts
      BY <2>1, <2>2, SegmentIs
    <2>5. Changed \subseteq s.addr .. s.addr + Len(w) - 1
      BY <1>4, <2>1, <2>3, <2>4, ChangedIs
    <2>6. PartMemory(s) = s.addr .. s.addr + Len(w) - 1
      BY <1>4, <2>3, <2>4 DEF PartMemory
    <2> QED
      BY <2>4, <2>5, <2>6, InFootprint
  <1> QED
    BY <1>2, <1>3, <1>4

-----------------------------------------------------------------------------
(* The theorems.                                                           *)

\* The invariant holds when the program starts
LEMMA LoadersInvInit ==
    ASSUME Init
    PROVE  LoadersInv
  <1> USE DEF Init, FileInit, CoffInit, ElfInit
  <1>1. dev \in Devices /\ << >> \in Seq(FileUnit)
    <2>1. << >> \in Seq(FileUnit)
      OBVIOUS
    <2> QED
      BY <2>1 DEF Closed, Devices
  <1>2. memory \in [0 .. MemoryLen - 1 -> FileUnit]
    BY UnitTypes
  <1>3. LoaderTypes
    <2>1. hidden \in BOOLEAN /\ leftover \in BOOLEAN
      OBVIOUS
    <2>2. /\ image \in Images /\ pc \in {"idle", "returned", "astray"} /\ packet \in Seq(FileUnit)
          /\ init_size \in Nat /\ init_addr \in Int /\ i \in Nat /\ nbytes \in Nat
      BY <1>1
    <2> QED
      BY <1>1, <1>2, <2>1, <2>2 DEF LoaderTypes
  <1>4. Phases
    BY DEF Phases, CoffSteps, ElfSteps
  <1> QED
    BY <1>3, <1>4 DEF LoadersInv, InTable, InSections, Records, SectionsKept, SegmentsKept,
                      EntryMeansLoaded

\* and every step keeps it.
LEMMA LoadersInvNext ==
    ASSUME LoadersInv, [Next]_vars
    PROVE  LoadersInv'
  <1>1. CASE StartLoad /\ UNCHANGED <<coffVars, segments>>
    BY <1>1, StartLoadStep
  <1>2. CASE Retry /\ UNCHANGED <<coffVars, segments>>
    BY <1>2, RetryStep
  <1>3. CASE CoffNext /\ UNCHANGED segments
    BY <1>3, FileHeaderStep, OptHeaderStep, SectHeadersStep, SectDataStep, SectDoneStep,
       CloadDoneStep, CinitRecordStep, CinitDataStep, CinitBufferDoneStep DEF CoffNext
  <1>4. CASE ElfNext /\ UNCHANGED coffVars
    BY <1>4, ElfFileHeaderStep, ProgramHeaderStep, StaticExecutableStep, StaticSegmentStep,
       DloadDoneStep DEF ElfNext
  <1>5. CASE UNCHANGED vars
    <2>1. UNCHANGED <<image, dev, memory, pc, entry, loaded, hidden, attempts, entry_point,
                      init_size, init_addr, todo, nbytes, packet, i, leftover, segments>>
      BY <1>5 DEF vars, fileVars, coffVars
    <2> HIDE DEF LoadersInv
    <2>2. LoaderTypes' /\ Phases'
      BY <2>1 DEF LoadersInv, LoaderTypes, Phases, Section, Current, OfKind, SizesValid, PtLoad
    <2>3. InTable' => Buffered'
      BY <2>1 DEF LoadersInv, InTable, InSections, Buffered, Section, Current
    <2>4. Records'
      BY <2>1 DEF LoadersInv, Records, InTable, InSections, AtRecord, Between, Behind, Within,
                  RecordKept, Kept, Placed, Position, Section, Current
    <2>5. SectionsKept' /\ SegmentsKept' /\ EntryMeansLoaded'
      BY <2>1 DEF LoadersInv, SectionsKept, SegmentsKept, EntryMeansLoaded, Misled, OfKind,
                  RecordKept, Kept, Placed, InPlace, ImageLoaded, LoadedParts, PtLoad,
                  Section, Current
    <2> QED
      BY <2>2, <2>3, <2>4, <2>5 DEF LoadersInv
  <1> QED
    BY <1>1, <1>2, <1>3, <1>4, <1>5 DEF Next

\* LoadersInv holds in every reachable state of the two loaders (cload.c, dload.c),
\* whatever the boot module's reads do.
THEOREM LoadersInvariant == Spec => []LoadersInv
  <1>1. Init => LoadersInv
    BY LoadersInvInit
  <1>2. LoadersInv /\ [Next]_vars => LoadersInv'
    BY LoadersInvNext
  <1> QED
    BY <1>1, <1>2, PTL DEF Spec

\* When a loader returns an entry point, the data of every section and segment
\* and every variable of the initialization tables is in memory, unless a failure
\* of fseek or fread was hidden from it or a record size was left by a failed
\* load: iblMain jumps to a whole image.
THEOREM EntryIsLoadedImage == Spec => []EntryMeansLoaded
  <1>1. LoadersInv => EntryMeansLoaded
    BY DEF LoadersInv
  <1> QED
    BY <1>1, LoadersInvariant, PTL

\* Every step writes only memory of the image.
LEMMA ImageWritten ==
    ASSUME LoadersInv, Next, ~Misled
    PROVE  Changed \subseteq Footprint
  <1>1. CASE UNCHANGED memory
    BY <1>1, NothingWritten
  <1>2. CASE CloadSectData
    BY <1>2, SectDataWrites
  <1>3. CASE CinitData
    BY <1>3, CinitDataWrites
  <1>4. CASE LoadStaticSegment
    BY <1>4, StaticSegmentWrites
  <1>5. ~(CloadSectData \/ CinitData \/ LoadStaticSegment) => UNCHANGED memory
    BY DEF Next, CoffNext, ElfNext, StartLoad, Retry, CloadFileHeader, CloadOptHeader,
           CloadSectHeaders, CloadSectDone, CloadDone, CinitRecord, CinitBufferDone,
           DloadFileHeader, DloadProgramHeaderTable, DloadStaticExecutable, DloadDone, fileVars
  <1> QED
    BY <1>1, <1>2, <1>3, <1>4, <1>5

\* Neither loader writes an address outside its image, unless a record size was
\* left by a failed load or a hidden failure gave it other words for a header,
\* which is not followed (pc = "astray").
THEOREM WritesInImage == Spec => OnlyImageWritten
  <1>1. LoadersInv /\ [Next]_vars => [~Misled => Changed \subseteq Footprint]_vars
    BY ImageWritten
  <1>2. Spec => [][~Misled => Changed \subseteq Footprint]_vars
    BY <1>1, LoadersInvariant, PTL DEF Spec
  <1> QED
    BY <1>2, PTL DEF OnlyImageWritten, Changed
================================================================================
