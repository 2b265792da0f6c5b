---------------------------------- MODULE Elf ----------------------------------
(***************************************************************************)
(* The ELF loader, interp/elf/dload.c with the client routines of          *)
(* dlw_client.c.  ewrap.h defines dload_dynamic_segment as TRUE, so every  *)
(* file is loaded as a static executable.  No result of a seek or a read   *)
(* is looked at.  One step is one of DLOAD_load's, or one segment.         *)
(***************************************************************************)
EXTENDS LoaderFile, FiniteSetsExt

VARIABLE segments  \* loaded_segments yet to load, by their numbers

ElfInit == segments = {}

EhdrPos == 0

\* The file is read from where it was opened.  The test of the magic number
\* compares a negation and never fails; machine and type are checked.
DloadFileHeader ==
    /\ pc = "elf"
    /\ \E r \in Reads(dev, 1) : dev' = r
    /\ Hide(~dev'.ok)
    /\ ReadAs(EhdrPos, 1, IF image.accepted THEN Goes("phdr") ELSE Returns(entry, FALSE),
              Returns(entry, FALSE))
    /\ UNCHANGED <<image, memory, attempts, segments>>

\* A variant that loads every segment, whatever its type.
PtLoadAll == DOMAIN image.parts

\* initialize_loaded_module: the PT_LOAD segments.
PtLoad == {k \in DOMAIN image.parts : image.parts[k].kind = "load"}

\* is_valid_elf_object_file: ftell is a constant no offset exceeds.
SizesValid == \A k \in PtLoad : image.parts[k].size <= image.parts[k].memsz

DloadProgramHeaderTable ==
    /\ pc = "phdr"
    /\ \E f \in Fetches(image.phoff, Len(image.parts), FALSE) : dev' = f
    /\ Hide(~dev'.sought \/ ~dev'.ok)
    /\ ReadAs(image.phoff, Len(image.parts), Goes("validate"), Returns(entry, FALSE))
    /\ UNCHANGED <<image, memory, attempts, segments>>

\* The seek to the end; then the entry point is set, before anything is loaded.
DloadStaticExecutable ==
    /\ pc = "validate"
    /\ \E s \in Seeks(dev, image.end) : dev' = s
    /\ Hide(~dev'.sought)
    /\ \/ ~SizesValid /\ Returns(entry, FALSE) /\ UNCHANGED segments
       \/ /\ SizesValid
          /\ entry' = image.entry
          /\ segments' = PtLoad
          /\ pc' = "segments" /\ UNCHANGED loaded
    /\ UNCHANGED <<image, memory, attempts>>

\* load_static_segment and DLIF_allocate, in the order of the table: a segment
\* with data is cleared and read in place; one without is left alone.
LoadStaticSegment ==
    /\ pc = "segments" /\ segments # {}
    /\ segments' = segments \ {Min(segments)}
    /\ LET s == image.parts[Min(segments)] IN
       \/ s.size = 0 /\ UNCHANGED <<dev, memory, hidden>>
       \/ /\ s.size > 0
          /\ \E f \in Fetches(s.pos, s.size, FALSE) :
                 /\ dev' = f
                 /\ Hide(~f.sought \/ ~f.ok)
                 /\ memory' = Write(s.addr,
                        f.bytes \o [k \in 1 .. s.memsz - Len(f.bytes) |-> Zero])
    /\ UNCHANGED <<image, pc, entry, loaded, attempts>>

DloadDone ==
    /\ pc = "segments" /\ segments = {}
    /\ Returns(entry, TRUE)
    /\ UNCHANGED <<image, dev, memory, hidden, attempts, segments>>

ElfNext ==
    \/ DloadFileHeader \/ DloadProgramHeaderTable \/ DloadStaticExecutable
    \/ LoadStaticSegment \/ DloadDone
===============================================================================
