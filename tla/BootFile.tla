------------------------------- MODULE BootFile -------------------------------
(***************************************************************************)
(* What iblloc.h asks of a boot module that stores a file, as far as the   *)
(* flash modules give it: a position, moved by reads and seeks and not by  *)
(* peeks, and the bytes of the file from there.  A byte is named by its    *)
(* position.  "lost" says that the module may be serving something else:   *)
(* only a call that fails, an open, or the end of the medium may bring     *)
(* that about, and until then every call that succeeds keeps the contract. *)
(***************************************************************************)
EXTENDS Integers, Sequences

CONSTANT SeekTargets  \* the positions sought

VARIABLES
    extent,  \* the positions the medium has
    pos,
    lost,
    result   \* of the last call: [op, val, bytes]

fileVars == <<extent, pos, lost, result>>

Bytes(n) == [i \in 1 .. n |-> pos + i - 1]

InExtent(n) == pos .. pos + n - 1 \subseteq extent

FileInit == lost = TRUE /\ result = [op |-> "none", val |-> 0, bytes |-> << >>]

\* A failing call may leave anything behind, but says so.
FileFails == result'.val < 0

FileOpen ==
    /\ result' = [op |-> "open", val |-> 0, bytes |-> << >>]
    /\ pos' = 0

FileRead(n) ==
    /\ result'.op = "read" /\ result'.val = 0 /\ Len(result'.bytes) = n
    /\ pos' = pos + n
    /\ ~lost /\ InExtent(n) =>
           /\ result'.bytes = Bytes(n)
           /\ lost' => pos' \notin extent

FilePeek(n) ==
    /\ result'.op = "peek" /\ result'.val = 0 /\ Len(result'.bytes) = n
    /\ pos' = pos
    /\ ~lost /\ InExtent(n) => result'.bytes = Bytes(n) /\ ~lost'

FileSeek(p) ==
    /\ result' = [op |-> "seek", val |-> 0, bytes |-> << >>]
    /\ pos' = p
    /\ ~lost /\ p \in extent => ~lost'

FileNext ==
    /\ UNCHANGED extent
    /\ \/ FileFails
       \/ FileOpen
       \/ FileRead(Len(result'.bytes)) \/ FilePeek(Len(result'.bytes))
       \/ \E p \in SeekTargets : FileSeek(p)

FileSpec == FileInit /\ [][FileNext]_fileVars
===============================================================================
