----------------------------- MODULE FileStore ------------------------------
(***************************************************************************)
(* What fs/operations.h promises of TecnicoFS to its callers: named files  *)
(* of at most BlockSize bytes, and handles that read and write one file    *)
(* from an offset of their own.  Inodes, blocks, the directory and their   *)
(* limits are hidden: an operation that needs one of them may fail.        *)
(***************************************************************************)
EXTENDS Integers, Sequences

CONSTANTS Names,         \* path names
          Bytes,         \* the bytes a file holds
          MaxOpenFiles,  \* number of handles
          BlockSize,     \* maximum size of a file
          Modes,         \* sets of the flags "CREAT", "TRUNC", "APPEND"
          MaxLen         \* largest buffer of a read or write

VARIABLES files,  \* the contents of each file that exists
          desc,   \* the file and offset of each open handle
          ret     \* what the last operation returned

vars == <<files, desc, ret>>

Handles == 0 .. MaxOpenFiles - 1
Returns(code) == ret' = [code |-> code, data |-> <<>>]

\* f with the value v at x, which is new or not.
Put(f, x, v) == [y \in DOMAIN f \cup {x} |-> IF y = x THEN v ELSE f[y]]
Drop(f, x)   == [y \in DOMAIN f \ {x} |-> f[y]]

Init == /\ files = [n \in {} |-> <<>>] /\ desc = [h \in {} |-> 0]
        /\ ret = [code |-> 0, data |-> <<>>]

\* The last step of opening a file whose contents are now in files'.
TakeHandle(name, offset) ==
    \/ /\ DOMAIN desc = Handles
       /\ Returns(-1)
       /\ UNCHANGED desc
    \/ \E h \in Handles \ DOMAIN desc :
         /\ desc' = Put(desc, h, [name |-> name, offset |-> offset])
         /\ Returns(h)

OpenExisting(name, mode) ==
    /\ name \in DOMAIN files
    /\ files' = IF "TRUNC" \in mode THEN Put(files, name, <<>>) ELSE files
    /\ TakeHandle(name, IF "APPEND" \in mode THEN Len(files'[name]) ELSE 0)

OpenNew(name, mode) ==
    /\ name \notin DOMAIN files /\ "CREAT" \in mode
    /\ files' = Put(files, name, <<>>)
    /\ TakeHandle(name, 0)

Close(h) ==
    /\ h \in DOMAIN desc
    /\ desc' = Drop(desc, h)
    /\ Returns(0)
    /\ UNCHANGED files

Overwritten(content, offset, buffer) ==
    [i \in 1 .. (IF offset + Len(buffer) > Len(content)
                 THEN offset + Len(buffer) ELSE Len(content)) |->
        IF i \in offset + 1 .. offset + Len(buffer) THEN buffer[i - offset]
        ELSE content[i]]

\* As much of the buffer as the file has room for.
Write(h, buffer) ==
    /\ h \in DOMAIN desc
    /\ LET room    == BlockSize - desc[h].offset
           written == IF Len(buffer) > room THEN room ELSE Len(buffer)
       IN  /\ files' = Put(files, desc[h].name, Overwritten(
                  files[desc[h].name], desc[h].offset,
                  SubSeq(buffer, 1, written)))
           /\ desc' = [desc EXCEPT ![h].offset = @ + written]
           /\ Returns(written)

\* As much as is asked for and the file holds beyond the offset.
Read(h, len) ==
    /\ h \in DOMAIN desc
    /\ LET content == files[desc[h].name]
           left    == Len(content) - desc[h].offset
           read    == IF left > len THEN len ELSE left
       IN  /\ ret' = [code |-> read,
                      data |-> SubSeq(content, desc[h].offset + 1,
                                      desc[h].offset + read)]
           /\ desc' = [desc EXCEPT ![h].offset = @ + read]
    /\ UNCHANGED files

Unlink(name) ==
    /\ name \in DOMAIN files
    /\ files' = Drop(files, name)
    /\ Returns(0)
    /\ UNCHANGED desc

\* Any operation may refuse and change nothing: bad arguments, no resources.
Refuse == Returns(-1) /\ UNCHANGED <<files, desc>>

Next ==
    \/ \E n \in Names, m \in Modes : OpenExisting(n, m) \/ OpenNew(n, m)
    \/ \E h \in Handles :
         \/ Close(h)
         \/ \E len \in 0 .. MaxLen :
              Read(h, len) \/ \E b \in [1 .. len -> Bytes] : Write(h, b)
    \/ \E n \in Names : Unlink(n)
    \/ Refuse

Spec == Init /\ [][Next]_vars
=============================================================================
