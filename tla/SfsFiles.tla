------------------------------ MODULE SfsFiles ------------------------------
(***************************************************************************)
(* What the file system promises its caller (the comments of sfs_api.h):   *)
(* files by name, each a sequence of bytes, and for an open file the       *)
(* position of the next read or write.  There are no blocks, i-nodes or    *)
(* directory slots here.  Any call may be refused: a caller can always     *)
(* name a file or a descriptor that does not exist.                        *)
(***************************************************************************)
EXTENDS Integers, Sequences, FiniteSets

CONSTANTS Name, Byte, MaxFiles, MaxCount, MaxFileSize, Absent

VARIABLES
  content,      \* the bytes of each file, or Absent
  position,     \* where an open file is read or written next; -1: not open
  result        \* outcome of the last call, and the bytes it read

fvars == << content, position, result >>

Success(bytes) == [ok |-> TRUE, data |-> bytes]
Files == {n \in Name : content[n] # Absent}
Buffer == UNION {[1 .. count -> Byte] : count \in 0 .. MaxCount}

Format ==
  /\ content' = [n \in Name |-> Absent]
  /\ position' = [n \in Name |-> -1]
  /\ result' = Success(<< >>)

Init ==
  /\ content = [n \in Name |-> Absent]
  /\ position = [n \in Name |-> -1]
  /\ result = Success(<< >>)

Refuse ==
  /\ result' = [ok |-> FALSE, data |-> << >>]
  /\ UNCHANGED << content, position >>

(* An existing file is opened at its end, a missing one is created empty.  *)
Open(n) ==
  /\ n \in Files \/ Cardinality(Files) < MaxFiles
  /\ result' = Success(<< >>)
  /\ content' = [content EXCEPT ![n] = IF n \in Files THEN @ ELSE << >>]
  /\ position' = [position EXCEPT ![n] = Len(content'[n])]

Close(n) ==
  /\ position[n] >= 0
  /\ position' = [position EXCEPT ![n] = -1]
  /\ result' = Success(<< >>)
  /\ UNCHANGED content

Seek(n) ==
  /\ position[n] >= 0
  /\ \E location \in 0 .. Len(content[n]) :
       position' = [position EXCEPT ![n] = location]
  /\ result' = Success(<< >>)
  /\ UNCHANGED content

(* As many of the next count bytes as there are.                           *)
Read(n) ==
  /\ position[n] >= 0
  /\ \E count \in 0 .. MaxCount :
       LET to == IF position[n] + count < Len(content[n])
                 THEN position[n] + count ELSE Len(content[n])
       IN  /\ position' = [position EXCEPT ![n] = to]
           /\ result' = Success(SubSeq(content[n], position[n] + 1, to))
  /\ UNCHANGED content

(* The file with buf laid over it at its position.                         *)
Overlay(n, buf) ==
  LET from == position[n]
      end == from + Len(buf)
  IN  SubSeq(content[n], 1, from) \o buf
        \o SubSeq(content[n], end + 1, Len(content[n]))

(* A write leaves the position at the end of the file.                     *)
Write(n) ==
  /\ position[n] >= 0
  /\ result' = Success(<< >>)
  /\ \E buf \in Buffer :
       /\ Len(Overlay(n, buf)) <= MaxFileSize
       /\ position' = [position EXCEPT ![n] = Len(Overlay(n, buf))]
       /\ content' = [content EXCEPT ![n] = Overlay(n, buf)]

(* A write that fails has overwritten the part of the file it covers, and  *)
(* the file has not grown.                                                 *)
WriteFails(n) ==
  /\ position[n] >= 0
  /\ result' = [ok |-> FALSE, data |-> << >>]
  /\ position' = [position EXCEPT ![n] = Len(content[n])]
  /\ \E buf \in Buffer :
       content' = [content EXCEPT
                     ![n] = SubSeq(Overlay(n, buf), 1, Len(content[n]))]

Remove(n) ==
  /\ n \in Files
  /\ result' = Success(<< >>)
  /\ position' = [position EXCEPT ![n] = -1]
  /\ content' = [content EXCEPT ![n] = Absent]

(* The volume is mounted again: every file is there, none is open.         *)
Mount ==
  /\ position' = [n \in Name |-> -1]
  /\ result' = Success(<< >>)
  /\ UNCHANGED content

Next ==
  \/ \E n \in Name :
       \/ Open(n) \/ Close(n) \/ Seek(n) \/ Read(n)
       \/ Write(n) \/ WriteFails(n) \/ Remove(n)
  \/ Refuse \/ Format \/ Mount

Spec == Init /\ [][Next]_fvars

=============================================================================
