------------------------------ MODULE SfsPaths ------------------------------
(***************************************************************************)
(* What a mounted file system does for the kernel, one request at a time:  *)
(* files by path, each a sequence of bytes.  A request takes effect at     *)
(* once when its handler returns, and depends on nothing but the files:    *)
(* there are no descriptors and no positions here.                         *)
(*                                                                         *)
(* It is the promise the handlers really keep: opening or reading a path   *)
(* that does not exist creates the file, truncating to any size empties    *)
(* it, and a request that fails may be reported as done.                   *)
(***************************************************************************)
EXTENDS Integers, Sequences, FiniteSets

CONSTANTS Name, Byte, MaxFiles, MaxCount, MaxFileSize, Absent

VARIABLES
  content,      \* the bytes of each file, or Absent
  request,      \* the request being served
  reply         \* what the kernel is told; Done again when the next request
                \* comes

pvars == << content, request, reply >>

NoRequest == [op |-> "none"]
Done == [ok |-> TRUE, data |-> << >>, size |-> 0]

Files == {n \in Name : content[n] # Absent}
Buffer == UNION {[1 .. count -> Byte] : count \in 0 .. MaxCount}
Offset == 0 .. MaxFileSize

Request ==
  [op : {"unlink", "open", "create", "truncate"}, path : Name]
    \cup [op : {"read"}, path : Name, offset : Offset, count : 0 .. MaxCount]
    \cup [op : {"write"}, path : Name, offset : Offset, buf : Buffer]
    \cup [op : {"readdir"}]

Init ==
  /\ content = [n \in Name |-> Absent]
  /\ request = NoRequest
  /\ reply = Done

Begin ==
  /\ request = NoRequest
  /\ request' \in Request
  /\ reply' = Done
  /\ UNCHANGED content

(* The request ends, with file as its path's content and this reply.       *)
End(file, answer) ==
  /\ request' = NoRequest
  /\ reply' = answer
  /\ content' = [content EXCEPT ![request.path] = file]

(* errno is whatever an earlier library call left: -errno may be zero.     *)
EndFailed(file) ==
  \E ok \in BOOLEAN : End(file, [Done EXCEPT !.ok = ok])

There == request.path \in Files
File == content[request.path]
Creatable == Cardinality(Files) < MaxFiles

(* The file once sfs_fopen has been called on the path.                    *)
Opened == IF There THEN File ELSE IF Creatable THEN << >> ELSE Absent

Unlink ==
  /\ request.op = "unlink"
  /\ \/ There /\ End(Absent, Done)
     \/ ~There /\ EndFailed(File)

Truncate ==
  /\ request.op = "truncate"
  /\ \/ There /\ End(<< >>, Done)
     \/ ~There /\ EndFailed(File)

Open ==
  /\ request.op = "open"
  /\ \/ Opened # Absent /\ End(Opened, Done)
     \/ Opened = Absent /\ EndFailed(Absent)

(* Reported as done even if there was no room for the file.                *)
Create == request.op = "create" /\ End(Opened, Done)

Within == Opened # Absent /\ request.offset <= Len(Opened)

Read ==
  /\ request.op = "read"
  /\ \/ /\ Within
        /\ LET end == request.offset + request.count
               to == IF end < Len(Opened) THEN end ELSE Len(Opened)
           IN  End(Opened, [Done EXCEPT
                              !.data = SubSeq(Opened, request.offset + 1, to)])
     \/ ~Within /\ EndFailed(Opened)

Overlay ==
  SubSeq(Opened, 1, request.offset) \o request.buf
    \o SubSeq(Opened, request.offset + Len(request.buf) + 1, Len(Opened))

(* A write past the largest size changes the bytes the file already has.   *)
Write ==
  /\ request.op = "write"
  /\ \/ Within /\ Len(Overlay) <= MaxFileSize /\ End(Overlay, Done)
     \/ /\ Within /\ Len(Overlay) > MaxFileSize
        /\ EndFailed(SubSeq(Overlay, 1, Len(Opened)))
     \/ ~Within /\ EndFailed(Opened)

Readdir ==
  /\ request.op = "readdir"
  /\ request' = NoRequest
  /\ reply' = Done
  /\ UNCHANGED content

(* The size of a file, or that there is none: nothing changes on the way.  *)
Getattr ==
  /\ request = NoRequest
  /\ \E n \in Name :
       reply' = IF n \in Files THEN [Done EXCEPT !.size = Len(content[n])]
                ELSE [Done EXCEPT !.ok = FALSE]
  /\ UNCHANGED << content, request >>

(* What a restart may leave of the file that a request is about: as it     *)
(* was, gone or empty when the request removes or creates it, and for a    *)
(* write any number of its first bytes changed, but never a longer file.   *)
Leftover ==
  {File}
    \cup (IF request.op \in {"unlink", "truncate"} THEN {Absent} ELSE {})
    \cup (IF request.op = "truncate" /\ There THEN {<< >>} ELSE {})
    \cup (IF request.op \in {"open", "create", "read", "write"} THEN {Opened} ELSE {})
    \cup (IF request.op = "write" /\ Within
          THEN {SubSeq(SubSeq(Overlay, 1, m)
                         \o SubSeq(Opened, m + 1, Len(Opened)), 1, Len(Opened)) :
                  m \in 0 .. Len(Overlay)}
               \cup (IF Len(Overlay) <= MaxFileSize THEN {Overlay} ELSE {})
          ELSE {})

Crash ==
  /\ request' = NoRequest
  /\ UNCHANGED reply
  /\ \/ request.op \in {"none", "readdir"} /\ UNCHANGED content
     \/ /\ request.op \notin {"none", "readdir"}
        /\ \E file \in Leftover :
             content' = [content EXCEPT ![request.path] = file]

Next ==
  \/ Begin \/ Unlink \/ Truncate \/ Open \/ Create \/ Read \/ Write
  \/ Readdir \/ Getattr \/ Crash

Spec == Init /\ [][Next]_pvars

=============================================================================
