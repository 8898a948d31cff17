------------------------------ MODULE SfsFuse ------------------------------
(***************************************************************************)
(* The FUSE handlers of fuse_wrap_new.c and fuse_wrap_old.c on top of the  *)
(* file system of Sfs.  A handler is a sequence of sfs calls; every call   *)
(* finishes, with all its block writes, before the handler goes on, and    *)
(* the process may die anywhere in between and mount the disk again        *)
(* (fuse_wrap_old.c, which calls mksfs(0); fuse_wrap_new.c formats it).    *)
(*                                                                         *)
(* One handler runs at a time, as with FUSE's option -s: sfs_api.c has no  *)
(* lock.  fuse_access and fuse_mknod do nothing and are left out.          *)
(***************************************************************************)
EXTENDS Sfs

VARIABLES
  request,      \* the request whose handler runs, as in SfsPaths
  at,           \* the last sfs call the handler has made
  fd,           \* the handler's local variable
  before,       \* what its path held when it began (history)
  reply         \* what the kernel is told; Done again when the next request
                \* comes

handler == << request, at, fd, before >>
fuseVars == << vars, handler, reply >>

NoRequest == [op |-> "none"]
Done == [ok |-> TRUE, data |-> << >>, size |-> 0]

FuseInit ==
  /\ Init
  /\ request = NoRequest
  /\ at = "none" /\ fd = -1 /\ before = Absent
  /\ reply = Done

-----------------------------------------------------------------------------
(* The two sfs calls that only the handlers make.                          *)

(* What sfs_getfilesize returns, -1 for a missing file.                    *)
sfs_getfilesize(n) == IF SlotsOf(n) = {} THEN -1 ELSE iNodes[Min(SlotsOf(n))].size

UsedSlots == {s \in Slot : directoryEntries[s] # Empty}

(* The search starts at slot 0 in every call; the directory is saved       *)
(* whatever it finds.  The slot found is the value returned: 0 for slot 0, *)
(* as for no file at all.                                                  *)
sfs_getnextfilename ==
  /\ Idle
  /\ pending' = << DirectoryWrite(directoryEntries) >>
  /\ call' = [op |-> "sfs_getnextfilename", fd |-> -1]
  /\ result' = Success
  /\ UNCHANGED << memory, disk, interrupted >>

MoreNames == UsedSlots # {} /\ Min(UsedSlots) # 0

-----------------------------------------------------------------------------
(* How handlers begin, go on and return.                                   *)

Begin(r) ==
  /\ request = NoRequest /\ Idle
  /\ request' = r
  /\ reply' = Done

BeginOn(r) ==
  /\ Begin(r)
  /\ before' = IF Exists(r.path) THEN Content(SlotOf(r.path)) ELSE Absent

(* The value sfs_fopen(n) returns.                                         *)
DescriptorOf(n) ==
  IF SlotsOf(n) # {} THEN Min(SlotsOf(n))
  ELSE IF EmptySlots # {} THEN Min(EmptySlots) ELSE -1

OpenPath(n) ==
  /\ sfs_fopen(n)
  /\ fd' = DescriptorOf(n)
  /\ at' = "fopen"

Return(answer) ==
  /\ reply' = answer
  /\ request' = NoRequest
  /\ at' = "none" /\ fd' = -1 /\ before' = Absent

Serving(op, last) ==
  /\ request.op = op /\ at = last
  /\ Idle

(* return -errno, which the sfs calls do not set.  fuse_create and         *)
(* fuse_truncate do not look at what sfs_fopen returned.                   *)
HandlerFails ==
  /\ request.op \notin {"none", "create", "readdir"}
  /\ ~(request.op = "truncate" /\ at = "fopen")
  /\ Idle /\ ~result.ok
  /\ \E ok \in BOOLEAN : Return([Done EXCEPT !.ok = ok])
  /\ UNCHANGED vars

Closes(answer) == sfs_fclose(fd) /\ Return(answer)

(* sfs_fclose(-1) is refused; 0 is returned all the same.                  *)
ClosesWhatever == IF result.ok THEN Closes(Done) ELSE Refuse /\ Return(Done)

-----------------------------------------------------------------------------
(* The handlers.                                                           *)

fuse_getattr(n) ==
  /\ request = NoRequest /\ Idle
  /\ reply' = IF sfs_getfilesize(n) = -1 THEN [Done EXCEPT !.ok = FALSE]
              ELSE [Done EXCEPT !.size = sfs_getfilesize(n)]
  /\ UNCHANGED << vars, handler >>

(* file_name is not initialised: when it happens to start with a zero byte *)
(* every call is refused with -1, which the loop takes for a name.         *)
fuse_readdir ==
  \/ /\ Begin([op |-> "readdir"])
     /\ sfs_getnextfilename \/ Refuse
     /\ at' = "getnextfilename" /\ UNCHANGED << fd, before >>
  \/ /\ Serving("readdir", "getnextfilename")
     /\ \/ result.ok /\ MoreNames /\ sfs_getnextfilename
        \/ ~result.ok /\ Refuse
     /\ UNCHANGED << handler, reply >>
  \/ /\ Serving("readdir", "getnextfilename") /\ result.ok /\ ~MoreNames
     /\ Return(Done)
     /\ UNCHANGED vars

fuse_unlink ==
  \/ \E n \in Name :
       /\ BeginOn([op |-> "unlink", path |-> n])
       /\ sfs_remove(n)
       /\ at' = "remove" /\ UNCHANGED fd
  \/ /\ Serving("unlink", "remove") /\ result.ok
     /\ Return(Done)
     /\ UNCHANGED vars

fuse_open ==
  \/ \E n \in Name : BeginOn([op |-> "open", path |-> n]) /\ OpenPath(n)
  \/ Serving("open", "fopen") /\ result.ok /\ Closes(Done)

fuse_create ==
  \/ \E n \in Name : BeginOn([op |-> "create", path |-> n]) /\ OpenPath(n)
  \/ Serving("create", "fopen") /\ ClosesWhatever

(* The size asked for is not looked at.                                    *)
fuse_truncate ==
  \/ \E n \in Name :
       /\ BeginOn([op |-> "truncate", path |-> n])
       /\ sfs_remove(n)
       /\ at' = "remove" /\ UNCHANGED fd
  \/ /\ Serving("truncate", "remove") /\ result.ok
     /\ OpenPath(request.path)
     /\ UNCHANGED << request, before, reply >>
  \/ Serving("truncate", "fopen") /\ ClosesWhatever

(* Slip: the offset is not looked at.                                      *)
SeekOffset_NotCalled(op) ==
  /\ Serving(op, "fopen") /\ result.ok
  /\ at' = "fseek"
  /\ UNCHANGED << vars, request, fd, before, reply >>

(* sfs_fseek to the offset; when it or a later call fails the handler      *)
(* returns with the descriptor open.                                       *)
SeekOffset(op) ==
  /\ Serving(op, "fopen") /\ result.ok
  /\ sfs_fseek(fd, request.offset)
  /\ at' = "fseek"
  /\ UNCHANGED << request, fd, before, reply >>

Transfer ==
  /\ at' = "transfer"
  /\ UNCHANGED << request, fd, before, reply >>

fuse_read ==
  \/ \E n \in Name, offset \in 0 .. MaxFileSize, count \in 0 .. MaxCount :
       /\ BeginOn([op |-> "read", path |-> n, offset |-> offset, count |-> count])
       /\ OpenPath(n)
  \/ SeekOffset("read")
  \/ /\ Serving("read", "fseek") /\ result.ok
     /\ sfs_fread(fd, request.count) /\ Transfer
  \/ /\ Serving("read", "transfer") /\ result.ok
     /\ Closes([Done EXCEPT !.data = result.data])

fuse_write ==
  \/ \E n \in Name, offset \in 0 .. MaxFileSize, buf \in Buffer :
       /\ BeginOn([op |-> "write", path |-> n, offset |-> offset, buf |-> buf])
       /\ OpenPath(n)
  \/ SeekOffset("write")
  \/ /\ Serving("write", "fseek") /\ result.ok
     /\ sfs_fwrite(fd, request.buf) /\ Transfer
  \/ /\ Serving("write", "transfer") /\ result.ok
     /\ Closes(Done)

-----------------------------------------------------------------------------
Handlers ==
  \/ \E n \in Name : fuse_getattr(n)
  \/ fuse_readdir \/ fuse_unlink \/ fuse_open \/ fuse_create
  \/ fuse_truncate \/ fuse_read \/ fuse_write \/ HandlerFails

(* The block writes of the call the handler is in.                         *)
InsideCall == (WriteLoop \/ Flush) /\ UNCHANGED << handler, reply >>

(* The process dies; no reply reaches the kernel.                          *)
FuseRestart ==
  /\ Restart
  /\ request' = NoRequest
  /\ at' = "none" /\ fd' = -1 /\ before' = Absent
  /\ UNCHANGED reply

FuseNext == Handlers \/ InsideCall \/ FuseRestart

FuseSpec == FuseInit /\ [][FuseNext]_fuseVars

-----------------------------------------------------------------------------
(* Properties.                                                             *)

(* Every handler is one operation on the file at its path, whatever        *)
(* descriptors and positions earlier handlers left behind: it changes no   *)
(* other file and answers from the files alone; and a restart in the       *)
(* middle of it leaves its file in one of few states and no other file     *)
(* touched.                                                                *)
Paths == INSTANCE SfsPaths WITH
  MaxFiles <- TOTAL_FILES,
  content <- [n \in Name |->
    IF request.op \notin {"none", "readdir"} /\ request.path = n THEN before
    ELSE IF Exists(n) THEN Content(SlotOf(n)) ELSE Absent]

AbstractPaths == Paths!Spec

=============================================================================
