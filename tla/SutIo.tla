------------------------------- MODULE SutIo -------------------------------
(***************************************************************************)
(* The I/O calls of sut.c with their arguments and results.  They travel   *)
(* between a task and I-EXEC through fields of the task's queue entry: the *)
(* call stores its arguments there, I-EXEC reads them when it serves the   *)
(* request, and the call returns what I-EXEC left.  Every step here is a   *)
(* step of SutScheduler that also moves these fields.                      *)
(*                                                                         *)
(* The bytes read and written are left out: of the pointer that sut_read   *)
(* returns only whether it is NULL.  The descriptor table of the process   *)
(* and its system calls are external.  Tasks use the descriptors as        *)
(* test3.c to test5.c do: they read, write and close what their own        *)
(* sut_open returned, when that is not negative.                           *)
(***************************************************************************)
EXTENDS SutScheduler, FiniteSetsExt

CONSTANT LastDescriptor      \* bound: the descriptors are 0 .. LastDescriptor

Descriptor == 0 .. LastDescriptor
ASSUME IoAssumption ==
  /\ LastDescriptor \in Nat
  /\ Request = {"OPEN_OP", "READ_OP", "WRITE_OP", "CLOSE_OP"}

VARIABLES
  openFile,     \* returnVal, one per entry, as the next four
  readFile, writeFile, closeFile,       \* fd
  returnVal,    \* that of readFile: whether it is not NULL
  fdTable,      \* the open descriptors of the process
  fd, text,     \* the task's variables that the results of sut_open and of
                \* sut_read are assigned to (text: whether it is not NULL)
  asked,        \* the I/O call a task is in, with its argument
  served,       \* what I-EXEC called for a task that is in a call, and what
  gave          \* that system call returned (history)

fields == << openFile, readFile, writeFile, closeFile, returnVal >>
results == << fd, text >>
history == << served, gave >>
ioVars == << fields, fdTable, results, asked, history >>
allVars == << vars, ioVars >>

NoCall == [op |-> NO_IO_OP_REQUESTED, fd |-> -1]

(* malloc leaves the fields of an entry with any value: here, as a bound,  *)
(* all zeros or all ones.  Descriptor 0 is the standard input.             *)
IoInit ==
  /\ Init
  /\ \E garbage \in {0, -1} :
       /\ openFile = [t \in Task |-> garbage]
       /\ readFile = [t \in Task |-> garbage]
       /\ writeFile = [t \in Task |-> garbage]
       /\ closeFile = [t \in Task |-> garbage]
       /\ returnVal = [t \in Task |-> garbage # 0]
  /\ fdTable = {0}
  /\ fd = [t \in Task |-> -1]
  /\ text = [t \in Task |-> FALSE]
  /\ asked = [t \in Task |-> NoCall]
  /\ served = [t \in Task |-> NoCall]
  /\ gave = [t \in Task |-> 0]

-----------------------------------------------------------------------------
(* The calls.  The task that runs is taskAtFrontOfReadyQueue; the entry it *)
(* writes to is the one cexecCurrentRunningTask names.                     *)

self == taskAtFrontOfReadyQueue
Ask(op, d) ==
  /\ asked' = [asked EXCEPT ![self] = [op |-> op, fd |-> d]]
  /\ UNCHANGED << openFile, closeFile, returnVal, fdTable, text, history >>

sut_open ==
  /\ RequestIo("OPEN_OP")
  /\ fd[self] < 0
  /\ Ask("OPEN_OP", -1)
  /\ UNCHANGED << readFile, writeFile, fd >>

(* Slip: the descriptor is stored in the fields of sut_write.              *)
sut_read_WrongField ==
  /\ RequestIo("READ_OP")
  /\ fd[self] >= 0
  /\ writeFile' = [writeFile EXCEPT ![cexecCurrentRunningTask] = fd[self]]
  /\ Ask("READ_OP", fd[self])
  /\ UNCHANGED << readFile, fd >>

sut_read ==
  /\ RequestIo("READ_OP")
  /\ fd[self] >= 0
  /\ readFile' = [readFile EXCEPT ![cexecCurrentRunningTask] = fd[self]]
  /\ Ask("READ_OP", fd[self])
  /\ UNCHANGED << writeFile, fd >>

sut_write ==
  /\ RequestIo("WRITE_OP")
  /\ fd[self] >= 0
  /\ writeFile' = [writeFile EXCEPT ![cexecCurrentRunningTask] = fd[self]]
  /\ Ask("WRITE_OP", fd[self])
  /\ UNCHANGED << readFile, fd >>

(* The descriptor goes to writeFile, I-EXEC looks for it in closeFile.     *)
sut_close ==
  /\ RequestIo("CLOSE_OP")
  /\ fd[self] >= 0
  /\ writeFile' = [writeFile EXCEPT ![cexecCurrentRunningTask] = fd[self]]
  /\ fd' = [fd EXCEPT ![self] = -1]
  /\ Ask("CLOSE_OP", fd[self])
  /\ UNCHANGED readFile

(* The swap into a task: an I/O call it was in returns; sut_open and       *)
(* sut_read return a field of the entry cexecCurrentRunningTask names.     *)
Resume ==
  /\ CexecPop
  /\ asked' = [asked EXCEPT ![self] = NoCall]
  /\ fd' = IF asked[self].op = "OPEN_OP"
           THEN [fd EXCEPT ![self] = openFile[cexecCurrentRunningTask]]
           ELSE fd
  /\ text' = IF asked[self].op = "READ_OP"
             THEN [text EXCEPT ![self] = returnVal[cexecCurrentRunningTask]]
             ELSE text
  /\ served' = [served EXCEPT ![self] = NoCall]
  /\ gave' = [gave EXCEPT ![self] = 0]
  /\ UNCHANGED << fields, fdTable >>

-----------------------------------------------------------------------------
(* I-EXEC serves the request of the entry it popped.                       *)

served_entry == taskAtFrontOfWaitQueue
Serve(op, d, outcome) ==
  /\ IexecService
  /\ ioOperationType[served_entry] = op
  /\ served' = [served EXCEPT ![served_entry] = [op |-> op, fd |-> d]]
  /\ gave' = [gave EXCEPT ![served_entry] = outcome]
  /\ UNCHANGED << readFile, writeFile, closeFile, results, asked >>

(* Slip: the result goes to the task that computes.                        *)
ServeOpen_WrongTask ==
  LET d == Min(Descriptor \ fdTable)
  IN  /\ Descriptor \ fdTable # {}
      /\ Serve("OPEN_OP", -1, d)
      /\ fdTable' = fdTable \cup {d}
      /\ openFile' = [openFile EXCEPT ![cexecCurrentRunningTask] = d]
      /\ UNCHANGED returnVal

ServeOpen ==
  LET d == Min(Descriptor \ fdTable)
  IN  /\ Descriptor \ fdTable # {}
      /\ Serve("OPEN_OP", -1, d)
      /\ fdTable' = fdTable \cup {d}
      /\ openFile' = [openFile EXCEPT ![served_entry] = d]
      /\ UNCHANGED returnVal

(* open returns -1, for any reason; openFile.returnVal is left as it is.   *)
ServeOpenFails ==
  /\ Serve("OPEN_OP", -1, -1)
  /\ UNCHANGED << openFile, returnVal, fdTable >>

(* Slip: as for an open, a failure leaves the result as it was.            *)
ServeRead_KeepsReturnVal ==
  /\ \E outcome \in {0, -1} :
       /\ Serve("READ_OP", readFile[served_entry], outcome)
       /\ outcome = 0 => readFile[served_entry] \in fdTable
       /\ returnVal' = [returnVal EXCEPT ![served_entry] = @ \/ outcome = 0]
  /\ UNCHANGED << openFile, fdTable >>

(* read fails on a descriptor that is not open, and may on any other; 0    *)
(* stands for any number of bytes read.                                    *)
ServeRead ==
  /\ \E outcome \in {0, -1} :
       /\ Serve("READ_OP", readFile[served_entry], outcome)
       /\ outcome = 0 => readFile[served_entry] \in fdTable
       /\ returnVal' = [returnVal EXCEPT ![served_entry] = outcome = 0]
  /\ UNCHANGED << openFile, fdTable >>

(* What write and close return decides nothing.                            *)
ServeWrite ==
  /\ Serve("WRITE_OP", writeFile[served_entry], 0)
  /\ UNCHANGED << openFile, returnVal, fdTable >>

ServeClose ==
  /\ Serve("CLOSE_OP", closeFile[served_entry], 0)
  /\ fdTable' = fdTable \ {closeFile[served_entry]}
  /\ UNCHANGED << openFile, returnVal >>

-----------------------------------------------------------------------------
(* The steps of SutScheduler that touch none of this.                      *)
Elsewhere ==
  /\ \/ Main \/ Terminated
     \/ CexecPeek \/ CexecClaim \/ CexecRequeue \/ CexecReset
     \/ CexecIdlePeek \/ CexecExit \/ CexecStay
     \/ IexecPeek \/ IexecClaim \/ IexecPop \/ IexecRequeue \/ IexecReset
     \/ IexecIdlePeek \/ IexecExit \/ IexecStay
     \/ sut_yield \/ sut_exit \/ \E t \in Task : TaskCreate(t)
  /\ UNCHANGED ioVars

IoNext ==
  \/ sut_open \/ sut_read \/ sut_write \/ sut_close \/ Resume
  \/ ServeOpen \/ ServeOpenFails \/ ServeRead \/ ServeWrite \/ ServeClose
  \/ Elsewhere

IoSpec == IoInit /\ [][IoNext]_allVars

-----------------------------------------------------------------------------
(* Properties.                                                             *)

(* The step of sut_read or sut_write and the system call made for it are   *)
(* on two threads and several steps apart: the call is made once, with the *)
(* operation and the descriptor of that task's own request.                *)
RequestServedAsAsked ==
  iexecPc = "requeue" /\ asked[served_entry].op \in {"READ_OP", "WRITE_OP"}
    => served[served_entry] = asked[served_entry]

(* sut_open returns to a task the descriptor that open gave for its own    *)
(* request, whatever the other tasks asked for meanwhile.                  *)
OpenReturnsItsDescriptor ==
  [][\A t \in Task :
       asked[t].op = "OPEN_OP" /\ asked'[t] = NoCall /\ gave[t] >= 0
         => served[t].op = "OPEN_OP" /\ fd'[t] = gave[t]]_allVars

(* sut_read returns NULL to a task exactly when the read for its own       *)
(* request failed, which test5.c:46-51 tests, whatever an earlier read of  *)
(* the task or of another one left behind.                                 *)
ReadReturnsItsOutcome ==
  [][\A t \in Task :
       asked[t].op = "READ_OP" /\ asked'[t] = NoCall
         => served[t].op = "READ_OP" /\ text'[t] = (gave[t] >= 0)]_allVars

=============================================================================
