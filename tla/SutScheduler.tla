---------------------------- MODULE SutScheduler ----------------------------
(***************************************************************************)
(* The user-level thread library of sut.c: the main thread, the compute    *)
(* executor C-EXEC (cexecScheduler, and the user tasks it runs on top of   *)
(* itself with swapcontext) and the I/O executor I-EXEC (iexecScheduler).  *)
(*                                                                         *)
(* Granularity.  Everything done between pthread_mutex_lock and            *)
(* pthread_mutex_unlock is one step: every access to a queue holds the     *)
(* lock, and nothing inside blocks.  The stores to the two unprotected     *)
(* "current task" pointers are steps of their own, because the other       *)
(* executor reads them without the lock.  The exit test reads isShutdown,  *)
(* the executor's own pointer and the other's pointer one after the other; *)
(* isShutdown never goes back to false and nobody else writes the          *)
(* executor's own pointer once isShutdown is set, so the test is equal to  *)
(* one step taken when the other's pointer is read.                        *)
(***************************************************************************)
EXTENDS TaskQueue, Naturals, Functions

CONSTANTS
  Task,     \* the task entries sut_create can allocate
  Blank,    \* the entries sut_init mallocs as a first value of the pointers
  Request,  \* I/O operation types a task asks for: OPEN_OP .. CLOSE_OP
  MaxCalls  \* bound: library calls a task makes before it calls sut_exit

NO_IO_OP_REQUESTED == "NO_IO_OP_REQUESTED"

ASSUME TaskAssumption == NULL \notin Task /\ Blank \notin Task /\ Blank # NULL
ASSUME RequestAssumption == NO_IO_OP_REQUESTED \notin Request
ASSUME MaxCallsAssumption == MaxCalls \in Nat

VARIABLES
  taskReadyQueue, waitQueue,         \* the queues, under the lock
  cexecCurrentRunningTask,           \* written by C-EXEC, read by I-EXEC
  iexecCurrentRunningTask,           \* written by I-EXEC, read by C-EXEC
  isShutdown,
  context,                           \* "none": not created, "fn": at the start
                                     \* of its function, "saved": suspended in
                                     \* a library call (stale while it runs)
  isTaskActive, ioOperationType,     \* fields of the task entries
  calls,                             \* calls each task has made (bounded)
  mainPc, cexecPc, iexecPc,          \* where each thread is
  taskAtFrontOfReadyQueue,           \* local of cexecScheduler
  taskAtFrontOfWaitQueue             \* local of iexecScheduler

queueVars == << taskReadyQueue, waitQueue >>
currentVars == << cexecCurrentRunningTask, iexecCurrentRunningTask >>
taskVars == << context, isTaskActive, ioOperationType, calls >>
cexecVars == << cexecPc, taskAtFrontOfReadyQueue >>
iexecVars == << iexecPc, taskAtFrontOfWaitQueue >>
vars == << queueVars, currentVars, isShutdown, taskVars, mainPc, cexecVars,
           iexecVars >>

-----------------------------------------------------------------------------
(***************************************************************************)
(* The state after sut_init has initialised the lock and both queues and   *)
(* before it starts the executors.  The globals are zero-initialised.      *)
(***************************************************************************)
Init ==
  /\ taskReadyQueue = queue_init
  /\ waitQueue = queue_init
  /\ cexecCurrentRunningTask = NULL
  /\ iexecCurrentRunningTask = NULL
  /\ isShutdown = FALSE
  /\ context = [t \in Task |-> "none"]
  /\ isTaskActive = [t \in Task |-> FALSE]
  /\ ioOperationType = [t \in Task |-> NO_IO_OP_REQUESTED]
  /\ calls = [t \in Task |-> 0]
  /\ mainPc = "startCexec"
  /\ cexecPc = "none"
  /\ iexecPc = "none"
  /\ taskAtFrontOfReadyQueue = NULL
  /\ taskAtFrontOfWaitQueue = NULL

-----------------------------------------------------------------------------
(* The main thread: the rest of sut_init, then sut_create any number of    *)
(* times, then sut_shutdown.                                               *)

InitStartCexec ==
  /\ mainPc = "startCexec" /\ mainPc' = "startIexec"
  /\ cexecPc' = "peek"
  /\ UNCHANGED << queueVars, currentVars, isShutdown, taskVars,
                  taskAtFrontOfReadyQueue, iexecVars >>

InitStartIexec ==
  /\ mainPc = "startIexec" /\ mainPc' = "setCexec"
  /\ iexecPc' = "peek"
  /\ UNCHANGED << queueVars, currentVars, isShutdown, taskVars, cexecVars,
                  taskAtFrontOfWaitQueue >>

(* The placeholders are stored when both executors are already running. *)
InitSetCexec ==
  /\ mainPc = "setCexec" /\ mainPc' = "setIexec"
  /\ cexecCurrentRunningTask' = Blank
  /\ UNCHANGED << queueVars, iexecCurrentRunningTask, isShutdown, taskVars,
                  cexecVars, iexecVars >>

InitSetIexec ==
  /\ mainPc = "setIexec" /\ mainPc' = "user"
  /\ iexecCurrentRunningTask' = Blank
  /\ UNCHANGED << queueVars, cexecCurrentRunningTask, isShutdown, taskVars,
                  cexecVars, iexecVars >>

(* Slip: the new task is linked at the head. *)
sut_create_AtHead(t) ==
  /\ context[t] = "none"
  /\ context' = [context EXCEPT ![t] = "fn"]
  /\ isTaskActive' = [isTaskActive EXCEPT ![t] = TRUE]
  /\ ioOperationType' = [ioOperationType EXCEPT ![t] = NO_IO_OP_REQUESTED]
  /\ taskReadyQueue' = queue_insert_head(taskReadyQueue, t)

(* sut_create: a fresh entry, its context at the start of fn, linked at the *)
(* tail of the ready queue.  Called by main and by running tasks.           *)
sut_create(t) ==
  /\ context[t] = "none"
  /\ context' = [context EXCEPT ![t] = "fn"]
  /\ isTaskActive' = [isTaskActive EXCEPT ![t] = TRUE]
  /\ ioOperationType' = [ioOperationType EXCEPT ![t] = NO_IO_OP_REQUESTED]
  /\ taskReadyQueue' = queue_insert_tail(taskReadyQueue, t)

MainCreate(t) ==
  /\ mainPc = "user"
  /\ sut_create(t)
  /\ UNCHANGED << waitQueue, currentVars, isShutdown, calls, mainPc,
                  cexecVars, iexecVars >>

ShutdownRequest ==
  /\ mainPc = "user" /\ mainPc' = "joinCexec"
  /\ isShutdown' = TRUE
  /\ UNCHANGED << queueVars, currentVars, taskVars, cexecVars, iexecVars >>

ShutdownJoinCexec ==
  /\ mainPc = "joinCexec" /\ mainPc' = "joinIexec"
  /\ cexecPc = "exited"
  /\ UNCHANGED << queueVars, currentVars, isShutdown, taskVars, cexecVars,
                  iexecVars >>

(* Once both threads are joined the pointers are freed and sut_shutdown    *)
(* returns.                                                                *)
ShutdownJoinIexec ==
  /\ mainPc = "joinIexec" /\ mainPc' = "done"
  /\ iexecPc = "exited"
  /\ UNCHANGED << queueVars, currentVars, isShutdown, taskVars, cexecVars,
                  iexecVars >>

-----------------------------------------------------------------------------
(* C-EXEC: one round of the loop gives one task one turn.  A definition    *)
(* headed "Slip" is a variant of the next one with a coding slip; no run's *)
(* specification uses it, and a property is worth keeping when the slip    *)
(* breaks it.                                                              *)

(* Slip: the peeked pointer is not tested. *)
CexecPeek_NoNullTest ==
  /\ cexecPc = "peek" /\ cexecPc' = "claim"
  /\ taskAtFrontOfReadyQueue' = queue_peek_front(taskReadyQueue)
  /\ UNCHANGED << queueVars, currentVars, isShutdown, taskVars, mainPc,
                  iexecVars >>

CexecPeek ==
  /\ cexecPc = "peek"
  /\ taskAtFrontOfReadyQueue' = queue_peek_front(taskReadyQueue)
  /\ cexecPc' = IF taskAtFrontOfReadyQueue' # NULL THEN "claim" ELSE "idlePeek"
  /\ UNCHANGED << queueVars, currentVars, isShutdown, taskVars, mainPc,
                  iexecVars >>

CexecClaim ==
  /\ cexecPc = "claim" /\ cexecPc' = "pop"
  /\ cexecCurrentRunningTask' = taskAtFrontOfReadyQueue
  /\ UNCHANGED << queueVars, iexecCurrentRunningTask, isShutdown, taskVars,
                  mainPc, taskAtFrontOfReadyQueue, iexecVars >>

(* Pop, then swapcontext into the task that cexecCurrentRunningTask names. *)
CexecPop ==
  /\ cexecPc = "pop" /\ cexecPc' = "task"
  /\ taskReadyQueue' = queue_pop_head(taskReadyQueue)
  /\ UNCHANGED << waitQueue, currentVars, isShutdown, taskVars, mainPc,
                  taskAtFrontOfReadyQueue, iexecVars >>

(* Slip: a finished task is queued again. *)
CexecRequeue_NoActiveTest ==
  /\ cexecPc = "back" /\ cexecPc' = "reset"
  /\ IF ioOperationType[taskAtFrontOfReadyQueue] # NO_IO_OP_REQUESTED
     THEN /\ waitQueue' = queue_insert_tail(waitQueue, taskAtFrontOfReadyQueue)
          /\ UNCHANGED taskReadyQueue
     ELSE /\ taskReadyQueue' =
               queue_insert_tail(taskReadyQueue, taskAtFrontOfReadyQueue)
          /\ UNCHANGED waitQueue
  /\ UNCHANGED << currentVars, isShutdown, taskVars, mainPc,
                  taskAtFrontOfReadyQueue, iexecVars >>

(* Slip: a task that asked for I/O is left out of both queues. *)
CexecRequeue_DropsIo ==
  /\ cexecPc = "back" /\ cexecPc' = "reset"
  /\ taskReadyQueue' =
       IF /\ isTaskActive[cexecCurrentRunningTask]
          /\ ioOperationType[taskAtFrontOfReadyQueue] = NO_IO_OP_REQUESTED
       THEN queue_insert_tail(taskReadyQueue, taskAtFrontOfReadyQueue)
       ELSE taskReadyQueue
  /\ UNCHANGED << waitQueue, currentVars, isShutdown, taskVars, mainPc,
                  taskAtFrontOfReadyQueue, iexecVars >>

(* Back from the task: isTaskActive is read through the global pointer, the *)
(* entry that is queued again is the local one.                             *)
CexecRequeue ==
  /\ cexecPc = "back" /\ cexecPc' = "reset"
  /\ \/ /\ isTaskActive[cexecCurrentRunningTask]
        /\ ioOperationType[taskAtFrontOfReadyQueue] # NO_IO_OP_REQUESTED
        /\ waitQueue' = queue_insert_tail(waitQueue, taskAtFrontOfReadyQueue)
        /\ UNCHANGED taskReadyQueue
     \/ /\ isTaskActive[cexecCurrentRunningTask]
        /\ ioOperationType[taskAtFrontOfReadyQueue] = NO_IO_OP_REQUESTED
        /\ taskReadyQueue' =
             queue_insert_tail(taskReadyQueue, taskAtFrontOfReadyQueue)
        /\ UNCHANGED waitQueue
     \/ /\ ~isTaskActive[cexecCurrentRunningTask]
        /\ UNCHANGED queueVars
  /\ UNCHANGED << currentVars, isShutdown, taskVars, mainPc,
                  taskAtFrontOfReadyQueue, iexecVars >>

(* Slip: the idle test forgets the ready queue. *)
QueuesSeenEmpty_WaitOnly == queue_peek_front(waitQueue) = NULL

(* The idle branch of both executors looks at both queues under the lock;  *)
(* pc "check" stands for "both were seen empty".                           *)
QueuesSeenEmpty ==
  /\ queue_peek_front(taskReadyQueue) = NULL
  /\ queue_peek_front(waitQueue) = NULL

CexecIdlePeek ==
  /\ cexecPc = "idlePeek"
  /\ cexecPc' = IF QueuesSeenEmpty THEN "check" ELSE "reset"
  /\ UNCHANGED << queueVars, currentVars, isShutdown, taskVars, mainPc,
                  taskAtFrontOfReadyQueue, iexecVars >>

(* The rest of the exit test, read without the lock. *)
MayExit ==
  /\ isShutdown
  /\ cexecCurrentRunningTask = NULL
  /\ iexecCurrentRunningTask = NULL

CexecExit ==
  /\ cexecPc = "check" /\ cexecPc' = "exited"
  /\ MayExit
  /\ UNCHANGED << queueVars, currentVars, isShutdown, taskVars, mainPc,
                  taskAtFrontOfReadyQueue, iexecVars >>

CexecStay ==
  /\ cexecPc = "check" /\ cexecPc' = "reset"
  /\ ~MayExit
  /\ UNCHANGED << queueVars, currentVars, isShutdown, taskVars, mainPc,
                  taskAtFrontOfReadyQueue, iexecVars >>

(* Slip: the global pointer keeps the last task. *)
CexecReset_KeepsPointer ==
  /\ cexecPc = "reset" /\ cexecPc' = "peek"
  /\ UNCHANGED << queueVars, currentVars, isShutdown, taskVars, mainPc,
                  taskAtFrontOfReadyQueue, iexecVars >>

CexecReset ==
  /\ cexecPc = "reset" /\ cexecPc' = "peek"
  /\ cexecCurrentRunningTask' = NULL
  /\ UNCHANGED << queueVars, iexecCurrentRunningTask, isShutdown, taskVars,
                  mainPc, taskAtFrontOfReadyQueue, iexecVars >>

-----------------------------------------------------------------------------
(* A user task runs on C-EXEC.  Its calls act on the entry that            *)
(* cexecCurrentRunningTask names, and swap back into cexecScheduler.       *)

SwapToCexec ==
  /\ cexecPc = "task" /\ cexecPc' = "back"
  /\ context' = [context EXCEPT ![cexecCurrentRunningTask] = "saved"]
  /\ UNCHANGED << queueVars, currentVars, isShutdown, mainPc,
                  taskAtFrontOfReadyQueue, iexecVars >>

(* Bound on the length of a task's run; sut_exit is always possible. *)
CountCall ==
  /\ calls[taskAtFrontOfReadyQueue] < MaxCalls
  /\ calls' = [calls EXCEPT ![taskAtFrontOfReadyQueue] = @ + 1]

sut_yield ==
  /\ SwapToCexec
  /\ CountCall
  /\ UNCHANGED << isTaskActive, ioOperationType >>

sut_exit ==
  /\ SwapToCexec
  /\ isTaskActive' = [isTaskActive EXCEPT ![cexecCurrentRunningTask] = FALSE]
  /\ UNCHANGED << ioOperationType, calls >>

(* sut_open, sut_read, sut_write and sut_close differ in the operation they *)
(* leave in the entry (and in its arguments, which the module SutIo models) *)
RequestIo(op) ==
  /\ SwapToCexec
  /\ CountCall
  /\ ioOperationType' = [ioOperationType EXCEPT ![cexecCurrentRunningTask] = op]
  /\ UNCHANGED isTaskActive

(* sut_create called by a task does not leave the task. *)
TaskCreate(t) ==
  /\ cexecPc = "task"
  /\ CountCall
  /\ sut_create(t)
  /\ UNCHANGED << waitQueue, currentVars, isShutdown, mainPc, cexecVars,
                  iexecVars >>

-----------------------------------------------------------------------------
(* I-EXEC: one round of the loop serves the oldest request. *)

IexecPeek ==
  /\ iexecPc = "peek"
  /\ taskAtFrontOfWaitQueue' = queue_peek_front(waitQueue)
  /\ iexecPc' = IF taskAtFrontOfWaitQueue' # NULL THEN "claim" ELSE "idlePeek"
  /\ UNCHANGED << queueVars, currentVars, isShutdown, taskVars, mainPc,
                  cexecVars >>

(* Slip: I-EXEC claims its task in C-EXEC's pointer. *)
IexecClaim_WrongPointer ==
  /\ iexecPc = "claim" /\ iexecPc' = "pop"
  /\ cexecCurrentRunningTask' = taskAtFrontOfWaitQueue
  /\ UNCHANGED << queueVars, iexecCurrentRunningTask, isShutdown, taskVars,
                  mainPc, cexecVars, taskAtFrontOfWaitQueue >>

IexecClaim ==
  /\ iexecPc = "claim" /\ iexecPc' = "pop"
  /\ iexecCurrentRunningTask' = taskAtFrontOfWaitQueue
  /\ UNCHANGED << queueVars, cexecCurrentRunningTask, isShutdown, taskVars,
                  mainPc, cexecVars, taskAtFrontOfWaitQueue >>

IexecPop ==
  /\ iexecPc = "pop" /\ iexecPc' = "service"
  /\ waitQueue' = queue_pop_head(waitQueue)
  /\ UNCHANGED << taskReadyQueue, currentVars, isShutdown, taskVars, mainPc,
                  cexecVars, taskAtFrontOfWaitQueue >>

(* Slip: the request is not cleared. *)
IexecService_KeepsRequest ==
  /\ iexecPc = "service" /\ iexecPc' = "requeue"
  /\ UNCHANGED << queueVars, currentVars, isShutdown, taskVars, mainPc,
                  cexecVars, taskAtFrontOfWaitQueue >>

(* The system call of the request, then the request is cleared. *)
IexecService ==
  /\ iexecPc = "service" /\ iexecPc' = "requeue"
  /\ ioOperationType' =
       [ioOperationType EXCEPT ![taskAtFrontOfWaitQueue] = NO_IO_OP_REQUESTED]
  /\ UNCHANGED << queueVars, currentVars, isShutdown, context, isTaskActive,
                  calls, mainPc, cexecVars, taskAtFrontOfWaitQueue >>

(* Slip: a served task overtakes the ready ones. *)
IexecRequeue_AtHead ==
  /\ iexecPc = "requeue" /\ iexecPc' = "reset"
  /\ taskReadyQueue' =
       queue_insert_head(taskReadyQueue, taskAtFrontOfWaitQueue)
  /\ UNCHANGED << waitQueue, currentVars, isShutdown, taskVars, mainPc,
                  cexecVars, taskAtFrontOfWaitQueue >>

IexecRequeue ==
  /\ iexecPc = "requeue" /\ iexecPc' = "reset"
  /\ taskReadyQueue' =
       queue_insert_tail(taskReadyQueue, taskAtFrontOfWaitQueue)
  /\ UNCHANGED << waitQueue, currentVars, isShutdown, taskVars, mainPc,
                  cexecVars, taskAtFrontOfWaitQueue >>

IexecIdlePeek ==
  /\ iexecPc = "idlePeek"
  /\ iexecPc' = IF QueuesSeenEmpty THEN "check" ELSE "reset"
  /\ UNCHANGED << queueVars, currentVars, isShutdown, taskVars, mainPc,
                  cexecVars, taskAtFrontOfWaitQueue >>

IexecExit ==
  /\ iexecPc = "check" /\ iexecPc' = "exited"
  /\ MayExit
  /\ UNCHANGED << queueVars, currentVars, isShutdown, taskVars, mainPc,
                  cexecVars, taskAtFrontOfWaitQueue >>

IexecStay ==
  /\ iexecPc = "check" /\ iexecPc' = "reset"
  /\ ~MayExit
  /\ UNCHANGED << queueVars, currentVars, isShutdown, taskVars, mainPc,
                  cexecVars, taskAtFrontOfWaitQueue >>

IexecReset ==
  /\ iexecPc = "reset" /\ iexecPc' = "peek"
  /\ iexecCurrentRunningTask' = NULL
  /\ UNCHANGED << queueVars, cexecCurrentRunningTask, isShutdown, taskVars,
                  mainPc, cexecVars, taskAtFrontOfWaitQueue >>

-----------------------------------------------------------------------------
(* What each thread does when the system schedules it. *)

MainInit == InitStartCexec \/ InitStartIexec \/ InitSetCexec \/ InitSetIexec

MainJoin == ShutdownJoinCexec \/ ShutdownJoinIexec

Main == MainInit \/ (\E t \in Task : MainCreate(t)) \/ ShutdownRequest \/ MainJoin

TaskStep ==
  \/ sut_yield
  \/ sut_exit
  \/ \E op \in Request : RequestIo(op)
  \/ \E t \in Task : TaskCreate(t)

cexecScheduler ==
  \/ CexecPeek \/ CexecClaim \/ CexecPop \/ CexecRequeue
  \/ CexecIdlePeek \/ CexecExit \/ CexecStay \/ CexecReset
  \/ TaskStep

iexecScheduler ==
  \/ IexecPeek \/ IexecClaim \/ IexecPop \/ IexecService \/ IexecRequeue
  \/ IexecIdlePeek \/ IexecExit \/ IexecStay \/ IexecReset

(* sut_shutdown has returned: nothing of the library is left to run. *)
Terminated == mainPc = "done" /\ UNCHANGED vars

Next == Main \/ cexecScheduler \/ iexecScheduler \/ Terminated

Spec == Init /\ [][Next]_vars

(***************************************************************************)
(* Both executors are kernel threads the system schedules for ever (a lock *)
(* is held for a few instructions only), and sut_init and the joins run to *)
(* their end.  Nothing obliges main to create tasks or to shut down.       *)
(***************************************************************************)
Fairness ==
  /\ WF_vars(MainInit) /\ WF_vars(MainJoin)
  /\ WF_vars(cexecScheduler) /\ WF_vars(iexecScheduler)

FairSpec == Spec /\ Fairness

-----------------------------------------------------------------------------
(***************************************************************************)
(* Properties                                                              *)
(***************************************************************************)

(* The local pointer of an executor that is past the NULL test is a task. *)
CexecHolds == cexecPc \in {"claim", "pop", "task", "back"}
IexecHolds == iexecPc \in {"claim", "pop", "service", "requeue"}

CexecPcs == {"none", "peek", "claim", "pop", "task", "back", "idlePeek",
             "check", "reset", "exited"}
IexecPcs == {"none", "peek", "claim", "pop", "service", "requeue", "idlePeek",
             "check", "reset", "exited"}
MainPcs == {"startCexec", "startIexec", "setCexec", "setIexec", "user",
            "joinCexec", "joinIexec", "done"}

(* Every variable has its type; an executor dereferences its local pointer *)
(* only when it points to a task (the NULL tests of the two loops).        *)
TypeOK ==
  /\ taskReadyQueue \in Seq(Task)
  /\ waitQueue \in Seq(Task)
  /\ cexecCurrentRunningTask \in Task \cup {NULL, Blank}
  /\ iexecCurrentRunningTask \in Task \cup {NULL, Blank}
  /\ isShutdown \in BOOLEAN
  /\ context \in [Task -> {"none", "fn", "saved"}]
  /\ isTaskActive \in [Task -> BOOLEAN]
  /\ ioOperationType \in [Task -> Request \cup {NO_IO_OP_REQUESTED}]
  /\ calls \in [Task -> 0..MaxCalls]
  /\ mainPc \in MainPcs
  /\ cexecPc \in CexecPcs
  /\ iexecPc \in IexecPcs
  /\ taskAtFrontOfReadyQueue \in Task \cup {NULL}
  /\ taskAtFrontOfWaitQueue \in Task \cup {NULL}
  /\ CexecHolds => taskAtFrontOfReadyQueue \in Task
  /\ IexecHolds => taskAtFrontOfWaitQueue \in Task

(* The executors release the lock between peeking at a queue and popping   *)
(* it; the entry they pop is still the one they peeked at.                 *)
PoppedTaskIsThePeekedOne ==
  /\ cexecPc \in {"claim", "pop"} =>
       taskReadyQueue # << >> /\ Head(taskReadyQueue) = taskAtFrontOfReadyQueue
  /\ iexecPc \in {"claim", "pop"} =>
       waitQueue # << >> /\ Head(waitQueue) = taskAtFrontOfWaitQueue

(* cexecScheduler names its task by two pointers, the local one and the    *)
(* global one that the task's own calls go through, and sut_init stores    *)
(* into the global one while C-EXEC already runs: they agree from the claim*)
(* of a task until the end of its turn.  The same of I-EXEC.               *)
CurrentPointersAgree ==
  /\ cexecPc \in {"pop", "task", "back"} =>
       cexecCurrentRunningTask = taskAtFrontOfReadyQueue
  /\ iexecPc \in {"pop", "service", "requeue"} =>
       iexecCurrentRunningTask = taskAtFrontOfWaitQueue

(* Tasks that exist and have not called sut_exit. *)
Live == {t \in Task : context[t] # "none" /\ isTaskActive[t]}

(* Tasks that are linked in no queue because an executor has them. *)
OnCexec == IF cexecPc \in {"task", "back"} /\ isTaskActive[taskAtFrontOfReadyQueue]
           THEN {taskAtFrontOfReadyQueue} ELSE {}
OnIexec == IF iexecPc \in {"service", "requeue"}
           THEN {taskAtFrontOfWaitQueue} ELSE {}

(* No task is lost or doubled: a live task is in exactly one place, the    *)
(* ready queue, the wait queue or the hands of one executor, once; a task  *)
(* that called sut_exit is nowhere.                                        *)
TaskConservation ==
  /\ IsInjective(taskReadyQueue) /\ IsInjective(waitQueue)
  /\ Range(taskReadyQueue) \cap Range(waitQueue) = {}
  /\ (Range(taskReadyQueue) \cup Range(waitQueue)) \cap (OnCexec \cup OnIexec) = {}
  /\ OnCexec \cap OnIexec = {}
  /\ Range(taskReadyQueue) \cup Range(waitQueue) \cup OnCexec \cup OnIexec = Live

(* A request is served once: a task has a pending request exactly while it *)
(* is on its way to I-EXEC, and never comes back to run with one, which    *)
(* would send it to the wait queue again at its next sut_yield.            *)
RequestMatchesPlace ==
  /\ \A t \in Range(waitQueue) : ioOperationType[t] # NO_IO_OP_REQUESTED
  /\ \A t \in Range(taskReadyQueue) : ioOperationType[t] = NO_IO_OP_REQUESTED
  /\ cexecPc = "task" =>
       ioOperationType[taskAtFrontOfReadyQueue] = NO_IO_OP_REQUESTED
  /\ iexecPc = "service" =>
       ioOperationType[taskAtFrontOfWaitQueue] # NO_IO_OP_REQUESTED
  /\ iexecPc = "requeue" =>
       ioOperationType[taskAtFrontOfWaitQueue] = NO_IO_OP_REQUESTED

(* When sut_shutdown returns, every task that ever ran has finished: the   *)
(* exit tests of the two executors, stale as their two halves are, do not  *)
(* give up a task in the middle of its run.                                *)
StartedTaskNeverAbandoned ==
  mainPc = "done" => \A t \in Task : context[t] = "saved" => ~isTaskActive[t]

(* The executors and their queues implement the abstract tasks. *)
Tasks == INSTANCE SutTasks WITH
  fate <- [t \in Task |-> IF context[t] = "none" THEN "absent"
                          ELSE IF isTaskActive[t] THEN "alive" ELSE "finished"],
  ready <- taskReadyQueue,
  running <- IF OnCexec = {} THEN NULL ELSE taskAtFrontOfReadyQueue,
  blocked <- IF OnIexec = {} THEN waitQueue
             ELSE << taskAtFrontOfWaitQueue >> \o waitQueue

(* Task order and exclusivity, as sut.h describes them: the module SutTasks. *)
AbstractTasks == Tasks!Spec

(* A created task finishes, however the executors interleave, unless one   *)
(* of them has left its loop.                                              *)
TaskFinishesWhileExecutorsRun ==
  \A t \in Task :
    context[t] # "none" ~> \/ ~isTaskActive[t]
                          \/ "exited" \in {cexecPc, iexecPc}

(* sut_shutdown returns when every task has finished: each executor comes  *)
(* to see the other's pointer NULL, whatever the order in which they exit. *)
QuietShutdownReturns ==
  (isShutdown /\ Live = {}) ~> mainPc = "done"

(***************************************************************************)
(* What the header says and the code does not do.                          *)
(***************************************************************************)

(* sut.h:52-54: C-EXEC pulls the tasks sut_create created and executes     *)
(* them.  The executors may leave on a look at the queues older than the   *)
(* creation of a task.                                                     *)
ShutdownLosesNoTask ==
  mainPc = "done" => \A t \in Task : context[t] # "none" => ~isTaskActive[t]

(* sut.h:121-123: sut_shutdown waits for the executors, which terminate.   *)
(* One of them may leave while the other is about to hand it a task.       *)
ShutdownReturns == isShutdown ~> mainPc = "done"

=============================================================================
