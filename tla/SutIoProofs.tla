---------------------------- MODULE SutIoProofs ----------------------------
(***************************************************************************)
(* Theorems of SutIo, for any set of tasks, any number of descriptors and  *)
(* any bound on the calls of a task: a request is served with the argument *)
(* of the task that made it, and its result goes back to that task.        *)
(***************************************************************************)
EXTENDS SutIo, SutSchedulerProofs, Extrema

-----------------------------------------------------------------------------
(***************************************************************************)
(* The I/O calls with their arguments are calls of the scheduler: every    *)
(* theorem about the executors and their queues holds of them.             *)
(***************************************************************************)
THEOREM RefinesScheduler == IoSpec => Spec
  <1>1. IoInit => Init
    BY DEF IoInit
  <1>2. [IoNext]_allVars => [Next]_vars
    <2> SUFFICES ASSUME IoNext \/ UNCHANGED allVars PROVE Next \/ UNCHANGED vars
      OBVIOUS
    <2>1. CASE sut_open \/ sut_read \/ sut_write \/ sut_close
      <3>1. PICK op \in Request : RequestIo(op)
        BY <2>1, IoAssumption DEF sut_open, sut_read, sut_write, sut_close
      <3>2. QED
        BY <3>1 DEF Next, cexecScheduler, TaskStep
    <2>2. CASE Resume
      BY <2>2 DEF Resume, Next, cexecScheduler
    <2>3. CASE ServeOpen \/ ServeOpenFails \/ ServeRead \/ ServeWrite \/ ServeClose
      BY <2>3 DEF ServeOpen, ServeOpenFails, ServeRead, ServeWrite, ServeClose, Serve,
                  Next, iexecScheduler
    <2>4. CASE Elsewhere
      BY <2>4 DEF Elsewhere, Next, cexecScheduler, TaskStep, iexecScheduler
    <2>5. CASE UNCHANGED allVars
      BY <2>5 DEF allVars
    <2>6. QED
      BY <2>1, <2>2, <2>3, <2>4, <2>5 DEF IoNext
  <1>3. QED
    BY <1>1, <1>2, PTL DEF IoSpec, Spec

-----------------------------------------------------------------------------
(* What the theorems of the scheduler say of a state. *)
SchedulerOK ==
  /\ TypeOK /\ OnlyCreatedTasks /\ PoppedTaskIsThePeekedOne
  /\ CurrentPointersAgree /\ TaskConservation /\ RequestMatchesPlace

(* So they hold of the calls with their arguments. *)
LEMMA SchedulerHolds == IoSpec => []SchedulerOK
  BY RefinesScheduler, TypeCorrect, OnlyCreated, PoppedIsPeeked, PointersAgree,
     Conservation, RequestServedOnce, PTL DEF SchedulerOK

(* Every call, field and result has its type. *)
IoCall == [op : Request \cup {NO_IO_OP_REQUESTED}, fd : Int]
IoTypeOK ==
  /\ openFile \in [Task -> Int] /\ readFile \in [Task -> Int]
  /\ writeFile \in [Task -> Int] /\ closeFile \in [Task -> Int]
  /\ returnVal \in [Task -> BOOLEAN]
  /\ fd \in [Task -> Int] /\ text \in [Task -> BOOLEAN]
  /\ asked \in [Task -> IoCall]
  /\ served \in [Task -> IoCall] /\ gave \in [Task -> Int]

(* A call of a task: it is recorded, with its descriptor, as what the task *)
(* asked for, and the descriptor is in the field of the task's own entry.  *)
AskedFor(op, d) ==
  /\ self \in Task /\ context[self] # "none" /\ cexecPc = "task"
  /\ op \in Request /\ d \in Int
  /\ ioOperationType' = [ioOperationType EXCEPT ![self] = op]
  /\ context' = [context EXCEPT ![self] = "saved"]
  /\ asked' = [asked EXCEPT ![self] = [op |-> op, fd |-> d]]
  /\ readFile' = IF op = "READ_OP" THEN [readFile EXCEPT ![self] = d] ELSE readFile
  /\ writeFile' = IF op \in {"WRITE_OP", "CLOSE_OP"}
                  THEN [writeFile EXCEPT ![self] = d] ELSE writeFile
  /\ fd' \in {fd, [fd EXCEPT ![self] = -1]}
  /\ UNCHANGED << openFile, closeFile, returnVal, text, history >>

(* Each of the four I/O calls is such a call. *)
LEMMA CallsAsk ==
  ASSUME SchedulerOK, IoTypeOK, sut_open \/ sut_read \/ sut_write \/ sut_close
  PROVE  \E op \in Request, d \in Int : AskedFor(op, d)
  <1>1. /\ cexecPc = "task" /\ self \in Task /\ context[self] # "none"
        /\ cexecCurrentRunningTask = self
    BY DEF SchedulerOK, TypeOK, OnlyCreatedTasks, CurrentPointersAgree, CexecHolds,
           sut_open, sut_read, sut_write, sut_close, RequestIo, SwapToCexec, self
  <1>2. fd[self] \in Int /\ -1 \in Int
    BY <1>1 DEF IoTypeOK
  <1>3. CASE sut_open
    <2>1. AskedFor("OPEN_OP", -1)
      BY <1>1, <1>2, <1>3, IoAssumption DEF AskedFor, sut_open, Ask, RequestIo, SwapToCexec
    <2>2. QED
      BY <1>2, <2>1, IoAssumption
  <1>4. CASE sut_read
    <2>1. AskedFor("READ_OP", fd[self])
      BY <1>1, <1>2, <1>4, IoAssumption DEF AskedFor, sut_read, Ask, RequestIo, SwapToCexec
    <2>2. QED
      BY <1>2, <2>1, IoAssumption
  <1>5. CASE sut_write
    <2>1. AskedFor("WRITE_OP", fd[self])
      BY <1>1, <1>2, <1>5, IoAssumption DEF AskedFor, sut_write, Ask, RequestIo, SwapToCexec
    <2>2. QED
      BY <1>2, <2>1, IoAssumption
  <1>6. CASE sut_close
    <2>1. AskedFor("CLOSE_OP", fd[self])
      BY <1>1, <1>2, <1>6, IoAssumption DEF AskedFor, sut_close, Ask, RequestIo, SwapToCexec
    <2>2. QED
      BY <1>2, <2>1, IoAssumption
  <1>7. QED
    BY <1>3, <1>4, <1>5, <1>6

(* A service of I-EXEC: what it did is recorded, the request is cleared,   *)
(* and the result goes to the field of the entry that was served, but for  *)
(* an open that failed.                                                    *)
ServedWith(op, d, outcome) ==
  /\ served_entry \in Task /\ ioOperationType[served_entry] = op
  /\ op # NO_IO_OP_REQUESTED /\ op \in Request /\ d \in Int /\ outcome \in Int
  /\ ioOperationType' =
       [ioOperationType EXCEPT ![served_entry] = NO_IO_OP_REQUESTED]
  /\ served' = [served EXCEPT ![served_entry] = [op |-> op, fd |-> d]]
  /\ gave' = [gave EXCEPT ![served_entry] = outcome]
  /\ op = "READ_OP" => d = readFile[served_entry]
  /\ op = "WRITE_OP" => d = writeFile[served_entry]
  /\ \/ openFile' = [openFile EXCEPT ![served_entry] = outcome]
     \/ openFile' = openFile /\ (op = "OPEN_OP" => outcome = -1)
  /\ returnVal' = IF op = "READ_OP"
                  THEN [returnVal EXCEPT ![served_entry] = outcome >= 0] ELSE returnVal
  /\ UNCHANGED << context, readFile, writeFile, closeFile, results, asked,
                  taskAtFrontOfWaitQueue >>

(* Each service of I-EXEC is such a service. *)
LEMMA ServicesServe ==
  ASSUME SchedulerOK, IoTypeOK,
         ServeOpen \/ ServeOpenFails \/ ServeRead \/ ServeWrite \/ ServeClose
  PROVE  \E op \in Request, d, outcome \in Int : ServedWith(op, d, outcome)
  <1>1. /\ IexecService /\ served_entry \in Task
        /\ ioOperationType[served_entry] # NO_IO_OP_REQUESTED
    BY DEF SchedulerOK, TypeOK, RequestMatchesPlace, IexecHolds, IexecService, Serve,
           ServeOpen, ServeOpenFails, ServeRead, ServeWrite, ServeClose, served_entry
  <1>2. /\ readFile[served_entry] \in Int /\ writeFile[served_entry] \in Int
        /\ closeFile[served_entry] \in Int /\ -1 \in Int /\ 0 \in Int
    BY <1>1 DEF IoTypeOK
  <1>3. CASE ServeOpen
    <2> DEFINE d == Min(Descriptor \ fdTable)
    <2>1. d \in Int
      <3>1. Descriptor \ fdTable \in SUBSET Nat /\ Descriptor \ fdTable # {}
        BY <1>3, IoAssumption DEF ServeOpen, Descriptor
      <3>2. d \in Nat
        BY <3>1, MinIsMember
      <3>3. QED
        BY <3>2
    <2>2. /\ Serve("OPEN_OP", -1, d)
          /\ openFile' = [openFile EXCEPT ![served_entry] = d]
          /\ UNCHANGED returnVal
      BY <1>3 DEF ServeOpen
    <2> HIDE DEF d
    <2>3. ServedWith("OPEN_OP", -1, d)
      BY <1>1, <1>2, <2>1, <2>2, IoAssumption
      DEF ServedWith, Serve, IexecService, served_entry
    <2>4. QED
      BY <1>2, <2>1, <2>3, IoAssumption
  <1>4. CASE ServeOpenFails
    <2>1. ServedWith("OPEN_OP", -1, -1)
      BY <1>1, <1>2, <1>4, IoAssumption
      DEF ServedWith, ServeOpenFails, Serve, IexecService, served_entry
    <2>2. QED
      BY <1>2, <2>1, IoAssumption
  <1>5. CASE ServeRead
    <2>1. PICK outcome \in {0, -1} :
            /\ Serve("READ_OP", readFile[served_entry], outcome)
            /\ returnVal' = [returnVal EXCEPT ![served_entry] = outcome = 0]
            /\ UNCHANGED << openFile, fdTable >>
      BY <1>5 DEF ServeRead
    <2>2. outcome \in Int /\ (outcome = 0) = (outcome >= 0)
      BY <2>1
    <2>3. ServedWith("READ_OP", readFile[served_entry], outcome)
      BY <1>1, <1>2, <2>1, <2>2, IoAssumption
      DEF ServedWith, Serve, IexecService, served_entry
    <2>4. QED
      BY <1>2, <2>2, <2>3, IoAssumption
  <1>6. CASE ServeWrite
    <2>1. ServedWith("WRITE_OP", writeFile[served_entry], 0)
      BY <1>1, <1>2, <1>6, IoAssumption
      DEF ServedWith, ServeWrite, Serve, IexecService, served_entry
    <2>2. QED
      BY <1>2, <2>1, IoAssumption
  <1>7. CASE ServeClose
    <2>1. ServedWith("CLOSE_OP", closeFile[served_entry], 0)
      BY <1>1, <1>2, <1>7, IoAssumption
      DEF ServedWith, ServeClose, Serve, IexecService, served_entry
    <2>2. QED
      BY <1>2, <2>1, IoAssumption
  <1>8. QED
    BY <1>3, <1>4, <1>5, <1>6, <1>7

(* The other steps: nothing of this changes, and an entry that sut_create  *)
(* makes is one whose task has not called anything yet.                    *)
LEMMA ElsewhereLeaves ==
  ASSUME SchedulerOK, Elsewhere
  PROVE  /\ UNCHANGED ioVars
         /\ \/ UNCHANGED << context, ioOperationType >>
            \/ /\ self \in Task /\ context[self] # "none"
               /\ context' = [context EXCEPT ![self] = "saved"]
               /\ UNCHANGED ioOperationType
            \/ \E t \in Task :
                 /\ context[t] = "none"
                 /\ context' = [context EXCEPT ![t] = "fn"]
                 /\ ioOperationType' = [ioOperationType EXCEPT ![t] = NO_IO_OP_REQUESTED]
  <1>1. CASE \E t \in Task : MainCreate(t) \/ TaskCreate(t)
    BY <1>1 DEF MainCreate, TaskCreate, sut_create, Elsewhere
  <1>2. CASE sut_yield \/ sut_exit
    BY <1>2 DEF sut_yield, sut_exit, SwapToCexec, SchedulerOK, TypeOK, OnlyCreatedTasks,
                CurrentPointersAgree, CexecHolds, self, Elsewhere
  <1>3. CASE MainInit \/ ShutdownRequest \/ MainJoin \/ Terminated
    BY <1>3 DEF MainInit, InitStartCexec, InitStartIexec, InitSetCexec, InitSetIexec,
                ShutdownRequest, MainJoin, ShutdownJoinCexec, ShutdownJoinIexec, Terminated,
                vars, taskVars, Elsewhere
  <1>4. CASE \/ CexecPeek \/ CexecClaim \/ CexecRequeue \/ CexecReset
             \/ CexecIdlePeek \/ CexecExit \/ CexecStay
    BY <1>4 DEF CexecPeek, CexecClaim, CexecRequeue, CexecReset, CexecIdlePeek,
                CexecExit, CexecStay, taskVars, Elsewhere
  <1>5. CASE \/ IexecPeek \/ IexecClaim \/ IexecPop \/ IexecRequeue \/ IexecReset
             \/ IexecIdlePeek \/ IexecExit \/ IexecStay
    BY <1>5 DEF IexecPeek, IexecClaim, IexecPop, IexecRequeue, IexecReset, IexecIdlePeek,
                IexecExit, IexecStay, taskVars, Elsewhere
  <1>6. QED
    BY <1>1, <1>2, <1>3, <1>4, <1>5 DEF Elsewhere, Main

(* The return of a call: the task that runs is in no call any more. *)
LEMMA ResumeReturns ==
  ASSUME SchedulerOK, Resume
  PROVE  /\ self \in Range(taskReadyQueue) /\ self \in Task
         /\ ioOperationType[self] = NO_IO_OP_REQUESTED
         /\ cexecCurrentRunningTask = self
         /\ asked' = [asked EXCEPT ![self] = NoCall]
         /\ fd' = IF asked[self].op = "OPEN_OP"
                  THEN [fd EXCEPT ![self] = openFile[self]] ELSE fd
         /\ text' = IF asked[self].op = "READ_OP"
                    THEN [text EXCEPT ![self] = returnVal[self]] ELSE text
         /\ served' = [served EXCEPT ![self] = NoCall]
         /\ gave' = [gave EXCEPT ![self] = 0]
         /\ UNCHANGED << fields, context, ioOperationType >>
  <1>1. /\ cexecPc = "pop" /\ taskReadyQueue \in Seq(Task) /\ taskReadyQueue # << >>
        /\ Head(taskReadyQueue) = self /\ self \in Task
        /\ cexecCurrentRunningTask = self
    BY DEF Resume, CexecPop, SchedulerOK, TypeOK, PoppedTaskIsThePeekedOne,
           CurrentPointersAgree, CexecHolds, self
  <1>2. self \in Range(taskReadyQueue)
    BY <1>1, PopHead
  <1>3. QED
    BY <1>1, <1>2 DEF Resume, CexecPop, SchedulerOK, RequestMatchesPlace, taskVars

(* The fields, the calls and the results keep their types. *)
LEMMA IoTypeCorrect == IoSpec => []IoTypeOK
  <1>1. IoInit => IoTypeOK
    BY IoAssumption DEF IoInit, NoCall, IoTypeOK, IoCall
  <1>2. SchedulerOK /\ IoTypeOK /\ [IoNext]_allVars => IoTypeOK'
    <2> SUFFICES ASSUME SchedulerOK, IoTypeOK, IoNext \/ UNCHANGED allVars
                 PROVE  IoTypeOK'
      OBVIOUS
    <2>1. CASE sut_open \/ sut_read \/ sut_write \/ sut_close
      <3>1. PICK op \in Request, d \in Int : AskedFor(op, d)
        BY <2>1, CallsAsk
      <3>2. [op |-> op, fd |-> d] \in IoCall /\ -1 \in Int
        BY DEF IoCall
      <3>3. QED
        BY <3>1, <3>2 DEF IoTypeOK, AskedFor, history
    <2>2. CASE Resume
      <3>1. NoCall \in IoCall
        BY DEF NoCall, IoCall
      <3>2. QED
        BY <2>2, <3>1, ResumeReturns DEF IoTypeOK, fields
    <2>3. CASE ServeOpen \/ ServeOpenFails \/ ServeRead \/ ServeWrite \/ ServeClose
      <3>1. PICK op \in Request, d, outcome \in Int : ServedWith(op, d, outcome)
        BY <2>3, ServicesServe
      <3>2. [op |-> op, fd |-> d] \in IoCall
        BY DEF IoCall
      <3>3. QED
        BY <3>1, <3>2 DEF IoTypeOK, ServedWith, results
    <2>4. CASE Elsewhere
      BY <2>4 DEF Elsewhere, ioVars, fields, results, history, IoTypeOK
    <2>5. CASE UNCHANGED allVars
      BY <2>5 DEF allVars, ioVars, fields, results, history, IoTypeOK
    <2>6. QED
      BY <2>1, <2>2, <2>3, <2>4, <2>5 DEF IoNext
  <1>3. QED
    BY <1>1, <1>2, SchedulerHolds, PTL DEF IoSpec

-----------------------------------------------------------------------------
(***************************************************************************)
(* Where the arguments and the results of a call are while the task is     *)
(* away: with a request pending the field of the operation holds what the  *)
(* task asked for, and once the request is cleared the record of the       *)
(* service agrees with what was asked and with the field the call reads.   *)
(***************************************************************************)
OnItsWay(t) == ioOperationType[t] # NO_IO_OP_REQUESTED
ArgumentStored(t) ==
  /\ asked[t].op = ioOperationType[t]
  /\ asked[t].op = "READ_OP" => readFile[t] = asked[t].fd
  /\ asked[t].op = "WRITE_OP" => writeFile[t] = asked[t].fd
ResultStored(t) ==
  /\ served[t].op = asked[t].op
  /\ asked[t].op \in {"READ_OP", "WRITE_OP"} => served[t].fd = asked[t].fd
  /\ asked[t].op = "OPEN_OP" /\ gave[t] >= 0 => openFile[t] = gave[t]
  /\ asked[t].op = "READ_OP" => returnVal[t] = (gave[t] >= 0)

FieldsInv ==
  \A t \in Task :
    /\ OnItsWay(t) => ArgumentStored(t)
    /\ ~OnItsWay(t) /\ asked[t] # NoCall => ResultStored(t)
    /\ context[t] = "none" => asked[t] = NoCall

(* Every step keeps the arguments and the results where they belong. *)
LEMMA FieldsAgree == IoSpec => []FieldsInv
  <1>1. IoInit => FieldsInv
    BY DEF IoInit, Init, FieldsInv, OnItsWay
  <1>2. SchedulerOK /\ IoTypeOK /\ FieldsInv /\ [IoNext]_allVars => FieldsInv'
    <2> SUFFICES ASSUME SchedulerOK, IoTypeOK, FieldsInv, IoNext \/ UNCHANGED allVars,
                        NEW t \in Task
                 PROVE  /\ OnItsWay(t)' => ArgumentStored(t)'
                        /\ ~OnItsWay(t)' /\ asked'[t] # NoCall => ResultStored(t)'
                        /\ context'[t] = "none" => asked'[t] = NoCall
      BY DEF FieldsInv
    <2>0. /\ ioOperationType \in [Task -> Request \cup {NO_IO_OP_REQUESTED}]
          /\ context \in [Task -> {"none", "fn", "saved"}]
          /\ NO_IO_OP_REQUESTED \notin Request
      BY RequestAssumption DEF SchedulerOK, TypeOK
    <2>1. CASE sut_open \/ sut_read \/ sut_write \/ sut_close
      <3>1. PICK op \in Request, d \in Int : AskedFor(op, d)
        BY <2>1, CallsAsk
      <3>2. CASE t = self
        <4>1. /\ ioOperationType'[t] = op /\ asked'[t] = [op |-> op, fd |-> d]
              /\ context'[t] = "saved"
              /\ op = "READ_OP" => readFile'[t] = d
              /\ op = "WRITE_OP" => writeFile'[t] = d
          BY <2>0, <3>1, <3>2 DEF AskedFor, IoTypeOK
        <4>2. QED
          BY <2>0, <4>1 DEF OnItsWay, ArgumentStored
      <3>3. CASE t # self
        BY <2>0, <3>1, <3>3
        DEF AskedFor, IoTypeOK, history, FieldsInv, OnItsWay, ArgumentStored,
            ResultStored
      <3>4. QED
        BY <3>2, <3>3
    <2>2. CASE Resume
      BY <2>0, <2>2, ResumeReturns
      DEF fields, IoTypeOK, FieldsInv, OnItsWay, ArgumentStored, ResultStored
    <2>3. CASE ServeOpen \/ ServeOpenFails \/ ServeRead \/ ServeWrite \/ ServeClose
      <3>1. PICK op \in Request, d, outcome \in Int : ServedWith(op, d, outcome)
        BY <2>3, ServicesServe
      <3>2. CASE t = served_entry
        <4>1. /\ ioOperationType[t] = op /\ op # NO_IO_OP_REQUESTED
              /\ ioOperationType'[t] = NO_IO_OP_REQUESTED
              /\ served'[t] = [op |-> op, fd |-> d]
              /\ op = "READ_OP" => d = readFile[t]
              /\ op = "WRITE_OP" => d = writeFile[t]
              /\ gave'[t] = outcome
              /\ op = "OPEN_OP" /\ outcome >= 0 => openFile'[t] = outcome
              /\ op = "READ_OP" => returnVal'[t] = (outcome >= 0)
              /\ asked'[t] = asked[t] /\ context'[t] = context[t]
          BY <2>0, <3>1, <3>2 DEF ServedWith, IoTypeOK
        <4>2. QED
          BY <4>1 DEF FieldsInv, OnItsWay, ArgumentStored, ResultStored
      <3>3. CASE t # served_entry
        BY <2>0, <3>1, <3>3
        DEF ServedWith, IoTypeOK, FieldsInv, OnItsWay, ArgumentStored, ResultStored
      <3>4. QED
        BY <3>2, <3>3
    <2>4. CASE Elsewhere
      <3>1. UNCHANGED << fields, asked, served, gave >>
        BY <2>4, ElsewhereLeaves DEF ioVars, history
      <3>2. /\ context'[t] = "none" => context[t] = "none"
            /\ \/ ioOperationType'[t] = ioOperationType[t]
               \/ context[t] = "none" /\ ioOperationType'[t] = NO_IO_OP_REQUESTED
        BY <2>0, <2>4, ElsewhereLeaves
      <3>3. QED
        BY <3>1, <3>2
        DEF fields, FieldsInv, OnItsWay, ArgumentStored, ResultStored
    <2>5. CASE UNCHANGED allVars
      BY <2>5 DEF allVars, vars, taskVars, ioVars, fields, results, history,
                  FieldsInv, OnItsWay, ArgumentStored, ResultStored
    <2>6. QED
      BY <2>1, <2>2, <2>3, <2>4, <2>5 DEF IoNext
  <1>3. QED
    BY <1>1, <1>2, SchedulerHolds, IoTypeCorrect, PTL DEF IoSpec

(* I-EXEC makes the system call of a task's own request, with the          *)
(* descriptor that the task gave, though the argument lies in a field of   *)
(* the entry between the two threads for several of their steps.           *)
THEOREM ServedAsAsked == IoSpec => []RequestServedAsAsked
  <1>1. SchedulerOK /\ IoTypeOK /\ FieldsInv => RequestServedAsAsked
    <2> SUFFICES ASSUME SchedulerOK, IoTypeOK, FieldsInv, iexecPc = "requeue",
                        asked[served_entry].op \in {"READ_OP", "WRITE_OP"}
                 PROVE  served[served_entry] = asked[served_entry]
      BY DEF RequestServedAsAsked
    <2>1. served_entry \in Task /\ ioOperationType[served_entry] = NO_IO_OP_REQUESTED
      BY DEF SchedulerOK, TypeOK, IexecHolds, RequestMatchesPlace, served_entry
    <2>2. asked[served_entry] # NoCall
      <3>1. NoCall.op = NO_IO_OP_REQUESTED /\ NO_IO_OP_REQUESTED \notin Request
        BY RequestAssumption DEF NoCall
      <3>2. QED
        BY <3>1, IoAssumption
    <2>3. /\ served[served_entry].op = asked[served_entry].op
          /\ served[served_entry].fd = asked[served_entry].fd
      BY <2>1, <2>2 DEF FieldsInv, OnItsWay, ResultStored
    <2>4. served[served_entry] \in IoCall /\ asked[served_entry] \in IoCall
      BY <2>1 DEF IoTypeOK
    <2>5. QED
      BY <2>3, <2>4 DEF IoCall
  <1>2. QED
    BY <1>1, SchedulerHolds, IoTypeCorrect, FieldsAgree, PTL

(* A call returns in the swap into its task, when I-EXEC has served it.    *)
LEMMA OnlyResumeReturns ==
  ASSUME SchedulerOK, IoTypeOK, IoNext, NEW t \in Task,
         asked[t] # NoCall, asked'[t] = NoCall
  PROVE  Resume /\ t = self /\ ~OnItsWay(t)
  <1>1. ASSUME sut_open \/ sut_read \/ sut_write \/ sut_close
        PROVE  FALSE
    <2>1. PICK op \in Request, d \in Int : AskedFor(op, d)
      BY <1>1, CallsAsk
    <2>2. asked'[t] = asked[t] \/ asked'[t] = [op |-> op, fd |-> d]
      BY <2>1 DEF AskedFor, IoTypeOK
    <2>3. NoCall.op = NO_IO_OP_REQUESTED /\ NO_IO_OP_REQUESTED \notin Request
      BY RequestAssumption DEF NoCall
    <2>4. QED
      BY <2>2, <2>3
  <1>2. ASSUME ServeOpen \/ ServeOpenFails \/ ServeRead \/ ServeWrite \/ ServeClose
        PROVE  FALSE
    <2>1. PICK op \in Request, d, outcome \in Int : ServedWith(op, d, outcome)
      BY <1>2, ServicesServe
    <2>2. QED
      BY <2>1 DEF ServedWith
  <1>3. ASSUME Elsewhere PROVE FALSE
    BY <1>3 DEF Elsewhere, ioVars
  <1>4. Resume
    BY <1>1, <1>2, <1>3 DEF IoNext
  <1>5. t = self
    BY <1>4, ResumeReturns DEF IoTypeOK
  <1>6. QED
    BY <1>4, <1>5, ResumeReturns DEF OnItsWay

(* The descriptor that open gave for a task's request is the one that the  *)
(* task's sut_open returns, whatever the other tasks asked for meanwhile.  *)
THEOREM OpenReturnsIt == IoSpec => OpenReturnsItsDescriptor
  <1> DEFINE Returned(t) ==
        asked[t].op = "OPEN_OP" /\ asked'[t] = NoCall /\ gave[t] >= 0
          => served[t].op = "OPEN_OP" /\ fd'[t] = gave[t]
  <1>1. SchedulerOK /\ IoTypeOK /\ FieldsInv /\ [IoNext]_allVars
          => [\A t \in Task : Returned(t)]_allVars
    <2> SUFFICES ASSUME SchedulerOK, IoTypeOK, FieldsInv, IoNext, NEW t \in Task,
                        asked[t].op = "OPEN_OP", asked'[t] = NoCall, gave[t] >= 0
                 PROVE  served[t].op = "OPEN_OP" /\ fd'[t] = gave[t]
      OBVIOUS
    <2>1. asked[t] # NoCall
      BY RequestAssumption, IoAssumption DEF NoCall
    <2>2. Resume /\ t = self /\ ~OnItsWay(t)
      BY <2>1, OnlyResumeReturns
    <2>3. fd'[t] = openFile[t]
      BY <2>2, ResumeReturns DEF IoTypeOK
    <2>4. QED
      BY <2>1, <2>2, <2>3 DEF FieldsInv, ResultStored
  <1>2. QED
    BY <1>1, SchedulerHolds, IoTypeCorrect, FieldsAgree, PTL
    DEF IoSpec, OpenReturnsItsDescriptor

(* sut_read returns NULL exactly when the read made for this call failed,  *)
(* whatever an earlier read left in the entry and other tasks asked for.   *)
THEOREM ReadReturnsIt == IoSpec => ReadReturnsItsOutcome
  <1> DEFINE Returned(t) ==
        asked[t].op = "READ_OP" /\ asked'[t] = NoCall
          => served[t].op = "READ_OP" /\ text'[t] = (gave[t] >= 0)
  <1>1. SchedulerOK /\ IoTypeOK /\ FieldsInv /\ [IoNext]_allVars
          => [\A t \in Task : Returned(t)]_allVars
    <2> SUFFICES ASSUME SchedulerOK, IoTypeOK, FieldsInv, IoNext, NEW t \in Task,
                        asked[t].op = "READ_OP", asked'[t] = NoCall
                 PROVE  served[t].op = "READ_OP" /\ text'[t] = (gave[t] >= 0)
      OBVIOUS
    <2>1. asked[t] # NoCall
      BY RequestAssumption, IoAssumption DEF NoCall
    <2>2. Resume /\ t = self /\ ~OnItsWay(t)
      BY <2>1, OnlyResumeReturns
    <2>3. text'[t] = returnVal[t]
      BY <2>2, ResumeReturns DEF IoTypeOK
    <2>4. QED
      BY <2>1, <2>2, <2>3 DEF FieldsInv, ResultStored
  <1>2. QED
    BY <1>1, SchedulerHolds, IoTypeCorrect, FieldsAgree, PTL
    DEF IoSpec, ReadReturnsItsOutcome

=============================================================================
