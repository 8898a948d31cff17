------------------------- MODULE SutSchedulerProofs -------------------------
(***************************************************************************)
(* Theorems of SutScheduler, for any set of tasks, any set of I/O requests *)
(* and any bound on the calls of a task.                                   *)
(***************************************************************************)
EXTENDS SutScheduler, SequenceTheorems, TLAPS

-----------------------------------------------------------------------------
(* Facts about the queue operators of queue.c.                             *)

(* What queue_insert_tail leaves in a queue. *)
LEMMA InsertTail ==
  ASSUME NEW S, NEW q \in Seq(S), NEW e \in S
  PROVE  /\ queue_insert_tail(q, e) \in Seq(S)
         /\ Range(queue_insert_tail(q, e)) = Range(q) \cup {e}
         /\ queue_insert_tail(q, e) # << >>
         /\ q # << >> => Head(queue_insert_tail(q, e)) = Head(q)
         /\ (IsInjective(q) /\ e \notin Range(q)) => IsInjective(queue_insert_tail(q, e))
  <1> DEFINE r == queue_insert_tail(q, e)
  <1>1. /\ r \in Seq(S)
        /\ Len(r) = Len(q) + 1
        /\ \A i \in 1..Len(q) : r[i] = q[i]
        /\ r[Len(q) + 1] = e
    BY DEF queue_insert_tail
  <1>2. DOMAIN r = 1..(Len(q) + 1) /\ DOMAIN q = 1..Len(q) /\ Len(q) \in Nat
    BY <1>1
  <1>3. Range(r) = Range(q) \cup {e}
    BY <1>1, <1>2 DEF Range
  <1>4. r # << >> /\ (q # << >> => Head(r) = Head(q))
    BY <1>1, <1>2
  <1>5. ASSUME IsInjective(q), e \notin Range(q) PROVE IsInjective(r)
    <2> SUFFICES ASSUME NEW a \in DOMAIN r, NEW b \in DOMAIN r, r[a] = r[b]
                 PROVE  a = b
      BY DEF IsInjective
    <2>1. \A i \in 1..Len(q) : q[i] # e
      BY <1>2, <1>5 DEF Range
    <2>2. CASE a = Len(q) + 1 /\ b = Len(q) + 1
      BY <2>2
    <2>3. CASE a \in 1..Len(q) /\ b \in 1..Len(q)
      BY <2>3, <1>1, <1>2, <1>5 DEF IsInjective
    <2>4. QED
      BY <2>1, <2>2, <2>3, <1>1, <1>2
  <1>6. QED
    BY <1>1, <1>3, <1>4, <1>5

(* The same for the queues of tasks, in the form most steps need. *)
LEMMA TailRange ==
  \A q \in Seq(Task), e \in Task :
    Range(queue_insert_tail(q, e)) = Range(q) \cup {e}
  <1> TAKE q \in Seq(Task), e \in Task
  <1> QED
    BY InsertTail

LEMMA TailHead ==
  \A q \in Seq(Task), e \in Task :
    /\ queue_insert_tail(q, e) # << >>
    /\ q # << >> => Head(queue_insert_tail(q, e)) = Head(q)
  <1> TAKE q \in Seq(Task), e \in Task
  <1> QED
    BY InsertTail

(* What queue_peek_front and queue_pop_head take from a non-empty queue. *)
LEMMA PopHead ==
  ASSUME NEW S, NEW q \in Seq(S), q # << >>
  PROVE  /\ queue_pop_head(q) \in Seq(S)
         /\ Head(q) \in S
         /\ queue_peek_front(q) = Head(q)
         /\ Range(q) = {Head(q)} \cup Range(queue_pop_head(q))
         /\ IsInjective(q) => /\ IsInjective(queue_pop_head(q))
                              /\ Head(q) \notin Range(queue_pop_head(q))
  <1> DEFINE r == queue_pop_head(q)
  <1>1. r = Tail(q)
    BY DEF queue_pop_head
  <1>2. /\ r \in Seq(S) /\ Head(q) \in S /\ Head(q) = q[1]
        /\ Len(r) = Len(q) - 1 /\ Len(q) \in Nat \ {0}
        /\ \A i \in 1..Len(r) : r[i] = q[i + 1]
    BY <1>1
  <1>3. DOMAIN r = 1..(Len(q) - 1) /\ DOMAIN q = 1..Len(q)
    BY <1>2
  <1>4. Range(q) = {Head(q)} \cup Range(r)
    <2>1. ASSUME NEW i \in DOMAIN q PROVE q[i] \in {Head(q)} \cup Range(r)
      <3>1. CASE i = 1
        BY <3>1, <1>2
      <3>2. CASE i # 1
        <4>1. i - 1 \in DOMAIN r /\ r[i - 1] = q[i]
          BY <3>2, <1>2, <1>3
        <4>2. QED
          BY <4>1 DEF Range
      <3>3. QED
        BY <3>1, <3>2
    <2>2. ASSUME NEW i \in DOMAIN r PROVE r[i] \in Range(q)
      BY <1>2, <1>3 DEF Range
    <2>3. Head(q) \in Range(q)
      BY <1>2, <1>3 DEF Range
    <2>4. QED
      BY <2>1, <2>2, <2>3 DEF Range
  <1>5. ASSUME IsInjective(q) PROVE IsInjective(r) /\ Head(q) \notin Range(r)
    <2>1. ASSUME NEW a \in DOMAIN r, NEW b \in DOMAIN r, r[a] = r[b] PROVE a = b
      <3>1. a + 1 \in DOMAIN q /\ b + 1 \in DOMAIN q /\ q[a + 1] = q[b + 1]
        BY <2>1, <1>2, <1>3
      <3>2. a + 1 = b + 1
        BY <3>1, <1>5 DEF IsInjective
      <3>3. QED
        BY <3>2, <1>3, <1>2
    <2>2. ASSUME NEW a \in DOMAIN r PROVE r[a] # Head(q)
      <3>1. a + 1 \in DOMAIN q /\ 1 \in DOMAIN q /\ a + 1 # 1
        BY <1>2, <1>3
      <3>2. q[a + 1] # q[1]
        BY <3>1, <1>5 DEF IsInjective
      <3>3. QED
        BY <3>2, <1>2, <1>3
    <2>3. QED
      BY <2>1, <2>2 DEF IsInjective, Range
  <1>6. queue_peek_front(q) = Head(q)
    BY DEF queue_peek_front
  <1>7. QED
    BY <1>2, <1>4, <1>5, <1>6

(* A queue is seen empty by queue_peek_front only when it is empty. *)
LEMMA PeekNull ==
  ASSUME NEW S, NEW q \in Seq(S), NULL \notin S
  PROVE  queue_peek_front(q) = NULL <=> q = << >>
  BY PopHead DEF queue_peek_front

(* Only the empty queue has no entry. *)
LEMMA EmptyRange ==
  ASSUME NEW S, NEW q \in Seq(S)
  PROVE  /\ Range(q) \subseteq S
         /\ q = << >> <=> Range(q) = {}
         /\ Range(<< >>) = {} /\ IsInjective(<< >>)
  BY DEF Range, IsInjective

-----------------------------------------------------------------------------
(***************************************************************************)
(* Every variable has its type, and no executor dereferences NULL.         *)
(***************************************************************************)
THEOREM TypeCorrect == Spec => []TypeOK
  <1> USE TaskAssumption, RequestAssumption, MaxCallsAssumption
  <1>1. Init => TypeOK
    <2>1. << >> \in Seq(Task)
      OBVIOUS
    <2>2. Init => calls \in [Task -> 0..MaxCalls]
      BY DEF Init
    <2>3. QED
      BY <2>1, <2>2 DEF Init, TypeOK, queue_init, MainPcs, CexecPcs, IexecPcs,
                        CexecHolds, IexecHolds
  <1>2. TypeOK /\ [Next]_vars => TypeOK'
    <2> SUFFICES ASSUME TypeOK, [Next]_vars PROVE TypeOK'
      OBVIOUS
    <2> USE DEF MainPcs, CexecPcs, IexecPcs, CexecHolds, IexecHolds,
                queueVars, currentVars, taskVars, cexecVars, iexecVars
    <2>1. CASE Main
      <3>1. CASE MainInit
        BY <3>1 DEF TypeOK, MainInit, InitStartCexec, InitStartIexec, InitSetCexec,
                    InitSetIexec
      <3>2. ASSUME NEW t \in Task, MainCreate(t) PROVE TypeOK'
        <4>1. taskReadyQueue' \in Seq(Task)
          BY <3>2, InsertTail DEF TypeOK, MainCreate, sut_create
        <4>2. QED
          BY <3>2, <4>1 DEF TypeOK, MainCreate, sut_create
      <3>3. CASE ShutdownRequest
        BY <3>3 DEF TypeOK, ShutdownRequest
      <3>4. CASE MainJoin
        <4>1. /\ UNCHANGED << queueVars, currentVars, isShutdown, taskVars, cexecVars,
                              iexecVars >>
              /\ mainPc' \in {"joinIexec", "done"}
          BY <3>4 DEF MainJoin, ShutdownJoinCexec, ShutdownJoinIexec
        <4>2. QED
          BY <4>1 DEF TypeOK
      <3>5. QED
        BY <2>1, <3>1, <3>2, <3>3, <3>4 DEF Main
    <2>2. CASE CexecPeek
      BY <2>2, PopHead DEF TypeOK, CexecPeek, queue_peek_front
    <2>3. CASE CexecPop
      BY <2>3, PopHead DEF TypeOK, CexecPop, queue_pop_head
    <2>4. CASE CexecRequeue
      <3>1. taskAtFrontOfReadyQueue \in Task /\ taskReadyQueue \in Seq(Task)
            /\ waitQueue \in Seq(Task)
        BY <2>4 DEF TypeOK, CexecRequeue
      <3>2. taskReadyQueue' \in Seq(Task) /\ waitQueue' \in Seq(Task)
        <4>1. /\ queue_insert_tail(taskReadyQueue, taskAtFrontOfReadyQueue) \in Seq(Task)
              /\ queue_insert_tail(waitQueue, taskAtFrontOfReadyQueue) \in Seq(Task)
          BY <3>1, InsertTail
        <4>2. QED
          BY <2>4, <3>1, <4>1 DEF CexecRequeue
      <3>3. QED
        BY <2>4, <3>2 DEF TypeOK, CexecRequeue
    <2>5. CASE CexecClaim \/ CexecIdlePeek \/ CexecExit \/ CexecStay \/ CexecReset
      BY <2>5 DEF TypeOK, CexecClaim, CexecIdlePeek, CexecExit, CexecStay, CexecReset
    <2>6. CASE TaskStep
      <3> SUFFICES ASSUME cexecPc = "task", taskAtFrontOfReadyQueue \in Task
                   PROVE  TypeOK'
        BY <2>6 DEF TypeOK, TaskStep, sut_yield, sut_exit, RequestIo, TaskCreate,
                    SwapToCexec
      <3>a. ASSUME SwapToCexec
            PROVE  context' \in [Task -> {"none", "fn", "saved"}]
        BY <3>a DEF TypeOK, SwapToCexec
      <3>b. ASSUME CountCall PROVE calls' \in [Task -> 0..MaxCalls]
        BY <3>b DEF TypeOK, CountCall
      <3>1. CASE sut_yield
        <4>1. SwapToCexec /\ CountCall
          BY <3>1 DEF sut_yield
        <4>2. QED
          BY <3>1, <3>a, <3>b, <4>1 DEF TypeOK, sut_yield, SwapToCexec
      <3>2. CASE sut_exit
        <4>1. SwapToCexec /\ isTaskActive' \in [Task -> BOOLEAN]
          BY <3>2 DEF TypeOK, sut_exit
        <4>2. QED
          BY <3>2, <3>a, <4>1 DEF TypeOK, sut_exit, SwapToCexec
      <3>3. ASSUME NEW op \in Request, RequestIo(op) PROVE TypeOK'
        <4>1. /\ SwapToCexec /\ CountCall
              /\ ioOperationType' \in [Task -> Request \cup {NO_IO_OP_REQUESTED}]
          BY <3>3 DEF TypeOK, RequestIo
        <4>2. QED
          BY <3>3, <3>a, <3>b, <4>1 DEF TypeOK, RequestIo, SwapToCexec
      <3>4. ASSUME NEW t \in Task, TaskCreate(t) PROVE TypeOK'
        <4>1. taskReadyQueue' \in Seq(Task)
          BY <3>4, InsertTail DEF TypeOK, TaskCreate, sut_create
        <4>2. QED
          BY <3>4, <4>1 DEF TypeOK, TaskCreate, sut_create, CountCall
      <3>5. QED
        BY <2>6, <3>1, <3>2, <3>3, <3>4 DEF TaskStep
    <2>7. CASE IexecPeek
      BY <2>7, PopHead DEF TypeOK, IexecPeek, queue_peek_front
    <2>8. CASE IexecPop
      BY <2>8, PopHead DEF TypeOK, IexecPop, queue_pop_head
    <2>9. CASE IexecRequeue
      <3>1. taskReadyQueue' \in Seq(Task)
        BY <2>9, InsertTail DEF TypeOK, IexecRequeue
      <3>2. QED
        BY <2>9, <3>1 DEF TypeOK, IexecRequeue
    <2>10. CASE IexecClaim \/ IexecIdlePeek \/ IexecExit \/ IexecStay \/ IexecReset
      BY <2>10 DEF TypeOK, IexecClaim, IexecIdlePeek, IexecExit, IexecStay, IexecReset
    <2>11. CASE IexecService
      BY <2>11 DEF TypeOK, IexecService
    <2>12. CASE UNCHANGED vars
      BY <2>12 DEF TypeOK, vars
    <2>13. QED
      BY <2>1, <2>2, <2>3, <2>4, <2>5, <2>6, <2>7, <2>8, <2>9, <2>10,
         <2>11, <2>12
      DEF Next, cexecScheduler, iexecScheduler, Terminated
  <1>3. QED
    BY <1>1, <1>2, PTL DEF Spec

-----------------------------------------------------------------------------
(***************************************************************************)
(* The task an executor pops is the one it peeked at: only the executor    *)
(* itself removes from its queue, and the others insert at the tail.       *)
(***************************************************************************)
THEOREM PoppedIsPeeked == Spec => []PoppedTaskIsThePeekedOne
  <1> DEFINE Inv == PoppedTaskIsThePeekedOne
  <1> USE DEF PoppedTaskIsThePeekedOne, queueVars, cexecVars, iexecVars
  <1>1. Init => Inv
    BY DEF Init
  <1>2. TypeOK /\ Inv /\ [Next]_vars => Inv'
    <2> SUFFICES ASSUME TypeOK, Inv, [Next]_vars PROVE Inv'
      OBVIOUS
    <2>0. /\ taskReadyQueue \in Seq(Task) /\ waitQueue \in Seq(Task)
          /\ cexecPc \in {"task", "back"} => taskAtFrontOfReadyQueue \in Task
          /\ iexecPc = "requeue" => taskAtFrontOfWaitQueue \in Task
      BY DEF TypeOK, CexecHolds, IexecHolds
    <2> HIDE DEF Inv
    <2>1. ASSUME NEW t \in Task, MainCreate(t) \/ TaskCreate(t) PROVE Inv'
      <3>1. taskReadyQueue # << >> =>
              taskReadyQueue' # << >> /\ Head(taskReadyQueue') = Head(taskReadyQueue)
        <4>1. taskReadyQueue' = queue_insert_tail(taskReadyQueue, t)
          BY <2>1 DEF MainCreate, TaskCreate, sut_create
        <4>2. /\ queue_insert_tail(taskReadyQueue, t) # << >>
              /\ taskReadyQueue # << >> =>
                   Head(queue_insert_tail(taskReadyQueue, t)) = Head(taskReadyQueue)
          BY ONLY <2>0, t \in Task, TailHead
        <4>3. QED
          BY ONLY <4>1, <4>2
      <3>2. QED
        BY <2>1, <3>1 DEF Inv, MainCreate, TaskCreate
    <2>2. CASE MainInit \/ ShutdownRequest \/ MainJoin
      BY <2>2 DEF Inv, MainInit, InitStartCexec, InitStartIexec, InitSetCexec, InitSetIexec,
                  ShutdownRequest, MainJoin, ShutdownJoinCexec, ShutdownJoinIexec
    <2>3. CASE CexecPeek
      BY <2>0, <2>3 DEF Inv, CexecPeek, queue_peek_front
    <2>4. CASE CexecPop
      BY <2>4 DEF Inv, CexecPop
    <2>5. CASE CexecRequeue
      <3>1. \/ UNCHANGED waitQueue
            \/ waitQueue' = queue_insert_tail(waitQueue, taskAtFrontOfReadyQueue)
        BY <2>5 DEF CexecRequeue
      <3>2. waitQueue # << >> => waitQueue' # << >> /\ Head(waitQueue') = Head(waitQueue)
        BY <2>0, <2>5, <3>1, InsertTail DEF CexecRequeue
      <3>3. QED
        BY <2>5, <3>2 DEF Inv, CexecRequeue
    <2>6. CASE CexecClaim \/ CexecIdlePeek \/ CexecExit \/ CexecStay \/ CexecReset
      BY <2>6 DEF Inv, CexecClaim, CexecIdlePeek, CexecExit, CexecStay, CexecReset
    <2>7. CASE SwapToCexec
      BY <2>7 DEF Inv, SwapToCexec
    <2>8. CASE IexecPeek
      BY <2>0, <2>8 DEF Inv, IexecPeek, queue_peek_front
    <2>9. CASE IexecPop
      BY <2>9 DEF Inv, IexecPop
    <2>10. CASE IexecRequeue
      <3>1. taskReadyQueue # << >> =>
              taskReadyQueue' # << >> /\ Head(taskReadyQueue') = Head(taskReadyQueue)
        BY <2>0, <2>10, InsertTail DEF IexecRequeue
      <3>2. QED
        BY <2>10, <3>1 DEF Inv, IexecRequeue
    <2>11. CASE IexecClaim \/ IexecService \/ IexecIdlePeek \/ IexecExit \/ IexecStay
                \/ IexecReset
      BY <2>11 DEF Inv, IexecClaim, IexecService, IexecIdlePeek, IexecExit, IexecStay,
                   IexecReset
    <2>12. CASE UNCHANGED vars
      BY <2>12 DEF Inv, vars
    <2>13. QED
      BY <2>1, <2>2, <2>3, <2>4, <2>5, <2>6, <2>7, <2>8, <2>9, <2>10, <2>11, <2>12
      DEF Next, Main, cexecScheduler, TaskStep, iexecScheduler, Terminated, sut_yield,
          sut_exit, RequestIo
  <1>3. QED
    BY <1>1, <1>2, TypeCorrect, PTL DEF Spec

-----------------------------------------------------------------------------
(***************************************************************************)
(* Tasks exist only after sut_init has ended, and only tasks that exist    *)
(* are queued or held: what the agreement of the two current-task pointers *)
(* rests on, because sut_init stores into the global ones.                 *)
(***************************************************************************)
InitEnded == mainPc \notin {"startCexec", "startIexec", "setCexec", "setIexec"}

OnlyCreatedTasks ==
  /\ \A t \in Task : context[t] # "none" => InitEnded
  /\ \A t \in Range(taskReadyQueue) \cup Range(waitQueue) : context[t] # "none"
  /\ CexecHolds => context[taskAtFrontOfReadyQueue] # "none"
  /\ IexecHolds => context[taskAtFrontOfWaitQueue] # "none"

(* Only tasks that sut_create made are queued or held. *)
LEMMA OnlyCreated == Spec => []OnlyCreatedTasks
  <1> DEFINE Inv == OnlyCreatedTasks
  <1> USE DEF OnlyCreatedTasks, InitEnded, CexecHolds, IexecHolds, queueVars, cexecVars,
              iexecVars, taskVars
  <1>1. Init => Inv
    <2>1. Range(<< >>) = {}
      BY DEF Range
    <2>2. QED
      BY <2>1 DEF Init, queue_init
  <1>2. TypeOK /\ Inv /\ [Next]_vars => Inv'
    <2> SUFFICES ASSUME TypeOK, Inv, [Next]_vars PROVE Inv'
      OBVIOUS
    <2>0. /\ taskReadyQueue \in Seq(Task) /\ waitQueue \in Seq(Task)
          /\ Range(taskReadyQueue) \subseteq Task /\ Range(waitQueue) \subseteq Task
          /\ CexecHolds => taskAtFrontOfReadyQueue \in Task
          /\ IexecHolds => taskAtFrontOfWaitQueue \in Task
          /\ context \in [Task -> {"none", "fn", "saved"}]
      BY EmptyRange DEF TypeOK
    <2>1. ASSUME NEW t \in Task, MainCreate(t) PROVE Inv'
      <3>1. /\ Range(taskReadyQueue') = Range(taskReadyQueue) \cup {t}
            /\ context' = [context EXCEPT ![t] = "fn"]
        <4>1. /\ taskReadyQueue' = queue_insert_tail(taskReadyQueue, t)
              /\ context' = [context EXCEPT ![t] = "fn"]
          BY ONLY <2>1 DEF MainCreate, sut_create
        <4>2. Range(queue_insert_tail(taskReadyQueue, t)) = Range(taskReadyQueue) \cup {t}
          BY ONLY <2>0, t \in Task, TailRange
        <4>3. QED
          BY ONLY <4>1, <4>2
      <3>2. QED
        BY <2>0, <2>1, <3>1 DEF MainCreate
    <2>2. ASSUME NEW t \in Task, TaskCreate(t) PROVE Inv'
      <3>1. /\ Range(taskReadyQueue') = Range(taskReadyQueue) \cup {t}
            /\ context' = [context EXCEPT ![t] = "fn"]
        <4>1. /\ taskReadyQueue' = queue_insert_tail(taskReadyQueue, t)
              /\ context' = [context EXCEPT ![t] = "fn"]
          BY ONLY <2>2 DEF TaskCreate, sut_create
        <4>2. Range(queue_insert_tail(taskReadyQueue, t)) = Range(taskReadyQueue) \cup {t}
          BY ONLY <2>0, t \in Task, TailRange
        <4>3. QED
          BY ONLY <4>1, <4>2
      <3>2. QED
        BY <2>0, <2>2, <3>1 DEF TaskCreate
    <2>3. CASE MainInit \/ ShutdownRequest \/ MainJoin
      BY <2>3 DEF MainInit, InitStartCexec, InitStartIexec, InitSetCexec, InitSetIexec,
                  ShutdownRequest, MainJoin, ShutdownJoinCexec, ShutdownJoinIexec
    <2>4. CASE CexecPeek
      BY <2>0, <2>4, PopHead DEF CexecPeek, queue_peek_front
    <2>5. CASE CexecPop
      <3>1. Range(taskReadyQueue') \subseteq Range(taskReadyQueue)
        BY <2>0, <2>5, PopHead DEF CexecPop, queue_pop_head
      <3>2. QED
        BY <2>0, <2>5, <3>1 DEF CexecPop
    <2>6. CASE CexecRequeue
      <3>1. Range(taskReadyQueue') \cup Range(waitQueue')
              \subseteq Range(taskReadyQueue) \cup Range(waitQueue)
                        \cup {taskAtFrontOfReadyQueue}
        <4>1. taskAtFrontOfReadyQueue \in Task
          BY <2>0, <2>6 DEF CexecRequeue
        <4>2. /\ Range(queue_insert_tail(taskReadyQueue, taskAtFrontOfReadyQueue))
                   = Range(taskReadyQueue) \cup {taskAtFrontOfReadyQueue}
              /\ Range(queue_insert_tail(waitQueue, taskAtFrontOfReadyQueue))
                   = Range(waitQueue) \cup {taskAtFrontOfReadyQueue}
          BY ONLY <2>0, <4>1, TailRange
        <4>3. \/ /\ taskReadyQueue' = taskReadyQueue
                 /\ waitQueue' = queue_insert_tail(waitQueue, taskAtFrontOfReadyQueue)
              \/ /\ taskReadyQueue' = queue_insert_tail(taskReadyQueue,
                                                        taskAtFrontOfReadyQueue)
                 /\ waitQueue' = waitQueue
              \/ UNCHANGED << taskReadyQueue, waitQueue >>
          BY ONLY <2>6 DEF CexecRequeue, queueVars
        <4>4. QED
          BY ONLY <4>2, <4>3
      <3>2. QED
        BY <2>0, <2>6, <3>1 DEF CexecRequeue
    <2>7. CASE CexecClaim \/ CexecIdlePeek \/ CexecExit \/ CexecStay \/ CexecReset
      BY <2>7 DEF CexecClaim, CexecIdlePeek, CexecExit, CexecStay, CexecReset
    <2>8. CASE SwapToCexec
      BY <2>0, <2>8 DEF SwapToCexec
    <2>9. CASE IexecPeek
      BY <2>0, <2>9, PopHead DEF IexecPeek, queue_peek_front
    <2>10. CASE IexecPop
      <3>1. Range(waitQueue') \subseteq Range(waitQueue)
        BY <2>0, <2>10, PopHead DEF IexecPop, queue_pop_head
      <3>2. QED
        BY <2>0, <2>10, <3>1 DEF IexecPop
    <2>11. CASE IexecRequeue
      <3>1. Range(taskReadyQueue') = Range(taskReadyQueue) \cup {taskAtFrontOfWaitQueue}
        <4>1. taskReadyQueue' = queue_insert_tail(taskReadyQueue, taskAtFrontOfWaitQueue)
          BY ONLY <2>11 DEF IexecRequeue
        <4>2. taskAtFrontOfWaitQueue \in Task
          BY <2>0, <2>11 DEF IexecRequeue
        <4>3. QED
          BY ONLY <2>0, <4>1, <4>2, TailRange
      <3>2. QED
        BY <2>0, <2>11, <3>1 DEF IexecRequeue
    <2>12. CASE IexecClaim \/ IexecService \/ IexecIdlePeek \/ IexecExit \/ IexecStay
                \/ IexecReset
      BY <2>12 DEF IexecClaim, IexecService, IexecIdlePeek, IexecExit, IexecStay,
                   IexecReset
    <2>13. CASE UNCHANGED vars
      BY <2>13 DEF vars
    <2>14. QED
      BY <2>1, <2>2, <2>3, <2>4, <2>5, <2>6, <2>7, <2>8, <2>9, <2>10, <2>11, <2>12,
         <2>13
      DEF Next, Main, cexecScheduler, TaskStep, iexecScheduler, Terminated, sut_yield,
          sut_exit, RequestIo
  <1>3. QED
    BY <1>1, <1>2, TypeCorrect, PTL DEF Spec

-----------------------------------------------------------------------------
(***************************************************************************)
(* The two pointers of an executor to its task agree during a task's turn. *)
(***************************************************************************)
THEOREM PointersAgree == Spec => []CurrentPointersAgree
  <1> DEFINE Inv == CurrentPointersAgree
  <1> USE DEF CurrentPointersAgree, currentVars, cexecVars, iexecVars
  <1>1. Init => Inv
    BY DEF Init
  <1>2. TypeOK /\ OnlyCreatedTasks /\ Inv /\ [Next]_vars => Inv'
    <2> SUFFICES ASSUME TypeOK, OnlyCreatedTasks, Inv, [Next]_vars PROVE Inv'
      OBVIOUS
    <2>1. CASE MainInit
      <3>1. ~InitEnded
        BY <2>1 DEF MainInit, InitStartCexec, InitStartIexec, InitSetCexec, InitSetIexec,
                    InitEnded
      <3>2. ~CexecHolds /\ ~IexecHolds
        BY <3>1 DEF OnlyCreatedTasks, TypeOK
      <3>3. QED
        BY <2>1, <3>2 DEF MainInit, InitStartCexec, InitStartIexec, InitSetCexec,
                          InitSetIexec, CexecHolds, IexecHolds
    <2>2. ASSUME NEW t \in Task, MainCreate(t) \/ TaskCreate(t) PROVE Inv'
      BY <2>2 DEF MainCreate, TaskCreate
    <2>3. CASE ShutdownRequest \/ MainJoin
      BY <2>3 DEF ShutdownRequest, MainJoin, ShutdownJoinCexec, ShutdownJoinIexec
    <2>4. CASE \/ CexecPeek \/ CexecClaim \/ CexecPop \/ CexecRequeue
               \/ CexecIdlePeek \/ CexecExit \/ CexecStay \/ CexecReset
      BY <2>4 DEF CexecPeek, CexecClaim, CexecPop, CexecRequeue, CexecIdlePeek, CexecExit,
                  CexecStay, CexecReset
    <2>5. CASE SwapToCexec
      BY <2>5 DEF SwapToCexec
    <2>6. CASE iexecScheduler
      BY <2>6 DEF iexecScheduler, IexecPeek, IexecClaim, IexecPop, IexecService,
                  IexecRequeue, IexecIdlePeek, IexecExit, IexecStay, IexecReset
    <2>7. CASE UNCHANGED vars
      BY <2>7 DEF vars
    <2>8. QED
      BY <2>1, <2>2, <2>3, <2>4, <2>5, <2>6, <2>7
      DEF Next, Main, cexecScheduler, TaskStep, Terminated, sut_yield, sut_exit, RequestIo
  <1>3. QED
    BY <1>1, <1>2, TypeCorrect, OnlyCreated, PTL DEF Spec

-----------------------------------------------------------------------------
(***************************************************************************)
(* No task is lost or doubled.  Every step that moves a task moves it from *)
(* one of four places to another; the pop moves the task that was peeked   *)
(* at (PoppedIsPeeked), and the test and the update of isTaskActive go     *)
(* through a pointer to the task that is held (PointersAgree).             *)
(***************************************************************************)
Queued == Range(taskReadyQueue) \cup Range(waitQueue)

THEOREM Conservation == Spec => []TaskConservation
  <1> DEFINE Inv == TaskConservation
  <1> USE DEF queueVars, cexecVars, iexecVars, taskVars
  <1>1. Init => Inv
    <2>1. Range(<< >>) = {} /\ IsInjective(<< >>)
      BY DEF Range, IsInjective
    <2>2. Init => Live = {} /\ OnCexec = {} /\ OnIexec = {}
      BY DEF Init, Live, OnCexec, OnIexec
    <2>3. QED
      BY <2>1, <2>2 DEF Init, queue_init, TaskConservation
  <1>2. /\ TypeOK /\ PoppedTaskIsThePeekedOne /\ OnlyCreatedTasks
        /\ CurrentPointersAgree /\ Inv /\ [Next]_vars
        => Inv'
    <2> SUFFICES ASSUME TypeOK, PoppedTaskIsThePeekedOne, OnlyCreatedTasks,
                        CurrentPointersAgree, TaskConservation, [Next]_vars
                 PROVE  TaskConservation'
      OBVIOUS
    <2>0. /\ taskReadyQueue \in Seq(Task) /\ waitQueue \in Seq(Task)
          /\ CexecHolds => taskAtFrontOfReadyQueue \in Task
          /\ IexecHolds => taskAtFrontOfWaitQueue \in Task
          /\ context \in [Task -> {"none", "fn", "saved"}]
          /\ isTaskActive \in [Task -> BOOLEAN]
          /\ Live \subseteq Task
      BY DEF TypeOK, Live
    <2>1. ASSUME NEW t \in Task, MainCreate(t) \/ TaskCreate(t) PROVE TaskConservation'
      <3>1. /\ context[t] = "none"
            /\ context' = [context EXCEPT ![t] = "fn"]
            /\ isTaskActive' = [isTaskActive EXCEPT ![t] = TRUE]
            /\ taskReadyQueue' = queue_insert_tail(taskReadyQueue, t)
            /\ UNCHANGED << waitQueue, cexecVars, iexecVars >>
        BY <2>1 DEF MainCreate, TaskCreate, sut_create
      <3>2. Live' = Live \cup {t} /\ t \notin Live
        BY <2>0, <3>1 DEF Live
      <3>3. OnCexec' = OnCexec /\ OnIexec' = OnIexec
        BY <2>0, <3>1 DEF OnCexec, OnIexec, OnlyCreatedTasks, CexecHolds
      <3>4. t \notin Range(taskReadyQueue)
        BY <3>2 DEF TaskConservation
      <3>5. /\ Range(taskReadyQueue') = Range(taskReadyQueue) \cup {t}
            /\ IsInjective(taskReadyQueue')
        BY <2>0, <3>1, <3>4, InsertTail DEF TaskConservation
      <3>6. QED
        BY <3>1, <3>2, <3>3, <3>5 DEF TaskConservation
    <2>2. CASE CexecPop
      <3>1. /\ taskReadyQueue # << >> /\ Head(taskReadyQueue) = taskAtFrontOfReadyQueue
            /\ taskReadyQueue' = queue_pop_head(taskReadyQueue)
        BY <2>2 DEF CexecPop, PoppedTaskIsThePeekedOne
      <3>2. /\ Range(taskReadyQueue) = {taskAtFrontOfReadyQueue} \cup Range(taskReadyQueue')
            /\ IsInjective(taskReadyQueue')
            /\ taskAtFrontOfReadyQueue \notin Range(taskReadyQueue')
        BY <2>0, <3>1, PopHead DEF TaskConservation
      <3>3. taskAtFrontOfReadyQueue \in Live
        BY <3>2 DEF TaskConservation
      <3>4. OnCexec = {} /\ OnCexec' = {taskAtFrontOfReadyQueue}
        BY <2>2, <3>3 DEF CexecPop, OnCexec, Live
      <3>5. OnIexec' = OnIexec /\ Live' = Live /\ waitQueue' = waitQueue
        BY <2>2 DEF CexecPop, OnIexec, Live
      <3>6. QED
        BY <3>2, <3>4, <3>5 DEF TaskConservation
    <2>3. CASE CexecRequeue
      <3> DEFINE e == taskAtFrontOfReadyQueue
      <3>1. /\ e \in Task
            /\ cexecCurrentRunningTask = e
            /\ cexecPc = "back" /\ cexecPc' = "reset"
            /\ UNCHANGED << taskVars, iexecVars >>
        BY <2>0, <2>3 DEF CexecRequeue, CexecHolds, CurrentPointersAgree
      <3>2. OnCexec' = {} /\ OnIexec' = OnIexec /\ Live' = Live
        BY <3>1 DEF OnCexec, OnIexec, Live
      <3>3. CASE isTaskActive[e] /\ taskReadyQueue' = queue_insert_tail(taskReadyQueue, e)
                 /\ UNCHANGED waitQueue
        <4>1. OnCexec = {e} /\ e \notin Range(taskReadyQueue)
          BY <3>1, <3>3 DEF OnCexec, TaskConservation
        <4>2. Range(taskReadyQueue') = Range(taskReadyQueue) \cup {e}
              /\ IsInjective(taskReadyQueue')
          BY <2>0, <3>1, <3>3, <4>1, InsertTail DEF TaskConservation
        <4>3. QED
          BY <3>2, <3>3, <4>1, <4>2 DEF TaskConservation
      <3>4. CASE isTaskActive[e] /\ waitQueue' = queue_insert_tail(waitQueue, e)
                 /\ UNCHANGED taskReadyQueue
        <4>1. OnCexec = {e} /\ e \notin Range(waitQueue)
          BY <3>1, <3>4 DEF OnCexec, TaskConservation
        <4>2. Range(waitQueue') = Range(waitQueue) \cup {e} /\ IsInjective(waitQueue')
          BY <2>0, <3>1, <3>4, <4>1, InsertTail DEF TaskConservation
        <4>3. QED
          BY <3>2, <3>4, <4>1, <4>2 DEF TaskConservation
      <3>5. CASE ~isTaskActive[e] /\ UNCHANGED queueVars
        <4>1. OnCexec = {}
          BY <3>1, <3>5 DEF OnCexec
        <4>2. QED
          BY <3>2, <3>5, <4>1 DEF TaskConservation
      <3>6. QED
        BY <2>3, <3>1, <3>3, <3>4, <3>5 DEF CexecRequeue
    <2>4. CASE \/ CexecPeek \/ CexecClaim \/ CexecIdlePeek \/ CexecExit \/ CexecStay
               \/ CexecReset
      <3>1. /\ cexecPc \notin {"task", "back"} /\ cexecPc' \notin {"task", "back"}
            /\ UNCHANGED << queueVars, taskVars, iexecVars >>
        BY <2>4 DEF CexecPeek, CexecClaim, CexecIdlePeek, CexecExit, CexecStay, CexecReset
      <3>2. OnCexec = {} /\ OnCexec' = {} /\ OnIexec' = OnIexec /\ Live' = Live
        BY <3>1 DEF OnCexec, OnIexec, Live
      <3>3. QED
        BY <3>1, <3>2 DEF TaskConservation
    <2>5. CASE SwapToCexec /\ UNCHANGED isTaskActive
      <3>1. /\ cexecCurrentRunningTask = taskAtFrontOfReadyQueue
            /\ taskAtFrontOfReadyQueue \in Task
            /\ context[taskAtFrontOfReadyQueue] # "none"
            /\ context' = [context EXCEPT ![taskAtFrontOfReadyQueue] = "saved"]
        BY <2>0, <2>5 DEF SwapToCexec, CexecHolds, CurrentPointersAgree, OnlyCreatedTasks
      <3>2. Live' = Live
        BY <2>0, <2>5, <3>1 DEF Live
      <3>3. OnCexec' = OnCexec /\ OnIexec' = OnIexec
        BY <2>5 DEF SwapToCexec, OnCexec, OnIexec
      <3>4. QED
        BY <2>5, <3>2, <3>3 DEF SwapToCexec, TaskConservation
    <2>6. CASE sut_exit
      <3> DEFINE e == taskAtFrontOfReadyQueue
      <3>1. /\ cexecPc = "task" /\ e \in Task /\ context[e] # "none"
            /\ context' = [context EXCEPT ![e] = "saved"]
            /\ isTaskActive' = [isTaskActive EXCEPT ![e] = FALSE]
            /\ UNCHANGED << queueVars, iexecVars, taskAtFrontOfReadyQueue >>
        BY <2>0, <2>6 DEF sut_exit, SwapToCexec, CexecHolds, CurrentPointersAgree,
                          OnlyCreatedTasks
      <3>2. Live' = Live \ {e}
        BY <2>0, <3>1 DEF Live
      <3>3. OnCexec' = {} /\ OnIexec' = OnIexec
        BY <2>0, <3>1 DEF OnCexec, OnIexec
      <3>4. OnCexec = IF isTaskActive[e] THEN {e} ELSE {}
        BY <3>1 DEF OnCexec
      <3>5. e \notin Queued \cup OnIexec
        BY <3>1, <3>4 DEF TaskConservation, Live, Queued
      <3>6. Queued \cup OnIexec = Live'
        BY <3>2, <3>4, <3>5 DEF TaskConservation, Queued, Live
      <3>7. QED
        BY <3>1, <3>3, <3>6 DEF TaskConservation, Queued
    <2>7. CASE IexecPop
      <3>1. /\ waitQueue # << >> /\ Head(waitQueue) = taskAtFrontOfWaitQueue
            /\ waitQueue' = queue_pop_head(waitQueue)
        BY <2>7 DEF IexecPop, PoppedTaskIsThePeekedOne
      <3>2. /\ Range(waitQueue) = {taskAtFrontOfWaitQueue} \cup Range(waitQueue')
            /\ IsInjective(waitQueue')
            /\ taskAtFrontOfWaitQueue \notin Range(waitQueue')
        BY <2>0, <3>1, PopHead DEF TaskConservation
      <3>3. OnIexec = {} /\ OnIexec' = {taskAtFrontOfWaitQueue}
        BY <2>7 DEF IexecPop, OnIexec
      <3>4. OnCexec' = OnCexec /\ Live' = Live /\ taskReadyQueue' = taskReadyQueue
        BY <2>7 DEF IexecPop, OnCexec, Live
      <3>5. QED
        BY <3>2, <3>3, <3>4 DEF TaskConservation
    <2>8. CASE IexecRequeue
      <3> DEFINE e == taskAtFrontOfWaitQueue
      <3>1. /\ OnIexec = {e} /\ OnIexec' = {} /\ e \in Task
            /\ taskReadyQueue' = queue_insert_tail(taskReadyQueue, e)
            /\ waitQueue' = waitQueue
        BY <2>0, <2>8 DEF IexecRequeue, OnIexec, IexecHolds
      <3>2. /\ Range(taskReadyQueue') = Range(taskReadyQueue) \cup {e}
            /\ IsInjective(taskReadyQueue')
        BY <2>0, <3>1, InsertTail DEF TaskConservation
      <3>3. OnCexec' = OnCexec /\ Live' = Live
        BY <2>8 DEF IexecRequeue, OnCexec, Live
      <3>4. QED
        BY <3>1, <3>2, <3>3 DEF TaskConservation
    <2>9. CASE \/ IexecPeek \/ IexecClaim \/ IexecService \/ IexecIdlePeek \/ IexecExit
               \/ IexecStay \/ IexecReset
      <3>1. /\ OnIexec' = OnIexec
            /\ UNCHANGED << queueVars, context, isTaskActive, cexecVars >>
        BY <2>9 DEF IexecPeek, IexecClaim, IexecService, IexecIdlePeek, IexecExit,
                    IexecStay, IexecReset, OnIexec
      <3>2. OnCexec' = OnCexec /\ Live' = Live
        BY <3>1 DEF OnCexec, Live
      <3>3. QED
        BY <3>1, <3>2 DEF TaskConservation
    <2>10. CASE MainInit \/ ShutdownRequest \/ MainJoin
      <3>1. /\ OnIexec' = OnIexec /\ OnCexec' = OnCexec
            /\ UNCHANGED << queueVars, context, isTaskActive >>
        <4>1. ~InitEnded => ~CexecHolds /\ ~IexecHolds
          BY DEF OnlyCreatedTasks, TypeOK
        <4>2. QED
          BY <2>10, <4>1 DEF MainInit, InitStartCexec, InitStartIexec, InitSetCexec,
               InitSetIexec, ShutdownRequest, MainJoin, ShutdownJoinCexec,
               ShutdownJoinIexec, OnIexec, OnCexec, InitEnded, CexecHolds, IexecHolds
      <3>2. QED
        BY <3>1 DEF Live, TaskConservation
    <2>11. CASE UNCHANGED vars
      BY <2>11 DEF vars, TaskConservation, OnCexec, OnIexec, Live
    <2>12. QED
      BY <2>1, <2>2, <2>3, <2>4, <2>5, <2>6, <2>7, <2>8, <2>9, <2>10, <2>11
      DEF Next, Main, cexecScheduler, TaskStep, iexecScheduler, Terminated, sut_yield,
          RequestIo
  <1>3. QED
    BY <1>1, <1>2, TypeCorrect, PoppedIsPeeked, OnlyCreated, PointersAgree, PTL DEF Spec

-----------------------------------------------------------------------------
(***************************************************************************)
(* A request is served once.  Besides where tasks are, this needs that the *)
(* entry a step changes is in no other place (Conservation).               *)
(***************************************************************************)
THEOREM RequestServedOnce == Spec => []RequestMatchesPlace
  <1> DEFINE Inv == RequestMatchesPlace
  <1> USE RequestAssumption
      DEF RequestMatchesPlace, queueVars, cexecVars, iexecVars, taskVars
  <1>1. Init => Inv
    <2>1. Range(<< >>) = {}
      BY DEF Range
    <2>2. QED
      BY <2>1 DEF Init, queue_init
  <1>2. /\ TypeOK /\ PoppedTaskIsThePeekedOne /\ OnlyCreatedTasks
        /\ CurrentPointersAgree /\ TaskConservation /\ Inv /\ [Next]_vars
        => Inv'
    <2> SUFFICES ASSUME TypeOK, PoppedTaskIsThePeekedOne, OnlyCreatedTasks,
                        CurrentPointersAgree, TaskConservation, Inv, [Next]_vars
                 PROVE  Inv'
      OBVIOUS
    <2>0. /\ taskReadyQueue \in Seq(Task) /\ waitQueue \in Seq(Task)
          /\ Range(taskReadyQueue) \subseteq Task /\ Range(waitQueue) \subseteq Task
          /\ CexecHolds => taskAtFrontOfReadyQueue \in Task
          /\ IexecHolds => taskAtFrontOfWaitQueue \in Task
          /\ ioOperationType \in [Task -> Request \cup {NO_IO_OP_REQUESTED}]
      BY EmptyRange DEF TypeOK
    <2>1. ASSUME NEW t \in Task, MainCreate(t) \/ TaskCreate(t) PROVE Inv'
      <3>1. /\ context[t] = "none"
            /\ ioOperationType' = [ioOperationType EXCEPT ![t] = NO_IO_OP_REQUESTED]
            /\ Range(taskReadyQueue') = Range(taskReadyQueue) \cup {t}
            /\ UNCHANGED << waitQueue, cexecVars, iexecVars >>
        <4>1. Range(queue_insert_tail(taskReadyQueue, t)) = Range(taskReadyQueue) \cup {t}
          BY <2>0, InsertTail
        <4>2. QED
          BY <2>1, <4>1 DEF MainCreate, TaskCreate, sut_create
      <3>2. /\ t \notin Range(waitQueue)
            /\ CexecHolds => taskAtFrontOfReadyQueue # t
            /\ IexecHolds => taskAtFrontOfWaitQueue # t
        BY <3>1 DEF OnlyCreatedTasks
      <3>3. QED
        BY <2>0, <3>1, <3>2 DEF CexecHolds, IexecHolds
    <2>2. CASE CexecPop
      <3>1. /\ Range(taskReadyQueue') \subseteq Range(taskReadyQueue)
            /\ taskAtFrontOfReadyQueue \in Range(taskReadyQueue)
        BY <2>0, <2>2, PopHead DEF CexecPop, PoppedTaskIsThePeekedOne
      <3>2. QED
        BY <2>2, <3>1 DEF CexecPop
    <2>3. CASE CexecRequeue
      <3> DEFINE e == taskAtFrontOfReadyQueue
      <3>1. e \in Task
        BY <2>0, <2>3 DEF CexecRequeue, CexecHolds
      <3>2. /\ Range(queue_insert_tail(taskReadyQueue, e)) = Range(taskReadyQueue) \cup {e}
            /\ Range(queue_insert_tail(waitQueue, e)) = Range(waitQueue) \cup {e}
        BY ONLY <2>0, <3>1, TailRange
      <3>3. QED
        BY <2>3, <3>2 DEF CexecRequeue
    <2>4. CASE \/ CexecPeek \/ CexecClaim \/ CexecIdlePeek \/ CexecExit \/ CexecStay
               \/ CexecReset
      BY <2>4 DEF CexecPeek, CexecClaim, CexecIdlePeek, CexecExit, CexecStay, CexecReset
    <2>5. CASE SwapToCexec /\ UNCHANGED ioOperationType
      BY <2>5 DEF SwapToCexec
    <2>6. ASSUME NEW op \in Request, RequestIo(op) PROVE Inv'
      <3> DEFINE e == taskAtFrontOfReadyQueue
      <3>1. /\ cexecPc = "task" /\ cexecPc' = "back" /\ e \in Task
            /\ ioOperationType' = [ioOperationType EXCEPT ![e] = op]
            /\ UNCHANGED << queueVars, iexecVars >>
        BY <2>0, <2>6 DEF RequestIo, SwapToCexec, CexecHolds, CurrentPointersAgree
      <3>2. e \notin Queued \cup OnIexec
        <4>1. isTaskActive[e] => OnCexec = {e}
          BY <3>1 DEF OnCexec
        <4>2. QED
          BY <4>1 DEF TaskConservation, Queued, Live
      <3>3. QED
        BY <2>0, <3>1, <3>2 DEF Queued, OnIexec
    <2>7. CASE IexecPop
      <3>1. /\ Range(waitQueue') \subseteq Range(waitQueue)
            /\ taskAtFrontOfWaitQueue \in Range(waitQueue)
        BY <2>0, <2>7, PopHead DEF IexecPop, PoppedTaskIsThePeekedOne
      <3>2. QED
        BY <2>7, <3>1 DEF IexecPop
    <2>8. CASE IexecService
      <3> DEFINE e == taskAtFrontOfWaitQueue
      <3>1. /\ e \in Task /\ OnIexec = {e} /\ iexecPc' = "requeue"
            /\ ioOperationType' = [ioOperationType EXCEPT ![e] = NO_IO_OP_REQUESTED]
            /\ UNCHANGED << queueVars, cexecVars, taskAtFrontOfWaitQueue >>
        BY <2>0, <2>8 DEF IexecService, IexecHolds, OnIexec
      <3>2. e \notin Queued
        BY <3>1 DEF TaskConservation, Queued
      <3>3. QED
        BY <2>0, <3>1, <3>2 DEF Queued, CexecHolds
    <2>9. CASE IexecRequeue
      <3>1. /\ taskAtFrontOfWaitQueue \in Task
            /\ Range(taskReadyQueue') = Range(taskReadyQueue) \cup {taskAtFrontOfWaitQueue}
        BY <2>0, <2>9, InsertTail DEF IexecRequeue, IexecHolds
      <3>2. QED
        BY <2>9, <3>1 DEF IexecRequeue
    <2>10. CASE \/ IexecPeek \/ IexecClaim \/ IexecIdlePeek \/ IexecExit \/ IexecStay
                \/ IexecReset
      BY <2>10 DEF IexecPeek, IexecClaim, IexecIdlePeek, IexecExit, IexecStay, IexecReset
    <2>11. CASE MainInit \/ ShutdownRequest \/ MainJoin
      BY <2>11 DEF MainInit, InitStartCexec, InitStartIexec, InitSetCexec, InitSetIexec,
                   ShutdownRequest, MainJoin, ShutdownJoinCexec, ShutdownJoinIexec
    <2>12. CASE UNCHANGED vars
      BY <2>12 DEF vars
    <2>13. QED
      BY <2>1, <2>2, <2>3, <2>4, <2>5, <2>6, <2>7, <2>8, <2>9, <2>10, <2>11, <2>12
      DEF Next, Main, cexecScheduler, TaskStep, iexecScheduler, Terminated, sut_yield,
          sut_exit
  <1>3. QED
    BY <1>1, <1>2, TypeCorrect, PoppedIsPeeked, OnlyCreated, PointersAgree, Conservation,
       PTL DEF Spec

-----------------------------------------------------------------------------
(***************************************************************************)
(* A started task is finished when sut_shutdown returns.  Each executor    *)
(* decides to leave on an old look at the queues.  What makes the two old  *)
(* looks add up is this: from the later look on, both executors are past   *)
(* taking a task, so the wait queue stays empty and the ready queue gets   *)
(* only tasks that main creates, which have not started.                   *)
(***************************************************************************)
CexecSawEmpty == cexecPc \in {"check", "exited"}
IexecSawEmpty == iexecPc \in {"check", "exited"}

LeavingInv ==
  /\ CexecSawEmpty /\ IexecSawEmpty =>
       /\ waitQueue = << >>
       /\ \A t \in Range(taskReadyQueue) : context[t] = "fn"
  /\ mainPc \in {"joinIexec", "done"} => cexecPc = "exited"
  /\ mainPc = "done" => iexecPc = "exited"

(* The executors that have seen the queues empty leave no started task. *)
LEMMA Leaving == Spec => []LeavingInv
  <1> DEFINE Inv == LeavingInv
  <1> USE DEF LeavingInv, CexecSawEmpty, IexecSawEmpty, queueVars, cexecVars, iexecVars,
              taskVars
  <1>1. Init => Inv
    BY DEF Init
  <1>2. TypeOK /\ Inv /\ [Next]_vars => Inv'
    <2> SUFFICES ASSUME TypeOK, Inv, [Next]_vars PROVE Inv'
      OBVIOUS
    <2>0. /\ taskReadyQueue \in Seq(Task) /\ waitQueue \in Seq(Task)
          /\ Range(taskReadyQueue) \subseteq Task
          /\ context \in [Task -> {"none", "fn", "saved"}]
      BY EmptyRange DEF TypeOK
    <2>1. ASSUME NEW t \in Task, MainCreate(t) PROVE Inv'
      <3>1. /\ context' = [context EXCEPT ![t] = "fn"]
            /\ Range(taskReadyQueue') = Range(taskReadyQueue) \cup {t}
        <4>1. Range(queue_insert_tail(taskReadyQueue, t)) = Range(taskReadyQueue) \cup {t}
          BY <2>0, InsertTail
        <4>2. QED
          BY <2>1, <4>1 DEF MainCreate, sut_create
      <3>2. QED
        BY <2>0, <2>1, <3>1 DEF MainCreate
    <2>2. ASSUME NEW t \in Task, TaskCreate(t) PROVE Inv'
      BY <2>2 DEF TaskCreate
    <2>3. CASE CexecIdlePeek
      <3>1. QueuesSeenEmpty => taskReadyQueue = << >> /\ waitQueue = << >>
        BY <2>0, PeekNull, TaskAssumption DEF QueuesSeenEmpty
      <3>2. Range(<< >>) = {}
        BY DEF Range
      <3>3. QED
        BY <2>3, <3>1, <3>2 DEF CexecIdlePeek
    <2>4. CASE \/ CexecPeek \/ CexecClaim \/ CexecPop \/ CexecRequeue \/ CexecExit
               \/ CexecStay \/ CexecReset
      BY <2>4 DEF CexecPeek, CexecClaim, CexecPop, CexecRequeue, CexecExit, CexecStay,
                  CexecReset
    <2>5. CASE SwapToCexec
      BY <2>5 DEF SwapToCexec
    <2>6. CASE IexecIdlePeek
      <3>1. QueuesSeenEmpty => taskReadyQueue = << >> /\ waitQueue = << >>
        BY <2>0, PeekNull, TaskAssumption DEF QueuesSeenEmpty
      <3>2. Range(<< >>) = {}
        BY DEF Range
      <3>3. QED
        BY <2>6, <3>1, <3>2 DEF IexecIdlePeek
    <2>7. CASE \/ IexecPeek \/ IexecClaim \/ IexecPop \/ IexecService \/ IexecRequeue
               \/ IexecExit \/ IexecStay \/ IexecReset
      BY <2>7 DEF IexecPeek, IexecClaim, IexecPop, IexecService, IexecRequeue, IexecExit,
                  IexecStay, IexecReset
    <2>8. CASE MainInit \/ ShutdownRequest \/ MainJoin
      BY <2>8 DEF MainInit, InitStartCexec, InitStartIexec, InitSetCexec, InitSetIexec,
                  ShutdownRequest, MainJoin, ShutdownJoinCexec, ShutdownJoinIexec
    <2>9. CASE UNCHANGED vars
      BY <2>9 DEF vars
    <2>10. QED
      BY <2>1, <2>2, <2>3, <2>4, <2>5, <2>6, <2>7, <2>8, <2>9
      DEF Next, Main, cexecScheduler, TaskStep, iexecScheduler, Terminated, sut_yield,
          sut_exit, RequestIo
  <1>3. QED
    BY <1>1, <1>2, TypeCorrect, PTL DEF Spec

(* sut_shutdown never returns while a task is in the middle of its run. *)
THEOREM NoStartedTaskLeft == Spec => []StartedTaskNeverAbandoned
  <1>1. TypeOK /\ TaskConservation /\ LeavingInv => StartedTaskNeverAbandoned
    <2> SUFFICES ASSUME TypeOK, TaskConservation, LeavingInv, mainPc = "done",
                        NEW t \in Task, context[t] = "saved", isTaskActive[t]
                 PROVE  FALSE
      BY DEF StartedTaskNeverAbandoned, TypeOK
    <2>1. cexecPc = "exited" /\ iexecPc = "exited"
      BY DEF LeavingInv
    <2>2. OnCexec = {} /\ OnIexec = {}
      BY <2>1 DEF OnCexec, OnIexec
    <2>3. waitQueue = << >> /\ \A u \in Range(taskReadyQueue) : context[u] = "fn"
      BY <2>1 DEF LeavingInv, CexecSawEmpty, IexecSawEmpty
    <2>4. t \in Live /\ Range(waitQueue) = {}
      BY <2>3 DEF Live, Range
    <2>5. t \in Range(taskReadyQueue)
      BY <2>2, <2>4 DEF TaskConservation
    <2>6. QED
      BY <2>3, <2>5
  <1>2. QED
    BY <1>1, TypeCorrect, Conservation, Leaving, PTL

-----------------------------------------------------------------------------
(***************************************************************************)
(* The executors implement the abstract tasks.                             *)
(***************************************************************************)

(* A task in front of a queue: what the refinement mapping of the requests *)
(* under service needs.                                                    *)
LEMMA InFront ==
  ASSUME NEW S, NEW q \in Seq(S), NEW x \in S
  PROVE  /\ << x >> \o q # << >> /\ Head(<< x >> \o q) = x /\ Tail(<< x >> \o q) = q
         /\ \A e \in S : Append(<< x >> \o q, e) = << x >> \o Append(q, e)
         /\ q # << >> => << Head(q) >> \o Tail(q) = q
  OBVIOUS

(* Every step of main and of the executors is a step of SutTasks or leaves *)
(* the abstract state alone.                                               *)
THEOREM ImplementsTasks == Spec => AbstractTasks
  <1> USE DEF queueVars, currentVars, cexecVars, iexecVars, taskVars
  <1>1. Init => Tasks!Init
    BY DEF Init, queue_init, Tasks!Init, OnCexec, OnIexec
  <1>2. /\ TypeOK /\ PoppedTaskIsThePeekedOne /\ OnlyCreatedTasks
        /\ CurrentPointersAgree /\ TaskConservation /\ [Next]_vars
        => [Tasks!Next]_Tasks!tvars
    <2> SUFFICES ASSUME TypeOK, PoppedTaskIsThePeekedOne, OnlyCreatedTasks,
                        CurrentPointersAgree, TaskConservation, [Next]_vars
                 PROVE  Tasks!Next \/ UNCHANGED Tasks!tvars
      OBVIOUS
    <2>0. /\ taskReadyQueue \in Seq(Task) /\ waitQueue \in Seq(Task)
          /\ CexecHolds => taskAtFrontOfReadyQueue \in Task
          /\ IexecHolds => taskAtFrontOfWaitQueue \in Task
          /\ context \in [Task -> {"none", "fn", "saved"}]
          /\ isTaskActive \in [Task -> BOOLEAN]
      BY DEF TypeOK
    <2>1. ASSUME NEW t \in Task, MainCreate(t) \/ TaskCreate(t) PROVE Tasks!Create(t)
      <3>1. /\ context[t] = "none"
            /\ context' = [context EXCEPT ![t] = "fn"]
            /\ isTaskActive' = [isTaskActive EXCEPT ![t] = TRUE]
            /\ taskReadyQueue' = Append(taskReadyQueue, t)
            /\ UNCHANGED << waitQueue, cexecVars, iexecVars >>
        BY <2>1 DEF MainCreate, TaskCreate, sut_create, queue_insert_tail
      <3>2. OnCexec' = OnCexec /\ OnIexec' = OnIexec
        BY <2>0, <3>1 DEF OnCexec, OnIexec, OnlyCreatedTasks, CexecHolds
      <3>3. QED
        BY <2>0, <3>1, <3>2 DEF Tasks!Create
    <2>2. CASE CexecPop
      <3>1. /\ taskReadyQueue # << >> /\ Head(taskReadyQueue) = taskAtFrontOfReadyQueue
            /\ taskReadyQueue' = Tail(taskReadyQueue)
        BY <2>2 DEF CexecPop, PoppedTaskIsThePeekedOne, queue_pop_head
      <3>2. taskAtFrontOfReadyQueue \in Live
        BY <2>0, <3>1, PopHead DEF TaskConservation
      <3>3. /\ OnCexec = {} /\ OnCexec' = {taskAtFrontOfReadyQueue}
            /\ OnIexec' = OnIexec
        BY <2>2, <3>2 DEF CexecPop, OnCexec, OnIexec, Live
      <3>4. Tasks!Dispatch
        BY <2>2, <3>1, <3>3 DEF CexecPop, Tasks!Dispatch
      <3>5. QED
        BY <3>4 DEF Tasks!Next
    <2>3. CASE CexecRequeue
      <3> DEFINE e == taskAtFrontOfReadyQueue
      <3>1. /\ e \in Task /\ e # NULL /\ cexecCurrentRunningTask = e /\ cexecPc = "back"
            /\ cexecPc' = "reset"
            /\ UNCHANGED << taskVars, iexecVars >>
        BY <2>0, <2>3, TaskAssumption DEF CexecRequeue, CexecHolds, CurrentPointersAgree
      <3>2. OnCexec' = {} /\ OnIexec' = OnIexec
        BY <3>1 DEF OnCexec, OnIexec
      <3>3. CASE isTaskActive[e] /\ taskReadyQueue' = queue_insert_tail(taskReadyQueue, e)
                 /\ UNCHANGED waitQueue
        <4>1. OnCexec = {e}
          BY <3>1, <3>3 DEF OnCexec
        <4>2. Tasks!Yield
          BY <3>1, <3>2, <3>3, <4>1 DEF Tasks!Yield, queue_insert_tail
        <4>3. QED
          BY <4>2 DEF Tasks!Next
      <3>4. CASE isTaskActive[e] /\ waitQueue' = queue_insert_tail(waitQueue, e)
                 /\ UNCHANGED taskReadyQueue
        <4>1. OnCexec = {e}
          BY <3>1, <3>4 DEF OnCexec
        <4>2. OnIexec # {} => taskAtFrontOfWaitQueue \in Task
          BY <2>0 DEF OnIexec, IexecHolds
        <4>3. OnIexec # {} =>
                << taskAtFrontOfWaitQueue >> \o Append(waitQueue, e)
                  = Append(<< taskAtFrontOfWaitQueue >> \o waitQueue, e)
          BY <2>0, <3>1, <4>2, InFront
        <4>4. Tasks!Block
          BY <3>1, <3>2, <3>4, <4>1, <4>3 DEF Tasks!Block, queue_insert_tail
        <4>5. QED
          BY <4>4 DEF Tasks!Next
      <3>5. CASE ~isTaskActive[e] /\ UNCHANGED queueVars
        <4>1. OnCexec = {}
          BY <3>1, <3>5 DEF OnCexec
        <4>2. QED
          BY <3>1, <3>2, <3>5, <4>1 DEF Tasks!tvars
      <3>6. QED
        BY <2>3, <3>1, <3>3, <3>4, <3>5 DEF CexecRequeue
    <2>4. CASE \/ CexecPeek \/ CexecClaim \/ CexecIdlePeek \/ CexecExit \/ CexecStay
               \/ CexecReset
      <3>1. /\ cexecPc \notin {"task", "back"} /\ cexecPc' \notin {"task", "back"}
            /\ UNCHANGED << queueVars, taskVars, iexecVars >>
        BY <2>4 DEF CexecPeek, CexecClaim, CexecIdlePeek, CexecExit, CexecStay, CexecReset
      <3>2. OnCexec = {} /\ OnCexec' = {} /\ OnIexec' = OnIexec
        BY <3>1 DEF OnCexec, OnIexec
      <3>3. QED
        BY <3>1, <3>2 DEF Tasks!tvars
    <2>5. CASE SwapToCexec /\ UNCHANGED isTaskActive
      <3>1. /\ taskAtFrontOfReadyQueue \in Task
            /\ context[taskAtFrontOfReadyQueue] # "none"
            /\ context' = [context EXCEPT ![taskAtFrontOfReadyQueue] = "saved"]
        BY <2>0, <2>5 DEF SwapToCexec, CexecHolds, CurrentPointersAgree, OnlyCreatedTasks
      <3>2. \A t \in Task : context'[t] = "none" <=> context[t] = "none"
        BY <2>0, <3>1
      <3>3. OnCexec' = OnCexec /\ OnIexec' = OnIexec
        BY <2>5 DEF SwapToCexec, OnCexec, OnIexec
      <3>4. QED
        BY <2>5, <3>2, <3>3 DEF SwapToCexec, Tasks!tvars
    <2>6. CASE sut_exit
      <3> DEFINE e == taskAtFrontOfReadyQueue
      <3>1. /\ cexecPc = "task" /\ e \in Task /\ e # NULL /\ context[e] # "none"
            /\ context' = [context EXCEPT ![e] = "saved"]
            /\ isTaskActive' = [isTaskActive EXCEPT ![e] = FALSE]
            /\ UNCHANGED << queueVars, iexecVars, taskAtFrontOfReadyQueue >>
        BY <2>0, <2>6, TaskAssumption
        DEF sut_exit, SwapToCexec, CexecHolds, CurrentPointersAgree, OnlyCreatedTasks
      <3>2. OnCexec' = {} /\ OnIexec' = OnIexec
        BY <2>0, <3>1 DEF OnCexec, OnIexec
      <3>3. CASE isTaskActive[e]
        <4>1. OnCexec = {e}
          BY <3>1, <3>3 DEF OnCexec
        <4>2. Tasks!Finish
          BY <2>0, <3>1, <3>2, <4>1 DEF Tasks!Finish
        <4>3. QED
          BY <4>2 DEF Tasks!Next
      <3>4. CASE ~isTaskActive[e]
        <4>1. OnCexec = {}
          BY <3>4 DEF OnCexec
        <4>2. \A t \in Task : /\ context'[t] = "none" <=> context[t] = "none"
                             /\ isTaskActive'[t] = isTaskActive[t]
          BY <2>0, <3>1, <3>4
        <4>3. QED
          BY <3>1, <3>2, <4>1, <4>2 DEF Tasks!tvars
      <3>5. QED
        BY <3>3, <3>4
    <2>7. CASE IexecPop
      <3>1. /\ waitQueue # << >> /\ Head(waitQueue) = taskAtFrontOfWaitQueue
            /\ waitQueue' = Tail(waitQueue)
        BY <2>7 DEF IexecPop, PoppedTaskIsThePeekedOne, queue_pop_head
      <3>2. << taskAtFrontOfWaitQueue >> \o waitQueue' = waitQueue
        BY <2>0, <3>1
      <3>3. /\ OnIexec = {} /\ OnIexec' = {taskAtFrontOfWaitQueue}
            /\ OnCexec' = OnCexec
        BY <2>7 DEF IexecPop, OnIexec, OnCexec
      <3>4. QED
        BY <2>7, <3>2, <3>3 DEF IexecPop, Tasks!tvars
    <2>8. CASE IexecRequeue
      <3> DEFINE e == taskAtFrontOfWaitQueue
      <3>1. /\ OnIexec = {e} /\ OnIexec' = {} /\ OnCexec' = OnCexec /\ e \in Task
            /\ taskReadyQueue' = Append(taskReadyQueue, e)
            /\ UNCHANGED << waitQueue, taskVars, taskAtFrontOfReadyQueue >>
        BY <2>0, <2>8
        DEF IexecRequeue, OnIexec, OnCexec, IexecHolds, queue_insert_tail
      <3>2. /\ << e >> \o waitQueue # << >>
            /\ Head(<< e >> \o waitQueue) = e /\ Tail(<< e >> \o waitQueue) = waitQueue
        BY <2>0, <3>1, InFront
      <3>3. Tasks!Unblock
        BY <3>1, <3>2 DEF Tasks!Unblock
      <3>4. QED
        BY <3>3 DEF Tasks!Next
    <2>9. CASE \/ IexecPeek \/ IexecClaim \/ IexecService \/ IexecIdlePeek \/ IexecExit
               \/ IexecStay \/ IexecReset
      <3>1. /\ UNCHANGED << queueVars, context, isTaskActive, cexecVars >>
            /\ OnIexec' = OnIexec
            /\ OnIexec # {} => UNCHANGED taskAtFrontOfWaitQueue
        BY <2>9 DEF IexecPeek, IexecClaim, IexecService, IexecIdlePeek, IexecExit,
                    IexecStay, IexecReset, OnIexec
      <3>2. OnCexec' = OnCexec
        BY <3>1 DEF OnCexec
      <3>3. QED
        BY <3>1, <3>2 DEF Tasks!tvars
    <2>10. CASE MainInit \/ ShutdownRequest \/ MainJoin
      <3>1. /\ OnIexec' = OnIexec /\ OnCexec' = OnCexec
            /\ UNCHANGED << queueVars, context, isTaskActive, taskAtFrontOfReadyQueue,
                            taskAtFrontOfWaitQueue >>
        <4>1. ~InitEnded => ~CexecHolds /\ ~IexecHolds
          BY DEF OnlyCreatedTasks, TypeOK
        <4>2. QED
          BY <2>10, <4>1 DEF MainInit, InitStartCexec, InitStartIexec, InitSetCexec,
               InitSetIexec, ShutdownRequest, MainJoin, ShutdownJoinCexec,
               ShutdownJoinIexec, OnIexec, OnCexec, InitEnded, CexecHolds, IexecHolds
      <3>2. QED
        BY <3>1 DEF Tasks!tvars
    <2>11. CASE UNCHANGED vars
      BY <2>11 DEF vars, Tasks!tvars, OnCexec, OnIexec
    <2>12. QED
      BY <2>1, <2>2, <2>3, <2>4, <2>5, <2>6, <2>7, <2>8, <2>9, <2>10, <2>11
      DEF Next, Main, cexecScheduler, TaskStep, iexecScheduler, Terminated, sut_yield,
          RequestIo, Tasks!Next
  <1>3. QED
    BY <1>1, <1>2, TypeCorrect, PoppedIsPeeked, OnlyCreated, PointersAgree, Conservation,
       PTL DEF Spec, AbstractTasks, Tasks!Spec

=============================================================================
