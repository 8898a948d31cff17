---------------------------- MODULE ShellyProofs ----------------------------
(***************************************************************************)
(* Theorems about the job control of Shelly, for any table and any set of  *)
(* process ids: the table holds children only, no child is forgotten, and  *)
(* the exit command ends every child that was not refused a slot.          *)
(***************************************************************************)
EXTENDS Shelly, Extrema

(* What the loop knows at each point about the process it started or waits *)
(* for: a handler or an fg can only clear a slot of the process waited for. *)
Foreground ==
  /\ pc \in {"prompt", "parent"} => fgPid = FG_PID_DEFAULT
  /\ pc \in {"parent", "waiting"} =>
       /\ pid \in Pid /\ process[pid] \in Child
       /\ pid \in Recorded(jobsQueue) => pid \in stale
  /\ pc = "waiting" => fgPid = pid
  /\ pc \in {"waiting", "waited", "fgWaiting", "fgWaited"} => fgPid \in Pid
  /\ pc \in {"waited", "fgWaited"} => process[fgPid] \notin Child
  /\ pc \in {"fgWaiting", "fgWaited"} /\ jobNum \in JobNumber =>
       /\ jobsQueue[jobNum] \in {0, fgPid}
       /\ fgPid \in Recorded(jobsQueue) /\ fgPid \notin stale
            => jobsQueue[jobNum] = fgPid

IInv == TypeOK /\ JobsAreChildren /\ NoChildForgotten /\ Foreground

-----------------------------------------------------------------------------
(* The first slot that qualifies is one of those that do. *)
LEMMA FirstSlot ==
  ASSUME NEW S \in SUBSET JobNumber, S # {}
  PROVE  Min(S) \in S
  <1>1. S \in SUBSET Nat
    BY JobsAssumption DEF JobNumber
  <1>2. QED
    BY <1>1, MinIsMember

(* A table in which one slot was cleared. *)
LEMMA SlotCleared ==
  ASSUME NEW queue \in [JobNumber -> Pid \cup {0}], NEW k \in JobNumber
  PROVE  LET cleared == [queue EXCEPT ![k] = 0]
         IN  /\ cleared \in [JobNumber -> Pid \cup {0}]
             /\ cleared[k] = 0
             /\ \A j \in JobNumber \ {k} : cleared[j] = queue[j]
             /\ Recorded(cleared) \subseteq Recorded(queue)
             /\ \A p \in Recorded(queue) : p # queue[k] => p \in Recorded(cleared)
  BY DEF Recorded

(* A pid is recorded exactly if some slot holds it. *)
LEMMA RecordedSlots ==
  ASSUME NEW queue \in [JobNumber -> Pid \cup {0}]
  PROVE  /\ Recorded(queue) \subseteq Pid
         /\ \A j \in JobNumber : queue[j] # 0 => queue[j] \in Recorded(queue)
         /\ \A p \in Recorded(queue) : \E j \in JobNumber : queue[j] = p
  BY PidAssumption DEF Recorded

-----------------------------------------------------------------------------
(* JobsAreChildren without the set of the slots of a pid. *)
OneSlotEach ==
  \A j \in JobNumber :
    jobsQueue[j] # 0 /\ jobsQueue[j] \notin stale =>
      /\ \A i \in JobNumber : jobsQueue[i] = jobsQueue[j] => i = j
      /\ \/ process[jobsQueue[j]] \in Child
         \/ pc = "fgWaited" /\ jobsQueue[j] = fgPid

(* The two say the same, before a step and after it. *)
LEMMA OneSlot ==
  /\ JobsAreChildren <=> OneSlotEach
  /\ JobsAreChildren' <=> OneSlotEach'
  BY DEF JobsAreChildren, OneSlotEach, JobsOf

(* Initially no slot is taken and nothing runs. *)
LEMMA Initially == Init => IInv
  <1> SUFFICES ASSUME Init PROVE IInv
    OBVIOUS
  <1>1. TypeOK
    <2>1. 0 \in JobNumber
      BY JobsAssumption DEF JobNumber
    <2>2. QED
      BY <2>1 DEF Init, TypeOK, ProcessState
  <1>2. JobsAreChildren /\ NoChildForgotten /\ Foreground
    BY DEF Init, JobsAreChildren, NoChildForgotten, Foreground, Child, Live
  <1>3. QED
    BY <1>1, <1>2 DEF IInv

(* Steps of the processes leave the shell alone, and a child that was not  *)
(* waited for stays one.                                                   *)
LEMMA ProcessesStep ==
  ASSUME IInv, UNCHANGED << shell, history >>,
         process' \in [Pid -> ProcessState],
         \A p \in Pid : process[p] \in Child <=> process'[p] \in Child
  PROVE  IInv'
  <1> USE DEF IInv, shell, history
  <1>1. TypeOK'
    BY DEF TypeOK
  <1>2. JobsAreChildren'
    BY RecordedSlots DEF TypeOK, JobsAreChildren, JobsOf
  <1>3. NoChildForgotten'
    BY DEF TypeOK, NoChildForgotten
  <1>4. Foreground'
    BY DEF TypeOK, Foreground
  <1>5. QED
    BY <1>1, <1>2, <1>3, <1>4

-----------------------------------------------------------------------------
(* Commands that start something.                                          *)
LEMMA ForkStep ==
  ASSUME IInv, NEW p \in Pid, NEW background \in BOOLEAN, Fork(p, background)
  PROVE  IInv'
  <1> USE DEF IInv, Fork, history
  <1>1. TypeOK'
    BY DEF TypeOK, ProcessState, Child, Live
  <1>2. /\ \A q \in Pid \ {p} : process'[q] = process[q]
        /\ process[p] \notin Child /\ process'[p] \in Child
    BY DEF TypeOK, Child, Live
  <1>3. JobsAreChildren'
    BY <1>2, RecordedSlots DEF TypeOK, JobsAreChildren, JobsOf
  <1>4. NoChildForgotten'
    BY <1>2 DEF TypeOK, NoChildForgotten
  <1>5. p \in Recorded(jobsQueue) => p \in stale
    <2> SUFFICES ASSUME NEW j \in JobNumber, jobsQueue[j] = p PROVE p \in stale
      BY RecordedSlots DEF TypeOK
    <2>1. QED
      BY <1>2, PidAssumption DEF JobsAreChildren
  <1>6. Foreground'
    BY <1>2, <1>5 DEF TypeOK, Foreground
  <1>7. QED
    BY <1>1, <1>3, <1>4, <1>6

(* The shell waits for the child it has just started. *)
LEMMA ParentWaitsStep ==
  ASSUME IInv, ParentWaits
  PROVE  IInv'
  <1> USE DEF IInv, ParentWaits, history
  <1>1. TypeOK'
    BY DEF TypeOK, Foreground
  <1>2. JobsAreChildren'
    BY DEF JobsAreChildren, JobsOf
  <1>3. NoChildForgotten'
    BY DEF NoChildForgotten
  <1>4. Foreground'
    BY DEF Foreground
  <1>5. QED
    BY <1>1, <1>2, <1>3, <1>4

(* A background child gets a slot of its own, or is untracked. *)
LEMMA ParentRecordsStep ==
  ASSUME IInv, ParentRecords
  PROVE  IInv'
  <1> USE DEF IInv, ParentRecords
  <1>0. pid \in Pid /\ process[pid] \in Child
    BY DEF Foreground
  <1>1. CASE EmptySlots = {}
    <2>1. jobsQueue' = jobsQueue /\ untracked' = untracked \cup {pid}
      BY <1>1 DEF addNewJob
    <2>2. TypeOK'
      BY <1>0, <2>1 DEF TypeOK
    <2>3. JobsAreChildren'
      BY <2>1 DEF JobsAreChildren, JobsOf
    <2>4. NoChildForgotten'
      BY <2>1 DEF NoChildForgotten
    <2>5. Foreground'
      BY DEF Foreground
    <2>6. QED
      BY <2>2, <2>3, <2>4, <2>5
  <1>2. CASE EmptySlots # {}
    <2> DEFINE k == Min(EmptySlots)
    <2>1. k \in JobNumber /\ jobsQueue[k] = 0
      BY <1>2, FirstSlot DEF EmptySlots
    <2>2. jobsQueue' = [jobsQueue EXCEPT ![k] = pid] /\ untracked' = untracked
      BY <1>2 DEF addNewJob
    <2> HIDE DEF k
    <2>3. /\ jobsQueue' \in [JobNumber -> Pid \cup {0}]
          /\ jobsQueue'[k] = pid
          /\ \A j \in JobNumber \ {k} : jobsQueue'[j] = jobsQueue[j]
      BY <1>0, <2>1, <2>2 DEF TypeOK
    <2>4. Recorded(jobsQueue') = Recorded(jobsQueue) \cup {pid}
      BY <1>0, <2>1, <2>3, PidAssumption DEF Recorded
    <2>5. TypeOK'
      BY <2>2, <2>3 DEF TypeOK
    <2>6. JobsAreChildren'
      <3> SUFFICES ASSUME NEW j \in JobNumber, jobsQueue'[j] # 0,
                          jobsQueue'[j] \notin stale
                   PROVE  /\ \A i \in JobNumber :
                               jobsQueue'[i] = jobsQueue'[j] => i = j
                          /\ process[jobsQueue'[j]] \in Child
        BY OneSlot DEF OneSlotEach
      <3>1. CASE j = k
        <4>1. pid \notin Recorded(jobsQueue)
          BY <3>1, <2>3 DEF Foreground
        <4>2. \A i \in JobNumber \ {k} : jobsQueue'[i] # pid
          BY <4>1, <1>0, <2>3, PidAssumption DEF Recorded
        <4>3. QED
          BY <4>2, <3>1, <1>0, <2>1, <2>3
      <3>2. CASE j # k
        <4>1. /\ jobsQueue'[j] = jobsQueue[j]
              /\ \A i \in JobNumber : jobsQueue[i] = jobsQueue[j] => i = j
              /\ process[jobsQueue[j]] \in Child
          BY <3>2, <2>3, OneSlot DEF OneSlotEach
        <4>2. jobsQueue[j] # pid
          BY <4>1, <2>3, RecordedSlots DEF Foreground, TypeOK
        <4>3. QED
          BY <4>1, <4>2, <3>2, <2>1, <2>3
      <3>3. QED
        BY <3>1, <3>2
    <2>7. NoChildForgotten'
      BY <2>2, <2>4 DEF NoChildForgotten
    <2>8. Foreground'
      BY DEF Foreground
    <2>9. QED
      BY <2>5, <2>6, <2>7, <2>8
  <1>3. QED
    BY <1>1, <1>2

-----------------------------------------------------------------------------
(* The end of a foreground command.                                        *)

(* waitpid changes one process at most, which is no child afterwards. *)
LEMMA Waited ==
  ASSUME TypeOK, NEW p \in Pid, waitpid(p)
  PROVE  /\ process' \in [Pid -> ProcessState]
         /\ process'[p] \notin Child
         /\ \A q \in Pid \ {p} : process'[q] = process[q]
  BY DEF TypeOK, waitpid, Set, ProcessState, Child, Live

(* waitpid returns for a foreground command, whose pid no slot may hold. *)
LEMMA WaitReturnsStep ==
  ASSUME IInv, WaitReturns
  PROVE  IInv'
  <1> USE DEF IInv, WaitReturns
  <1>1. /\ pid \in Pid /\ fgPid = pid
        /\ pid \in Recorded(jobsQueue) => pid \in stale
    BY DEF Foreground
  <1>2. /\ process' \in [Pid -> ProcessState]
        /\ process'[pid] \notin Child
        /\ \A q \in Pid \ {pid} : process'[q] = process[q]
    BY <1>1, Waited
  <1>3. TypeOK'
    BY <1>2 DEF TypeOK
  <1>4. JobsAreChildren'
    <2> SUFFICES ASSUME NEW j \in JobNumber, jobsQueue[j] # 0, jobsQueue[j] \notin stale
                 PROVE  /\ \A i \in JobNumber : jobsQueue[i] = jobsQueue[j] => i = j
                        /\ process'[jobsQueue[j]] \in Child
      BY OneSlot DEF OneSlotEach
    <2>1. jobsQueue[j] \in Pid \ {pid}
      BY <1>1, RecordedSlots DEF TypeOK
    <2>2. QED
      BY <1>2, <2>1, OneSlot DEF OneSlotEach
  <1>5. NoChildForgotten'
    BY <1>1, <1>2 DEF NoChildForgotten
  <1>6. Foreground'
    BY <1>1, <1>2 DEF Foreground
  <1>7. QED
    BY <1>3, <1>4, <1>5, <1>6

(* The next iteration starts with no foreground process. *)
LEMMA NextIterationStep ==
  ASSUME IInv, NextIteration
  PROVE  IInv'
  <1> USE DEF IInv, NextIteration, history
  <1>1. TypeOK'
    BY DEF TypeOK
  <1>2. JobsAreChildren'
    BY DEF JobsAreChildren, JobsOf
  <1>3. NoChildForgotten'
    BY DEF NoChildForgotten
  <1>4. Foreground'
    BY DEF Foreground
  <1>5. QED
    BY <1>1, <1>2, <1>3, <1>4

-----------------------------------------------------------------------------
(* fg.                                                                     *)

(* fg selects a job that is in the table, in range or not. *)
LEMMA FgSelectsStep ==
  ASSUME IInv, NEW n \in JobNumber \cup {OutOfRange}, FgSelects(n)
  PROVE  IInv'
  <1> USE DEF IInv, FgSelects, history
  <1>1. PICK j \in Selected(n) : fgPid' = jobsQueue[j]
    OBVIOUS
  <1>2. j \in JobNumber /\ jobsQueue[j] # 0 /\ (n \in JobNumber => j = n)
    <2>1. CASE n \in JobNumber
      BY <1>1, <2>1 DEF Selected, EmptySlots
    <2>2. CASE n \notin JobNumber
      <3>1. EmptySlots \subseteq JobNumber /\ EmptySlots # JobNumber
        BY <1>1, <2>2 DEF Selected, EmptySlots
      <3>2. j = Min(JobNumber \ EmptySlots)
        BY <1>1, <2>2 DEF Selected
      <3>3. j \in JobNumber \ EmptySlots
        BY <3>1, <3>2, FirstSlot
      <3>4. QED
        BY <2>2, <3>3 DEF EmptySlots
    <2>3. QED
      BY <2>1, <2>2
  <1>3. jobsQueue[j] \in Pid
    BY <1>2 DEF TypeOK
  <1>4. TypeOK'
    BY <1>1, <1>3 DEF TypeOK
  <1>5. JobsAreChildren'
    BY DEF JobsAreChildren, JobsOf
  <1>6. NoChildForgotten'
    BY DEF NoChildForgotten
  <1>7. Foreground'
    BY <1>1, <1>2, <1>3 DEF Foreground
  <1>8. QED
    BY <1>4, <1>5, <1>6, <1>7

(* waitpid returns for the selected job. *)
LEMMA FgWaitReturnsStep ==
  ASSUME IInv, FgWaitReturns
  PROVE  IInv'
  <1> USE DEF IInv, FgWaitReturns
  <1>1. fgPid \in Pid
    BY DEF Foreground
  <1>2. /\ process' \in [Pid -> ProcessState]
        /\ process'[fgPid] \notin Child
        /\ \A q \in Pid \ {fgPid} : process'[q] = process[q]
    BY <1>1, Waited
  <1>3. TypeOK'
    BY <1>2 DEF TypeOK
  <1>4. JobsAreChildren'
    <2> SUFFICES ASSUME NEW j \in JobNumber, jobsQueue[j] # 0, jobsQueue[j] \notin stale
                 PROVE  /\ \A i \in JobNumber : jobsQueue[i] = jobsQueue[j] => i = j
                        /\ process'[jobsQueue[j]] \in Child \/ jobsQueue[j] = fgPid
      BY OneSlot DEF OneSlotEach
    <2>1. jobsQueue[j] \in Pid
      BY DEF TypeOK
    <2>2. QED
      BY <1>2, <2>1, OneSlot DEF OneSlotEach
  <1>5. NoChildForgotten'
    BY <1>1, <1>2 DEF NoChildForgotten
  <1>6. Foreground'
    BY <1>1, <1>2 DEF Foreground
  <1>7. QED
    BY <1>3, <1>4, <1>5, <1>6

(* fg clears the slot of the job it has waited for, and no other. *)
LEMMA FgClearsStep ==
  ASSUME IInv, FgClears
  PROVE  IInv'
  <1> USE DEF IInv, FgClears
  <1>1. /\ fgPid \in Pid /\ process[fgPid] \notin Child
        /\ jobsQueue[jobNum] \in {0, fgPid}
        /\ fgPid \in Recorded(jobsQueue) /\ fgPid \notin stale
             => jobsQueue[jobNum] = fgPid
    BY DEF Foreground
  <1>2. /\ jobsQueue' \in [JobNumber -> Pid \cup {0}]
        /\ jobsQueue'[jobNum] = 0
        /\ \A j \in JobNumber \ {jobNum} : jobsQueue'[j] = jobsQueue[j]
        /\ Recorded(jobsQueue') \subseteq Recorded(jobsQueue)
        /\ \A p \in Recorded(jobsQueue) :
             p # jobsQueue[jobNum] => p \in Recorded(jobsQueue')
    BY SlotCleared DEF TypeOK
  <1>3. TypeOK'
    BY <1>2 DEF TypeOK
  <1>4. JobsAreChildren'
    <2> SUFFICES ASSUME NEW j \in JobNumber, jobsQueue'[j] # 0, jobsQueue'[j] \notin stale'
                 PROVE  /\ \A i \in JobNumber : jobsQueue'[i] = jobsQueue'[j] => i = j
                        /\ process[jobsQueue'[j]] \in Child
      BY OneSlot DEF OneSlotEach
    <2>1. jobsQueue'[j] = jobsQueue[j] /\ j # jobNum
      BY <1>2
    <2>2. jobsQueue[j] \in Recorded(jobsQueue') /\ jobsQueue[j] \notin stale
      BY <1>2, <2>1, RecordedSlots
    <2>3. \A i \in JobNumber : jobsQueue[i] = jobsQueue[j] => i = j
      BY <2>1, <2>2, OneSlot DEF OneSlotEach
    <2>4. jobsQueue[j] # fgPid
      BY <1>1, <1>2, <2>1, <2>2, <2>3 DEF TypeOK
    <2>5. process[jobsQueue[j]] \in Child
      BY <2>1, <2>2, <2>4, OneSlot DEF OneSlotEach
    <2>6. QED
      BY <1>2, <2>1, <2>3, <2>5
  <1>5. NoChildForgotten'
    BY <1>1, <1>2, PidAssumption DEF NoChildForgotten, TypeOK
  <1>6. Foreground'
    BY <1>1 DEF Foreground
  <1>7. QED
    BY <1>3, <1>4, <1>5, <1>6

(* fg out of range leaves a pid behind, and says so in `stale`. *)
LEMMA FgClearsOutOfRangeStep ==
  ASSUME IInv, FgClearsOutOfRange
  PROVE  IInv'
  <1> USE DEF IInv, FgClearsOutOfRange
  <1>1. fgPid \in Pid /\ process[fgPid] \notin Child
    BY DEF Foreground
  <1>2. TypeOK'
    BY <1>1 DEF TypeOK
  <1>3. JobsAreChildren'
    <2> SUFFICES ASSUME NEW j \in JobNumber, jobsQueue[j] # 0, jobsQueue[j] \notin stale'
                 PROVE  /\ \A i \in JobNumber : jobsQueue[i] = jobsQueue[j] => i = j
                        /\ process[jobsQueue[j]] \in Child
      BY OneSlot DEF OneSlotEach
    <2>1. jobsQueue[j] # fgPid
      BY RecordedSlots DEF TypeOK
    <2>2. QED
      BY <2>1, OneSlot DEF OneSlotEach
  <1>4. NoChildForgotten'
    BY DEF NoChildForgotten
  <1>5. Foreground'
    BY <1>1 DEF Foreground
  <1>6. QED
    BY <1>2, <1>3, <1>4, <1>5

-----------------------------------------------------------------------------
(* Signals and the end of the shell.                                       *)

(* SIGTERM makes no child of another process, and leaves none running. *)
LEMMA AfterTerm ==
  ASSUME TypeOK, NEW ps
  PROVE  /\ Terminated(ps) \in [Pid -> ProcessState]
         /\ \A p \in Pid : process[p] \in Child <=> Terminated(ps)[p] \in Child
         /\ \A p \in Pid \cap ps : Terminated(ps)[p] \notin {"starting", "running"}
  BY DEF TypeOK, Terminated, ProcessState, Child, Live

(* The handler clears a slot of the process waited for, if there is one. *)
LEMMA SigintStep ==
  ASSUME IInv, NEW group \in BOOLEAN, handle_sigint(group)
  PROVE  IInv'
  <1> USE DEF IInv, handle_sigint
  <1> DEFINE hit == {p \in Pid : group /\ process[p] = "running"}
  <1>1. /\ process' \in [Pid -> ProcessState]
        /\ \A p \in Pid : process[p] \in Child <=> process'[p] \in Child
    <2>1. process' = Terminated(hit \cup {fgPid}) \/ process' = Terminated(hit)
      OBVIOUS
    <2> HIDE DEF hit, handle_sigint
    <2>2. QED
      BY <2>1, AfterTerm
  <1>2. CASE fgPid \notin Recorded(jobsQueue)
    <2>1. UNCHANGED << shell, history >>
      BY <1>2 DEF shell, history
    <2>2. QED
      BY <1>1, <2>1, ProcessesStep
  <1>3. CASE fgPid \in Recorded(jobsQueue)
    <2> DEFINE k == Min(JobsOf(fgPid))
    <2>1. k \in JobNumber /\ jobsQueue[k] = fgPid
      <3>1. JobsOf(fgPid) # {} /\ JobsOf(fgPid) \subseteq JobNumber
        BY <1>3, RecordedSlots DEF JobsOf, TypeOK
      <3>2. k \in JobsOf(fgPid)
        BY <3>1, FirstSlot
      <3>3. QED
        BY <3>2 DEF JobsOf
    <2>2. /\ jobsQueue' = [jobsQueue EXCEPT ![k] = 0]
          /\ stale' = stale \cap Recorded(jobsQueue')
          /\ UNCHANGED << fgPid, pc, bg, pid, jobNum, untracked >>
          /\ pc # "exited"
      BY <1>3
    <2> HIDE DEF k, hit, handle_sigint
    <2>3. /\ jobsQueue' \in [JobNumber -> Pid \cup {0}]
          /\ jobsQueue'[k] = 0
          /\ \A j \in JobNumber \ {k} : jobsQueue'[j] = jobsQueue[j]
          /\ Recorded(jobsQueue') \subseteq Recorded(jobsQueue)
          /\ \A p \in Recorded(jobsQueue) : p # fgPid => p \in Recorded(jobsQueue')
      BY <2>1, <2>2, SlotCleared DEF TypeOK
    <2>4. pc \in {"waiting", "waited", "fgWaiting", "fgWaited"} /\ fgPid \in Pid
      <3>1. fgPid \in Pid
        BY <1>3, RecordedSlots DEF TypeOK
      <3>2. pc \notin {"prompt", "parent"}
        BY <3>1, PidAssumption DEF Foreground
      <3>3. QED
        BY <2>2, <3>1, <3>2 DEF TypeOK
    <2>5. TypeOK'
      BY <1>1, <2>2, <2>3 DEF TypeOK
    <2>6. JobsAreChildren'
      <3> SUFFICES ASSUME NEW j \in JobNumber, jobsQueue'[j] # 0, jobsQueue'[j] \notin stale'
                   PROVE  /\ \A i \in JobNumber : jobsQueue'[i] = jobsQueue'[j] => i = j
                          /\ \/ process'[jobsQueue'[j]] \in Child
                             \/ pc = "fgWaited" /\ jobsQueue'[j] = fgPid
        BY <2>2, OneSlot DEF OneSlotEach
      <3>1. jobsQueue'[j] = jobsQueue[j] /\ j # k /\ jobsQueue[j] \in Pid
        BY <2>3 DEF TypeOK
      <3>2. jobsQueue[j] \in Recorded(jobsQueue') /\ jobsQueue[j] \notin stale
        BY <2>2, <2>3, <3>1, RecordedSlots
      <3>3. /\ \A i \in JobNumber : jobsQueue[i] = jobsQueue[j] => i = j
            /\ process[jobsQueue[j]] \in Child \/ (pc = "fgWaited" /\ jobsQueue[j] = fgPid)
        BY <3>1, <3>2, OneSlot DEF OneSlotEach
      <3>4. QED
        BY <1>1, <2>3, <3>1, <3>3
    <2>7. NoChildForgotten'
      <3> SUFFICES ASSUME NEW p \in Pid, process[p] \in Child
                   PROVE  \/ p \in Recorded(jobsQueue') \cup untracked
                          \/ pc \in {"parent", "waiting"} /\ p = pid
                          \/ pc = "fgWaiting" /\ p = fgPid
        BY <1>1, <2>2 DEF NoChildForgotten
      <3>1. CASE p = fgPid
        BY <3>1, <2>4 DEF Foreground
      <3>2. CASE p # fgPid
        BY <3>2, <2>2, <2>3 DEF NoChildForgotten
      <3>3. QED
        BY <3>1, <3>2
    <2>8. Foreground'
      <3>1. \A p \in Recorded(jobsQueue') : p \in stale => p \in stale'
        BY <2>2
      <3>2. /\ pid \in Recorded(jobsQueue') => pid \in Recorded(jobsQueue)
            /\ fgPid \in Recorded(jobsQueue') => fgPid \in Recorded(jobsQueue)
        BY <2>3
      <3>3. ASSUME pc \in {"fgWaiting", "fgWaited"}, jobNum \in JobNumber
            PROVE  /\ jobsQueue'[jobNum] \in {0, fgPid}
                   /\ fgPid \in Recorded(jobsQueue') /\ fgPid \notin stale'
                        => jobsQueue'[jobNum] = fgPid
        <4>1. jobsQueue'[jobNum] \in {0, fgPid}
          BY <2>3, <3>3 DEF Foreground
        <4>2. ASSUME fgPid \in Recorded(jobsQueue'), fgPid \notin stale' PROVE FALSE
          <5>1. fgPid \notin stale
            BY <3>1, <4>2
          <5>2. \A i \in JobNumber : jobsQueue[i] = fgPid => i = k
            BY <5>1, <2>1, <2>4, PidAssumption, OneSlot DEF OneSlotEach
          <5>3. PICK i \in JobNumber : jobsQueue'[i] = fgPid
            BY <4>2, <2>3, RecordedSlots
          <5>4. QED
            BY <5>2, <5>3, <2>3, <2>4, PidAssumption
        <4>3. QED
          BY <4>1, <4>2
      <3>4. QED
        BY <1>1, <2>2, <2>4, <3>1, <3>2, <3>3 DEF Foreground
    <2>9. QED
      BY <2>5, <2>6, <2>7, <2>8
  <1>4. QED
    BY <1>2, <1>3

(* The shell ends at its prompt, and may signal the jobs it leaves. *)
LEMMA ExitStep ==
  ASSUME IInv, pc = "prompt", pc' = "exited",
         UNCHANGED << jobsQueue, fgPid, bg, pid, jobNum, history >>,
         process' \in [Pid -> ProcessState],
         \A p \in Pid : process[p] \in Child <=> process'[p] \in Child
  PROVE  IInv'
  <1> USE DEF IInv, history
  <1>1. TypeOK'
    BY DEF TypeOK
  <1>2. JobsAreChildren'
    <2> SUFFICES ASSUME NEW j \in JobNumber, jobsQueue[j] # 0, jobsQueue[j] \notin stale
                 PROVE  /\ \A i \in JobNumber : jobsQueue[i] = jobsQueue[j] => i = j
                        /\ process'[jobsQueue[j]] \in Child
      BY OneSlot DEF OneSlotEach
    <2>1. jobsQueue[j] \in Pid
      BY DEF TypeOK
    <2>2. QED
      BY <2>1, OneSlot DEF OneSlotEach
  <1>3. NoChildForgotten' /\ Foreground'
    BY DEF NoChildForgotten, Foreground
  <1>4. QED
    BY <1>1, <1>2, <1>3

(* What a process does by itself changes no child into something else. *)
LEMMA ProcessesKeepChildren ==
  ASSUME TypeOK, Processes \/ handle_sigtstp
  PROVE  /\ UNCHANGED << shell, history >>
         /\ process' \in [Pid -> ProcessState]
         /\ \A p \in Pid : process[p] \in Child <=> process'[p] \in Child
  <1> USE DEF TypeOK, Set, ProcessState, Child, Live
  <1>1. CASE handle_sigtstp
    BY <1>1 DEF handle_sigtstp
  <1>2. CASE Processes
    <2>1. PICK p \in Pid : \/ exec_shelly(p) \/ CommandEnds(p) \/ CommandContinued(p)
                           \/ ForeignStarts(p) \/ ForeignEnds(p)
      BY <1>2 DEF Processes
    <2>2. CASE exec_shelly(p)
      BY <2>2 DEF exec_shelly
    <2>3. CASE CommandEnds(p) \/ CommandContinued(p)
      BY <2>3 DEF CommandEnds, CommandContinued
    <2>4. CASE ForeignStarts(p) \/ ForeignEnds(p)
      BY <2>4 DEF ForeignStarts, ForeignEnds
    <2>5. QED
      BY <2>1, <2>2, <2>3, <2>4
  <1>3. QED
    BY <1>1, <1>2

-----------------------------------------------------------------------------
(* Every step keeps the invariant. *)
LEMMA Inductive == IInv /\ [Next]_vars => IInv'
  <1> SUFFICES ASSUME IInv, [Next]_vars PROVE IInv'
    OBVIOUS
  <1>1. CASE MainLoop
    BY <1>1, ParentWaitsStep, ParentRecordsStep, WaitReturnsStep,
       NextIterationStep, FgWaitReturnsStep, FgClearsStep, FgClearsOutOfRangeStep
       DEF MainLoop
  <1>2. CASE Command
    <2>1. CASE \E p \in Pid, background \in BOOLEAN : Fork(p, background)
      BY <2>1, ForkStep
    <2>2. CASE \E n \in JobNumber \cup {OutOfRange} : FgSelects(n)
      BY <2>2, FgSelectsStep
    <2>3. CASE ForkFails \/ FgWithoutNumber \/ EndOfInput
      BY <2>3, ExitStep DEF ForkFails, FgWithoutNumber, EndOfInput, IInv, TypeOK
    <2>4. CASE exit_shelly
      <3>1. /\ process' \in [Pid -> ProcessState]
            /\ \A p \in Pid : process[p] \in Child <=> process'[p] \in Child
        BY <2>4, AfterTerm DEF exit_shelly, IInv
      <3>2. QED
        BY <2>4, <3>1, ExitStep DEF exit_shelly
    <2>5. QED
      BY <1>2, <2>1, <2>2, <2>3, <2>4 DEF Command
  <1>3. CASE Signal
    <2>1. CASE \E group \in BOOLEAN : handle_sigint(group)
      BY <2>1, SigintStep
    <2>2. CASE handle_sigtstp
      BY <2>2, ProcessesKeepChildren, ProcessesStep DEF IInv
    <2>3. QED
      BY <1>3, <2>1, <2>2 DEF Signal
  <1>4. CASE Processes
    BY <1>4, ProcessesKeepChildren, ProcessesStep DEF IInv
  <1>5. CASE UNCHANGED vars
    <2>1. UNCHANGED << shell, history >> /\ process' = process
      BY <1>5 DEF vars
    <2>2. QED
      BY <2>1, ProcessesStep DEF IInv, TypeOK
  <1>6. QED
    BY <1>1, <1>2, <1>3, <1>4, <1>5 DEF Next

(* The invariant of the job table holds in every reachable state. *)
THEOREM Invariant == Spec => []IInv
  BY Initially, Inductive, PTL DEF Spec

(* Every variable of the shell keeps its type. *)
THEOREM TypeCorrect == Spec => []TypeOK
  BY Invariant, PTL DEF IInv

(* The pids that exit, fg and the SIGINT handler signal are children of    *)
(* the shell, each in one slot, but for the two cases the property names.  *)
THEOREM TableHoldsChildren == Spec => []JobsAreChildren
  BY Invariant, PTL DEF IInv

(* No slot is cleared while its child still has to be waited for. *)
THEOREM NoneForgotten == Spec => []NoChildForgotten
  BY Invariant, PTL DEF IInv

(* The exit command ends every child that was not refused a slot, except   *)
(* those that are stopped.                                                 *)
THEOREM ExitEnds == Spec => ExitEndsJobs
  <1>1. IInv /\ [Next]_vars =>
          [exit_shelly => \A p \in Pid :
             process'[p] \in {"starting", "running"} => p \in untracked]_vars
    <2> SUFFICES ASSUME IInv, exit_shelly, NEW p \in Pid,
                        process'[p] \in {"starting", "running"}
                 PROVE  p \in untracked
      OBVIOUS
    <2>1. process' = Terminated(Recorded(jobsQueue)) /\ pc = "prompt"
      BY DEF exit_shelly
    <2>2. p \notin Recorded(jobsQueue) /\ process[p] \in Child
      BY <2>1, AfterTerm DEF IInv, Child, Live
    <2>3. QED
      BY <2>1, <2>2 DEF IInv, NoChildForgotten
  <1>2. QED
    BY <1>1, Invariant, PTL DEF Spec, ExitEndsJobs

=============================================================================
