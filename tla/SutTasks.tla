------------------------------ MODULE SutTasks ------------------------------
(***************************************************************************)
(* What the thread library promises of the tasks, without its threads,     *)
(* pointers and locks (sut.h, comments of sut_create to sut_close): one    *)
(* task runs at a time; the task picked is the oldest of the ready queue;  *)
(* a task that yields, is created, or whose I/O is done goes to the tail   *)
(* of the ready queue; a task that asks for I/O waits behind the earlier   *)
(* requests; requests are served in their order; a task that exits is gone *)
(***************************************************************************)
EXTENDS Sequences

CONSTANTS Task, NULL

VARIABLES
  fate,     \* "absent", "alive" or "finished", for each task
  ready,    \* tasks that wait for the compute executor, oldest first
  running,  \* the task that has the compute executor, or NULL
  blocked   \* tasks whose I/O is not done, oldest request first

tvars == << fate, ready, running, blocked >>

Init ==
  /\ fate = [t \in Task |-> "absent"]
  /\ ready = << >>
  /\ running = NULL
  /\ blocked = << >>

Create(t) ==
  /\ fate[t] = "absent"
  /\ fate' = [fate EXCEPT ![t] = "alive"]
  /\ ready' = Append(ready, t)
  /\ UNCHANGED << running, blocked >>

Dispatch ==
  /\ running = NULL
  /\ ready # << >>
  /\ running' = Head(ready)
  /\ ready' = Tail(ready)
  /\ UNCHANGED << fate, blocked >>

Yield ==
  /\ running # NULL
  /\ running' = NULL
  /\ ready' = Append(ready, running)
  /\ UNCHANGED << fate, blocked >>

Block ==
  /\ running # NULL
  /\ running' = NULL
  /\ blocked' = Append(blocked, running)
  /\ UNCHANGED << fate, ready >>

Finish ==
  /\ running # NULL
  /\ running' = NULL
  /\ fate' = [fate EXCEPT ![running] = "finished"]
  /\ UNCHANGED << ready, blocked >>

Unblock ==
  /\ blocked # << >>
  /\ blocked' = Tail(blocked)
  /\ ready' = Append(ready, Head(blocked))
  /\ UNCHANGED << fate, running >>

Next ==
  \/ \E t \in Task : Create(t)
  \/ Dispatch \/ Yield \/ Block \/ Finish \/ Unblock

Spec == Init /\ [][Next]_tvars

=============================================================================
