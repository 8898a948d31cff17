----------------------------- MODULE TaskQueue -----------------------------
(***************************************************************************)
(* The FIFO queue of task entries that queue.c builds on the STAILQ macros *)
(* of <sys/queue.h>, which are external.  A queue is the sequence of the   *)
(* entries linked from stqh_first on; an entry is in one queue at a time   *)
(* (TaskConservation in SutScheduler), so its one link field is enough.    *)
(***************************************************************************)
EXTENDS Sequences

CONSTANT NULL

(* STAILQ_INIT: the list is empty whatever the head held before. *)
queue_init == << >>

queue_insert_tail(q, e) == Append(q, e)

queue_insert_head(q, e) == << e >> \o q

(* STAILQ_FIRST: NULL when the queue is empty. *)
queue_peek_front(q) == IF q = << >> THEN NULL ELSE Head(q)

(* The queue after queue_pop_head; an empty queue is left alone. *)
queue_pop_head(q) == IF q = << >> THEN q ELSE Tail(q)

=============================================================================
