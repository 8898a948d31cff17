------------------------------- MODULE Shelly -------------------------------
(***************************************************************************)
(* The job control of shelly.c: the main loop, the table of background     *)
(* jobs, the foreground child and the two signal handlers, together with   *)
(* the processes the shell starts and the kernel's process ids.            *)
(*                                                                         *)
(* A handler runs between any two statements of the main loop, and during  *)
(* its waitpid; one step here is the stretch of the loop between two       *)
(* statements that a handler or a child can tell apart.  A handler itself  *)
(* is one step: the loop does not run meanwhile.                           *)
(*                                                                         *)
(* Abstractions.  echo, cd, pwd, jobs, empty lines and an fg that finds no *)
(* job change nothing modelled here.  The arguments of a command, its      *)
(* redirection and the second process of a pipe are left out: a child      *)
(* prepares itself ("starting") and then is a command, or exec fails.      *)
(* Commands take the default action on signals, and all processes of the   *)
(* shell are in the terminal's one process group.                          *)
(***************************************************************************)
EXTENDS Integers, FiniteSetsExt

CONSTANTS
  Pid,                 \* process ids the kernel can give to a child
  MAX_NUM_JOBS,
  FG_PID_DEFAULT       \* INT_MIN

ASSUME JobsAssumption == MAX_NUM_JOBS \in Nat \ {0}
ASSUME PidAssumption == 0 \notin Pid /\ FG_PID_DEFAULT \notin Pid \cup {0}

VARIABLES
  jobsQueue,           \* the pid in each slot of the table, or 0
  fgPid,               \* the process the shell waits for
  pc,                  \* where the main loop is
  bg, pid, jobNum,     \* the & flag and two locals of the main loop
  process,             \* what each process id stands for
  stale,               \* pids an fg with a number out of range left behind
  untracked            \* pids started with & when the table was full

shell == << jobsQueue, fgPid, pc, bg, pid, jobNum >>
history == << stale, untracked >>
vars == << shell, process, history >>

JobNumber == 0 .. MAX_NUM_JOBS - 1
OutOfRange == MAX_NUM_JOBS       \* stands for every number that names no slot

(* "starting": forked and not yet a command.  "foreign": a process that is *)
(* not the shell's child, to which the kernel gave the same number.        *)
Live == {"starting", "running", "stopped"}
Child == Live \cup {"zombie"}
ProcessState == Child \cup {"free", "foreign"}

Init ==
  /\ jobsQueue = [j \in JobNumber |-> 0]
  /\ fgPid = FG_PID_DEFAULT
  /\ pc = "prompt"
  /\ bg = FALSE
  /\ pid = FG_PID_DEFAULT
  /\ jobNum = 0
  /\ process = [p \in Pid |-> "free"]
  /\ stale = {}
  /\ untracked = {}

-----------------------------------------------------------------------------
(* The processes.                                                          *)

Set(ps, old, new) ==
  [p \in Pid |-> IF p \in ps /\ process[p] \in old THEN new ELSE process[p]]

(* kill(p, SIGTERM).  A stopped process does not take the signal; a number *)
(* that was given away again means another process.                        *)
Terminated(ps) ==
  [p \in Pid |->
     CASE p \in ps /\ process[p] \in {"starting", "running"} -> "zombie"
       [] p \in ps /\ process[p] = "foreign" -> "free"
       [] OTHER -> process[p]]

exec_shelly(p) ==
  /\ process[p] = "starting"
  /\ \E outcome \in {"running", "zombie"} :
       process' = Set({p}, {"starting"}, outcome)
  /\ UNCHANGED << shell, history >>

CommandEnds(p) ==
  /\ process[p] = "running"
  /\ process' = Set({p}, {"running"}, "zombie")
  /\ UNCHANGED << shell, history >>

CommandContinued(p) ==
  /\ process[p] = "stopped"
  /\ process' = Set({p}, {"stopped"}, "running")
  /\ UNCHANGED << shell, history >>

ForeignStarts(p) ==
  /\ process[p] = "free"
  /\ process' = Set({p}, {"free"}, "foreign")
  /\ UNCHANGED << shell, history >>

ForeignEnds(p) ==
  /\ process[p] = "foreign"
  /\ process' = Set({p}, {"foreign"}, "free")
  /\ UNCHANGED << shell, history >>

Processes ==
  \E p \in Pid : \/ exec_shelly(p) \/ CommandEnds(p) \/ CommandContinued(p)
                 \/ ForeignStarts(p) \/ ForeignEnds(p)

-----------------------------------------------------------------------------
(* A command that is not a built-in.                                       *)

Fork(p, background) ==
  /\ pc = "prompt"
  /\ process[p] = "free"
  /\ process' = [process EXCEPT ![p] = "starting"]
  /\ pid' = p
  /\ bg' = background
  /\ pc' = "parent"
  /\ UNCHANGED << jobsQueue, fgPid, jobNum, history >>

ForkFails ==
  /\ pc = "prompt"
  /\ pc' = "exited"
  /\ UNCHANGED << jobsQueue, fgPid, bg, pid, jobNum, process, history >>

ParentWaits ==
  /\ pc = "parent" /\ ~bg
  /\ fgPid' = pid
  /\ pc' = "waiting"
  /\ UNCHANGED << jobsQueue, bg, pid, jobNum, process, history >>

EmptySlots == {j \in JobNumber : jobsQueue[j] = 0}
JobsOf(p) == {j \in JobNumber : jobsQueue[j] = p}

(* Slip: a full table makes room in its last slot.                         *)
addNewJob_Overwrites(p) ==
  /\ jobsQueue' = [jobsQueue EXCEPT ![IF EmptySlots = {} THEN MAX_NUM_JOBS - 1
                                      ELSE Min(EmptySlots)] = p]
  /\ untracked' = untracked

addNewJob(p) ==
  \/ /\ EmptySlots # {}
     /\ jobsQueue' = [jobsQueue EXCEPT ![Min(EmptySlots)] = p]
     /\ untracked' = untracked
  \/ /\ EmptySlots = {}
     /\ jobsQueue' = jobsQueue
     /\ untracked' = untracked \cup {p}

ParentRecords ==
  /\ pc = "parent" /\ bg
  /\ fgPid' = FG_PID_DEFAULT
  /\ addNewJob(pid)
  /\ pc' = "prompt"
  /\ UNCHANGED << bg, pid, jobNum, process, stale >>

(* Slip: tried again until it returns p.                                   *)
waitpid_Retried(p) ==
  /\ process[p] = "zombie"
  /\ process' = Set({p}, {"zombie"}, "free")

(* waitpid(p): returns when the child p has ended, at once if p is none.   *)
waitpid(p) ==
  /\ process[p] \notin Live
  /\ process' = Set({p}, {"zombie"}, "free")

WaitReturns ==
  /\ pc = "waiting"
  /\ waitpid(pid)
  /\ untracked' = untracked \ {pid}
  /\ pc' = "waited"
  /\ UNCHANGED << jobsQueue, fgPid, bg, pid, jobNum, stale >>

(* The end of the iteration and the start of the next one.                 *)
NextIteration ==
  /\ pc = "waited"
  /\ fgPid' = FG_PID_DEFAULT
  /\ pc' = "prompt"
  /\ UNCHANGED << jobsQueue, bg, pid, jobNum, process, history >>

-----------------------------------------------------------------------------
(* fg with a job number, in range or not.                                  *)

(* Slip: an empty slot is not left out.                                    *)
Selected_NoTest(n) ==
  IF n \in JobNumber THEN {n}
  ELSE IF EmptySlots = JobNumber THEN {} ELSE {Min(JobNumber \ EmptySlots)}

Selected(n) ==
  IF n \in JobNumber THEN {n} \ EmptySlots
  ELSE IF EmptySlots = JobNumber THEN {} ELSE {Min(JobNumber \ EmptySlots)}

FgSelects(n) ==
  /\ pc = "prompt"
  /\ \E j \in Selected(n) : fgPid' = jobsQueue[j]
  /\ jobNum' = n
  /\ pc' = "fgWaiting"
  /\ UNCHANGED << jobsQueue, bg, pid, process, history >>

FgWaitReturns ==
  /\ pc = "fgWaiting"
  /\ waitpid(fgPid)
  /\ untracked' = untracked \ {fgPid}
  /\ pc' = "fgWaited"
  /\ UNCHANGED << jobsQueue, fgPid, bg, pid, jobNum, stale >>

Recorded(queue) == {queue[j] : j \in JobNumber} \ {0}

(* Slip: the slot is cleared only when the number of the job is not 0.     *)
FgClears_NotTheFirst ==
  /\ pc = "fgWaited"
  /\ jobNum \in JobNumber
  /\ jobsQueue' = IF jobNum = 0 THEN jobsQueue
                  ELSE [jobsQueue EXCEPT ![jobNum] = 0]
  /\ stale' = stale \cap Recorded(jobsQueue')
  /\ pc' = "waited"
  /\ UNCHANGED << fgPid, bg, pid, jobNum, process, untracked >>

FgClears ==
  /\ pc = "fgWaited"
  /\ jobNum \in JobNumber
  /\ jobsQueue' = [jobsQueue EXCEPT ![jobNum] = 0]
  /\ stale' = stale \cap Recorded(jobsQueue')
  /\ pc' = "waited"
  /\ UNCHANGED << fgPid, bg, pid, jobNum, process, untracked >>

(* The loop that took any job had a jobNum of its own: the number out of   *)
(* range is used as an index.  What the store hits is not the table; it    *)
(* may end the shell.                                                      *)
FgClearsOutOfRange ==
  /\ pc = "fgWaited"
  /\ jobNum = OutOfRange
  /\ stale' = stale \cup ({fgPid} \cap Recorded(jobsQueue))
  /\ pc' \in {"waited", "exited"}
  /\ UNCHANGED << jobsQueue, fgPid, bg, pid, jobNum, process, untracked >>

(* fg without a number: strtol(NULL) ends the shell.                       *)
FgWithoutNumber ==
  /\ pc = "prompt"
  /\ pc' = "exited"
  /\ UNCHANGED << jobsQueue, fgPid, bg, pid, jobNum, process, history >>

-----------------------------------------------------------------------------
(* The end of the shell.                                                   *)

(* Slip: the search ends at the first empty slot.                          *)
exit_shelly_StopsAtHole ==
  /\ pc = "prompt"
  /\ process' = Terminated({jobsQueue[j] : j \in
                   {i \in JobNumber : \A e \in EmptySlots : i < e}})
  /\ pc' = "exited"
  /\ UNCHANGED << jobsQueue, fgPid, bg, pid, jobNum, history >>

exit_shelly ==
  /\ pc = "prompt"
  /\ process' = Terminated(Recorded(jobsQueue))
  /\ pc' = "exited"
  /\ UNCHANGED << jobsQueue, fgPid, bg, pid, jobNum, history >>

(* CTRL-D: getline finds the end of the input.                             *)
EndOfInput ==
  /\ pc = "prompt"
  /\ pc' = "exited"
  /\ UNCHANGED << jobsQueue, fgPid, bg, pid, jobNum, process, history >>

-----------------------------------------------------------------------------
(* Signals.  CTRL-C and CTRL-Z reach every process of the group; a child   *)
(* that is not a command yet runs the shell's handler, which does nothing  *)
(* there.  A SIGINT sent with kill reaches the shell alone.                *)

handle_sigint(group) ==
  /\ pc # "exited"
  /\ LET hit == {p \in Pid : group /\ process[p] = "running"}
     IN  \/ /\ fgPid \in Recorded(jobsQueue)
            /\ jobsQueue' = [jobsQueue EXCEPT ![Min(JobsOf(fgPid))] = 0]
            /\ process' = Terminated(hit \cup {fgPid})
            /\ stale' = stale \cap Recorded(jobsQueue')
         \/ /\ fgPid \notin Recorded(jobsQueue)
            /\ process' = Terminated(hit)
            /\ UNCHANGED << jobsQueue, stale >>
  /\ UNCHANGED << fgPid, pc, bg, pid, jobNum, untracked >>

handle_sigtstp ==
  /\ process' = Set(Pid, {"running"}, "stopped")
  /\ UNCHANGED << shell, history >>

-----------------------------------------------------------------------------
MainLoop ==
  \/ ParentWaits \/ ParentRecords \/ WaitReturns \/ NextIteration
  \/ FgWaitReturns \/ FgClears \/ FgClearsOutOfRange

Command ==
  \/ \E p \in Pid, background \in BOOLEAN : Fork(p, background)
  \/ \E n \in JobNumber \cup {OutOfRange} : FgSelects(n)
  \/ ForkFails \/ FgWithoutNumber \/ exit_shelly \/ EndOfInput

Signal == handle_sigtstp \/ \E group \in BOOLEAN : handle_sigint(group)

Next == MainLoop \/ Command \/ Signal \/ Processes

Spec == Init /\ [][Next]_vars

(* The shell is scheduled, and a command that is not stopped ends.         *)
FairSpec ==
  /\ Spec
  /\ WF_vars(MainLoop)
  /\ \A p \in Pid : WF_vars(exec_shelly(p)) /\ WF_vars(CommandEnds(p))

-----------------------------------------------------------------------------
(* Properties.                                                             *)

(* Every slot of the table, the locals and the process table hold what the *)
(* code can put there.                                                     *)
TypeOK ==
  /\ jobsQueue \in [JobNumber -> Pid \cup {0}]
  /\ fgPid \in Pid \cup {FG_PID_DEFAULT}
  /\ pc \in {"prompt", "parent", "waiting", "waited", "fgWaiting",
             "fgWaited", "exited"}
  /\ bg \in BOOLEAN
  /\ pid \in Pid \cup {FG_PID_DEFAULT}
  /\ jobNum \in JobNumber \cup {OutOfRange}
  /\ process \in [Pid -> ProcessState]
  /\ stale \subseteq Pid
  /\ untracked \subseteq Pid

(* A pid in the table is a child that has not been waited for, in one slot *)
(* only: what exit, fg and the SIGINT handler signal is never a stranger   *)
(* that got the number, while children end, fg takes them out and the      *)
(* handler clears slots under it.  Between waitpid and the store of        *)
(* fg_shelly this does not hold, and an fg out of range leaves its pid.    *)
JobsAreChildren ==
  \A j \in JobNumber :
    LET p == jobsQueue[j]
    IN  p # 0 /\ p \notin stale =>
          /\ JobsOf(p) = {j}
          /\ process[p] \in Child \/ (pc = "fgWaited" /\ p = fgPid)

(* While the shell lives every child that was not waited for is in the     *)
(* table, or is being waited for, or found the table full: none is         *)
(* forgotten when slots are cleared by fg and by the handler.              *)
NoChildForgotten ==
  pc # "exited" =>
    \A p \in Pid : process[p] \in Child =>
      \/ p \in Recorded(jobsQueue) \cup untracked
      \/ pc \in {"parent", "waiting"} /\ p = pid
      \/ pc = "fgWaiting" /\ p = fgPid

(* The exit command leaves behind only children it could not know of, and  *)
(* stopped ones, however the table's slots were filled and cleared before. *)
ExitEndsJobs ==
  [][exit_shelly => \A p \in Pid :
       process'[p] \in {"starting", "running"} => p \in untracked]_vars

(* The shell comes back to its prompt after every command, a failing exec  *)
(* and every signal included, unless the process it waits for is stopped.  *)
PromptComesBack ==
  pc \in {"parent", "waiting", "fgWaiting"} ~>
    \/ pc \in {"prompt", "exited"}
    \/ pc = "waiting" /\ process[pid] = "stopped"
    \/ pc = "fgWaiting" /\ process[fgPid] = "stopped"

(* shelly.c: fg removes a job that has terminated from the jobs queue.     *)
(* So the exit command never signals a process that is not the shell's and *)
(* was given the number of a job that fg has waited for.                   *)
ExitSparesStrangers ==
  [][exit_shelly => \A p \in Pid :
       process[p] = "foreign" => process'[p] = "foreign"]_vars

=============================================================================
