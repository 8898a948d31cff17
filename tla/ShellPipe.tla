----------------------------- MODULE ShellPipe -----------------------------
(***************************************************************************)
(* What the shell's child makes of a command line before it becomes the    *)
(* command: the loop over the arguments in main, redirection_shelly and    *)
(* piping_shelly, which forks a second process and connects the two by a   *)
(* pipe.  Shelly treats all of this as one step of a child.                *)
(*                                                                         *)
(* The child runs the command after `|` and its own child, "left", the one *)
(* before it.  Closing and duplicating the ends of the pipe is one step    *)
(* each, and the steps of the two processes interleave, also with those    *)
(* of the commands they turn into.  pipe, fork, open and execvp may fail.  *)
(*                                                                         *)
(* External: the kernel's pipe (a buffer of Capacity writes; end of input  *)
(* when no process has a write end open, SIGPIPE when none has a read end) *)
(* and what the commands do with it.                                       *)
(***************************************************************************)
EXTENDS Integers, FiniteSetsExt, Sequences

CONSTANTS
  MAX_INPUT_ARGS,
  Capacity,            \* writes the kernel's pipe can hold
  MaxTokens,           \* bound: tokens in a line
  MaxOutput            \* bound: writes of the left command

ASSUME ShellPipeAssumption ==
  /\ {MAX_INPUT_ARGS, Capacity} \subseteq Nat \ {0}
  /\ {MaxTokens, MaxOutput} \subseteq Nat

Process == {"child", "left"}
Token == {"word", ">", "|"}
NULL == "NULL"

VARIABLES
  line,       \* what was typed, in tokens
  args,       \* the arguments getcmd made of it, the same in both processes
  pc,         \* where each process is
  i,          \* the child's loop variable
  argv,       \* where in args the arguments of each command begin
  stdin, stdout,       \* what descriptors 0 and 1 of each process are
  pipefd,     \* the ends of the pipe that each has open besides
  buffer,     \* writes in the pipe
  toWrite,    \* writes the left command still has to make
  readsAll,   \* the child's command reads its input to the end
  sawEnd,     \* and has seen that end
  failed      \* a system call has failed

pipe == << stdin, stdout, pipefd, buffer >>
command == << toWrite, readsAll, sawEnd >>
vars == << line, args, pc, i, argv, pipe, command, failed >>

Lines == UNION {[1 .. n -> Token] : n \in 1 .. MaxTokens}

Init ==
  /\ line \in Lines
  /\ args = << >>
  /\ pc = [child |-> "none", left |-> "none"]
  /\ i = 1
  /\ argv = [p \in Process |-> 1]
  /\ stdin = [p \in Process |-> "terminal"]
  /\ stdout = [p \in Process |-> "terminal"]
  /\ pipefd = [p \in Process |-> {}]
  /\ buffer = 0
  /\ toWrite = 0 /\ readsAll = FALSE /\ sawEnd = FALSE
  /\ failed = FALSE

Goto(p, from, to) == pc[p] = from /\ pc' = [pc EXCEPT ![p] = to]

-----------------------------------------------------------------------------
(* The shell reads the line and forks; the child goes through its          *)
(* arguments.                                                              *)

(* Slip: the last entry of args is filled as well.                         *)
getcmd_FillsArray ==
  /\ Goto("child", "none", "loop")
  /\ args' = SubSeq(line, 1, Min({Len(line), MAX_INPUT_ARGS}))
  /\ UNCHANGED << line, i, argv, pipe, command, failed >>

(* Only the first MAX_INPUT_ARGS - 1 tokens become arguments.              *)
getcmd ==
  /\ Goto("child", "none", "loop")
  /\ args' = SubSeq(line, 1, Min({Len(line), MAX_INPUT_ARGS - 1}))
  /\ UNCHANGED << line, i, argv, pipe, command, failed >>

AtOperator(operator) == i <= Len(args) /\ args[i] = operator

NextArgument ==
  /\ pc["child"] = "loop"
  /\ i <= Len(args) /\ ~AtOperator(">") /\ ~AtOperator("|")
  /\ i' = i + 1
  /\ UNCHANGED << line, args, pc, argv, pipe, command, failed >>

LoopLeft ==
  /\ \/ AtOperator(">") /\ Goto("child", "loop", "open")
     \/ AtOperator("|") /\ Goto("child", "loop", "pipe")
     \/ i > Len(args) /\ Goto("child", "loop", "exec")
  /\ UNCHANGED << line, args, i, argv, pipe, command, failed >>

-----------------------------------------------------------------------------
(* redirection_shelly.                                                     *)

(* Slip: the operator and the file stay among the arguments.               *)
redirection_shelly_KeepsArgs ==
  /\ Goto("child", "open", "exec")
  /\ i < Len(args)
  /\ stdout' = [stdout EXCEPT !["child"] = "file"]
  /\ UNCHANGED << line, args, i, argv, stdin, pipefd, buffer, command, failed >>

(* The operator and the file after it are cut out, whatever follows them   *)
(* too.                                                                    *)
redirection_shelly ==
  /\ Goto("child", "open", "exec")
  /\ i < Len(args)
  /\ stdout' = [stdout EXCEPT !["child"] = "file"]
  /\ args' = [args EXCEPT ![i] = NULL, ![i + 1] = NULL]
  /\ UNCHANGED << line, i, argv, stdin, pipefd, buffer, command, failed >>

(* open fails, or there is nothing after `>`: the command runs all the     *)
(* same, on the terminal, with `>` among its arguments.                    *)
RedirectionFails ==
  /\ Goto("child", "open", "exec")
  /\ failed' = TRUE
  /\ UNCHANGED << line, args, i, argv, pipe, command >>

-----------------------------------------------------------------------------
(* piping_shelly.  When it cannot make the pipe or the process it returns, *)
(* and the loop goes on behind the `|`.  (The ends of a pipe whose fork    *)
(* failed stay open; no process reads or writes them.)                     *)

PipeOpened ==
  /\ Goto("child", "pipe", "fork")
  /\ args' = [args EXCEPT ![i] = NULL]
  /\ pipefd' = [pipefd EXCEPT !["child"] = {"read", "write"}]
  /\ UNCHANGED << line, i, argv, stdin, stdout, buffer, command, failed >>

PipeFails ==
  /\ Goto("child", "pipe", "loop")
  /\ args' = [args EXCEPT ![i] = NULL]
  /\ i' = i + 1
  /\ failed' = TRUE
  /\ UNCHANGED << line, argv, pipe, command >>

LeftForked ==
  /\ pc["child"] = "fork"
  /\ pc' = [pc EXCEPT !["child"] = "close write end", !["left"] = "close read end"]
  /\ pipefd' = [pipefd EXCEPT !["left"] = pipefd["child"]]
  /\ argv' = [argv EXCEPT !["child"] = i + 1]
  /\ UNCHANGED << line, args, i, stdin, stdout, buffer, command, failed >>

(* Slip: pid == -1 is taken for the parent.                                *)
LeftForkFails_AsParent ==
  /\ Goto("child", "fork", "close write end")
  /\ argv' = [argv EXCEPT !["child"] = i + 1]
  /\ failed' = TRUE
  /\ UNCHANGED << line, args, i, pipe, command >>

LeftForkFails ==
  /\ Goto("child", "fork", "loop")
  /\ pipefd' = [pipefd EXCEPT !["child"] = {}]
  /\ i' = i + 1
  /\ failed' = TRUE
  /\ UNCHANGED << line, args, argv, stdin, stdout, buffer, command >>

CloseEnd(p, end) ==
  /\ pipefd' = [pipefd EXCEPT ![p] = @ \ {end}]
  /\ UNCHANGED << line, args, i, argv, stdin, stdout, buffer, command, failed >>

LeftClosesRead ==
  Goto("left", "close read end", "dup2") /\ CloseEnd("left", "read")

(* Slip: the write end is closed before it is duplicated.                  *)
LeftDuplicates_ClosedFirst ==
  /\ Goto("left", "dup2", "close")
  /\ CloseEnd("left", "write")

LeftDuplicates ==
  /\ Goto("left", "dup2", "close")
  /\ stdout' = [stdout EXCEPT !["left"] = "pipe"]
  /\ UNCHANGED << line, args, i, argv, stdin, pipefd, buffer, command, failed >>

LeftCloses == Goto("left", "close", "exec") /\ CloseEnd("left", "write")

(* Slip: the reader keeps a write end of its own pipe.                     *)
RightClosesWrite_Forgotten ==
  Goto("child", "close write end", "dup2") /\ CloseEnd("child", "none")

RightClosesWrite ==
  Goto("child", "close write end", "dup2") /\ CloseEnd("child", "write")

RightDuplicates ==
  /\ Goto("child", "dup2", "close")
  /\ stdin' = [stdin EXCEPT !["child"] = "pipe"]
  /\ UNCHANGED << line, args, i, argv, stdout, pipefd, buffer, command, failed >>

RightCloses == Goto("child", "close", "exec") /\ CloseEnd("child", "read")

-----------------------------------------------------------------------------
(* The processes become commands, and end.                                 *)

LastArgument(p) ==
  LET ends == {k \in argv[p] .. Len(args) : args[k] = NULL}
  IN  IF ends = {} THEN Len(args) ELSE Min(ends) - 1
Arguments(p) == argv[p] .. LastArgument(p)

exec_shelly(p) ==
  /\ Goto(p, "exec", "command")
  /\ Arguments(p) # {}
  /\ IF p = "left"
     THEN toWrite' \in 0 .. MaxOutput /\ UNCHANGED readsAll
     ELSE readsAll' \in BOOLEAN /\ UNCHANGED toWrite
  /\ UNCHANGED << line, args, i, argv, pipe, sawEnd, failed >>

(* An exit closes every descriptor.                                        *)
Ends(p) ==
  /\ stdin' = [stdin EXCEPT ![p] = "closed"]
  /\ stdout' = [stdout EXCEPT ![p] = "closed"]
  /\ pipefd' = [pipefd EXCEPT ![p] = {}]
  /\ UNCHANGED << line, args, i, argv, buffer, toWrite, readsAll >>

(* execvp fails, as it does without a command.                             *)
ExecFails(p) ==
  /\ Goto(p, "exec", "ended")
  /\ Ends(p)
  /\ failed' = TRUE
  /\ UNCHANGED sawEnd

HasEnd(p, end) ==
  \/ end \in pipefd[p]
  \/ end = "read" /\ stdin[p] = "pipe"
  \/ end = "write" /\ stdout[p] = "pipe"
SomeoneHas(end) == \E p \in Process : HasEnd(p, end)

LeftWrites ==
  /\ pc["left"] = "command" /\ stdout["left"] = "pipe" /\ toWrite > 0
  /\ SomeoneHas("read") /\ buffer < Capacity
  /\ buffer' = buffer + 1
  /\ toWrite' = toWrite - 1
  /\ UNCHANGED << line, args, pc, i, argv, stdin, stdout, pipefd, readsAll,
                  sawEnd, failed >>

LeftIsKilled ==
  /\ stdout["left"] = "pipe" /\ toWrite > 0 /\ ~SomeoneHas("read")
  /\ Goto("left", "command", "ended")
  /\ Ends("left")
  /\ UNCHANGED << sawEnd, failed >>

LeftEnds ==
  /\ stdout["left"] = "pipe" => toWrite = 0
  /\ Goto("left", "command", "ended")
  /\ Ends("left")
  /\ UNCHANGED << sawEnd, failed >>

ReadsPipe == pc["child"] = "command" /\ stdin["child"] = "pipe"

ChildReads ==
  /\ ReadsPipe /\ buffer > 0
  /\ buffer' = buffer - 1
  /\ UNCHANGED << line, args, pc, i, argv, stdin, stdout, pipefd, command, failed >>

ChildSeesEnd ==
  /\ ReadsPipe /\ buffer = 0 /\ ~SomeoneHas("write")
  /\ Goto("child", "command", "ended")
  /\ Ends("child")
  /\ sawEnd' = TRUE
  /\ UNCHANGED failed

(* A command that does not read, or not to the end.                        *)
ChildEnds ==
  /\ ~(ReadsPipe /\ readsAll)
  /\ Goto("child", "command", "ended")
  /\ Ends("child")
  /\ UNCHANGED << sawEnd, failed >>

AllEnded == pc["child"] = "ended" /\ pc["left"] \in {"none", "ended"}

(* CTRL-C at the terminal ends the commands of the line.  Nothing says     *)
(* that the user ever types it, and no property counts on it.              *)
UserInterrupts ==
  /\ pc["child"] \in {"command", "ended"}
  /\ pc["left"] \in {"none", "command", "ended"}
  /\ ~AllEnded
  /\ pc' = [p \in Process |-> IF pc[p] = "none" THEN "none" ELSE "ended"]
  /\ stdin' = [p \in Process |-> "closed"]
  /\ stdout' = [p \in Process |-> "closed"]
  /\ pipefd' = [p \in Process |-> {}]
  /\ UNCHANGED << line, args, i, argv, buffer, command, failed >>

-----------------------------------------------------------------------------
Child ==
  \/ getcmd \/ NextArgument \/ LoopLeft \/ redirection_shelly \/ RedirectionFails
  \/ PipeOpened \/ PipeFails \/ LeftForked \/ LeftForkFails
  \/ RightClosesWrite \/ RightDuplicates \/ RightCloses
  \/ exec_shelly("child") \/ ExecFails("child")
  \/ ChildReads \/ ChildSeesEnd \/ ChildEnds

Left ==
  \/ LeftClosesRead \/ LeftDuplicates \/ LeftCloses
  \/ exec_shelly("left") \/ ExecFails("left")
  \/ LeftWrites \/ LeftIsKilled \/ LeftEnds

Terminated == AllEnded /\ UNCHANGED vars

Next == Child \/ Left \/ UserInterrupts \/ Terminated

(* The kernel runs every process that is not blocked.                      *)
Fairness == WF_vars(Child) /\ WF_vars(Left)
Spec == Init /\ [][Next]_vars /\ Fairness

-----------------------------------------------------------------------------
(* Properties.                                                             *)

TypeOK ==
  /\ line \in Lines
  /\ args \in Seq(Token \cup {NULL}) /\ Len(args) < MAX_INPUT_ARGS
  /\ pc \in [Process -> {"none", "loop", "open", "pipe", "fork",
                         "close write end", "close read end", "dup2", "close",
                         "exec", "command", "ended"}]
  /\ i \in 1 .. MAX_INPUT_ARGS
  /\ argv \in [Process -> 1 .. MAX_INPUT_ARGS]
  /\ stdin \in [Process -> {"terminal", "pipe", "closed"}]
  /\ stdout \in [Process -> {"terminal", "pipe", "file", "closed"}]
  /\ pipefd \in [Process -> SUBSET {"read", "write"}]
  /\ buffer \in 0 .. Capacity
  /\ toWrite \in 0 .. MaxOutput
  /\ {readsAll, sawEnd, failed} \subseteq BOOLEAN

(* The lines of the welcome message: words, at most one operator between   *)
(* them, one word after `>`, and no more tokens than getcmd takes.         *)
Operators == {k \in DOMAIN line : line[k] # "word"}
Plain ==
  /\ Len(line) < MAX_INPUT_ARGS
  /\ \A k, l \in Operators : k = l
  /\ \A k \in Operators :
       /\ k > 1 /\ k < Len(line)
       /\ line[k] = ">" => k + 1 = Len(line)
Before == {k \in DOMAIN line : \A l \in Operators : k < l}
After == {k \in DOMAIN line : \A l \in Operators : k > l}
Piped == \E k \in Operators : line[k] = "|"

(* When no system call fails, every command of such a line gets the words  *)
(* the user wrote for it, no operator, and the input and output the        *)
(* operator stands for: redirection_shelly and piping_shelly cut args in   *)
(* place, in two processes, while the loop over it goes on.                *)
RunsAsWritten ==
  Plain /\ ~failed =>
    /\ pc["left"] = "command" =>
         /\ Piped
         /\ Arguments("left") = Before
         /\ stdin["left"] = "terminal" /\ stdout["left"] = "pipe"
    /\ pc["child"] = "command" =>
         /\ Arguments("child") = IF Piped THEN After ELSE Before
         /\ stdin["child"] = IF Piped THEN "pipe" ELSE "terminal"
         /\ stdout["child"] = IF Operators # {} /\ ~Piped THEN "file"
                              ELSE "terminal"

(* Whichever of pipe, fork, open and exec fails, and whatever the line,    *)
(* the command behind a `|` does not run unless a process was forked for   *)
(* the one before it, and it reads the pipe and never the terminal.        *)
RightNeedsLeft ==
  pc["child"] = "command" /\ argv["child"] > 1
    => pc["left"] # "none" /\ stdin["child"] = "pipe"

(* The reader sees the end of its input only when the left command is over *)
(* (with every write it had to make, unless it never started): closing and *)
(* duplicating in the two processes never shows it an early end.           *)
EndMeansLeftEnded == sawEnd => pc["left"] = "ended" /\ buffer = 0 /\ toWrite = 0

(* No reader waits for an end that never comes because a write end is left *)
(* open somewhere, and no writer for room in a pipe nobody reads: both     *)
(* processes end, whatever fails and in whatever order they close.         *)
PipelineEnds == <>AllEnded

=============================================================================
