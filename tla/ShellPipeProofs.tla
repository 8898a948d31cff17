-------------------------- MODULE ShellPipeProofs --------------------------
(***************************************************************************)
(* Theorems about the pipes of ShellPipe, for lines of any length, any     *)
(* array of arguments and any size of the kernel's buffer: the command     *)
(* behind a `|` does not run without the one before it, its input does not *)
(* end before that command does, and as long as nothing fails each command *)
(* of a line has the words the user wrote for it.                          *)
(***************************************************************************)
EXTENDS ShellPipe, Extrema, SequenceTheorems

AfterFork == {"close write end", "dup2", "close", "exec", "command", "ended"}

(* Where the child has got to, and the ends it has open there.             *)
ChildHasItsEnds ==
  /\ pc["child"] \in {"open", "pipe", "fork"} => i <= Len(args)
  /\ pc["left"] = "none" =>
       /\ argv["child"] = 1
       /\ stdin["child"] # "pipe"
       /\ pc["child"] \notin {"close write end", "dup2", "close"}
  /\ pc["left"] # "none" => pc["child"] \in AfterFork
  /\ pc["child"] = "fork" => pipefd["child"] = {"read", "write"}
  /\ pc["child"] \in {"close write end", "dup2"} => "read" \in pipefd["child"]
  /\ pc["left"] # "none" /\ pc["child"] \in {"close", "exec", "command"}
       => stdin["child"] = "pipe"

(* Until it is over the left process has a write end, and then it has      *)
(* written what it had to, unless nobody will read it.                     *)
LeftHasItsEnds ==
  /\ pc["left"] \in {"close read end", "dup2"} => "write" \in pipefd["left"]
  /\ pc["left"] \in {"close", "exec", "command"} => stdout["left"] = "pipe"
  /\ pc["left"] \in {"none", "close read end", "dup2", "close", "exec",
                     "command", "ended"}
  /\ pc["left"] \notin {"command", "ended"} => toWrite = 0
  /\ pc["left"] = "ended" /\ toWrite > 0 => pc["child"] = "ended"

EndSeen == sawEnd => pc["child"] = "ended" /\ EndMeansLeftEnded

IInv == TypeOK /\ ChildHasItsEnds /\ LeftHasItsEnds /\ EndSeen

-----------------------------------------------------------------------------
(* The constants, one by one.                                              *)
LEMMA Constants ==
  /\ MAX_INPUT_ARGS \in Nat /\ MAX_INPUT_ARGS >= 1
  /\ Capacity \in Nat /\ MaxTokens \in Nat /\ MaxOutput \in Nat
  BY ShellPipeAssumption

(* The child's loop variable and its arguments.                            *)
LEMMA LoopTypes ==
  ASSUME TypeOK
  PROVE  /\ i \in Nat /\ i >= 1 /\ i <= MAX_INPUT_ARGS
         /\ args \in Seq(Token \cup {NULL})
         /\ Len(args) \in Nat /\ Len(args) < MAX_INPUT_ARGS
  <1>1. i \in 1 .. MAX_INPUT_ARGS /\ args \in Seq(Token \cup {NULL})
    BY DEF TypeOK
  <1>2. Len(args) \in Nat
    BY <1>1
  <1>3. Len(args) < MAX_INPUT_ARGS
    BY DEF TypeOK
  <1>4. QED
    BY <1>1, <1>2, <1>3, Constants

(* The counters.                                                           *)
LEMMA CounterTypes ==
  ASSUME TypeOK
  PROVE  /\ buffer \in Nat /\ buffer <= Capacity
         /\ toWrite \in Nat /\ toWrite <= MaxOutput
  <1>1. buffer \in 0 .. Capacity /\ toWrite \in 0 .. MaxOutput
    BY DEF TypeOK
  <1>2. QED
    BY <1>1, Constants

(* The first n tokens of a line.                                           *)
LEMMA FirstTokens ==
  ASSUME NEW S, NEW s \in Seq(S), NEW n \in Nat, n <= Len(s)
  PROVE  SubSeq(s, 1, n) \in Seq(S) /\ Len(SubSeq(s, 1, n)) = n
  <1>1. SubSeq(s, 1, n) \in Seq(S)
    OBVIOUS
  <1>2. Len(SubSeq(s, 1, n)) = n
    OBVIOUS
  <1>3. QED
    BY <1>1, <1>2

(* getcmd keeps the number of arguments below MAX_INPUT_ARGS.              *)
LEMMA ArgumentsFit ==
  ASSUME TypeOK,
         NEW n \in Nat, n = Min({Len(line), MAX_INPUT_ARGS - 1})
  PROVE  /\ SubSeq(line, 1, n) \in Seq(Token \cup {NULL})
         /\ Len(SubSeq(line, 1, n)) < MAX_INPUT_ARGS
  <1>1. PICK m \in 1 .. MaxTokens : line \in [1 .. m -> Token]
    BY DEF TypeOK, Lines
  <1>2. Len(line) = m /\ m \in Nat
    BY <1>1, Constants
  <1>3. n <= m /\ n <= MAX_INPUT_ARGS - 1
    BY <1>2, Constants, MinOfTwo
  <1>4. line \in Seq(Token \cup {NULL})
    BY <1>1
  <1>5. /\ SubSeq(line, 1, n) \in Seq(Token \cup {NULL})
        /\ Len(SubSeq(line, 1, n)) = n
    BY <1>2, <1>3, <1>4, FirstTokens
  <1>6. n < MAX_INPUT_ARGS
    BY <1>3, Constants
  <1>7. QED
    BY <1>5, <1>6

(* An argument is cut out.                                                 *)
LEMMA ArgumentCut ==
  ASSUME NEW s \in Seq(Token \cup {NULL}), NEW k \in 1 .. Len(s)
  PROVE  /\ [s EXCEPT ![k] = NULL] \in Seq(Token \cup {NULL})
         /\ Len([s EXCEPT ![k] = NULL]) = Len(s)
  BY ExceptSeq

LEMMA Initially == Init => IInv
  <1> SUFFICES ASSUME Init PROVE IInv
    OBVIOUS
  <1>1. TypeOK
    <2>1. args \in Seq(Token \cup {NULL}) /\ Len(args) < MAX_INPUT_ARGS
      BY Constants DEF Init
    <2>2. pc \in [Process -> {"none"}]
      BY DEF Init, Process
    <2>3. i \in 1 .. MAX_INPUT_ARGS /\ argv \in [Process -> 1 .. MAX_INPUT_ARGS]
      BY Constants DEF Init
    <2>4. buffer \in 0 .. Capacity /\ toWrite \in 0 .. MaxOutput
      BY Constants DEF Init
    <2>5. QED
      BY <2>1, <2>2, <2>3, <2>4 DEF Init, TypeOK
  <1>2. ChildHasItsEnds /\ LeftHasItsEnds /\ EndSeen
    BY DEF Init, ChildHasItsEnds, LeftHasItsEnds, EndSeen, Process
  <1>3. QED
    BY <1>1, <1>2 DEF IInv

-----------------------------------------------------------------------------
(* The child up to the fork, when there is no left process.                *)
LEMMA BeforeFork ==
  ASSUME IInv,
         getcmd \/ NextArgument \/ LoopLeft \/ redirection_shelly
           \/ RedirectionFails \/ PipeOpened \/ PipeFails \/ LeftForkFails
  PROVE  IInv'
  <1> USE DEF Process
  <1>1. /\ MAX_INPUT_ARGS \in Nat
        /\ i \in Nat /\ i >= 1 /\ i <= MAX_INPUT_ARGS
        /\ args \in Seq(Token \cup {NULL})
        /\ Len(args) \in Nat /\ Len(args) < MAX_INPUT_ARGS
    BY Constants, LoopTypes DEF IInv
  <1>2. pc["left"] = "none" /\ pc["child"] \notin AfterFork
    BY DEF IInv, TypeOK, ChildHasItsEnds, AfterFork, Goto, getcmd, NextArgument,
       LoopLeft, redirection_shelly, RedirectionFails, PipeOpened, PipeFails,
       LeftForkFails
  <1>3. CASE getcmd
    <2>1. Min({Len(line), MAX_INPUT_ARGS - 1}) \in Nat
      <3>1. Len(line) \in Nat
        <4>1. PICK m \in 1 .. MaxTokens : line \in [1 .. m -> Token]
          BY DEF IInv, TypeOK, Lines
        <4>2. QED
          BY <4>1, Constants
      <3>2. QED
        BY <3>1, Constants, MinOfTwo
    <2>2. TypeOK'
      BY <1>3, <2>1, ArgumentsFit DEF IInv, TypeOK, getcmd, Goto, pipe, command
    <2>3. (ChildHasItsEnds /\ LeftHasItsEnds /\ EndSeen)'
      BY <1>2, <1>3 DEF IInv, TypeOK, ChildHasItsEnds, LeftHasItsEnds, EndSeen,
         EndMeansLeftEnded, getcmd, Goto, pipe, command, AfterFork
    <2>4. QED
      BY <2>2, <2>3 DEF IInv
  <1>4. CASE NextArgument
    <2>1. i' \in 1 .. MAX_INPUT_ARGS
      BY <1>1, <1>4 DEF NextArgument
    <2>0. TypeOK'
      BY <1>4, <2>1 DEF IInv, TypeOK, NextArgument, pipe, command
    <2>2. (ChildHasItsEnds /\ LeftHasItsEnds /\ EndSeen)'
      BY <1>2, <1>4 DEF IInv, TypeOK, ChildHasItsEnds, LeftHasItsEnds, EndSeen,
         EndMeansLeftEnded, NextArgument, pipe, command, AfterFork
    <2>3. QED
      BY <2>0, <2>2 DEF IInv
  <1>5. CASE LoopLeft
    <2>1. TypeOK'
      BY <1>5 DEF IInv, TypeOK, LoopLeft, Goto, pipe, command
    <2>2. (ChildHasItsEnds /\ LeftHasItsEnds /\ EndSeen)'
      BY <1>2, <1>5 DEF IInv, TypeOK, ChildHasItsEnds, LeftHasItsEnds, EndSeen,
         EndMeansLeftEnded, LoopLeft, AtOperator, Goto, pipe, command, AfterFork
    <2>3. QED
      BY <2>1, <2>2 DEF IInv
  <1>6. CASE redirection_shelly
    <2>0. args' \in Seq(Token \cup {NULL}) /\ Len(args') = Len(args)
      <3> DEFINE cut == [args EXCEPT ![i] = NULL]
      <3>1. i \in 1 .. Len(args) /\ i + 1 \in 1 .. Len(args)
        BY <1>1, <1>6 DEF redirection_shelly
      <3>2. cut \in Seq(Token \cup {NULL}) /\ Len(cut) = Len(args)
        BY <3>1, ArgumentCut DEF IInv, TypeOK
      <3>3. args' = [cut EXCEPT ![i + 1] = NULL]
        BY <1>6 DEF redirection_shelly
      <3> HIDE DEF cut
      <3>4. QED
        BY <3>1, <3>2, <3>3, ArgumentCut
    <2>1. TypeOK'
      BY <1>6, <2>0 DEF IInv, TypeOK, redirection_shelly, Goto, command
    <2>2. (ChildHasItsEnds /\ LeftHasItsEnds /\ EndSeen)'
      BY <1>2, <1>6 DEF IInv, TypeOK, ChildHasItsEnds, LeftHasItsEnds, EndSeen,
         EndMeansLeftEnded, redirection_shelly, Goto, command, AfterFork
    <2>3. QED
      BY <2>1, <2>2 DEF IInv
  <1>7. CASE RedirectionFails
    <2>1. TypeOK'
      BY <1>7 DEF IInv, TypeOK, RedirectionFails, Goto, pipe, command
    <2>2. (ChildHasItsEnds /\ LeftHasItsEnds /\ EndSeen)'
      BY <1>2, <1>7 DEF IInv, TypeOK, ChildHasItsEnds, LeftHasItsEnds, EndSeen,
         EndMeansLeftEnded, RedirectionFails, Goto, pipe, command, AfterFork
    <2>3. QED
      BY <2>1, <2>2 DEF IInv
  <1>8. CASE PipeOpened
    <2>1. i <= Len(args)
      BY <1>8 DEF IInv, ChildHasItsEnds, PipeOpened, Goto
    <2>5. args' \in Seq(Token \cup {NULL}) /\ Len(args') = Len(args)
      <3>1. i \in 1 .. Len(args)
        BY <1>1, <2>1
      <3>2. QED
        BY <1>8, <3>1, ArgumentCut DEF IInv, TypeOK, PipeOpened
    <2>6. i + 1 \in 1 .. MAX_INPUT_ARGS
      BY <1>1, <2>1
    <2>2. TypeOK'
      BY <1>8, <2>5, <2>6 DEF IInv, TypeOK, PipeOpened, Goto, command
    <2>3. (ChildHasItsEnds /\ LeftHasItsEnds /\ EndSeen)'
      BY <1>2, <1>8, <2>1, <2>5 DEF IInv, TypeOK, ChildHasItsEnds, LeftHasItsEnds, EndSeen,
         EndMeansLeftEnded, PipeOpened, Goto, command, AfterFork
    <2>4. QED
      BY <2>2, <2>3 DEF IInv
  <1>9. CASE PipeFails
    <2>1. i <= Len(args)
      BY <1>9 DEF IInv, ChildHasItsEnds, PipeFails, Goto
    <2>5. args' \in Seq(Token \cup {NULL}) /\ Len(args') = Len(args)
      <3>1. i \in 1 .. Len(args)
        BY <1>1, <2>1
      <3>2. QED
        BY <1>9, <3>1, ArgumentCut DEF IInv, TypeOK, PipeFails
    <2>6. i + 1 \in 1 .. MAX_INPUT_ARGS
      BY <1>1, <2>1
    <2>2. TypeOK'
      BY <1>9, <2>5, <2>6 DEF IInv, TypeOK, PipeFails, Goto, pipe, command
    <2>3. (ChildHasItsEnds /\ LeftHasItsEnds /\ EndSeen)'
      BY <1>2, <1>9 DEF IInv, TypeOK, ChildHasItsEnds, LeftHasItsEnds, EndSeen,
         EndMeansLeftEnded, PipeFails, Goto, pipe, command, AfterFork
    <2>4. QED
      BY <2>2, <2>3 DEF IInv
  <1>10. CASE LeftForkFails
    <2>1. i <= Len(args)
      BY <1>10 DEF IInv, ChildHasItsEnds, LeftForkFails, Goto
    <2>5. i + 1 \in 1 .. MAX_INPUT_ARGS
      BY <1>1, <2>1
    <2>2. TypeOK'
      BY <1>10, <2>5 DEF IInv, TypeOK, LeftForkFails, Goto, command
    <2>3. (ChildHasItsEnds /\ LeftHasItsEnds /\ EndSeen)'
      BY <1>2, <1>10 DEF IInv, TypeOK, ChildHasItsEnds, LeftHasItsEnds, EndSeen,
         EndMeansLeftEnded, LeftForkFails, Goto, command, AfterFork
    <2>4. QED
      BY <2>2, <2>3 DEF IInv
  <1>11. QED
    BY <1>3, <1>4, <1>5, <1>6, <1>7, <1>8, <1>9, <1>10

-----------------------------------------------------------------------------
(* The fork, and the child from there to its command.                      *)
LEMMA ForkKeeps == IInv /\ LeftForked => IInv'
  <1> SUFFICES ASSUME IInv, LeftForked PROVE IInv'
    OBVIOUS
  <1> USE DEF Process
  <1>1. i <= Len(args) /\ pc["child"] = "fork"
    BY DEF IInv, ChildHasItsEnds, LeftForked
  <1>2. i + 1 \in 1 .. MAX_INPUT_ARGS
    BY <1>1, LoopTypes, Constants DEF IInv
  <1>3. pc["left"] = "none"
    BY <1>1 DEF IInv, ChildHasItsEnds, AfterFork
  <1>4. pc'["child"] = "close write end" /\ pc'["left"] = "close read end"
    BY DEF IInv, TypeOK, LeftForked
  <1>5. TypeOK'
    <2>1. pc' \in [Process -> {"close write end", "close read end"}]
      BY DEF IInv, TypeOK, LeftForked
    <2>2. argv' \in [Process -> 1 .. MAX_INPUT_ARGS]
      BY <1>2 DEF IInv, TypeOK, LeftForked
    <2>3. pipefd' \in [Process -> SUBSET {"read", "write"}]
      BY DEF IInv, TypeOK, LeftForked
    <2>4. QED
      BY <2>1, <2>2, <2>3 DEF IInv, TypeOK, LeftForked, command
  <1>6. pipefd'["left"] = {"read", "write"} /\ pipefd'["child"] = {"read", "write"}
    BY <1>1 DEF IInv, TypeOK, LeftForked, ChildHasItsEnds
  <1>7. QED
    BY <1>3, <1>4, <1>5, <1>6 DEF IInv, ChildHasItsEnds, LeftHasItsEnds, EndSeen,
       EndMeansLeftEnded, LeftForked, command, AfterFork

(* The child behind a `|`, and its command.                                *)
LEMMA ChildKeeps ==
  ASSUME IInv,
         RightClosesWrite
           \/ RightDuplicates
           \/ RightCloses
           \/ exec_shelly("child")
           \/ ExecFails("child")
           \/ ChildReads
           \/ ChildSeesEnd
           \/ ChildEnds
  PROVE  IInv'
  <1> USE DEF Process
  <1>1. CASE RightClosesWrite
    <2>1. TypeOK'
      BY <1>1, Constants DEF IInv, TypeOK, RightClosesWrite, CloseEnd, Goto, command
    <2>2. (ChildHasItsEnds /\ LeftHasItsEnds /\ EndSeen)'
      BY <1>1, Constants DEF IInv, TypeOK, ChildHasItsEnds, LeftHasItsEnds, EndSeen,
         EndMeansLeftEnded, AfterFork, RightClosesWrite, CloseEnd, Goto, command
    <2>3. QED
      BY <2>1, <2>2 DEF IInv
  <1>2. CASE RightDuplicates
    <2>1. TypeOK'
      BY <1>2, Constants DEF IInv, TypeOK, RightDuplicates, Goto, command
    <2>2. (ChildHasItsEnds /\ LeftHasItsEnds /\ EndSeen)'
      BY <1>2, Constants DEF IInv, TypeOK, ChildHasItsEnds, LeftHasItsEnds, EndSeen,
         EndMeansLeftEnded, AfterFork, RightDuplicates, Goto, command
    <2>3. QED
      BY <2>1, <2>2 DEF IInv
  <1>3. CASE RightCloses
    <2>1. TypeOK'
      BY <1>3, Constants DEF IInv, TypeOK, RightCloses, CloseEnd, Goto, command
    <2>2. (ChildHasItsEnds /\ LeftHasItsEnds /\ EndSeen)'
      BY <1>3, Constants DEF IInv, TypeOK, ChildHasItsEnds, LeftHasItsEnds, EndSeen,
         EndMeansLeftEnded, AfterFork, RightCloses, CloseEnd, Goto, command
    <2>3. QED
      BY <2>1, <2>2 DEF IInv
  <1>4. CASE exec_shelly("child")
    <2>1. TypeOK'
      BY <1>4, Constants DEF IInv, TypeOK, exec_shelly, Goto, pipe
    <2>2. (ChildHasItsEnds /\ LeftHasItsEnds /\ EndSeen)'
      BY <1>4, Constants DEF IInv, TypeOK, ChildHasItsEnds, LeftHasItsEnds, EndSeen,
         EndMeansLeftEnded, AfterFork, exec_shelly, Goto, pipe
    <2>3. QED
      BY <2>1, <2>2 DEF IInv
  <1>5. CASE ExecFails("child")
    <2>1. TypeOK'
      BY <1>5, Constants DEF IInv, TypeOK, ExecFails, Ends, Goto
    <2>2. (ChildHasItsEnds /\ LeftHasItsEnds /\ EndSeen)'
      BY <1>5, Constants DEF IInv, TypeOK, ChildHasItsEnds, LeftHasItsEnds, EndSeen,
         EndMeansLeftEnded, AfterFork, ExecFails, Ends, Goto
    <2>3. QED
      BY <2>1, <2>2 DEF IInv
  <1>6. CASE ChildReads
    <2>0. buffer' \in 0 .. Capacity
      BY <1>6, Constants, CounterTypes DEF IInv, ChildReads
    <2>1. TypeOK'
      BY <1>6, <2>0 DEF IInv, TypeOK, ChildReads, command
    <2>2. (ChildHasItsEnds /\ LeftHasItsEnds /\ EndSeen)'
      BY <1>6, Constants DEF IInv, TypeOK, ChildHasItsEnds, LeftHasItsEnds, EndSeen,
         EndMeansLeftEnded, AfterFork, ChildReads, ReadsPipe, command
    <2>3. QED
      BY <2>1, <2>2 DEF IInv
  <1>7. CASE ChildSeesEnd
    <2>1. TypeOK'
      BY <1>7, Constants DEF IInv, TypeOK, ChildSeesEnd, ReadsPipe, SomeoneHas, HasEnd, Ends, Goto
    <2>0. pc["left"] = "ended" /\ pc["child"] = "command" /\ buffer = 0
      <3>1. pc["child"] = "command" /\ stdin["child"] = "pipe" /\ buffer = 0
        BY <1>7 DEF ChildSeesEnd, ReadsPipe
      <3>2. "write" \notin pipefd["left"] /\ stdout["left"] # "pipe"
        BY <1>7 DEF ChildSeesEnd, SomeoneHas, HasEnd
      <3>3. QED
        BY <3>1, <3>2 DEF IInv, ChildHasItsEnds, LeftHasItsEnds
    <2>4. toWrite = 0
      <3>1. toWrite \in Nat
        BY CounterTypes DEF IInv
      <3>2. ~(toWrite > 0)
        BY <2>0 DEF IInv, LeftHasItsEnds
      <3>3. QED
        BY <3>1, <3>2
    <2>2. (ChildHasItsEnds /\ LeftHasItsEnds /\ EndSeen)'
      BY <1>7, <2>0, <2>4 DEF IInv, TypeOK, ChildHasItsEnds, LeftHasItsEnds, EndSeen,
         EndMeansLeftEnded, AfterFork, ChildSeesEnd, Ends, Goto
    <2>3. QED
      BY <2>1, <2>2 DEF IInv
  <1>8. CASE ChildEnds
    <2>1. TypeOK'
      BY <1>8, Constants DEF IInv, TypeOK, ChildEnds, Ends, Goto
    <2>2. (ChildHasItsEnds /\ LeftHasItsEnds /\ EndSeen)'
      BY <1>8, Constants DEF IInv, TypeOK, ChildHasItsEnds, LeftHasItsEnds, EndSeen,
         EndMeansLeftEnded, AfterFork, ChildEnds, Ends, Goto
    <2>3. QED
      BY <2>1, <2>2 DEF IInv
  <1>9. QED
    BY <1>1, <1>2, <1>3, <1>4, <1>5, <1>6, <1>7, <1>8

(* The left process and its command.                                       *)
LEMMA LeftKeeps ==
  ASSUME IInv,
         LeftClosesRead
           \/ LeftDuplicates
           \/ LeftCloses
           \/ exec_shelly("left")
           \/ ExecFails("left")
           \/ LeftWrites
           \/ LeftIsKilled
           \/ LeftEnds
  PROVE  IInv'
  <1> USE DEF Process
  <1>1. CASE LeftClosesRead
    <2>1. TypeOK'
      BY <1>1, Constants DEF IInv, TypeOK, LeftClosesRead, CloseEnd, Goto, command
    <2>2. (ChildHasItsEnds /\ LeftHasItsEnds /\ EndSeen)'
      BY <1>1, Constants DEF IInv, TypeOK, ChildHasItsEnds, LeftHasItsEnds, EndSeen,
         EndMeansLeftEnded, AfterFork, LeftClosesRead, CloseEnd, Goto, command
    <2>3. QED
      BY <2>1, <2>2 DEF IInv
  <1>2. CASE LeftDuplicates
    <2>1. TypeOK'
      BY <1>2, Constants DEF IInv, TypeOK, LeftDuplicates, Goto, command
    <2>2. (ChildHasItsEnds /\ LeftHasItsEnds /\ EndSeen)'
      BY <1>2, Constants DEF IInv, TypeOK, ChildHasItsEnds, LeftHasItsEnds, EndSeen,
         EndMeansLeftEnded, AfterFork, LeftDuplicates, Goto, command
    <2>3. QED
      BY <2>1, <2>2 DEF IInv
  <1>3. CASE LeftCloses
    <2>1. TypeOK'
      BY <1>3, Constants DEF IInv, TypeOK, LeftCloses, CloseEnd, Goto, command
    <2>2. (ChildHasItsEnds /\ LeftHasItsEnds /\ EndSeen)'
      BY <1>3, Constants DEF IInv, TypeOK, ChildHasItsEnds, LeftHasItsEnds, EndSeen,
         EndMeansLeftEnded, AfterFork, LeftCloses, CloseEnd, Goto, command
    <2>3. QED
      BY <2>1, <2>2 DEF IInv
  <1>4. CASE exec_shelly("left")
    <2>1. TypeOK'
      BY <1>4, Constants DEF IInv, TypeOK, exec_shelly, Goto, pipe
    <2>2. (ChildHasItsEnds /\ LeftHasItsEnds /\ EndSeen)'
      BY <1>4, Constants DEF IInv, TypeOK, ChildHasItsEnds, LeftHasItsEnds, EndSeen,
         EndMeansLeftEnded, AfterFork, exec_shelly, Goto, pipe
    <2>3. QED
      BY <2>1, <2>2 DEF IInv
  <1>5. CASE ExecFails("left")
    <2>1. TypeOK'
      BY <1>5, Constants DEF IInv, TypeOK, ExecFails, Ends, Goto
    <2>0. pc["left"] = "exec" /\ pc'["left"] = "ended" /\ pc'["child"] = pc["child"]
          /\ toWrite' = 0 /\ ~sawEnd'
      BY <1>5 DEF IInv, TypeOK, LeftHasItsEnds, EndSeen, EndMeansLeftEnded,
         ExecFails, Ends, Goto
    <2>2. ChildHasItsEnds'
      BY <1>5, <2>0 DEF IInv, TypeOK, ChildHasItsEnds, AfterFork, ExecFails, Ends
    <2>3. LeftHasItsEnds'
      BY <2>0 DEF LeftHasItsEnds
    <2>4. EndSeen'
      BY <2>0 DEF EndSeen
    <2>5. QED
      BY <2>1, <2>2, <2>3, <2>4 DEF IInv
  <1>6. CASE LeftWrites
    <2>0. buffer' \in 0 .. Capacity /\ toWrite' \in 0 .. MaxOutput
      BY <1>6, Constants, CounterTypes DEF IInv, LeftWrites
    <2>1. TypeOK'
      BY <1>6, <2>0 DEF IInv, TypeOK, LeftWrites
    <2>2. (ChildHasItsEnds /\ LeftHasItsEnds /\ EndSeen)'
      BY <1>6, Constants DEF IInv, TypeOK, ChildHasItsEnds, LeftHasItsEnds, EndSeen,
         EndMeansLeftEnded, AfterFork, LeftWrites
    <2>3. QED
      BY <2>1, <2>2 DEF IInv
  <1>7. CASE LeftIsKilled
    <2>1. TypeOK'
      BY <1>7, Constants DEF IInv, TypeOK, LeftIsKilled, SomeoneHas, HasEnd, Ends, Goto
    <2>2. (ChildHasItsEnds /\ LeftHasItsEnds /\ EndSeen)'
      BY <1>7, Constants DEF IInv, TypeOK, ChildHasItsEnds, LeftHasItsEnds, EndSeen,
         EndMeansLeftEnded, AfterFork, LeftIsKilled, SomeoneHas, HasEnd, Ends, Goto
    <2>3. QED
      BY <2>1, <2>2 DEF IInv
  <1>8. CASE LeftEnds
    <2>1. TypeOK'
      BY <1>8, Constants DEF IInv, TypeOK, LeftEnds, Ends, Goto
    <2>0. pc["left"] = "command" /\ pc'["left"] = "ended" /\ pc'["child"] = pc["child"]
          /\ toWrite' = 0 /\ ~sawEnd'
      BY <1>8 DEF IInv, TypeOK, LeftHasItsEnds, EndSeen, EndMeansLeftEnded,
         LeftEnds, Ends, Goto
    <2>2. ChildHasItsEnds'
      BY <1>8, <2>0 DEF IInv, TypeOK, ChildHasItsEnds, AfterFork, LeftEnds, Ends
    <2>3. LeftHasItsEnds'
      BY <2>0 DEF LeftHasItsEnds
    <2>4. EndSeen'
      BY <2>0 DEF EndSeen
    <2>5. QED
      BY <2>1, <2>2, <2>3, <2>4 DEF IInv
  <1>9. QED
    BY <1>1, <1>2, <1>3, <1>4, <1>5, <1>6, <1>7, <1>8

(* CTRL-C: only at a command line that is not over.                        *)
LEMMA InterruptKeeps == IInv /\ UserInterrupts => IInv'
  <1> SUFFICES ASSUME IInv, UserInterrupts PROVE IInv'
    OBVIOUS
  <1> USE DEF Process
  <1>1. TypeOK'
    BY DEF IInv, TypeOK, UserInterrupts, command
  <1>2. ~sawEnd
    BY DEF IInv, EndSeen, EndMeansLeftEnded, UserInterrupts, AllEnded
  <1>3. (ChildHasItsEnds /\ LeftHasItsEnds /\ EndSeen)'
    BY <1>2 DEF IInv, TypeOK, ChildHasItsEnds, LeftHasItsEnds, EndSeen, AfterFork,
       UserInterrupts, command
  <1>4. QED
    BY <1>1, <1>3 DEF IInv

LEMMA Inductive == IInv /\ [Next]_vars => IInv'
  <1> SUFFICES ASSUME IInv, [Next]_vars PROVE IInv'
    OBVIOUS
  <1>1. CASE Child
    BY <1>1, BeforeFork, ForkKeeps, ChildKeeps DEF Child
  <1>2. CASE Left
    BY <1>2, LeftKeeps DEF Left
  <1>3. CASE UserInterrupts
    BY <1>3, InterruptKeeps
  <1>4. CASE UNCHANGED vars
    <2>1. /\ UNCHANGED << line, args, pc, i, argv, stdin, stdout, pipefd, buffer >>
          /\ UNCHANGED << toWrite, readsAll, sawEnd, failed >>
      BY <1>4 DEF vars, pipe, command
    <2>2. QED
      BY <2>1 DEF IInv, TypeOK, ChildHasItsEnds, LeftHasItsEnds, EndSeen,
         EndMeansLeftEnded
  <1>5. QED
    BY <1>1, <1>2, <1>3, <1>4 DEF Next, Terminated

(* The invariant of the two processes holds in every reachable state.      *)
THEOREM Invariant == Spec => []IInv
  BY Initially, Inductive, PTL DEF Spec

(* Every variable keeps its type: args stays within the shell's array.     *)
THEOREM TypeCorrect == Spec => []TypeOK
  BY Invariant, PTL DEF IInv

(* Whichever of pipe, fork, open and exec fails, the command behind a `|`  *)
(* runs only if a process was forked for the one before it, and then it    *)
(* reads the pipe.                                                         *)
THEOREM RightHasItsLeft == Spec => []RightNeedsLeft
  <1>1. IInv => RightNeedsLeft
    <2> SUFFICES ASSUME IInv, pc["child"] = "command", argv["child"] > 1
                 PROVE  pc["left"] # "none" /\ stdin["child"] = "pipe"
      BY DEF RightNeedsLeft
    <2>1. pc["left"] # "none"
      BY DEF IInv, ChildHasItsEnds
    <2>2. QED
      BY <2>1 DEF IInv, ChildHasItsEnds
  <1>2. QED
    BY <1>1, Invariant, PTL

(* The reader never sees the end of its input before the left command is   *)
(* over and has written what it had to.                                    *)
THEOREM NoEarlyEnd == Spec => []EndMeansLeftEnded
  <1>1. IInv => EndMeansLeftEnded
    BY DEF IInv, EndSeen, EndMeansLeftEnded
  <1>2. QED
    BY <1>1, Invariant, PTL

-----------------------------------------------------------------------------
(* What the child has made of the line it was given, as long as nothing    *)
(* has failed: args is the line, with NULL where an operator was cut out,  *)
(* and the place of the cut is the one at which the two commands part.     *)
CutAt == i \in Operators /\ line[i] = "|" /\ args = [line EXCEPT ![i] = NULL]
Redirected ==
  /\ i \in Operators /\ line[i] = ">"
  /\ args = [[line EXCEPT ![i] = NULL] EXCEPT ![i + 1] = NULL]

BeforeAny == {"none", "loop", "open", "pipe", "fork"}
Running == {"close write end", "dup2", "close", "exec", "command"}

InLoop ==
  /\ pc["child"] \in BeforeAny =>
       /\ argv["child"] = 1
       /\ stdin["child"] = "terminal" /\ stdout["child"] = "terminal"
       /\ stdin["left"] = "terminal"
  /\ pc["child"] = "none" => i = 1
  /\ pc["child"] = "loop" => args = line /\ \A k \in Operators : k >= i
  /\ pc["child"] = "open" => args = line /\ i \in Operators /\ line[i] = ">"
  /\ pc["child"] = "pipe" => args = line /\ i \in Operators /\ line[i] = "|"
  /\ pc["child"] = "fork" => CutAt

InPipe ==
  /\ pc["left"] # "none" =>
       CutAt /\ (pc["left"] # "ended" => stdin["left"] = "terminal")
  /\ pc["child"] \in Running /\ pc["left"] # "none" =>
       argv["child"] = i + 1 /\ stdout["child"] = "terminal"

WithoutPipe ==
  pc["child"] \in Running /\ pc["left"] = "none" =>
    /\ argv["child"] = 1 /\ stdin["child"] = "terminal"
    /\ \/ args = line /\ Operators = {} /\ stdout["child"] = "terminal"
       \/ Redirected /\ stdout["child"] = "file"

AsTyped == InLoop /\ InPipe /\ WithoutPipe
WInv == argv["left"] = 1 /\ (Plain /\ ~failed => AsTyped)

(* The line is a sequence of tokens that is not empty.                     *)
LEMMA LineTypes ==
  ASSUME TypeOK
  PROVE  /\ Len(line) \in Nat /\ Len(line) >= 1
         /\ DOMAIN line = 1 .. Len(line)
         /\ line \in [1 .. Len(line) -> Token]
         /\ line \in Seq(Token)
  <1>1. PICK m \in 1 .. MaxTokens : line \in [1 .. m -> Token]
    BY DEF TypeOK, Lines
  <1>2. Len(line) = m /\ m \in Nat /\ m >= 1
    BY <1>1, Constants
  <1>3. QED
    BY <1>1, <1>2

(* Every table has an entry for each of the two processes.                 *)
LEMMA Domains ==
  ASSUME TypeOK
  PROVE  /\ DOMAIN pc = Process /\ DOMAIN argv = Process
         /\ DOMAIN stdin = Process /\ DOMAIN stdout = Process
  BY DEF TypeOK

(* A line that fits is taken as it stands.                                 *)
LEMMA WholeLine ==
  ASSUME NEW S, NEW s \in Seq(S)
  PROVE  SubSeq(s, 1, Len(s)) = s
  OBVIOUS

(* The operators of a plain line: one at most, with a word on each side.   *)
LEMMA OneOperator ==
  ASSUME TypeOK, Plain, NEW k \in Operators
  PROVE  /\ Operators = {k}
         /\ k \in Nat /\ k > 1 /\ k < Len(line)
         /\ line[k] = ">" => k + 1 = Len(line)
         /\ line[k] # NULL
         /\ \A m \in 1 .. Len(line) : m # k => line[m] = "word"
  <1>1. k \in 1 .. Len(line) /\ Len(line) \in Nat /\ line[k] \in Token
    BY LineTypes DEF Operators
  <1>2. Operators = {k}
    BY DEF Plain
  <1>3. line[k] # NULL
    BY <1>1 DEF Token, NULL
  <1>4. QED
    BY <1>1, <1>2, <1>3, LineTypes DEF Plain, Operators

-----------------------------------------------------------------------------
LEMMA TypedInitially == Init => WInv
  <1> SUFFICES ASSUME Init PROVE WInv
    OBVIOUS
  <1> USE DEF Process, BeforeAny, Running
  <1>1. argv["left"] = 1
    BY DEF Init
  <1>2. InLoop
    BY DEF Init, InLoop
  <1>3. InPipe /\ WithoutPipe
    BY DEF Init, InPipe, WithoutPipe
  <1>4. QED
    BY <1>1, <1>2, <1>3 DEF WInv, AsTyped

(* The child up to the fork.                                               *)
LEMMA TypedBeforeFork ==
  ASSUME IInv, AsTyped, Plain,
         getcmd \/ NextArgument \/ LoopLeft \/ redirection_shelly \/ PipeOpened
  PROVE  AsTyped'
  <1> USE DEF Process, BeforeAny, Running
  <1>0. /\ TypeOK /\ pc["left"] = "none" /\ DOMAIN pc = Process
        /\ DOMAIN stdout = Process
    BY Domains DEF IInv, ChildHasItsEnds, AfterFork, Goto, getcmd, NextArgument,
       LoopLeft, redirection_shelly, PipeOpened
  <1>1. i \in Nat /\ Len(line) \in Nat /\ DOMAIN line = 1 .. Len(line)
    BY <1>0, LoopTypes, LineTypes
  <1>2. CASE getcmd
    <2>1. args' = line
      <3>1. Len(line) <= MAX_INPUT_ARGS - 1
        BY <1>1, Constants DEF Plain
      <3>2. Min({Len(line), MAX_INPUT_ARGS - 1}) = Len(line)
        BY <1>1, <3>1, Constants, MinOfTwo
      <3>3. QED
        BY <1>0, <1>2, <3>2, LineTypes, WholeLine DEF getcmd
    <2>2. \A k \in Operators : k >= 1
      BY <1>1 DEF Operators
    <2>3. /\ pc["child"] = "none" /\ pc' = [pc EXCEPT !["child"] = "loop"]
          /\ UNCHANGED << line, i, argv, stdin, stdout >>
      BY <1>2 DEF getcmd, Goto, pipe
    <2>4. InLoop'
      BY <1>0, <2>1, <2>2, <2>3 DEF AsTyped, InLoop, Operators
    <2>5. InPipe' /\ WithoutPipe'
      BY <1>0, <2>3 DEF InPipe, WithoutPipe
    <2>6. QED
      BY <2>4, <2>5 DEF AsTyped
  <1>3. CASE NextArgument
    <2>1. /\ pc["child"] = "loop" /\ i' = i + 1 /\ args = line
          /\ i \notin Operators
          /\ UNCHANGED << line, args, pc, argv, stdin, stdout >>
      BY <1>1, <1>0, <1>3, LineTypes DEF NextArgument, pipe, AtOperator, AsTyped, InLoop,
         Operators, Token
    <2>2. \A k \in Operators : k >= i + 1
      BY <1>1, <2>1 DEF AsTyped, InLoop, Operators
    <2>3. InLoop'
      BY <2>1, <2>2 DEF AsTyped, InLoop, Operators
    <2>4. InPipe' /\ WithoutPipe'
      BY <1>0, <2>1 DEF InPipe, WithoutPipe
    <2>5. QED
      BY <2>3, <2>4 DEF AsTyped
  <1>4. CASE LoopLeft
    <2>1. /\ pc["child"] = "loop" /\ args = line
          /\ UNCHANGED << line, args, i, argv, stdin, stdout >>
      BY <1>4 DEF LoopLeft, Goto, pipe, AsTyped, InLoop
    <2>2. /\ argv["child"] = 1 /\ stdin["child"] = "terminal"
          /\ stdout["child"] = "terminal" /\ stdin["left"] = "terminal"
      BY <2>1 DEF AsTyped, InLoop
    <2>3. i >= 1
      BY <1>0, LoopTypes
    <2>4. CASE AtOperator(">") /\ Goto("child", "loop", "open")
      <3>1. i \in Operators /\ line[i] = ">"
        BY <1>1, <2>1, <2>3, <2>4 DEF AtOperator, Operators
      <3>2. pc' = [pc EXCEPT !["child"] = "open"]
        BY <2>4 DEF Goto
      <3>3. QED
        BY <1>0, <2>1, <2>2, <3>1, <3>2 DEF AsTyped, InLoop, InPipe, WithoutPipe, Operators
    <2>5. CASE AtOperator("|") /\ Goto("child", "loop", "pipe")
      <3>1. i \in Operators /\ line[i] = "|"
        BY <1>1, <2>1, <2>3, <2>5 DEF AtOperator, Operators
      <3>2. pc' = [pc EXCEPT !["child"] = "pipe"]
        BY <2>5 DEF Goto
      <3>3. QED
        BY <1>0, <2>1, <2>2, <3>1, <3>2 DEF AsTyped, InLoop, InPipe, WithoutPipe, Operators
    <2>6. CASE i > Len(args) /\ Goto("child", "loop", "exec")
      <3>1. Operators = {}
        BY <1>1, <2>1, <2>6 DEF AsTyped, InLoop, Operators
      <3>2. pc' = [pc EXCEPT !["child"] = "exec"]
        BY <2>6 DEF Goto
      <3>3. QED
        BY <1>0, <2>1, <2>2, <3>1, <3>2 DEF AsTyped, InLoop, InPipe, WithoutPipe, Operators
    <2>7. QED
      BY <1>4, <2>4, <2>5, <2>6 DEF LoopLeft
  <1>5. CASE redirection_shelly
    <2>1. /\ pc["child"] = "open" /\ pc' = [pc EXCEPT !["child"] = "exec"]
          /\ stdout' = [stdout EXCEPT !["child"] = "file"]
          /\ UNCHANGED << line, i, argv, stdin >>
      BY <1>5 DEF redirection_shelly, Goto
    <2>2. args = line /\ i \in Operators /\ line[i] = ">"
      BY <2>1 DEF AsTyped, InLoop
    <2>3. args' = [[line EXCEPT ![i] = NULL] EXCEPT ![i + 1] = NULL]
      BY <1>5, <2>2 DEF redirection_shelly
    <2>4. Redirected'
      BY <2>1, <2>2, <2>3 DEF Redirected, Operators
    <2>5. argv["child"] = 1 /\ stdin["child"] = "terminal" /\ stdout'["child"] = "file"
      BY <1>0, <2>1 DEF AsTyped, InLoop, TypeOK
    <2>6. QED
      BY <1>0, <2>1, <2>4, <2>5 DEF AsTyped, InLoop, InPipe, WithoutPipe
  <1>6. CASE PipeOpened
    <2>1. /\ pc["child"] = "pipe" /\ pc' = [pc EXCEPT !["child"] = "fork"]
          /\ args' = [args EXCEPT ![i] = NULL]
          /\ UNCHANGED << line, i, argv, stdin, stdout >>
      BY <1>6 DEF PipeOpened, Goto
    <2>2. args = line /\ i \in Operators /\ line[i] = "|"
      BY <2>1 DEF AsTyped, InLoop
    <2>3. CutAt'
      BY <2>1, <2>2 DEF CutAt, Operators
    <2>4. QED
      BY <1>0, <2>1, <2>3 DEF AsTyped, InLoop, InPipe, WithoutPipe
  <1>7. QED
    BY <1>2, <1>3, <1>4, <1>5, <1>6

(* From the fork on: args and the place of the cut stay what they are.     *)
LEMMA TypedFromFork ==
  ASSUME IInv, AsTyped,
         LeftForked \/ RightClosesWrite \/ RightDuplicates \/ RightCloses
           \/ exec_shelly("child") \/ ChildReads \/ ChildSeesEnd \/ ChildEnds
           \/ UserInterrupts
  PROVE  AsTyped'
  <1> USE DEF Process, BeforeAny, Running
  <1>0. /\ DOMAIN pc = Process /\ DOMAIN argv = Process
        /\ DOMAIN stdin = Process /\ DOMAIN stdout = Process
    BY Domains DEF IInv
  <1>1. UNCHANGED << line, args, i >>
    BY DEF LeftForked, RightClosesWrite, RightDuplicates, RightCloses, exec_shelly,
       ChildReads, ChildSeesEnd, ChildEnds, UserInterrupts, CloseEnd, Ends
  <1>2. (CutAt' <=> CutAt) /\ (Redirected' <=> Redirected) /\ Operators' = Operators
    BY <1>1 DEF CutAt, Redirected, Operators
  <1>3. CASE LeftForked
    <2>1. /\ pc["child"] = "fork" /\ argv' = [argv EXCEPT !["child"] = i + 1]
          /\ pc' = [pc EXCEPT !["child"] = "close write end", !["left"] = "close read end"]
          /\ UNCHANGED << stdin, stdout >>
      BY <1>3 DEF LeftForked
    <2>2. CutAt /\ stdin["left"] = "terminal" /\ stdout["child"] = "terminal"
      BY <2>1 DEF AsTyped, InLoop
    <2>3. QED
      BY <1>0, <1>1, <1>2, <2>1, <2>2 DEF AsTyped, InLoop, InPipe, WithoutPipe
  <1>4. CASE RightClosesWrite \/ RightDuplicates \/ RightCloses
    <2>1. /\ pc["child"] \in {"close write end", "dup2", "close"}
          /\ pc' \in {[pc EXCEPT !["child"] = s] : s \in {"dup2", "close", "exec"}}
          /\ argv' = argv /\ stdout' = stdout
          /\ stdin' \in {stdin, [stdin EXCEPT !["child"] = "pipe"]}
      BY <1>4 DEF RightClosesWrite, RightDuplicates, RightCloses, CloseEnd, Goto
    <2>2. pc["left"] # "none"
      BY <2>1 DEF IInv, ChildHasItsEnds
    <2>3. QED
      BY <1>0, <1>1, <1>2, <2>1, <2>2 DEF AsTyped, InLoop, InPipe, WithoutPipe
  <1>5. CASE exec_shelly("child")
    BY <1>0, <1>1, <1>2, <1>5 DEF AsTyped, InLoop, InPipe, WithoutPipe, exec_shelly,
       Goto, pipe
  <1>6. CASE ChildReads
    BY <1>0, <1>1, <1>2, <1>6 DEF AsTyped, InLoop, InPipe, WithoutPipe, ChildReads
  <1>7. CASE ChildSeesEnd \/ ChildEnds
    BY <1>0, <1>1, <1>2, <1>7 DEF AsTyped, InLoop, InPipe, WithoutPipe, ChildSeesEnd,
       ChildEnds, Ends, Goto
  <1>8. CASE UserInterrupts
    BY <1>0, <1>1, <1>2, <1>8 DEF AsTyped, InLoop, InPipe, WithoutPipe, UserInterrupts
  <1>9. QED
    BY <1>3, <1>4, <1>5, <1>6, <1>7, <1>8

(* The left process: until it is over its input is the terminal.           *)
LEMMA TypedInLeft ==
  ASSUME IInv, AsTyped,
         LeftClosesRead \/ LeftDuplicates \/ LeftCloses \/ exec_shelly("left")
           \/ LeftWrites \/ LeftIsKilled \/ LeftEnds
  PROVE  AsTyped'
  <1> USE DEF Process, BeforeAny, Running
  <1>0. /\ DOMAIN pc = Process /\ DOMAIN argv = Process
        /\ DOMAIN stdin = Process /\ DOMAIN stdout = Process
    BY Domains DEF IInv
  <1>1. UNCHANGED << line, args, i, argv >>
    BY DEF LeftClosesRead, LeftDuplicates, LeftCloses, exec_shelly, LeftWrites,
       LeftIsKilled, LeftEnds, CloseEnd, Ends
  <1>2. (CutAt' <=> CutAt) /\ (Redirected' <=> Redirected) /\ Operators' = Operators
    BY <1>1 DEF CutAt, Redirected, Operators
  <1>3. /\ pc["left"] # "none" /\ pc["left"] # "ended"
        /\ pc'["left"] # "none" /\ pc'["child"] = pc["child"]
        /\ pc'["left"] # "ended" => stdin'["left"] = stdin["left"]
        /\ stdin'["child"] = stdin["child"] /\ stdout'["child"] = stdout["child"]
    BY <1>0 DEF LeftClosesRead, LeftDuplicates, LeftCloses, exec_shelly, LeftWrites,
       LeftIsKilled, LeftEnds, CloseEnd, Ends, Goto, pipe
  <1>4. pc["child"] \notin BeforeAny
    BY <1>3 DEF IInv, ChildHasItsEnds, AfterFork
  <1>5. QED
    BY <1>1, <1>2, <1>3, <1>4 DEF AsTyped, InLoop, InPipe, WithoutPipe

LEMMA TypedInductive == IInv /\ WInv /\ [Next]_vars => WInv'
  <1> SUFFICES ASSUME IInv, WInv, [Next]_vars PROVE WInv'
    OBVIOUS
  <1>1. CASE UNCHANGED vars
    <2>1. UNCHANGED << line, args, pc, i, argv, stdin, stdout, failed >>
      BY <1>1 DEF vars, pipe
    <2>2. QED
      BY <2>1 DEF WInv, AsTyped, InLoop, InPipe, WithoutPipe, Plain, Operators,
         CutAt, Redirected
  <1>2. CASE Child \/ Left \/ UserInterrupts
    <2>1. line' = line /\ argv'["left"] = argv["left"]
      <3>1. DOMAIN argv = Process
        BY Domains DEF IInv
      <3>2. QED
        BY <1>2, <3>1 DEF Child, Left, UserInterrupts, getcmd, NextArgument, LoopLeft,
           redirection_shelly, RedirectionFails, PipeOpened, PipeFails, LeftForked,
           LeftForkFails, RightClosesWrite, RightDuplicates, RightCloses, exec_shelly,
           ExecFails, ChildReads, ChildSeesEnd, ChildEnds, LeftClosesRead,
           LeftDuplicates, LeftCloses, LeftWrites, LeftIsKilled, LeftEnds, CloseEnd,
           Ends, Process
    <2>2. SUFFICES ASSUME Plain, ~failed' PROVE AsTyped'
      BY <2>1 DEF WInv, Plain, Operators
    <2>3. /\ ~RedirectionFails /\ ~PipeFails /\ ~LeftForkFails
          /\ ~ExecFails("child") /\ ~ExecFails("left")
      BY <2>2 DEF RedirectionFails, PipeFails, LeftForkFails, ExecFails
    <2>4. failed' = failed
      BY <1>2, <2>3 DEF Child, Left, UserInterrupts, getcmd, NextArgument, LoopLeft,
         redirection_shelly, PipeOpened, LeftForked, RightClosesWrite, RightDuplicates,
         RightCloses, exec_shelly, ChildReads, ChildSeesEnd, ChildEnds, LeftClosesRead,
         LeftDuplicates, LeftCloses, LeftWrites, LeftIsKilled, LeftEnds, CloseEnd
    <2>5. ~failed
      BY <2>2, <2>4
    <2>6. AsTyped
      BY <2>2, <2>5 DEF WInv
    <2>7. QED
      BY <1>2, <2>2, <2>3, <2>6, TypedBeforeFork, TypedFromFork, TypedInLeft
         DEF Child, Left
  <1>3. QED
    BY <1>1, <1>2 DEF Next, Terminated

-----------------------------------------------------------------------------
(* The command before the `|` has the arguments before it.                 *)
LEMMA LeftAsWritten ==
  ASSUME IInv, WInv, Plain, ~failed, pc["left"] = "command"
  PROVE  /\ Piped /\ Arguments("left") = Before
         /\ stdin["left"] = "terminal" /\ stdout["left"] = "pipe"
  <1>1. CutAt /\ argv["left"] = 1 /\ stdin["left"] = "terminal"
    BY DEF WInv, AsTyped, InPipe
  <1>2. stdout["left"] = "pipe"
    BY DEF IInv, LeftHasItsEnds
  <1>3. TypeOK /\ i \in Operators /\ line[i] = "|"
    BY <1>1 DEF IInv, CutAt
  <1>4. /\ Operators = {i} /\ i \in Nat /\ i > 1 /\ i < Len(line) /\ Len(line) \in Nat
        /\ DOMAIN line = 1 .. Len(line)
        /\ \A m \in 1 .. Len(line) : m # i => line[m] = "word"
    BY <1>3, OneOperator, LineTypes
  <1>5. Len(args) = Len(line) /\ \A k \in 1 .. Len(line) : args[k] = NULL <=> k = i
    <2>1. args = [line EXCEPT ![i] = NULL] /\ line \in [1 .. Len(line) -> Token]
      BY <1>1, <1>3, LineTypes DEF CutAt
    <2>2. QED
      BY <1>4, <2>1 DEF NULL
  <1>6. {k \in 1 .. Len(args) : args[k] = NULL} = {i}
    BY <1>4, <1>5
  <1>7. Min({i}) = i
    BY <1>4, MinOfTwo
  <1>8. LastArgument("left") = i - 1
    BY <1>1, <1>6, <1>7 DEF LastArgument
  <1>9. Arguments("left") = Before
    BY <1>1, <1>4, <1>8 DEF Arguments, Before
  <1>10. QED
    BY <1>1, <1>2, <1>3, <1>9 DEF Piped

(* And the child's command has the rest of the line, or all its words.     *)
LEMMA ChildAsWritten ==
  ASSUME IInv, WInv, Plain, ~failed, pc["child"] = "command"
  PROVE  /\ Arguments("child") = IF Piped THEN After ELSE Before
         /\ stdin["child"] = IF Piped THEN "pipe" ELSE "terminal"
         /\ stdout["child"] = IF Operators # {} /\ ~Piped THEN "file" ELSE "terminal"
  <1>1. /\ TypeOK /\ Len(line) \in Nat /\ DOMAIN line = 1 .. Len(line)
        /\ line \in [1 .. Len(line) -> Token]
    BY LineTypes DEF IInv
  <1>2. CASE pc["left"] # "none"
    <2>1. /\ CutAt /\ argv["child"] = i + 1 /\ stdout["child"] = "terminal"
          /\ stdin["child"] = "pipe"
      BY <1>2 DEF WInv, AsTyped, InPipe, Running, IInv, ChildHasItsEnds
    <2>2. i \in Operators /\ line[i] = "|" /\ args = [line EXCEPT ![i] = NULL]
      BY <2>1 DEF CutAt
    <2>3. /\ Operators = {i} /\ i \in Nat /\ i > 1 /\ i < Len(line)
          /\ \A m \in 1 .. Len(line) : m # i => line[m] = "word"
      BY <1>1, <2>2, OneOperator
    <2>4. Len(args) = Len(line) /\ \A k \in i + 1 .. Len(line) : args[k] # NULL
      BY <1>1, <2>2, <2>3 DEF NULL
    <2>5. {k \in i + 1 .. Len(args) : args[k] = NULL} = {}
      BY <2>4
    <2>6. LastArgument("child") = Len(line)
      BY <2>1, <2>4, <2>5 DEF LastArgument
    <2>7. Arguments("child") = After
      BY <1>1, <2>1, <2>3, <2>6 DEF Arguments, After
    <2>8. QED
      BY <2>1, <2>2, <2>7 DEF Piped
  <1>3. CASE pc["left"] = "none"
    <2>1. /\ argv["child"] = 1 /\ stdin["child"] = "terminal"
          /\ \/ args = line /\ Operators = {} /\ stdout["child"] = "terminal"
             \/ Redirected /\ stdout["child"] = "file"
      BY <1>3 DEF WInv, AsTyped, WithoutPipe, Running
    <2>2. CASE args = line /\ Operators = {} /\ stdout["child"] = "terminal"
      <3>1. \A k \in 1 .. Len(args) : args[k] # NULL
        BY <1>1, <2>2 DEF NULL, Token
      <3>2. LastArgument("child") = Len(line)
        BY <2>1, <2>2, <3>1 DEF LastArgument
      <3>3. Arguments("child") = Before
        BY <1>1, <2>1, <2>2, <3>2 DEF Arguments, Before
      <3>4. QED
        BY <2>1, <2>2, <3>3 DEF Piped
    <2>3. CASE Redirected /\ stdout["child"] = "file"
      <3>1. /\ i \in Operators /\ line[i] = ">"
            /\ args = [[line EXCEPT ![i] = NULL] EXCEPT ![i + 1] = NULL]
        BY <2>3 DEF Redirected
      <3>2. /\ Operators = {i} /\ i \in Nat /\ i > 1 /\ i + 1 = Len(line)
            /\ \A m \in 1 .. Len(line) : m # i => line[m] = "word"
        BY <1>1, <3>1, OneOperator
      <3>3. /\ Len(args) = Len(line)
            /\ \A k \in 1 .. Len(line) : args[k] = NULL <=> k \in {i, i + 1}
        BY <1>1, <3>1, <3>2 DEF NULL
      <3>4. {k \in 1 .. Len(args) : args[k] = NULL} = {i, i + 1}
        BY <3>2, <3>3
      <3>5. Min({i, i + 1}) = i
        BY <3>2, MinOfTwo
      <3>6. LastArgument("child") = i - 1
        BY <2>1, <3>4, <3>5 DEF LastArgument
      <3>7. Arguments("child") = Before
        BY <1>1, <2>1, <3>2, <3>6 DEF Arguments, Before
      <3>8. QED
        BY <2>1, <2>3, <3>1, <3>2, <3>7 DEF Piped
    <2>4. QED
      BY <2>1, <2>2, <2>3
  <1>4. QED
    BY <1>2, <1>3

(* As long as nothing fails, the commands of a plain line get the words    *)
(* the user wrote for each, and the input and output the operator stands   *)
(* for, whatever the interleaving of the two processes that cut args.      *)
THEOREM CommandsAsWritten == Spec => []RunsAsWritten
  <1>1. Spec => []WInv
    <2>1. Init => WInv
      BY TypedInitially
    <2>2. IInv /\ WInv /\ [Next]_vars => WInv'
      BY TypedInductive
    <2>3. QED
      BY <2>1, <2>2, Invariant, PTL DEF Spec
  <1>2. IInv /\ WInv => RunsAsWritten
    BY LeftAsWritten, ChildAsWritten DEF RunsAsWritten
  <1>3. QED
    BY <1>1, <1>2, Invariant, PTL

=============================================================================
