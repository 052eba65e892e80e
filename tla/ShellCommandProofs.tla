------------------------- MODULE ShellCommandProofs -------------------------
(***************************************************************************)
(* What an Ok of execute_cmd stands for, for every capacity of the pipes   *)
(* and any number of lines.                                                *)
(*                                                                         *)
(* The inductive invariant adds to the type of the state what each stage   *)
(* of execute_cmd has behind it: from "drain" on stdout is at its end,     *)
(* from "wait" on stderr is too, a closed stream stays as long as it was,  *)
(* and with check_for_error no line with "error" was read without an       *)
(* answer.                                                                 *)
(***************************************************************************)
EXTENDS ShellCommand, SelectionProofs

Alive == child # "running" => open = {}

Ended ==
    /\ at = "drain" => AtEnd("stdout")
    /\ at = "wait" => AtEnd("stdout") /\ AtEnd("stderr")
    /\ at = "spawn" => child = "none"
    /\ at \in {"select", "drain", "wait", "answered"} => child # "none"

Clean ==
    checkForError /\ at \in {"spawn", "select", "drain", "wait"} =>
       \A i \in 1..read["stdout"] : wrote["stdout"][i] # "error"

\* The state as an answer leaves it.
Done ==
    result = "ok" =>
       /\ child = "succeeded"
       /\ \A s \in Streams : AtEnd(s)
       /\ checkForError => \A i \in 1..read["stdout"] :
                              wrote["stdout"][i] # "error"

IInv == TypeOK /\ Alive /\ Ended /\ Clean /\ Done

\* The lines of a stream keep their places while the child appends to it.
LEMMA AppendKeeps ==
    ASSUME NEW lines \in Seq(Lines), NEW line \in Lines
    PROVE  /\ Append(lines, line) \in Seq(Lines)
           /\ Len(Append(lines, line)) = Len(lines) + 1
           /\ \A i \in 1..Len(lines) : Append(lines, line)[i] = lines[i]
  OBVIOUS

\* A sequence of lines is a sequence over any larger set.
LEMMA SeqWidens ==
    ASSUME NEW lines \in Seq(Lines)
    PROVE  lines \in Seq(Lines \cup {"status"})
  OBVIOUS

\* A pending line is one of the lines the child can write.
LEMMA PendingLine ==
    ASSUME TypeOK, NEW s \in Streams, Pending(s)
    PROVE  Line(s) \in Lines /\ read[s] + 1 \in 1..Len(wrote[s])
  <1>1. read[s] \in Nat /\ wrote[s] \in Seq(Lines)
    BY DEF TypeOK
  <1>2. read[s] + 1 \in 1..Len(wrote[s])
    BY <1>1 DEF Pending
  <1>3. QED
    BY <1>1, <1>2 DEF Line

\* The invariant holds before the child is spawned.
LEMMA InitInv == Init => IInv
  <1>1. ASSUME Init PROVE TypeOK
    BY <1>1, PipeAssumption DEF Init, TypeOK, Streams, Lines
  <1>2. ASSUME Init PROVE Alive /\ Ended /\ Clean /\ Done
    BY <1>2 DEF Init, Alive, Ended, Clean, Done, Streams
  <1>3. QED
    BY <1>1, <1>2 DEF IInv

\* No step of the child disturbs what the executor knows of it.
LEMMA ChildInv ==
    ASSUME IInv, Child
    PROVE  IInv'
  <1> USE DEF IInv
  <1>1. ASSUME NEW s \in Streams, BeginWrite(s) PROVE IInv'
    <2>1. TypeOK'
      BY <1>1 DEF BeginWrite, executorVars, TypeOK
    <2>2. (Alive /\ Ended /\ Clean /\ Done)'
      BY <1>1 DEF BeginWrite, executorVars, Alive, Ended, Clean, Done, AtEnd,
                  Pending
    <2>3. QED
      BY <2>1, <2>2
  <1>2. ASSUME NEW line \in Lines, EndWrite(line) PROVE IInv'
    <2> DEFINE s == writing
    <2>1. /\ s \in Streams /\ s \in open
          /\ wrote[s] \in Seq(Lines) /\ read[s] \in Nat
          /\ read[s] <= Len(wrote[s])
          /\ Len(wrote[s]) - read[s] < PipeCapacity
          /\ child = "running"
      BY <1>2 DEF EndWrite, TypeOK, Alive, Streams
    <2>2. wrote' = [wrote EXCEPT ![s] = Append(wrote[s], line)]
      BY <1>2 DEF EndWrite
    <2>3. /\ wrote'[s] = Append(wrote[s], line)
          /\ \A t \in Streams : t # s => wrote'[t] = wrote[t]
      BY <2>1, <2>2 DEF TypeOK
    <2>4. /\ wrote'[s] \in Seq(Lines)
          /\ Len(wrote'[s]) = Len(wrote[s]) + 1
          /\ \A i \in 1..Len(wrote[s]) : wrote'[s][i] = wrote[s][i]
      BY <2>1, <2>3, AppendKeeps
    <2>5. \A t \in Streams : read[t] \in Nat /\ wrote[t] \in Seq(Lines)
      BY DEF TypeOK
    <2>6. TypeOK'
      <3>1. wrote' \in [Streams -> Seq(Lines)]
        BY <2>1, <2>2, <2>4, <2>3 DEF TypeOK
      <3>2. \A t \in Streams : read[t] <= Len(wrote'[t])
                               /\ Len(wrote'[t]) <= read[t] + PipeCapacity
        <4>1. TAKE t \in Streams
        <4>2. CASE t = s
          BY <4>2, <2>1, <2>4, PipeAssumption
        <4>3. CASE t # s
          BY <4>3, <2>3 DEF TypeOK
        <4>4. QED
          BY <4>2, <4>3
      <3>3. QED
        BY <1>2, <3>1, <3>2 DEF EndWrite, executorVars, TypeOK
    <2>7. (Alive /\ Ended /\ Done)'
      <3>1. \A t \in Streams : AtEnd(t) => t # s
        BY <2>1 DEF AtEnd
      <3>2. \A t \in Streams : AtEnd(t) => AtEnd(t)'
        BY <1>2, <3>1, <2>3 DEF EndWrite, executorVars, AtEnd, Pending
      <3>3. result # "ok"
        BY <2>1 DEF Done
      <3>4. QED
        BY <1>2, <3>2, <3>3 DEF EndWrite, executorVars, Alive, Ended, Done,
                                Streams
    <2>8. Clean'
      <3>1. \A i \in 1..read["stdout"] : wrote'["stdout"][i] = wrote["stdout"][i]
        <4>1. read["stdout"] <= Len(wrote["stdout"]) /\ "stdout" \in Streams
          BY DEF TypeOK, Streams
        <4>2. CASE s = "stdout"
          BY <4>1, <4>2, <2>4, <2>5
        <4>3. CASE s # "stdout"
          BY <4>1, <4>3, <2>3
        <4>4. QED
          BY <4>2, <4>3
      <3>2. QED
        BY <1>2, <3>1 DEF EndWrite, executorVars, Clean
    <2>9. QED
      BY <2>6, <2>7, <2>8
  <1>3. ASSUME NEW s \in Streams, Close(s) PROVE IInv'
    <2>1. TypeOK'
      BY <1>3 DEF Close, executorVars, TypeOK
    <2>2. (Alive /\ Ended /\ Clean /\ Done)'
      BY <1>3 DEF Close, executorVars, Alive, Ended, Clean, Done, AtEnd, Pending
    <2>3. QED
      BY <2>1, <2>2
  <1>4. ASSUME Exit PROVE IInv'
    <2>1. TypeOK'
      BY <1>4 DEF Exit, executorVars, TypeOK
    <2>2. (Alive /\ Ended /\ Clean)'
      BY <1>4 DEF Exit, executorVars, Alive, Ended, Clean, AtEnd, Pending
    <2>3. result # "ok"
      BY <1>4 DEF Exit, Done
    <2>4. Done'
      BY <1>4, <2>3 DEF Exit, executorVars, Done
    <2>5. QED
      BY <2>1, <2>2, <2>4
  <1>5. ASSUME BrokenPipe PROVE IInv'
    <2>1. open # {} /\ child = "running"
      BY <1>5 DEF BrokenPipe, TypeOK, Alive, Streams
    <2>2. TypeOK'
      BY <1>5 DEF BrokenPipe, executorVars, TypeOK
    <2>3. (Alive /\ Ended /\ Clean)'
      BY <1>5, <2>1 DEF BrokenPipe, executorVars, Alive, Ended, Clean, AtEnd,
                        Pending
    <2>4. result # "ok"
      BY <2>1 DEF Done
    <2>5. Done'
      BY <1>5, <2>4 DEF BrokenPipe, executorVars, Done
    <2>6. QED
      BY <2>2, <2>3, <2>5
  <1>6. QED
    BY <1>1, <1>2, <1>3, <1>4, <1>5 DEF Child

\* Nor does a step of execute_cmd: each stage leaves behind what the next
\* relies on.
LEMMA ExecutorInv ==
    ASSUME IInv,
           Spawn \/ ReadStdout \/ StdoutEnds \/ ReadStderr \/ StderrEnds \/ Wait
    PROVE  IInv'
  <1> USE DEF IInv
  <1>1. ASSUME Spawn PROVE IInv'
    <2>1. /\ open' \subseteq Streams /\ writing' \in open' \cup {"none"}
          /\ child' \in {"none", "running", "succeeded", "failed"}
          /\ at' \in {"select", "panicked"}
      BY <1>1 DEF Spawn, TypeOK
    <2>2. TypeOK'
      BY <1>1, <2>1 DEF Spawn, TypeOK
    <2>3. result # "ok"
      BY <1>1 DEF Spawn, TypeOK
    <2>4. (Alive /\ Ended /\ Clean /\ Done)'
      BY <1>1, <2>3 DEF Spawn, Alive, Ended, Clean, Done
    <2>5. QED
      BY <2>2, <2>4
  <1>2. ASSUME ReadStdout PROVE IInv'
    <2> DEFINE line == Line("stdout")
    <2>1. line \in Lines /\ read["stdout"] + 1 \in 1..Len(wrote["stdout"])
      BY <1>2, PendingLine DEF ReadStdout, Streams
    <2>2. /\ read' \in [Streams -> Nat]
          /\ read'["stdout"] = read["stdout"] + 1
          /\ read'["stderr"] = read["stderr"]
      BY <1>2 DEF ReadStdout, Take, TypeOK, Streams
    <2>3. \A s \in Streams : read'[s] <= Len(wrote[s])
                             /\ Len(wrote[s]) <= read'[s] + PipeCapacity
      BY <2>1, <2>2, PipeAssumption DEF TypeOK, Streams
    <2>4. result = "none" /\ message = <<>> /\ at = "select"
      BY <1>2 DEF ReadStdout, TypeOK
    <2>5. \/ at' = "panicked" /\ result' = "none" /\ message' = <<>>
          \/ at' = "answered" /\ result' = "err" /\ message' = <<line>>
          \/ at' = "select" /\ result' = "none" /\ message' = <<>>
             /\ ~StopsAt(line)
      BY <1>2, <2>4 DEF ReadStdout, Answer
    <2>6. <<line>> \in Seq(Lines \cup {"status"}) /\ <<line>> # <<>>
      BY <2>1
    <2>7. TypeOK'
      <3>1. /\ at' \in {"select", "answered", "panicked"}
            /\ result' \in {"none", "err"}
            /\ (at' = "answered") <=> (result' # "none")
            /\ (result' = "err") <=> (message' # <<>>)
        BY <2>5, <2>6
      <3>2. message' \in Seq(Lines \cup {"status"})
        <4>1. <<>> \in Seq(Lines \cup {"status"})
          OBVIOUS
        <4>2. QED
          BY <2>5, <2>6, <4>1, Zenon
      <3>3. UNCHANGED <<checkForError, child, open, writing, wrote, stderrLines,
                        stderrErrorLines>>
        BY <1>2 DEF ReadStdout, childVars
      <3>4. QED
        BY <2>2, <2>3, <3>1, <3>2, <3>3 DEF TypeOK
    <2>8. (Alive /\ Ended /\ Done)'
      BY <1>2, <2>4, <2>5 DEF ReadStdout, childVars, Alive, Ended, Done
    <2>9. Clean'
      <3>1. SUFFICES ASSUME checkForError, at' = "select",
                            NEW i \in 1..(read["stdout"] + 1)
                     PROVE  wrote["stdout"][i] # "error"
        BY <1>2, <2>2, <2>5 DEF ReadStdout, childVars, Clean
      <3>2. CASE i \in 1..read["stdout"]
        BY <3>1, <3>2, <2>4 DEF Clean
      <3>3. CASE i = read["stdout"] + 1
        BY <3>1, <3>3, <2>5 DEF StopsAt, Line
      <3>4. read["stdout"] \in Nat
        BY DEF TypeOK, Streams
      <3>5. QED
        BY <3>2, <3>3, <3>4
    <2>10. QED
      BY <2>7, <2>8, <2>9
  <1>3. ASSUME StdoutEnds PROVE IInv'
    <2>1. TypeOK'
      BY <1>3 DEF StdoutEnds, childVars, TypeOK
    <2>2. (Alive /\ Ended /\ Clean /\ Done)'
      BY <1>3 DEF StdoutEnds, childVars, Alive, Ended, Clean, Done, AtEnd,
                  Pending
    <2>3. QED
      BY <2>1, <2>2
  <1>4. ASSUME ReadStderr PROVE IInv'
    <2> DEFINE line == Line("stderr")
    <2>1. line \in Lines /\ read["stderr"] + 1 \in 1..Len(wrote["stderr"])
      BY <1>4, PendingLine DEF ReadStderr, TakeStderr, Streams
    <2>2. /\ read' \in [Streams -> Nat]
          /\ read'["stderr"] = read["stderr"] + 1
          /\ read'["stdout"] = read["stdout"]
      BY <1>4 DEF ReadStderr, TakeStderr, Take, TypeOK, Streams
    <2>3. \A s \in Streams : read'[s] <= Len(wrote[s])
                             /\ Len(wrote[s]) <= read'[s] + PipeCapacity
      BY <2>1, <2>2, PipeAssumption DEF TypeOK, Streams
    <2>4. result = "none" /\ message = <<>> /\ at \in {"select", "drain"}
      BY <1>4 DEF ReadStderr, TypeOK
    <2>5. at' \in {at, "panicked"}
      BY <1>4 DEF ReadStderr, TakeStderr
    <2>6. /\ stderrLines' \in Seq(Lines)
          /\ stderrErrorLines' \in Seq(Lines)
      <3>1. /\ stderrLines \in Seq(Lines)
            /\ stderrErrorLines \in Seq(Lines)
        BY DEF TypeOK
      <3>2. /\ Append(stderrLines, line) \in Seq(Lines)
            /\ Append(stderrErrorLines, line) \in Seq(Lines)
        BY <2>1, <3>1, AppendKeeps
      <3>3. /\ stderrLines' \in {stderrLines, Append(stderrLines, line)}
            /\ stderrErrorLines' \in
                  {stderrErrorLines, Append(stderrErrorLines, line)}
        BY <1>4, Zenon DEF ReadStderr, TakeStderr
      <3>4. QED
        BY <3>1, <3>2, <3>3
    <2>7. TypeOK'
      BY <1>4, <2>2, <2>3, <2>4, <2>5, <2>6
         DEF ReadStderr, TakeStderr, childVars, TypeOK
    <2>8. Ended'
      <3>1. at' = "drain" => AtEnd("stdout")
        BY <2>4, <2>5 DEF Ended
      <3>2. AtEnd("stdout") => AtEnd("stdout")'
        BY <1>4, <2>2 DEF ReadStderr, TakeStderr, childVars, AtEnd, Pending
      <3>3. QED
        BY <1>4, <2>4, <2>5, <3>1, <3>2
           DEF ReadStderr, TakeStderr, childVars, Ended
    <2>9. (Alive /\ Clean /\ Done)'
      BY <1>4, <2>2, <2>4, <2>5
         DEF ReadStderr, TakeStderr, childVars, Alive, Clean, Done
    <2>10. QED
      BY <2>7, <2>8, <2>9
  <1>5. ASSUME StderrEnds PROVE IInv'
    <2>1. TypeOK'
      BY <1>5 DEF StderrEnds, childVars, TypeOK
    <2>2. (Alive /\ Ended /\ Clean /\ Done)'
      BY <1>5 DEF StderrEnds, childVars, Alive, Ended, Clean, Done, AtEnd,
                  Pending
    <2>3. QED
      BY <2>1, <2>2
  <1>6. ASSUME Wait PROVE IInv'
    <2>1. Told \in Seq(Lines \cup {"status"}) /\ Told # <<>>
      <3>1. /\ stderrLines \in Seq(Lines \cup {"status"})
            /\ stderrErrorLines \in Seq(Lines \cup {"status"})
        BY SeqWidens DEF TypeOK
      <3>2. <<"status">> \in Seq(Lines \cup {"status"}) /\ <<"status">> # <<>>
        OBVIOUS
      <3>3. QED
        BY <3>1, <3>2, Zenon DEF Told
    <2>2. TypeOK'
      BY <1>6, <2>1 DEF Wait, Answer, childVars, TypeOK
    <2>3. AtEnd("stdout") /\ AtEnd("stderr")
      BY <1>6 DEF Wait, Ended
    <2>4. \A s \in Streams : AtEnd(s)'
      BY <1>6, <2>3 DEF Wait, childVars, AtEnd, Pending, Streams
    <2>5. (Alive /\ Ended /\ Clean)'
      BY <1>6 DEF Wait, Answer, childVars, Alive, Ended, Clean
    <2>6. Done'
      BY <1>6, <2>4 DEF Wait, Answer, childVars, Done, Clean
    <2>7. QED
      BY <2>2, <2>5, <2>6
  <1>7. QED
    BY <1>1, <1>2, <1>3, <1>4, <1>5, <1>6

\* The inductive invariant of execute_cmd and its child.
THEOREM CommandInvariance == Spec => []IInv
  <1>1. Init => IInv
    BY InitInv
  <1>2. IInv /\ [Next]_vars => IInv'
    <2>1. CASE Next /\ ~Over
      BY <2>1, ChildInv, ExecutorInv DEF Next
    <2>2. CASE UNCHANGED vars \/ Over
      BY <2>2 DEF Over, vars, childVars, executorVars, IInv, TypeOK, Alive, Ended,
                  Clean, Done, AtEnd, Pending
    <2>3. QED
      BY <2>1, <2>2
  <1>3. QED
    BY <1>1, <1>2, PTL DEF Spec

\* No pipe holds more than it can, and no Err is empty.
THEOREM CommandTypeCorrect == Spec => []TypeOK
  <1>1. IInv => TypeOK
    BY DEF IInv
  <1>2. QED
    BY <1>1, CommandInvariance, PTL

\* Ok is only answered once the child has succeeded and both pipes were read
\* to their end, with no line of stdout that check_for_error stops at.
THEOREM OkMeansDoneCorrect == Spec => []OkMeansDone
  <1>1. IInv => OkMeansDone
    <2>1. SUFFICES ASSUME IInv, result = "ok"
                   PROVE  /\ child = "succeeded"
                          /\ \A s \in Streams : read[s] = Len(wrote[s])
                          /\ checkForError =>
                                \A i \in 1..Len(wrote["stdout"]) :
                                   wrote["stdout"][i] # "error"
      BY DEF OkMeansDone
    <2>2. \A s \in Streams : read[s] = Len(wrote[s])
      BY <2>1 DEF IInv, Done, AtEnd, Pending, TypeOK
    <2>3. QED
      BY <2>1, <2>2 DEF IInv, Done, Streams
  <1>2. QED
    BY <1>1, CommandInvariance, PTL

-----------------------------------------------------------------------------
(* What an Err tells. *)

FlaggedOf(lines) == Selected(lines, {i \in DOMAIN lines : Flagged(lines[i])})

\* The executor remembers every line of stderr it has read, and sets aside
\* those that are flagged.
Heard ==
    at # "panicked" =>
       /\ Len(stderrLines) = read["stderr"]
       /\ \A i \in 1..read["stderr"] : stderrLines[i] = wrote["stderr"][i]
       /\ stderrErrorLines = FlaggedOf(stderrLines)

LEMMA FlaggedAppend ==
    ASSUME NEW lines \in Seq(Lines), NEW line \in Lines
    PROVE  FlaggedOf(Append(lines, line)) =
              IF Flagged(line) THEN Append(FlaggedOf(lines), line) ELSE FlaggedOf(lines)
  <1> DEFINE longer == Append(lines, line)
             I == {i \in DOMAIN longer : Flagged(longer[i])}
             J == {i \in DOMAIN lines : Flagged(lines[i])}
  <1>1. /\ DOMAIN longer = 1..(Len(lines) + 1) /\ DOMAIN lines = 1..Len(lines)
        /\ Len(lines) \in Nat /\ longer[Len(lines) + 1] = line
        /\ \A i \in 1..Len(lines) : longer[i] = lines[i]
    OBVIOUS
  <1> HIDE DEF longer
  <1>2. \A k \in 1..Len(lines) : k \in I <=> k \in J
    BY <1>1
  <1>3. Len(lines) + 1 \in I <=> Flagged(line)
    BY <1>1
  <1> HIDE DEF I, J
  <1>4. Selected(lines, I) = Selected(lines, J)
    BY <1>2, SelectedSame
  <1>5. Selected(longer, I) =
           IF Len(lines) + 1 \in I THEN Append(Selected(lines, I), line) ELSE Selected(lines, I)
    BY SelectedAppend DEF longer
  <1> QED
    BY <1>3, <1>4, <1>5 DEF FlaggedOf, I, J, longer

\* The child adds to its streams behind what was read, and only while it is read.
LEMMA ChildHeard ==
    ASSUME IInv, Heard, ErrorIsTold, Child
    PROVE  Heard' /\ ErrorIsTold'
  <1>1. /\ UNCHANGED executorVars /\ UNCHANGED checkForError
        /\ child = "failed" => child' = "failed"
    BY DEF Child, BeginWrite, EndWrite, Close, Exit, BrokenPipe, executorVars, IInv,
           TypeOK, Alive
  <1>2. /\ \A s \in Streams : \A i \in 1..read[s] : wrote'[s][i] = wrote[s][i]
        /\ result # "none" => wrote' = wrote
    <2>1. CASE UNCHANGED wrote
      BY <2>1
    <2>2. CASE \E line \in Lines : EndWrite(line)
      <3>1. PICK line \in Lines : EndWrite(line)
        BY <2>2
      <3>2. /\ writing \in Streams /\ wrote \in [Streams -> Seq(Lines)]
            /\ wrote' = [wrote EXCEPT ![writing] = Append(wrote[writing], line)]
            /\ \A s \in Streams : read[s] \in Nat /\ read[s] <= Len(wrote[s])
            /\ result = "none"
        BY <3>1 DEF EndWrite, IInv, TypeOK, Reading
      <3>3. \A i \in 1..Len(wrote[writing]) :
               Append(wrote[writing], line)[i] = wrote[writing][i]
        BY <3>2, AppendKeeps
      <3>4. ASSUME NEW s \in Streams, NEW i \in 1..read[s]
            PROVE  wrote'[s][i] = wrote[s][i]
        <4>1. CASE s = writing
          BY <3>2, <3>3, <4>1
        <4>2. CASE s # writing
          BY <3>2, <4>2
        <4> QED
          BY <4>1, <4>2
      <3> QED
        BY <3>2, <3>4
    <2> QED
      BY <2>1, <2>2 DEF Child, BeginWrite, Close, Exit, BrokenPipe
  <1>3. Heard'
    BY <1>1, <1>2 DEF executorVars, Heard, Streams
  <1>4. ErrorIsTold'
    BY <1>1, <1>2 DEF executorVars, ErrorIsTold
  <1> QED
    BY <1>3, <1>4

\* Every line is remembered as it is read.
LEMMA StderrHeard ==
    ASSUME IInv, Heard, ErrorIsTold, ReadStderr
    PROVE  Heard' /\ ErrorIsTold'
  <1> DEFINE line == Line("stderr")
  <1>1. line \in Lines /\ read["stderr"] + 1 \in 1..Len(wrote["stderr"])
    BY PendingLine DEF IInv, ReadStderr, TakeStderr, Streams
  <1>2. /\ result = "none" /\ result' = "none"
        /\ wrote' = wrote /\ at # "panicked"
        /\ stderrLines \in Seq(Lines) /\ stderrErrorLines \in Seq(Lines)
    BY DEF IInv, ReadStderr, TakeStderr, childVars, TypeOK
  <1>3. read'["stderr"] = read["stderr"] + 1 /\ read["stderr"] \in Nat
    BY DEF IInv, ReadStderr, TakeStderr, Take, TypeOK, Streams
  <1>4. ASSUME at' # "panicked" PROVE Heard'
    <2>1. /\ stderrLines' = Append(stderrLines, line)
          /\ stderrErrorLines' = IF Flagged(line) THEN Append(stderrErrorLines, line)
                                 ELSE stderrErrorLines
      BY <1>4 DEF ReadStderr, TakeStderr
    <2>2. /\ Len(stderrLines) = read["stderr"]
          /\ \A i \in 1..read["stderr"] : stderrLines[i] = wrote["stderr"][i]
          /\ stderrErrorLines = FlaggedOf(stderrLines)
      BY <1>2 DEF Heard
    <2>3. stderrErrorLines' = FlaggedOf(stderrLines')
      BY <1>1, <1>2, <2>1, <2>2, FlaggedAppend
    <2>4. /\ Len(stderrLines') = read["stderr"] + 1
          /\ stderrLines'[read["stderr"] + 1] = line
          /\ \A i \in 1..read["stderr"] : stderrLines'[i] = stderrLines[i]
      BY <1>1, <1>2, <2>1, <2>2, AppendKeeps
    <2>5. line = wrote["stderr"][read["stderr"] + 1]
      BY DEF Line
    <2> HIDE DEF line
    <2>6. \A i \in 1..(read["stderr"] + 1) : stderrLines'[i] = wrote["stderr"][i]
      BY <1>3, <2>2, <2>4, <2>5
    <2> QED
      BY <1>2, <1>3, <2>3, <2>4, <2>6 DEF Heard
  <1> QED
    BY <1>2, <1>4 DEF Heard, ErrorIsTold

\* A failed child is told of by all it wrote to stderr, which was all read.
LEMMA WaitTells ==
    ASSUME IInv, Heard, Wait
    PROVE  ErrorIsTold'
  <1>1. AtEnd("stderr") /\ at = "wait"
    BY DEF Wait, IInv, Ended
  <1>2. /\ wrote["stderr"] \in Seq(Lines) /\ stderrLines \in Seq(Lines)
        /\ read["stderr"] = Len(wrote["stderr"])
    BY <1>1 DEF IInv, TypeOK, AtEnd, Pending, Streams
  <1>3. stderrLines = wrote["stderr"]
    BY <1>1, <1>2 DEF Heard
  <1>4. Told = Report(wrote["stderr"])
    BY <1>1, <1>3 DEF Told, Report, Heard, FlaggedOf
  <1> QED
    BY <1>4 DEF Wait, Answer, childVars, ErrorIsTold

\* What is known of an Err holds of every step.
LEMMA ErrorStep == IInv /\ Heard /\ ErrorIsTold /\ [Next]_vars => Heard' /\ ErrorIsTold'
  <1> SUFFICES ASSUME IInv, Heard, ErrorIsTold, [Next]_vars
               PROVE  Heard' /\ ErrorIsTold'
    OBVIOUS
  <1>1. CASE Child
    BY <1>1, ChildHeard
  <1>2. CASE ReadStderr
    BY <1>2, StderrHeard
  <1>3. CASE Wait
    BY <1>3, WaitTells DEF Wait, Answer, childVars, Heard
  <1>4. CASE ReadStdout
    <2>1. /\ read'["stderr"] = read["stderr"] /\ read'["stdout"] = read["stdout"] + 1
          /\ read["stdout"] \in Nat
      BY <1>4 DEF ReadStdout, Take, IInv, TypeOK, Streams
    <2>2. Heard'
      BY <1>4, <2>1 DEF ReadStdout, Answer, childVars, Heard
    <2>3. ErrorIsTold'
      <3>1. SUFFICES ASSUME result' = "err" PROVE ErrorIsTold'
        BY DEF ErrorIsTold
      <3>2. StopsAt(Line("stdout")) /\ message' = <<Line("stdout")>> /\ UNCHANGED childVars
            /\ UNCHANGED checkForError
        BY <1>4, <3>1 DEF ReadStdout, Answer, IInv, TypeOK
      <3>3. \A i \in 1..read["stdout"] : wrote["stdout"][i] # "error"
        BY <1>4, <3>2 DEF ReadStdout, StopsAt, IInv, Clean
      <3>4. wrote["stdout"][read["stdout"] + 1] = "error"
        BY <3>2 DEF StopsAt, Line
      <3>5. \A i \in 1..read'["stdout"] :
               (wrote'["stdout"][i] = "error") <=> (i = read'["stdout"])
        BY <2>1, <3>2, <3>3, <3>4 DEF childVars
      <3> QED
        BY <3>2, <3>5 DEF ErrorIsTold, StopsAt
    <2> QED
      BY <2>2, <2>3
  <1>5. CASE Spawn \/ StdoutEnds \/ StderrEnds
    <2>1. UNCHANGED <<wrote, read, stderrLines, stderrErrorLines, result>> /\ result = "none"
          /\ at # "panicked"
      BY <1>5 DEF Spawn, StdoutEnds, StderrEnds, childVars, IInv, TypeOK
    <2> QED
      BY <2>1 DEF Heard, ErrorIsTold
  <1>6. CASE Over \/ UNCHANGED vars
    BY <1>6 DEF Over, vars, childVars, executorVars, Heard, ErrorIsTold
  <1> QED
    BY <1>1, <1>2, <1>3, <1>4, <1>5, <1>6 DEF Next

\* An Err is the line of stdout that check_for_error stops at, or tells of a
\* child that has failed, by all it wrote to stderr.
THEOREM ErrorIsToldCorrect == Spec => []ErrorIsTold
  <1>1. Init => Heard /\ ErrorIsTold
    <2> SUFFICES ASSUME Init PROVE Heard /\ ErrorIsTold
      OBVIOUS
    <2>1. FlaggedOf(<<>>) = <<>>
      <3> DEFINE I == {i \in DOMAIN <<>> : Flagged(<<>>[i])}
      <3>1. <<>> \in Seq(Lines) /\ \A k \in 1..Len(<<>>) : k \notin I
        OBVIOUS
      <3> HIDE DEF I
      <3>2. Selected(<<>>, I) = <<>>
        BY <3>1, SelectedNone
      <3> QED
        BY <3>2 DEF FlaggedOf, I
    <2> QED
      BY <2>1 DEF Init, Heard, ErrorIsTold, Streams
  <1> QED
    BY <1>1, ErrorStep, CommandInvariance, PTL DEF Spec
=============================================================================
