---------------------------- MODULE ShellCommand ----------------------------
(***************************************************************************)
(* ShellCommandExecutor::execute_cmd: a child process, its two pipes and   *)
(* the task that reads them.                                               *)
(*                                                                         *)
(* The child (sh -c pg_dump, pg_restore, mongodump, mongorestore, tar)     *)
(* writes lines to stdout and stderr and blocks while the pipe it writes   *)
(* to is full.  The executor reads whichever pipe has a line until stdout  *)
(* ends, then the rest of stderr, then waits for the exit status.  With    *)
(* check_for_error it answers at the first line of stdout that contains    *)
(* "error"; both read ends are then dropped, and the child is not killed.  *)
(***************************************************************************)
EXTENDS Selection

CONSTANTS
    PipeCapacity,  \* lines a pipe and the reader's buffer hold
    MaxLines       \* bound: lines the child writes to each stream

ASSUME PipeAssumption == PipeCapacity \in Nat \ {0} /\ MaxLines \in Nat

VARIABLES
    checkForError,     \* check_for_error.unwrap_or(false)
    child,             \* "none", "running", "succeeded" or "failed"
    open,              \* streams the child still holds
    writing,           \* stream the child is in a write to, or "none"
    wrote,             \* wrote[s]: every line written to s so far
    read,              \* read[s]: how many of them were read
    at,                \* where execute_cmd stands
    stderrLines,       \* stderr_lines
    stderrErrorLines,  \* stderr_error_lines
    result,            \* "none", "ok" or "err"
    message            \* the lines of an Err

childVars    == <<child, open, writing, wrote>>
executorVars == <<read, at, stderrLines, stderrErrorLines, result, message>>
vars == <<checkForError, childVars, executorVars>>

Streams == {"stdout", "stderr"}

\* A line by what the code asks of it: it contains "error", or "warning" (and
\* not "error"), or neither, or it is not UTF-8 and next_line() is an error.
Lines == {"plain", "warning", "error", "invalid"}

Pending(s) == read[s] < Len(wrote[s])
Line(s)    == wrote[s][read[s] + 1]
AtEnd(s)   == ~Pending(s) /\ s \notin open
Reading    == at \in {"select", "drain", "wait"}

Init ==
    /\ checkForError \in BOOLEAN
    /\ child = "none" /\ open = {} /\ writing = "none"
    /\ wrote = [s \in Streams |-> <<>>]
    /\ read  = [s \in Streams |-> 0]
    /\ at = "spawn"
    /\ stderrLines = <<>> /\ stderrErrorLines = <<>>
    /\ result = "none" /\ message = <<>>

(***************************************************************************)
(* The child.                                                              *)
(***************************************************************************)
BeginWrite(s) ==
    /\ child = "running" /\ writing = "none" /\ s \in open
    /\ Len(wrote[s]) < MaxLines
    /\ writing' = s
    /\ UNCHANGED <<checkForError, child, open, wrote, executorVars>>

\* The child stays in the write while the pipe is full.
EndWrite(line) ==
    /\ writing # "none" /\ Reading
    /\ Len(wrote[writing]) - read[writing] < PipeCapacity
    /\ wrote' = [wrote EXCEPT ![writing] = Append(@, line)]
    /\ writing' = "none"
    /\ UNCHANGED <<checkForError, child, open, executorVars>>

\* Closing a stream and going on, as a child that redirects it does.
Close(s) ==
    /\ child = "running" /\ writing = "none" /\ s \in open
    /\ open' = open \ {s}
    /\ UNCHANGED <<checkForError, child, writing, wrote, executorVars>>

Exit ==
    /\ child = "running" /\ writing = "none"
    /\ child' \in {"succeeded", "failed"}
    /\ open' = {}
    /\ UNCHANGED <<checkForError, writing, wrote, executorVars>>

\* A line written once nobody reads: SIGPIPE.
BrokenPipe ==
    /\ writing # "none" /\ ~Reading
    /\ child' = "failed"
    /\ open' = {}
    /\ writing' = "none"
    /\ UNCHANGED <<checkForError, wrote, executorVars>>

(***************************************************************************)
(* The executor.                                                           *)
(***************************************************************************)
Spawn ==
    /\ at = "spawn"
    /\ \/ /\ at' = "select"
          /\ child' = "running"
          /\ open' = Streams
       \/ /\ at' = "panicked"
          /\ UNCHANGED <<child, open>>
    /\ UNCHANGED <<checkForError, writing, wrote, read, stderrLines,
                   stderrErrorLines, result, message>>

Take(s) == read' = [read EXCEPT ![s] = @ + 1]

Answer(r, lines) ==
    /\ at' = "answered"
    /\ result' = r
    /\ message' = lines

StopsAt(line) == checkForError /\ line = "error"

ReadStdout ==
    /\ at = "select" /\ Pending("stdout")
    /\ Take("stdout")
    /\ LET line == Line("stdout") IN
       \/ /\ line = "invalid"
          /\ at' = "panicked"
          /\ UNCHANGED <<result, message>>
       \/ /\ StopsAt(line)
          /\ Answer("err", <<line>>)
       \/ /\ line # "invalid" /\ ~StopsAt(line)
          /\ UNCHANGED <<at, result, message>>
    /\ UNCHANGED <<checkForError, childVars, stderrLines, stderrErrorLines>>

\* MUTANT of StdoutEnds: stderr is not drained after stdout has ended.
StdoutEndsUndrained ==
    /\ at = "select" /\ AtEnd("stdout")
    /\ at' = "wait"
    /\ UNCHANGED <<checkForError, childVars, read, stderrLines,
                   stderrErrorLines, result, message>>

StdoutEnds ==
    /\ at = "select" /\ AtEnd("stdout")
    /\ at' = "drain"
    /\ UNCHANGED <<checkForError, childVars, read, stderrLines,
                   stderrErrorLines, result, message>>

Flagged(line) == line \in {"error", "warning"}

\* The body the select! branch of stderr and the drain loop share.
TakeStderr ==
    /\ Pending("stderr")
    /\ Take("stderr")
    /\ LET line == Line("stderr") IN
       \/ /\ line = "invalid"
          /\ at' = "panicked"
          /\ UNCHANGED <<stderrLines, stderrErrorLines>>
       \/ /\ line # "invalid"
          /\ stderrErrorLines' = IF Flagged(line)
                                 THEN Append(stderrErrorLines, line)
                                 ELSE stderrErrorLines
          /\ stderrLines' = Append(stderrLines, line)
          /\ UNCHANGED at
    /\ UNCHANGED <<checkForError, childVars, result, message>>

\* MUTANT of ReadStderr: stderr is only read after stdout has ended.
ReadStderrLast == at = "drain" /\ TakeStderr

\* While stdout is open, a stderr at its end is polled again and again
\* without effect.
ReadStderr == at \in {"select", "drain"} /\ TakeStderr

StderrEnds ==
    /\ at = "drain" /\ AtEnd("stderr")
    /\ at' = "wait"
    /\ UNCHANGED <<checkForError, childVars, read, stderrLines,
                   stderrErrorLines, result, message>>

\* MUTANT of Told: without a line that has "error" or "warning", nothing.
ToldFlagged == stderrErrorLines

Told ==
    IF stderrErrorLines # <<>> THEN stderrErrorLines
    ELSE IF stderrLines # <<>> THEN stderrLines
    ELSE <<"status">>

\* MUTANT of Wait: the exit status is not looked at.
WaitAnyStatus ==
    /\ at = "wait" /\ child # "running"
    /\ Answer("ok", <<>>)
    /\ UNCHANGED <<checkForError, childVars, read, stderrLines,
                   stderrErrorLines>>

\* The status of a child nobody else waits for is always had: expect() holds.
Wait ==
    /\ at = "wait" /\ child # "running"
    /\ \/ /\ child = "succeeded"
          /\ Answer("ok", <<>>)
       \/ /\ child = "failed"
          /\ Answer("err", Told)
    /\ UNCHANGED <<checkForError, childVars, read, stderrLines,
                   stderrErrorLines>>

Child == \/ \E s \in Streams : BeginWrite(s) \/ Close(s)
         \/ \E line \in Lines : EndWrite(line)
         \/ Exit
         \/ BrokenPipe

\* The call has answered, or the task is dead, and no child is left.
Over == at \in {"answered", "panicked"} /\ child # "running" /\ UNCHANGED vars

Next == Spawn \/ ReadStdout \/ StdoutEnds \/ ReadStderr \/ StderrEnds \/ Wait
        \/ Child \/ Over

\* The command ends by itself once its lines are read.  select! polls its
\* branches in random order, so neither pipe is passed over for ever.
Fairness ==
    /\ WF_vars(Spawn)
    /\ WF_vars(ReadStdout \/ StdoutEnds)
    /\ WF_vars(ReadStderr \/ StderrEnds)
    /\ WF_vars(Wait)
    /\ WF_vars(Child)

Spec == Init /\ [][Next]_vars /\ Fairness

-----------------------------------------------------------------------------
(***************************************************************************)
(* Properties.                                                             *)
(***************************************************************************)

\* The state is well formed: a pipe never holds more than its capacity, and an
\* Err is never empty.
TypeOK ==
    /\ checkForError \in BOOLEAN
    /\ child \in {"none", "running", "succeeded", "failed"}
    /\ open \subseteq Streams
    /\ writing \in open \cup {"none"}
    /\ wrote \in [Streams -> Seq(Lines)]
    /\ read \in [Streams -> Nat]
    /\ \A s \in Streams :
          read[s] <= Len(wrote[s]) /\ Len(wrote[s]) <= read[s] + PipeCapacity
    /\ at \in {"spawn", "select", "drain", "wait", "answered", "panicked"}
    /\ stderrLines \in Seq(Lines) /\ stderrErrorLines \in Seq(Lines)
    /\ result \in {"none", "ok", "err"}
    /\ message \in Seq(Lines \cup {"status"})
    /\ (at = "answered") <=> (result # "none")
    /\ (result = "err") <=> (message # <<>>)

\* Ok is only answered for a child that has exited with success, after both
\* its streams were read to the end, and with check_for_error only when no
\* line of its stdout contained "error" (the callers go on to drop the schema
\* or to upload the archive on the strength of it).
OkMeansDone ==
    result = "ok" =>
       /\ child = "succeeded"
       /\ \A s \in Streams : read[s] = Len(wrote[s])
       /\ checkForError => \A i \in 1..Len(wrote["stdout"]) :
                              wrote["stdout"][i] # "error"

\* What is told of the stderr of a failed child.
Report(lines) ==
    LET flagged == Selected(lines, {i \in DOMAIN lines : Flagged(lines[i])})
    IN  IF flagged # <<>> THEN flagged
        ELSE IF lines # <<>> THEN lines
        ELSE <<"status">>

\* An Err is either the first line of stdout with "error", asked for by
\* check_for_error, or it tells of a child that has failed and exited, with
\* every stderr line with "error" or "warning" it wrote, before or after
\* stdout ended (or all of stderr if there is none).  Without check_for_error
\* no child is left running behind an answer.
ErrorIsTold ==
    result = "err" =>
       \/ /\ checkForError
          /\ message = <<"error">>
          /\ \A i \in 1..read["stdout"] :
                (wrote["stdout"][i] = "error") <=> (i = read["stdout"])
       \/ /\ child = "failed"
          /\ message = Report(wrote["stderr"])

\* However the child spreads its lines over two pipes that fill up, the
\* executor and the child never wait for each other: there is an answer, or a
\* panic on a line that is not UTF-8.
Answered == <>(at \in {"answered", "panicked"})
=============================================================================
