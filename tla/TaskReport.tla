----------------------------- MODULE TaskReport -----------------------------
(***************************************************************************)
(* What becomes of the output of one OpenCode run: the process writes its  *)
(* events into a pipe (opencode/cli.py), _read_events takes them out, and  *)
(* at the end execute and _finish_success turn them, the export of the     *)
(* session and the state of the repository into the task's row, the        *)
(* session's row and the answer.  Before it starts, a task nobody waits    *)
(* for is announced to the chats, in messages that MessageSplit cuts.      *)
(*                                                                         *)
(* TaskExecution has the clock and the signals of the same execution; here *)
(* a timed wait may give up at any moment, and the pipe, which it leaves   *)
(* out, is full when OpenCode is ahead of its reader by PipeSize lines.    *)
(***************************************************************************)
EXTENDS MessageSplit

CONSTANTS
    MaxLines,   \* how many lines OpenCode writes (model bound)
    PipeSize,   \* how many of them the pipe and the stream buffer hold
    Attempts,   \* _EXPORT_RETRY_ATTEMPTS
    LogLines,   \* _LOG_TAIL_LINES
    ErrorLines, \* how many lines of stderr the handle keeps
    MaxText     \* the longest announcement, in characters (model bound)

ASSUME ReportAssumption ==
    /\ MaxLines \in Nat
    /\ PipeSize \in Nat \ {0}
    /\ Attempts \in Nat \ {0}
    /\ LogLines \in Nat \ {0}
    /\ ErrorLines \in Nat
    /\ MaxText \in Nat

\* A line of stdout: an answer of the assistant, an event with other text, an event
\* without, what parse_line takes for garbage, a line beyond the limit of the stream.
Kinds == {"text", "note", "bare", "junk", "long"}
HasText == {"text", "note"}

None == "none"

VARIABLES
    task,       \* the row when the execution begins: whether somebody waits for an
                \* answer, and the conversation the run is to continue
    speaks,     \* the conversation OpenCode's events name
    written,    \* the lines OpenCode has written
    proc,       \* OpenCode and how it exited
    head,       \* HEAD of the repository
    read,       \* how many lines the reader has taken
    reader,     \* the _read_events task
    heard,      \* state["session_id"]
    logged,     \* the lines in state["log_lines"]
    last,       \* the line of state["last_text"]
    asked,      \* whether the cancel event is set
    pc,         \* where execute and _finish_success stand
    timedOut,   \* execute's local
    tries,      \* exports that have failed
    found,      \* what _finish_success knows: the answer in the export, HEAD before and after
    row,        \* the task's row; its log_tail is of lines of stdout and then of stderr
    talk,       \* opencode_session_id of the session's row
    reply       \* what the user is told

runVars == <<task, speaks, written, proc, head>>
readVars == <<read, reader, heard, logged, last>>
execVars == <<asked, pc, timedOut, tries, found>>
outVars == <<row, talk, reply>>
vars == <<task, speaks, written, proc, head, read, reader, heard, logged, last,
          asked, pc, timedOut, tries, found, row, talk, reply, text, rest, chunks, split>>

Lines == 1..Len(written)
Exited == proc \in {"ok", "failed"}
PipeFull == Len(written) - read >= PipeSize

\* create_task's rows are nobody's conversation; send_message's may continue one.
Tasks == {[interactive |-> FALSE, session |-> None]}
           \cup [interactive : {TRUE}, session : {None, "old"}]

\* A summary is what it says of the run's answer and of a commit.
NoSummary == [answer |-> None, commit |-> None]

\* git_state: HEAD, or nothing if git does not answer in time.
GitSays(h) == {None, h}

Init ==
    /\ task \in Tasks
    /\ speaks \in IF task.session = None THEN {"new"} ELSE {"old", "new"}
    /\ written = <<>>
    /\ proc = None
    /\ head = "before"
    /\ read = 0
    /\ reader = None
    /\ heard = None
    /\ logged = {}
    /\ last = 0
    /\ asked \in BOOLEAN
    /\ pc = "start"
    /\ timedOut = FALSE
    /\ tries = 0
    /\ found \in [answer : {"nothing"}, was : GitSays(head), is : {None}]
    /\ row = [status |-> "RUNNING", session |-> task.session, log |-> {}, errors |-> 0,
              summary |-> NoSummary, commit |-> None]
    /\ talk = task.session
    /\ reply = [status |-> None, line |-> 0]
    /\ Idle

-----------------------------------------------------------------------------
(* The beginning of execute.                                                 *)

Goto(step) == pc' = step /\ UNCHANGED <<asked, timedOut, tries, found>>

\* notify_task_started, unless somebody waits for the answer.
Announce ==
    /\ pc = "start"
    /\ ~task.interactive
    /\ Goto("announce")
    /\ \E t \in UNION {[1..n -> BOOLEAN] : n \in 1..MaxText} : Take(t)
    /\ UNCHANGED <<runVars, readVars, outVars>>

Send ==
    /\ pc = "announce"
    /\ Splitting
    /\ UNCHANGED <<runVars, readVars, execVars, outVars>>

\* adapter.run: OpenCode and its reader begin, and a cancellation that came before is
\* acted upon.
Launch ==
    /\ \/ pc = "start" /\ task.interactive
       \/ pc = "announce" /\ ~split
    /\ Goto(IF asked THEN "term" ELSE "waiting")
    /\ proc' = "running"
    /\ reader' = "reading"
    /\ text' = <<>> /\ rest' = 1 /\ chunks' = {} /\ split' = FALSE
    /\ UNCHANGED <<task, speaks, written, head, read, heard, logged, last, outVars>>

-----------------------------------------------------------------------------
(* OpenCode.                                                                 *)

\* It writes a line, if the pipe takes it.
Write ==
    /\ proc = "running"
    /\ ~PipeFull
    /\ Len(written) < MaxLines
    /\ \E k \in Kinds : written' = Append(written, k)
    /\ UNCHANGED <<task, speaks, proc, head, readVars, execVars, outVars, splitVars>>

\* It commits, as does anybody else who works in the repository.
Commit ==
    /\ head = "before"
    /\ head' = "after"
    /\ UNCHANGED <<task, speaks, written, proc, readVars, execVars, outVars, splitVars>>

\* It exits, by itself or on a signal.
Exit ==
    /\ proc = "running"
    /\ \/ proc' = "failed"
       \/ pc # "kill" /\ proc' = "ok"
    /\ UNCHANGED <<task, speaks, written, head, readVars, execVars, outVars, splitVars>>

-----------------------------------------------------------------------------
(* _read_events.                                                             *)

\* What the next line does to the reader: an event with text goes into the log, and
\* an answer perhaps also to the chats, which the reader waits for.
Hear(n) ==
    /\ heard' = speaks
    /\ logged' = IF written[n] \in HasText THEN logged \cup {n} ELSE logged
    /\ last' = IF written[n] = "text" THEN n ELSE last
    /\ reader' \in IF written[n] = "text" THEN {"reading", "telling"} ELSE {"reading"}

\* Mutant of Read: a line that is no event ends the iteration.
ReadUntilJunk ==
    /\ reader = "reading"
    /\ read < Len(written)
    /\ read' = read + 1
    /\ LET n == read + 1
       IN  \/ /\ written[n] \in {"junk", "long"} \/ asked
              /\ reader' = IF written[n] = "long" THEN "failed" ELSE "stopped"
              /\ UNCHANGED <<heard, logged, last>>
           \/ written[n] \notin {"junk", "long"} /\ ~asked /\ Hear(n)
    /\ UNCHANGED <<runVars, execVars, outVars, splitVars>>

\* Garbage is passed over; a line that is too long raises; an event is looked at, or
\* ends the reader if the cancel event is set.
Read ==
    /\ reader = "reading"
    /\ read < Len(written)
    /\ read' = read + 1
    /\ LET n == read + 1
       IN  \/ written[n] = "junk" /\ UNCHANGED <<reader, heard, logged, last>>
           \/ written[n] = "long" /\ reader' = "failed" /\ UNCHANGED <<heard, logged, last>>
           \/ /\ written[n] \notin {"junk", "long"} /\ asked
              /\ reader' = "stopped" /\ UNCHANGED <<heard, logged, last>>
           \/ written[n] \notin {"junk", "long"} /\ ~asked /\ Hear(n)
    /\ UNCHANGED <<runVars, execVars, outVars, splitVars>>

\* notify_progress returns, whether or not Telegram took the message.
Told ==
    /\ reader = "telling"
    /\ reader' = "reading"
    /\ UNCHANGED <<runVars, read, heard, logged, last, execVars, outVars, splitVars>>

\* The end of stdout.
ReadAll ==
    /\ reader = "reading"
    /\ read = Len(written)
    /\ Exited
    /\ reader' = "stopped"
    /\ UNCHANGED <<runVars, read, heard, logged, last, execVars, outVars, splitVars>>

Reading == Read \/ Told \/ ReadAll

-----------------------------------------------------------------------------
(* execute.                                                                  *)

\* request_cancel, as long as the row is RUNNING.  What comes after _finish_success has
\* dropped the event sets one nobody looks at.
RequestCancel ==
    /\ pc \in {"start", "announce", "waiting", "term", "kill", "join", "store", "decide"}
    /\ asked' = TRUE
    /\ UNCHANGED <<pc, timedOut, tries, found, runVars, readVars, outVars, splitVars>>

\* The default timeout: handle.cancel.
TimesOut ==
    /\ pc = "waiting"
    /\ proc = "running"
    /\ pc' = "term"
    /\ timedOut' = TRUE
    /\ UNCHANGED <<asked, tries, found, runVars, readVars, outVars, splitVars>>

GraceEnds ==
    /\ pc = "term"
    /\ proc = "running"
    /\ Goto("kill")
    /\ UNCHANGED <<runVars, readVars, outVars, splitVars>>

Awaited ==
    /\ pc \in {"waiting", "term", "kill"}
    /\ Exited
    /\ Goto("join")
    /\ UNCHANGED <<runVars, readVars, outVars, splitVars>>

\* Mutant of Join: the reader is left to itself.
JoinNobody ==
    /\ pc = "join"
    /\ Goto("store")
    /\ UNCHANGED <<runVars, readVars, outVars, splitVars>>

\* await read_task.
Join ==
    /\ pc = "join"
    /\ reader = "stopped"
    /\ Goto("store")
    /\ UNCHANGED <<runVars, readVars, outVars, splitVars>>

\* The reader raised, or stderr did not end in time: the handler of _run_task, which
\* knows nothing of what was read and tells only the one who waits.
Crash ==
    /\ pc = "join"
    /\ reader \in {"failed", "stopped"}
    /\ Goto(IF task.interactive THEN "tell" ELSE "told")
    /\ row' = [row EXCEPT !.status = "FAILED", !.session = None, !.log = {}, !.errors = 0]
    /\ UNCHANGED <<talk, reply, runVars, readVars, splitVars>>

\* set_session_id and touch_session, if the events named a conversation.
Store ==
    /\ pc = "store"
    /\ Goto("decide")
    /\ row' = IF heard # None THEN [row EXCEPT !.session = heard] ELSE row
    /\ talk' = IF heard # None /\ task.interactive THEN heard ELSE talk
    /\ UNCHANGED <<reply, runVars, readVars, splitVars>>

\* The lines in the log that are among the last LogLines, when more come behind them.
LogTail(log, more) == {n \in log : Cardinality({m \in log : m > n}) + more < LogLines}

\* stderr_lines go behind the log, the end of which is kept; mark_finished of an
\* execution that came to its end writes all the columns.
Finish(status, summary, commit) ==
    \E errors \in 0..ErrorLines :
        row' = [status |-> status, session |-> heard,
                log |-> LogTail(logged, errors), errors |-> errors,
                summary |-> summary, commit |-> commit]

\* Cancelled, timed out or failed: mark_finished.
Decide ==
    /\ pc = "decide"
    /\ asked \/ timedOut \/ proc = "failed"
    /\ Goto("tell")
    /\ Finish(IF asked THEN "CANCELLED" ELSE "FAILED", NoSummary, None)
    /\ UNCHANGED <<talk, reply, runVars, readVars, splitVars>>

\* _finish_success; without a conversation there is nothing to export.
Succeed ==
    /\ pc = "decide"
    /\ ~asked /\ ~timedOut /\ proc = "ok"
    /\ Goto(IF heard = None THEN "git" ELSE "export")
    /\ UNCHANGED <<runVars, readVars, outVars, splitVars>>

\* What _last_assistant_text finds in a whole export: the last message of the
\* assistant, which is of an earlier run if this one had none.
AnswerOnRecord ==
    IF \E n \in Lines : written[n] = "text" THEN "own"
    ELSE IF heard = "old" THEN "earlier" ELSE "nothing"

ExportRead ==
    /\ pc = "export"
    /\ pc' = "git"
    /\ found' = [found EXCEPT !.answer = AnswerOnRecord]
    /\ UNCHANGED <<asked, timedOut, tries, runVars, readVars, outVars, splitVars>>

\* The export failed, or was cut short because OpenCode still writes the file.
ExportFails ==
    /\ pc = "export"
    /\ tries' = tries + 1
    /\ pc' = IF tries' < Attempts THEN "export" ELSE "git"
    /\ UNCHANGED <<asked, timedOut, found, runVars, readVars, outVars, splitVars>>

GitRead ==
    /\ pc = "git"
    /\ pc' = "summary"
    /\ \E h \in GitSays(head) : found' = [found EXCEPT !.is = h]
    /\ UNCHANGED <<asked, timedOut, tries, runVars, readVars, outVars, splitVars>>

\* Mutant of CommitCreated: whatever HEAD is afterwards.
CommitAssumed == found.is

\* commit_created_between: both are known and differ.
CommitCreated ==
    IF None \notin {found.was, found.is} /\ found.was # found.is THEN found.is ELSE None

\* DeterministicSummaryGenerator puts together what the export and git say.
Deterministic == [answer |-> found.answer, commit |-> CommitCreated]

\* OllamaSummaryGenerator: whatever the model writes, and the deterministic summary if
\* it writes nothing, does not answer in time or cannot be reached.
Generated == {Deterministic, [answer |-> "any", commit |-> "any"]}

\* The summary, which may also raise; then mark_finished.
Complete ==
    /\ pc = "summary"
    /\ Goto("tell")
    /\ \E summary \in Generated \cup {NoSummary} : Finish("COMPLETED", summary, CommitCreated)
    /\ UNCHANGED <<talk, reply, runVars, readVars, splitVars>>

\* The answer or the notification.  A completed conversation gets the last answer that
\* was read; everything else is composed of the row.
Tell ==
    /\ pc = "tell"
    /\ Goto("told")
    /\ reply' = [status |-> row.status,
                 line |-> IF row.status = "COMPLETED" /\ task.interactive THEN last ELSE 0]
    /\ UNCHANGED <<row, talk, runVars, readVars, splitVars>>

Execute ==
    \/ Announce \/ Send \/ Launch \/ Awaited \/ Join \/ Crash \/ Store \/ Decide \/ Succeed
    \/ ExportRead \/ ExportFails \/ GitRead \/ Complete \/ Tell

Next ==
    \/ Write \/ Commit \/ Exit
    \/ Reading
    \/ RequestCancel \/ TimesOut \/ GraceEnds
    \/ Execute

(* The loop goes on, calls to Telegram return and exports end.  Nobody has   *)
(* to cancel, and the timeout may be far away.                               *)
Fairness == WF_vars(Reading) /\ WF_vars(Execute)

Spec == Init /\ [][Next]_vars
FairSpec == Spec /\ Fairness

-----------------------------------------------------------------------------

TypeOK ==
    /\ task \in Tasks
    /\ speaks \in {"old", "new"}
    /\ written \in Seq(Kinds)
    /\ proc \in {None, "running", "ok", "failed"}
    /\ head \in {"before", "after"}
    /\ read \in 0..Len(written)
    /\ reader \in {None, "reading", "telling", "stopped", "failed"}
    /\ heard \in {None, "old", "new"}
    /\ logged \in SUBSET Lines
    /\ last \in 0..Len(written)
    /\ asked \in BOOLEAN
    /\ pc \in {"start", "announce", "waiting", "term", "kill", "join", "store", "decide",
               "export", "git", "summary", "tell", "told"}
    /\ timedOut \in BOOLEAN
    /\ tries \in 0..Attempts

\* What a task that is said to be COMPLETED leaves on record is the end of all that
\* OpenCode wrote, stdout before stderr: the last line before the exit is not missing
\* and no line in between is, although lines wait in the pipe and the reader waits for
\* Telegram (task_executor.py:120-125).  A conversation is answered with the last text.
OutputOnRecord ==
    reply.status = "COMPLETED" =>
        /\ row.log = LogTail({n \in Lines : written[n] \in HasText}, row.errors)
        /\ task.interactive =>
              \/ reply.line = 0 /\ \A n \in Lines : written[n] # "text"
              \/ written[reply.line] = "text" /\ \A n \in Lines : n > reply.line => written[n] # "text"

\* The row, the session and OpenCode agree on the conversation of a completed run, so
\* that the next message continues it ("reused by every following message of the same
\* conversation", models.py:64); and a commit that is reported was made during the run.
RecordIsTrue ==
    reply.status = "COMPLETED" =>
        /\ (\E n \in Lines : written[n] \in HasText \cup {"bare"}) =>
              row.session = speaks /\ (task.interactive => talk = speaks)
        /\ row.commit # None => head = "after"

\* OpenCode is not kept waiting at a full pipe, however slow the chats take the
\* progress: not unless the task was cancelled or the reader met a line that is too long.
KeepsMoving ==
    PipeFull /\ proc = "running" ~> ~PipeFull \/ Exited \/ asked \/ reader = "failed"
=============================================================================
