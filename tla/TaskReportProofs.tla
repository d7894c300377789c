--------------------------- MODULE TaskReportProofs ---------------------------
(***************************************************************************)
(* Proofs about TaskReport, for output of any length, any size of the pipe *)
(* and any number of attempts at the export, and about the messages it is  *)
(* announced in, for any text and any limit.                               *)
(***************************************************************************)
EXTENDS TaskReport, FiniteSetTheorems, WellFoundedInduction, TLAPS

Statuses == {"RUNNING", "FAILED", "CANCELLED", "COMPLETED"}
Heads == {None, "before", "after"}
Sayings == [answer : {None, "nothing", "own", "earlier", "any"}, commit : Heads \cup {"any"}]

Rows == [status : Statuses, session : {None, "old", "new"}, log : SUBSET Nat, errors : Nat,
         summary : Sayings, commit : Heads]

Types ==
    /\ task \in Tasks
    /\ speaks \in {"old", "new"}
    /\ written \in Seq(Kinds)
    /\ read \in 0..Len(written)
    /\ heard \in {None, speaks}
    /\ asked \in BOOLEAN
    /\ head \in {"before", "after"}
    /\ row \in Rows
    /\ logged \in SUBSET Nat
    /\ last \in Nat
    /\ reply \in [status : Statuses \cup {None}, line : Nat]

\* What _read_events keeps is what it has read, as long as nobody has cancelled; and it
\* stops at the end only.
Kept ==
    ~asked =>
        /\ logged = {n \in 1..read : written[n] \in HasText}
        /\ \/ last = 0 /\ \A n \in 1..read : written[n] # "text"
           \/ /\ last \in 1..read /\ written[last] = "text"
              /\ \A n \in 1..read : n > last => written[n] # "text"
        /\ (\E n \in 1..read : written[n] \in HasText \cup {"bare"}) => heard = speaks
        /\ reader = "stopped" => read = Len(written) /\ Exited

\* A run that has succeeded, up to its row and its answer.
Completed == pc \in {"tell", "told"} /\ row.status = "COMPLETED"
Succeeds == pc \in {"export", "git", "summary"} \/ Completed

\* What execute relies on after the reader, and after the cancellations.
Joined ==
    /\ pc \in {"store", "decide"} \/ Succeeds => reader = "stopped"
    /\ Succeeds => ~asked
    /\ pc = "decide" \/ Succeeds => (heard # None /\ task.interactive => talk = heard)

\* HEAD is what git has said it is.
Observed ==
    /\ found \in [answer : {"nothing", "own", "earlier"}, was : {None, "before"}, is : Heads]
    /\ found.is = "after" => head = "after"

\* What is on record and told of a run that has succeeded.
Recorded ==
    /\ Completed => row.log = LogTail(logged, row.errors) /\ row.session = heard /\ (row.commit # None => head = "after")
    /\ reply.status = "COMPLETED" =>
          pc = "told" /\ row.status = "COMPLETED" /\ (task.interactive => reply.line = last)

IInv == Types /\ Kept /\ Joined /\ Observed /\ Recorded

LEMMA InitIInv == Init => IInv
<1> SUFFICES ASSUME Init PROVE IInv
  OBVIOUS
<1> USE DEF Init
<1>1. Types
  <2>1. task \in Tasks /\ task.session \in {None, "old"}
    <3>1. CASE task = [interactive |-> FALSE, session |-> None]
      <4>1. task.session = None
        BY <3>1
      <4> QED BY <4>1
    <3>2. CASE task \in [interactive : {TRUE}, session : {None, "old"}]
      BY <3>2
    <3> QED BY <3>1, <3>2 DEF Tasks
  <2>2. /\ row.status = "RUNNING"
        /\ row \in Rows
    BY <2>1 DEF Rows, Statuses, Heads, Sayings, NoSummary, None
  <2>3. written \in Seq(Kinds) /\ Len(written) = 0 /\ asked \in BOOLEAN
    OBVIOUS
  <2>4. reply \in [status : Statuses \cup {None}, line : Nat]
    BY DEF None
  <2>5. speaks \in {"old", "new"}
    OBVIOUS
  <2> QED BY <2>1, <2>2, <2>3, <2>4, <2>5 DEF Types
<1>2. Kept
  BY DEF Kept, None
<1>3. Joined /\ Recorded
  BY DEF Joined, Recorded, Completed, Succeeds, None
<1>4. Observed
  BY DEF Observed, GitSays, Heads, None
<1> QED BY <1>1, <1>2, <1>3, <1>4 DEF IInv

\* OpenCode and the repository.
LEMMA RunStep == IInv /\ (Write \/ Commit \/ Exit) => IInv'
<1> SUFFICES ASSUME IInv, Write \/ Commit \/ Exit PROVE IInv'
  OBVIOUS
<1> USE DEF IInv
<1>1. CASE Write
  <2> USE DEF readVars, execVars, outVars, splitVars
  <2>1. PICK k \in Kinds : written' = Append(written, k)
    BY <1>1 DEF Write
  <2>2. /\ written' \in Seq(Kinds) /\ Len(written') = Len(written) + 1
        /\ \A n \in 1..Len(written) : written'[n] = written[n]
    BY <2>1 DEF Types
  <2>3. /\ proc = "running"
        /\ UNCHANGED <<task, speaks, proc, head, readVars, execVars, outVars>>
    BY <1>1 DEF Write
  <2>4. Types'
    BY <2>2, <2>3 DEF Types
  <2>5. Kept'
    <3>1. \A n \in 1..read : written'[n] = written[n]
      BY <2>2 DEF Types
    <3>2. ~asked => reader # "stopped"
      BY <2>3 DEF Kept, Exited
    <3> QED BY <2>2, <2>3, <3>1, <3>2 DEF Kept, Types
  <2>6. Joined' /\ Observed' /\ Recorded'
    BY <2>3 DEF Joined, Observed, Recorded, Succeeds, Completed
  <2> QED BY <2>4, <2>5, <2>6
<1>2. CASE Commit
  BY <1>2 DEF Commit, readVars, execVars, outVars, Types, Kept, Joined, Observed, Recorded,
     Succeeds, Completed, Exited
<1>3. CASE Exit
  BY <1>3 DEF Exit, readVars, execVars, outVars, Types, Kept, Joined, Observed, Recorded,
     Succeeds, Completed, Exited
<1> QED BY <1>1, <1>2, <1>3

\* The reader.
LEMMA ReadingStep == IInv /\ Reading => IInv'
<1> SUFFICES ASSUME IInv, Reading PROVE IInv'
  OBVIOUS
<1> USE DEF IInv, runVars, execVars, outVars
<1>1. reader \in {"reading", "telling"}
  BY DEF Reading, Read, Told, ReadAll
<1>2. ~Succeeds /\ pc \notin {"store", "decide"}
  BY <1>1 DEF Joined
<1>3. CASE Read
  <2> DEFINE n == read + 1
  <2>1. /\ n \in 1..Len(written) /\ written[n] \in Kinds
        /\ read' = n /\ 1..n = 1..read \cup {n} /\ last \in Nat
        /\ UNCHANGED <<runVars, execVars, outVars>>
    BY <1>3 DEF Read, Types
  <2>2. CASE /\ written[n] \notin HasText \cup {"bare"}
             /\ UNCHANGED <<heard, logged, last>> /\ (reader' # "stopped" \/ asked)
    <3>1. Types'
      BY <2>1, <2>2 DEF Types
    <3>2. Kept'
      BY <2>1, <2>2 DEF Kept, Types, HasText
    <3> QED BY <1>2, <2>1, <2>2, <3>1, <3>2 DEF Joined, Observed, Recorded, Succeeds, Completed
  <2>3. CASE asked /\ UNCHANGED <<heard, logged, last>>
    BY <1>2, <2>1, <2>3 DEF Types, Kept, Joined, Observed, Recorded, Succeeds, Completed
  <2>4. CASE written[n] \notin {"junk", "long"} /\ Hear(n)
    <3>1. Types'
      BY <2>1, <2>4 DEF Hear, Types
    <3>2. Kept'
      BY <2>1, <2>4 DEF Hear, Kept, Types, HasText, Kinds
    <3> QED BY <1>2, <2>1, <2>4, <3>1, <3>2
            DEF Hear, Joined, Observed, Recorded, Succeeds, Completed
  <2> QED BY <1>3, <2>2, <2>3, <2>4 DEF Read, HasText
<1>4. CASE Told
  BY <1>2, <1>4 DEF Told, Types, Kept, Joined, Observed, Recorded, Succeeds, Completed, Exited
<1>5. CASE ReadAll
  BY <1>2, <1>5 DEF ReadAll, Types, Kept, Joined, Observed, Recorded, Succeeds, Completed, Exited
<1> QED BY <1>3, <1>4, <1>5 DEF Reading

\* The steps of execute up to the end of the reader, and those around it.
LEMMA WaitingStep ==
    ASSUME IInv,
           \/ Announce \/ Send \/ Launch \/ Awaited \/ Join
           \/ RequestCancel \/ TimesOut \/ GraceEnds
    PROVE  IInv'
<1> USE DEF IInv, Goto, runVars, readVars, execVars, outVars
<1>1. ASSUME pc \in {"start", "announce", "waiting", "term", "kill", "join"},
             pc' \notin {"decide", "export", "git", "summary", "tell", "told"},
             pc' = "store" => reader = "stopped",
             UNCHANGED <<readVars, asked, found, outVars>>,
             UNCHANGED <<task, speaks, written, proc, head>>
      PROVE  IInv'
  <2>1. Types'
    BY <1>1 DEF Types
  <2>2. Kept'
    BY <1>1 DEF Kept, Exited
  <2>3. Joined'
    BY <1>1 DEF Joined, Succeeds, Completed
  <2>4. Observed' /\ Recorded'
    BY <1>1 DEF Observed, Recorded, Completed
  <2> QED BY <2>1, <2>2, <2>3, <2>4
<1>2. CASE Announce
  BY <1>1, <1>2 DEF Announce
<1>3. CASE Send
  BY <1>3 DEF Send, Types, Kept, Joined, Observed, Recorded, Succeeds, Completed, Exited
<1>4. CASE Launch
  BY <1>4 DEF Launch, Types, Kept, Joined, Observed, Recorded, Succeeds, Completed, Exited
<1>5. CASE Awaited \/ Join \/ GraceEnds
  BY <1>1, <1>5 DEF Awaited, Join, GraceEnds
<1>6. CASE TimesOut
  BY <1>1, <1>6 DEF TimesOut
<1>7. CASE RequestCancel
  BY <1>7 DEF RequestCancel, Types, Kept, Joined, Observed, Recorded, Succeeds, Completed
<1> QED BY <1>2, <1>3, <1>4, <1>5, <1>6, <1>7

\* The row mark_finished writes.
Row(status, summary, commit, errors) ==
    [status |-> status, session |-> heard, log |-> LogTail(logged, errors),
     errors |-> errors, summary |-> summary, commit |-> commit]

LEMMA FinishFact ==
    ASSUME NEW status, NEW summary, NEW commit, Finish(status, summary, commit)
    PROVE  \E errors \in 0..ErrorLines : row' = Row(status, summary, commit, errors)
BY DEF Finish, Row

LEMMA RowFact ==
    ASSUME Types, NEW status \in Statuses, NEW summary \in Sayings, NEW commit \in Heads,
           NEW errors \in 0..ErrorLines
    PROVE  /\ Row(status, summary, commit, errors) \in Rows
           /\ Row(status, summary, commit, errors).status = status
           /\ Row(status, summary, commit, errors).commit = commit
           /\ Row(status, summary, commit, errors).session = heard
           /\ Row(status, summary, commit, errors).errors = errors
           /\ Row(status, summary, commit, errors).log = LogTail(logged, errors)
<1>1. LogTail(logged, errors) \in SUBSET Nat
  BY DEF LogTail, Types
<1>2. errors \in Nat
  BY ReportAssumption
<1>3. heard \in {None, "old", "new"}
  BY DEF Types
<1> QED BY <1>1, <1>2, <1>3 DEF Row, Rows

\* The steps that end an execution otherwise than well, and the one that stores.
LEMMA StoringStep == IInv /\ (Crash \/ Store \/ Decide) => IInv'
<1> SUFFICES ASSUME IInv, Crash \/ Store \/ Decide PROVE IInv'
  OBVIOUS
<1> USE DEF IInv, Goto, runVars, readVars, execVars, outVars, Types, Joined, Observed,
            Recorded, Succeeds, Completed, Statuses, Heads
<1>1. Kept'
  BY DEF Crash, Store, Decide, Kept, Exited
<1>2. CASE Crash
  <2>1. row' \in Rows /\ row'.status = "FAILED"
    BY <1>2 DEF Crash, Rows
  <2> QED BY <1>1, <1>2, <2>1 DEF Crash
<1>3. CASE Store
  BY <1>1, <1>3 DEF Store, Rows
<1>4. CASE Decide
  <2>1. NoSummary \in Sayings /\ None \in Heads
    BY DEF None, NoSummary, Sayings
  <2>2. PICK s \in {"CANCELLED", "FAILED"} : Finish(s, NoSummary, None)
    BY <1>4 DEF Decide
  <2>3. PICK errors \in 0..ErrorLines : row' = Row(s, NoSummary, None, errors)
    BY <2>2, FinishFact
  <2>4. s \in Statuses /\ s # "COMPLETED"
    OBVIOUS
  <2>5. row' \in Rows /\ row'.status # "COMPLETED"
    BY <2>1, <2>3, <2>4, RowFact
  <2> QED BY <1>1, <1>4, <2>5 DEF Decide, Rows
<1> QED BY <1>2, <1>3, <1>4

\* _finish_success.
LEMMA FinishingStep ==
    ASSUME IInv, Succeed \/ ExportRead \/ ExportFails \/ GitRead \/ Complete \/ Tell
    PROVE  IInv'
<1> USE DEF IInv, Goto, runVars, readVars, execVars, outVars, Types, Joined, Observed,
            Recorded, Succeeds, Completed, Statuses, Heads
<1>1. Kept'
  BY DEF Succeed, ExportRead, ExportFails, GitRead, Complete, Tell, Kept, Exited
<1>2. CASE Succeed
  BY <1>1, <1>2 DEF Succeed
<1>3. CASE ExportRead
  BY <1>1, <1>3 DEF ExportRead, AnswerOnRecord
<1>4. CASE ExportFails
  BY <1>1, <1>4 DEF ExportFails
<1>5. CASE GitRead
  BY <1>1, <1>5 DEF GitRead, GitSays, None
<1>6. CASE Complete
  <2>1. CommitCreated \in Heads /\ (CommitCreated # None => head = "after")
    BY DEF CommitCreated, None
  <2>2. PICK summary \in Generated \cup {NoSummary} : Finish("COMPLETED", summary, CommitCreated)
    BY <1>6 DEF Complete
  <2>3. summary \in Sayings
    BY <2>1 DEF Generated, Deterministic, NoSummary, Sayings
  <2>4. pc = "summary" /\ pc' = "tell"
        /\ UNCHANGED <<asked, timedOut, tries, found, talk, reply, runVars, readVars>>
    BY <1>6 DEF Complete
  <2>5. PICK errors \in 0..ErrorLines : row' = Row("COMPLETED", summary, CommitCreated, errors)
    BY <2>2, FinishFact
  <2>6. /\ row' \in Rows /\ row'.commit = CommitCreated
        /\ row'.log = LogTail(logged, row'.errors) /\ row'.session = heard
    BY <2>1, <2>3, <2>5, RowFact
  <2> QED BY <1>1, <2>1, <2>4, <2>6 DEF Rows
<1>7. CASE Tell
  BY <1>1, <1>7 DEF Tell, Rows
<1> QED BY <1>2, <1>3, <1>4, <1>5, <1>6, <1>7

LEMMA StepIInv == IInv /\ [Next]_vars => IInv'
<1>1. IInv /\ UNCHANGED vars => IInv'
  BY DEF vars, IInv, Types, Kept, Joined, Observed, Recorded, Succeeds, Completed, Exited
<1> QED BY <1>1, RunStep, ReadingStep, WaitingStep, StoringStep, FinishingStep DEF Next, Execute

\* The inductive invariant, of which the next theorems are consequences.
THEOREM ReportInvariant == Spec => []IInv
BY InitIInv, StepIInv, PTL DEF Spec

\* What a completed task has on record is the end of all that OpenCode wrote, and a
\* conversation is answered with the last text of it, however long the output is,
\* however much of it is kept and whenever it is read.
THEOREM OutputRecorded == Spec => []OutputOnRecord
<1>1. IInv => OutputOnRecord
  <2> SUFFICES ASSUME IInv, reply.status = "COMPLETED" PROVE OutputOnRecord
    BY DEF OutputOnRecord
  <2>1. Completed
    BY DEF IInv, Recorded, Completed
  <2>2. ~asked /\ reader = "stopped"
    BY <2>1 DEF IInv, Joined, Succeeds
  <2>3. 1..read = Lines
    BY <2>2 DEF IInv, Kept, Lines
  <2> QED BY <2>1, <2>2, <2>3 DEF IInv, Kept, Recorded, OutputOnRecord, Types
<1> QED BY ReportInvariant, <1>1, PTL

\* The row, the session and OpenCode agree on the conversation of a completed run, and a
\* commit that is reported was made.
THEOREM TrueRecords == Spec => []RecordIsTrue
<1>1. IInv => RecordIsTrue
  <2> SUFFICES ASSUME IInv, reply.status = "COMPLETED" PROVE RecordIsTrue
    BY DEF RecordIsTrue
  <2>1. Completed
    BY DEF IInv, Recorded, Completed
  <2>2. ~asked /\ reader = "stopped" /\ (heard # None /\ task.interactive => talk = heard)
    BY <2>1 DEF IInv, Joined, Succeeds
  <2>3. 1..read = Lines
    BY <2>2 DEF IInv, Kept, Lines
  <2> QED BY <2>1, <2>2, <2>3 DEF IInv, Kept, Recorded, RecordIsTrue, Types, None
<1> QED BY ReportInvariant, <1>1, PTL

-----------------------------------------------------------------------------
(* The messages of the announcement.                                         *)

\* The least and the largest element, as far as sets of positions are concerned.
LEMMA MinFact ==
    ASSUME NEW S \in SUBSET Nat, S # {}
    PROVE  Min(S) \in S /\ \A y \in S : Min(S) <= y
<1> DEFINE R == {ss \in Nat \X Nat : ss[1] < ss[2]}
<1>0. IsWellFoundedOn(R, Nat)
  BY NatLessThanWellFounded DEF OpToRel
<1>1. PICK x \in S : \A y \in S : ~ (<<y, x>> \in R)
  <2> HIDE DEF R
  <2> QED BY <1>0, WFMin
<1>2. \A y \in S : x <= y
  <2> SUFFICES ASSUME NEW y \in S PROVE x <= y
    OBVIOUS
  <2>1. <<y, x>> \notin R
    BY <1>1
  <2>2. ~ (y < x)
    BY <2>1
  <2> QED BY <2>2
<1>3. \E z \in S : \A y \in S : z <= y
  BY <1>2
<1> QED BY <1>3 DEF Min

LEMMA MaxFact ==
    ASSUME NEW n \in Nat, NEW S \in SUBSET (0..n), S # {}
    PROVE  Max(S) \in S /\ \A y \in S : Max(S) >= y
<1> DEFINE T == {n - y : y \in S}
<1>1. T \in SUBSET Nat /\ T # {}
  <2>1. \A y \in S : n - y \in Nat
    OBVIOUS
  <2> QED BY <2>1
<1> DEFINE m == Min(T)
<1>2. m \in T /\ \A z \in T : m <= z
  BY <1>1, MinFact
<1> HIDE DEF m
<1>3. PICK x \in S : m = n - x
  BY <1>2
<1>4. \A y \in S : x >= y
  <2> SUFFICES ASSUME NEW y \in S PROVE x >= y
    OBVIOUS
  <2>1. n - x <= n - y
    BY <1>2, <1>3
  <2> QED BY <2>1
<1>5. \E z \in S : \A y \in S : z >= y
  BY <1>4
<1> QED BY <1>5 DEF Max

\* A character lies in an interval without newlines that is bounded by newlines or by the text.
LEMMA LineIs ==
    ASSUME text \in Seq(BOOLEAN), NEW i \in 1..Size, ~Newline(i)
    PROVE  \E a \in 1..i, b \in i..Size :
              /\ Line(i) = a..b
              /\ Cardinality(Line(i)) = b - a + 1
              /\ \A j \in a..b : ~Newline(j)
              /\ a = 1 \/ Newline(a - 1)
              /\ b = Size \/ Newline(b + 1)
<1> DEFINE before == {j \in 1..i : Newline(j)}
           after == {j \in i..Size : Newline(j)}
           a == IF before = {} THEN 1 ELSE Max(before) + 1
           b == IF after = {} THEN Size ELSE Min(after) - 1
<1>0. Size \in Nat
  BY DEF Size
<1>1. /\ a \in 1..i
      /\ \A j \in a..i : ~Newline(j)
      /\ a = 1 \/ Newline(a - 1)
  <2>1. CASE before = {}
    BY <2>1
  <2>2. CASE before # {}
    <3> DEFINE m == Max(before)
    <3>1. m \in before /\ \A y \in before : m >= y
      <4>1. before \in SUBSET (0..Size)
        BY <1>0
      <4> HIDE DEF before
      <4> QED BY <1>0, <2>2, <4>1, MaxFact
    <3>2. a = m + 1
      BY <2>2
    <3> HIDE DEF m, a
    <3> QED BY <3>1, <3>2
  <2> QED BY <2>1, <2>2
<1>2. /\ b \in i..Size
      /\ \A j \in i..b : ~Newline(j)
      /\ b = Size \/ Newline(b + 1)
  <2>1. CASE after = {}
    BY <2>1, <1>0
  <2>2. CASE after # {}
    <3> DEFINE m == Min(after)
    <3>1. m \in after /\ \A y \in after : m <= y
      <4>1. after \in SUBSET Nat
        BY <1>0
      <4> HIDE DEF after
      <4> QED BY <2>2, <4>1, MinFact
    <3>2. b = m - 1
      BY <2>2
    <3> HIDE DEF m, b
    <3> QED BY <3>1, <3>2, <1>0
  <2> QED BY <2>1, <2>2
<1>3. Line(i) = a..b
  BY DEF Line
<1> HIDE DEF a, b
<1>4. Cardinality(a..b) = b - a + 1
  BY <1>0, <1>1, <1>2, FS_Interval
<1>5. \A j \in a..b : ~Newline(j)
  BY <1>0, <1>1, <1>2
<1> QED BY <1>1, <1>2, <1>3, <1>4, <1>5

\* Where the remaining text begins after a cut.
LEMMA SkipFact ==
    ASSUME text \in Seq(BOOLEAN), NEW i \in 1..(Size + 1)
    PROVE  /\ SkipNewlines(i) \in i..(Size + 1)
           /\ \A j \in i..(SkipNewlines(i) - 1) : Newline(j)
           /\ SkipNewlines(i) <= Size => ~Newline(SkipNewlines(i))
<1> DEFINE S == {j \in i..Size : ~Newline(j)} \cup {Size + 1}
           m == Min(S)
<1>0. Size \in Nat
  BY DEF Size
<1>1. m \in S /\ \A y \in S : m <= y
  <2>1. S \in SUBSET Nat /\ S # {}
    BY <1>0
  <2> HIDE DEF S
  <2> QED BY <2>1, MinFact
<1>2. SkipNewlines(i) = m
  BY DEF SkipNewlines
<1> HIDE DEF m
<1>3. m \in i..(Size + 1) /\ (m <= Size => ~Newline(m))
  BY <1>0, <1>1
<1>4. \A j \in i..(m - 1) : Newline(j)
  BY <1>0, <1>1, <1>3
<1> QED BY <1>2, <1>3, <1>4

\* Where the cut is.
LEMMA CutFact ==
    ASSUME text \in Seq(BOOLEAN), rest \in 1..(Size + 1), Size - rest + 1 > Limit
    PROVE  /\ CutAt \in (rest + 1)..(rest + Limit)
           /\ CutAt <= Size
           /\ \/ Newline(CutAt)
              \/ CutAt = rest + Limit /\
                   (Newline(rest) \/ \A j \in rest..(rest + Limit - 1) : ~Newline(j))
<1> DEFINE breaks == {i \in rest..(rest + Limit - 1) : Newline(i)}
           m == Max(breaks)
<1>0. Size \in Nat /\ Limit \in Nat \ {0}
  BY LimitAssumption DEF Size
<1>1. CASE breaks = {}
  <2>1. CutAt = rest + Limit
    BY <1>1 DEF CutAt
  <2> QED BY <1>0, <1>1, <2>1
<1>2. CASE breaks # {}
  <2>1. m \in breaks
    <3>1. breaks \in SUBSET (0..(rest + Limit))
      BY <1>0
    <3>2. rest + Limit \in Nat
      BY <1>0
    <3> HIDE DEF breaks
    <3> QED BY <1>2, <3>1, <3>2, MaxFact
  <2>2. CutAt = IF m = rest THEN rest + Limit ELSE m
    BY <1>2 DEF CutAt
  <2> HIDE DEF m
  <2> QED BY <1>0, <2>1, <2>2
<1> QED BY <1>1, <1>2

Long(i) == Cardinality(Line(i)) > Limit

\* The messages so far lie one behind the other before the rest.
Pieces ==
    /\ \A c \in chunks :
          /\ c.first \in Nat /\ c.last \in Nat
          /\ 1 <= c.first /\ c.first <= c.last /\ c.last < rest
          /\ c.last - c.first < Limit
    /\ \A c, d \in chunks : \A i \in Nat : In(i, c) /\ In(i, d) => c = d
    /\ \A i \in 1..Size : i < rest /\ ~Newline(i) => \E c \in chunks : In(i, c)

\* The rest begins with a line, or within one that fits into no message.
Begins ==
    rest > 1 /\ rest <= Size =>
        /\ ~Newline(rest)
        /\ ~Newline(1) => Newline(rest - 1) \/ Long(rest)

SplitInv ==
    /\ text \in Seq(BOOLEAN)
    /\ rest \in 1..(Size + 1)
    /\ Pieces
    /\ Begins
    /\ LinesKept

\* A line that fits and reaches into the rest begins in it.
LEMMA RestLine ==
    ASSUME SplitInv, NEW i \in rest..Size, ~Newline(i), ~Newline(1),
           NEW a \in 1..i, NEW b \in i..Size, b - a + 1 <= Limit,
           \A j \in a..b : ~Newline(j), a = 1 \/ Newline(a - 1), b = Size \/ Newline(b + 1)
    PROVE  a >= rest
<1> SUFFICES ASSUME a < rest PROVE FALSE
  BY DEF SplitInv, Size
<1>0. Size \in Nat /\ Limit \in Nat \ {0} /\ text \in Seq(BOOLEAN) /\ rest \in 1..(Size + 1)
  BY LimitAssumption DEF SplitInv, Size
<1>1. rest - 1 \in a..b /\ rest \in a..b /\ rest > 1 /\ rest \in 1..Size
  BY <1>0
<1>2. ~Newline(rest - 1) /\ ~Newline(rest)
  BY <1>1
<1>3. Long(rest)
  BY <1>0, <1>1, <1>2 DEF SplitInv, Begins
<1>4. PICK c \in 1..rest, d \in rest..Size :
              /\ Cardinality(Line(rest)) = d - c + 1
              /\ \A j \in c..d : ~Newline(j)
              /\ c = 1 \/ Newline(c - 1)
              /\ d = Size \/ Newline(d + 1)
  BY <1>0, <1>1, <1>2, LineIs
<1>5. c >= a
  <2> SUFFICES ASSUME c < a PROVE FALSE
    BY <1>0
  <2>1. a - 1 \in c..d /\ a # 1
    BY <1>0, <1>1
  <2> QED BY <1>4, <2>1
<1>6. d <= b
  <2> SUFFICES ASSUME d > b PROVE FALSE
    BY <1>0
  <2>1. b + 1 \in c..d /\ b # Size
    BY <1>0, <1>1
  <2> QED BY <1>4, <2>1
<1>7. d - c + 1 <= Limit
  BY <1>0, <1>5, <1>6
<1> QED BY <1>0, <1>3, <1>4, <1>7 DEF Long

\* One more message, of the beginning of the rest.
LEMMA AddPiece ==
    ASSUME SplitInv, NEW e \in (rest + 1)..(Size + 1), e - rest <= Limit, text' = text,
           chunks' = chunks \cup {[first |-> rest, last |-> e - 1]},
           rest' \in e..(Size + 1), \A j \in e..(rest' - 1) : Newline(j),
           \/ e = Size + 1
           \/ Newline(e)
           \/ e = rest + Limit /\ (Newline(rest) \/ \A j \in rest..(rest + Limit - 1) : ~Newline(j))
    PROVE  Pieces' /\ LinesKept'
<1> DEFINE c == [first |-> rest, last |-> e - 1]
<1>0. Size \in Nat /\ Limit \in Nat \ {0} /\ text \in Seq(BOOLEAN) /\ rest \in 1..(Size + 1)
  BY LimitAssumption DEF SplitInv, Size
<1>1. Size' = Size /\ (\A i : Newline(i)' = Newline(i)) /\ (\A i : Line(i)' = Line(i))
  BY DEF Size, Newline, Line
<1>2. c.first = rest /\ c.last = e - 1 /\ chunks' = chunks \cup {c}
  OBVIOUS
<1> HIDE DEF c
<1>3. Pieces'
  <2>1. ASSUME NEW d \in chunks'
        PROVE  /\ d.first \in Nat /\ d.last \in Nat
               /\ 1 <= d.first /\ d.first <= d.last /\ d.last < rest'
               /\ d.last - d.first < Limit
    <3>1. CASE d \in chunks
      BY <1>0, <3>1 DEF SplitInv, Pieces
    <3>2. CASE d = c
      BY <1>0, <1>2, <3>2
    <3> QED BY <1>2, <3>1, <3>2
  <2>2. ASSUME NEW d \in chunks', NEW f \in chunks', NEW i \in Nat, In(i, d), In(i, f)
        PROVE  d = f
    <3>1. \A g \in chunks : ~ (In(i, g) /\ In(i, c))
      BY <1>0, <1>2 DEF SplitInv, Pieces, In
    <3> QED BY <1>2, <2>2, <3>1 DEF SplitInv, Pieces
  <2>3. ASSUME NEW i \in 1..Size, i < rest', ~Newline(i)
        PROVE  \E d \in chunks' : In(i, d)
    <3>1. CASE i < rest
      BY <1>2, <2>3, <3>1 DEF SplitInv, Pieces
    <3>2. CASE rest <= i /\ i < e
      BY <1>0, <1>2, <3>2 DEF In
    <3>3. CASE e <= i
      <4>1. \A r, n \in Nat : e <= n /\ n < r => n \in e..(r - 1)
        BY <1>0
      <4>2. rest' \in Nat /\ i \in Nat
        BY <1>0
      <4>3. i \in e..(rest' - 1)
        BY <2>3, <3>3, <4>1, <4>2
      <4> QED BY <2>3, <4>3
    <3> QED BY <1>0, <3>1, <3>2, <3>3
  <2> QED BY <1>1, <2>1, <2>2, <2>3 DEF Pieces, In
<1>4. ASSUME NEW i \in 1..Size, ~Newline(i), ~Newline(1), Cardinality(Line(i)) <= Limit, In(i, c)
      PROVE  \A j \in Line(i) : In(j, c)
  <2>0. i \in rest..Size /\ i < e
    BY <1>0, <1>2, <1>4 DEF In
  <2>1. PICK a \in 1..i, b \in i..Size :
              /\ Line(i) = a..b
              /\ Cardinality(Line(i)) = b - a + 1
              /\ \A j \in a..b : ~Newline(j)
              /\ a = 1 \/ Newline(a - 1)
              /\ b = Size \/ Newline(b + 1)
    BY <1>0, <1>4, LineIs
  <2>2. b - a + 1 <= Limit
    BY <1>4, <2>1
  <2>3. a >= rest
    BY <1>4, <2>0, <2>1, <2>2, RestLine
  <2>4. b < e
    <3>1. CASE e = Size + 1
      BY <1>0, <3>1
    <3>2. CASE Newline(e)
      BY <1>0, <2>0, <2>1, <3>2
    <3>3. CASE e = rest + Limit /\ Newline(rest)
      BY <1>0, <1>4, <3>3 DEF SplitInv, Begins
    <3>4. CASE e = rest + Limit /\ \A j \in rest..(rest + Limit - 1) : ~Newline(j)
      <4>1. a <= rest
        <5> SUFFICES ASSUME a > rest PROVE FALSE
          BY <1>0
        <5>1. a - 1 \in rest..(rest + Limit - 1) /\ a # 1
          BY <1>0, <2>0, <3>4
        <5> QED BY <2>1, <3>4, <5>1
      <4> QED BY <1>0, <2>2, <3>4, <4>1
    <3> QED BY <3>1, <3>2, <3>3, <3>4
  <2> QED BY <1>0, <1>2, <2>1, <2>3, <2>4 DEF In
<1>5. LinesKept'
  BY <1>1, <1>2, <1>4 DEF SplitInv, LinesKept, In
<1> QED BY <1>3, <1>5

\* A turn of the loop.
LEMMA SplitsOn ==
    ASSUME SplitInv, Splitting
    PROVE  SplitInv'
<1>0. Size \in Nat /\ Limit \in Nat \ {0} /\ text \in Seq(BOOLEAN) /\ rest \in 1..(Size + 1)
  BY LimitAssumption DEF SplitInv, Size
<1>1. text' = text /\ Size' = Size /\ (\A i : Newline(i)' = Newline(i)) /\ (\A i : Line(i)' = Line(i))
  BY DEF Splitting, Cut, CutLast, Size, Newline, Line
<1>2. CASE Cut
  <2> DEFINE e == CutAt
  <2>1. /\ e \in (rest + 1)..(rest + Limit) /\ e <= Size
        /\ \/ Newline(e)
           \/ e = rest + Limit /\ (Newline(rest) \/ \A j \in rest..(rest + Limit - 1) : ~Newline(j))
    BY <1>0, <1>2, CutFact DEF Cut
  <2>2. chunks' = chunks \cup {[first |-> rest, last |-> e - 1]} /\ rest' = SkipNewlines(e)
    BY <1>2 DEF Cut
  <2> HIDE DEF e
  <2>3. /\ rest' \in e..(Size + 1)
        /\ \A j \in e..(rest' - 1) : Newline(j)
        /\ rest' <= Size => ~Newline(rest')
    <3>1. e \in 1..(Size + 1)
      BY <1>0, <2>1
    <3> QED BY <1>0, <2>2, <3>1, SkipFact
  <2>4. Pieces' /\ LinesKept'
    <3>1. e \in (rest + 1)..(Size + 1) /\ e - rest <= Limit
      BY <1>0, <2>1
    <3> QED BY <1>1, <2>1, <2>2, <2>3, <3>1, AddPiece
  <2>5. rest' \in 1..(Size + 1) /\ e \in Nat
    BY <1>0, <2>1, <2>3
  <2>6. ASSUME rest' <= Size, ~Newline(1)
        PROVE  Newline(rest' - 1) \/ Long(rest')
    <3>1. CASE rest' # e
      <4>1. \A r \in Nat : e <= r /\ r # e => r - 1 \in e..(r - 1)
        BY <2>5
      <4>2. rest' \in Nat /\ e <= rest'
        BY <1>0, <2>3, <2>5
      <4>3. rest' - 1 \in e..(rest' - 1)
        BY <3>1, <4>1, <4>2
      <4> QED BY <2>3, <4>3
    <3>2. CASE rest' = e
      <4>1. /\ e = rest + Limit /\ \A j \in rest..(rest + Limit - 1) : ~Newline(j)
        <5>1. ~Newline(e)
          BY <2>3, <2>6, <3>2
        <5>2. ~Newline(rest)
          BY <1>0, <2>1, <2>6 DEF SplitInv, Begins
        <5> QED BY <2>1, <5>1, <5>2
      <4>2. e \in 1..Size /\ ~Newline(e)
        BY <1>0, <2>3, <2>5, <2>6, <3>2
      <4>3. PICK a \in 1..e, b \in e..Size :
              /\ Cardinality(Line(e)) = b - a + 1
              /\ a = 1 \/ Newline(a - 1)
        BY <1>0, <4>2, LineIs
      <4>4. a <= rest
        <5> SUFFICES ASSUME a > rest PROVE FALSE
          BY <1>0
        <5>1. a - 1 \in rest..(rest + Limit - 1) /\ a # 1
          BY <1>0, <4>1
        <5> QED BY <4>1, <4>3, <5>1
      <4>5. b - a + 1 > Limit
        BY <1>0, <4>1, <4>4
      <4> QED BY <3>2, <4>3, <4>5 DEF Long
    <3> QED BY <3>1, <3>2
  <2>7. Begins'
    BY <1>1, <2>3, <2>6 DEF Begins, Long
  <2> QED BY <1>0, <1>1, <2>4, <2>5, <2>7 DEF SplitInv
<1>3. CASE CutLast
  <2>1. rest' = Size + 1 /\ Size - rest + 1 <= Limit
    BY <1>3 DEF CutLast
  <2>2. Begins'
    BY <1>0, <1>1, <2>1 DEF Begins
  <2>3. CASE rest <= Size
    <3>1. chunks' = chunks \cup {[first |-> rest, last |-> (Size + 1) - 1]}
      BY <1>0, <1>3, <2>3 DEF CutLast
    <3>2. /\ Size + 1 \in (rest + 1)..(Size + 1) /\ (Size + 1) - rest <= Limit
          /\ rest' \in (Size + 1)..(Size + 1)
          /\ \A j \in (Size + 1)..(rest' - 1) : Newline(j)
      BY <1>0, <2>1, <2>3
    <3>3. Pieces' /\ LinesKept'
      BY <1>1, <3>1, <3>2, AddPiece
    <3> QED BY <1>0, <1>1, <2>1, <2>2, <3>3 DEF SplitInv
  <2>4. CASE rest > Size
    <3>1. chunks' = chunks /\ rest' = rest
      BY <1>0, <1>3, <2>1, <2>4 DEF CutLast
    <3>2. Pieces' /\ LinesKept'
      BY <1>1, <3>1 DEF SplitInv, Pieces, LinesKept, In
    <3> QED BY <1>0, <1>1, <2>1, <2>2, <3>2 DEF SplitInv
  <2> QED BY <1>0, <2>3, <2>4
<1> QED BY <1>2, <1>3 DEF Splitting

\* A text of which nothing was cut off yet, now or after a step.
LEMMA NothingYet ==
    ASSUME text \in Seq(BOOLEAN), rest = 1, chunks = {}
    PROVE  SplitInv
<1>0. Size \in Nat
  BY DEF Size
<1>1. Pieces /\ Begins /\ LinesKept
  BY <1>0 DEF Pieces, Begins, LinesKept
<1> QED BY <1>0, <1>1 DEF SplitInv

LEMMA NothingYetNext ==
    ASSUME text' \in Seq(BOOLEAN), rest' = 1, chunks' = {}
    PROVE  SplitInv'
<1>0. Size' \in Nat
  BY DEF Size
<1>1. Pieces' /\ Begins' /\ LinesKept'
  BY <1>0 DEF Pieces, Begins, LinesKept
<1>2. rest' \in 1..(Size' + 1)
  <2>1. \A n \in Nat : 1 \in 1..(n + 1)
    OBVIOUS
  <2> QED BY <1>0, <2>1
<1> QED BY <1>1, <1>2 DEF SplitInv

\* What the invariant is for.
LEMMA SplitIsSo == SplitInv => SplitIsFaithful
<1> SUFFICES ASSUME SplitInv PROVE SplitIsFaithful
  OBVIOUS
<1>1. ASSUME NEW i \in 1..Size, i < rest
      PROVE  LET holders == {c \in chunks : In(i, c)}
             IN  Cardinality(holders) <= 1 /\ (~Newline(i) => holders # {})
  <2> DEFINE holders == {c \in chunks : In(i, c)}
  <2>1. \A c, d \in holders : c = d
    BY DEF SplitInv, Pieces
  <2>2. CASE holders = {}
    <3>1. Cardinality(holders) = 0
      BY <2>2, FS_EmptySet
    <3> QED BY <1>1, <2>2, <3>1 DEF SplitInv, Pieces
  <2>3. CASE holders # {}
    <3>1. PICK c : holders = {c}
      BY <2>1, <2>3
    <3>2. Cardinality(holders) = 1
      BY <3>1, FS_Singleton
    <3> QED BY <2>3, <3>2
  <2> QED BY <2>2, <2>3
<1>2. NothingLost
  BY <1>1 DEF SplitInv, Pieces, NothingLost
<1> QED BY <1>2 DEF SplitIsFaithful, SplitInv

LEMMA InitSplit == Init => SplitInv
<1> SUFFICES ASSUME Init PROVE SplitInv
  OBVIOUS
<1>1. text = <<>> /\ rest = 1 /\ chunks = {}
  BY DEF Init, Idle
<1> QED BY <1>1, NothingYet

LEMMA StepSplit == SplitInv /\ [Next]_vars => SplitInv'
<1> SUFFICES ASSUME SplitInv, [Next]_vars PROVE SplitInv'
  OBVIOUS
<1>1. CASE Announce
  <2>1. PICK t \in UNION {[1..n -> BOOLEAN] : n \in 1..MaxText} : Take(t)
    BY <1>1 DEF Announce
  <2>2. text' \in Seq(BOOLEAN)
    <3>1. PICK n \in 1..MaxText : t \in [1..n -> BOOLEAN]
      OBVIOUS
    <3>2. n \in Nat
      BY ReportAssumption
    <3> QED BY <2>1, <3>1, <3>2 DEF Take
  <2>3. Size = 0 /\ rest' = rest /\ chunks' = chunks
    BY <2>1 DEF Take, Size
  <2>4. rest = 1
    BY <2>3 DEF SplitInv
  <2>5. chunks = {}
    BY <2>4 DEF SplitInv, Pieces
  <2> QED BY <2>2, <2>3, <2>4, <2>5, NothingYetNext
<1>2. CASE Send
  BY <1>2, SplitsOn DEF Send
<1>3. CASE Launch
  <2>1. text' = <<>> /\ rest' = 1 /\ chunks' = {}
    BY <1>3 DEF Launch
  <2> QED BY <2>1, NothingYetNext
<1>4. CASE UNCHANGED splitVars
  <2>1. text' = text /\ rest' = rest /\ chunks' = chunks
    BY <1>4 DEF splitVars
  <2>2. Size' = Size /\ (\A i : Newline(i)' = Newline(i)) /\ (\A i : Line(i)' = Line(i))
    BY <2>1 DEF Size, Newline, Line
  <2>3. Pieces' /\ Begins' /\ LinesKept'
    BY <2>1, <2>2 DEF SplitInv, Pieces, Begins, LinesKept, Long, In
  <2> QED BY <2>1, <2>2, <2>3 DEF SplitInv
<1>5. CASE UNCHANGED vars
  BY <1>4, <1>5 DEF vars, splitVars
<1>6. CASE \/ Write \/ Commit \/ Exit \/ Reading \/ RequestCancel \/ TimesOut \/ GraceEnds
           \/ Awaited \/ Join \/ Crash \/ Store \/ Decide \/ Succeed
           \/ ExportRead \/ ExportFails \/ GitRead \/ Complete \/ Tell
  BY <1>4, <1>6 DEF Write, Commit, Exit, Reading, Read, Told, ReadAll, RequestCancel, TimesOut,
     GraceEnds, Awaited, Join, Crash, Store, Decide, Succeed, ExportRead, ExportFails, GitRead,
     Complete, Tell
<1> QED BY <1>1, <1>2, <1>3, <1>5, <1>6 DEF Next, Execute

\* Whatever text is announced and however long a message may be, nothing but newlines
\* is lost, nothing is doubled, and a line that fits is in one message.
THEOREM FaithfulSplit == Spec => []SplitIsFaithful
BY InitSplit, StepSplit, SplitIsSo, PTL DEF Spec

\* split_text comes to an end: every turn of its loop but the last takes something off the
\* text, so that there are at most as many turns as there are characters.
THEOREM SplitGoesOn == Spec => [][Send /\ split' => rest < rest' /\ rest' <= Size + 1]_vars
<1>1. SplitInv => [Send /\ split' => rest < rest' /\ rest' <= Size + 1]_vars
  <2> SUFFICES ASSUME SplitInv, Send, split' PROVE rest < rest' /\ rest' <= Size + 1
    OBVIOUS
  <2>0. Size \in Nat /\ Limit \in Nat /\ text \in Seq(BOOLEAN) /\ rest \in 1..(Size + 1)
    BY LimitAssumption DEF SplitInv, Size
  <2>1. Cut
    BY DEF Send, Splitting, CutLast
  <2> DEFINE e == CutAt
  <2>2. e \in (rest + 1)..(rest + Limit) /\ e <= Size
    BY <2>0, <2>1, CutFact DEF Cut
  <2>3. rest' = SkipNewlines(e)
    BY <2>1 DEF Cut
  <2> HIDE DEF e
  <2>4. e \in 1..(Size + 1) /\ rest < e
    BY <2>0, <2>2
  <2>5. SkipNewlines(e) \in e..(Size + 1)
    BY <2>0, <2>4, SkipFact
  <2> QED BY <2>0, <2>3, <2>4, <2>5
<1> QED BY <1>1, InitSplit, StepSplit, PTL DEF Spec

-----------------------------------------------------------------------------
(* Types.                                                                    *)

\* An export is tried only as long as there are attempts left.
AttemptsLeft == pc \in {"git", "summary", "tell", "told"} \/ tries < Attempts

\* What the types of the outside, the reader and the execution are.
LEMMA TypeStep == TypeOK /\ AttemptsLeft /\ [Next]_vars => TypeOK' /\ AttemptsLeft'
<1> SUFFICES ASSUME TypeOK, AttemptsLeft, [Next]_vars PROVE TypeOK' /\ AttemptsLeft'
  OBVIOUS
<1> USE DEF TypeOK, AttemptsLeft, Lines, Goto, runVars, readVars, execVars, outVars, splitVars
<1>1. CASE Write
  <2>1. PICK k \in Kinds : written' = Append(written, k)
    BY <1>1 DEF Write
  <2>2. written' \in Seq(Kinds) /\ Len(written') = Len(written) + 1
    BY <2>1
  <2> QED BY <1>1, <2>2 DEF Write
<1>2. CASE Commit \/ Exit
  BY <1>2 DEF Commit, Exit
<1>3. CASE Read
  <2> DEFINE n == read + 1
  <2>1. n \in 1..Len(written) /\ read' = n
    BY <1>3 DEF Read
  <2>2. (UNCHANGED <<heard, logged, last>> /\ reader' \in {"reading", "failed", "stopped"}) \/ Hear(n)
    BY <1>3 DEF Read
  <2> HIDE DEF n
  <2>3. /\ heard' \in {None, "old", "new"} /\ logged' \in SUBSET (1..Len(written))
        /\ last' \in 0..Len(written)
        /\ reader' \in {"reading", "telling", "stopped", "failed"}
    <3>1. CASE UNCHANGED <<heard, logged, last>> /\ reader' \in {"reading", "failed", "stopped"}
      BY <3>1
    <3>2. CASE Hear(n)
      <4>1. heard' = speaks /\ reader' \in {"reading", "telling"}
        BY <3>2 DEF Hear
      <4>2. logged' \in {logged, logged \cup {n}} /\ last' \in {last, n}
        BY <3>2 DEF Hear
      <4> QED BY <2>1, <4>1, <4>2
    <3> QED BY <2>2, <3>1, <3>2
  <2> QED BY <1>3, <2>1, <2>3 DEF Read
<1>4. CASE Told \/ ReadAll
  BY <1>4 DEF Told, ReadAll
<1>5. CASE RequestCancel \/ TimesOut \/ GraceEnds
  BY <1>5 DEF RequestCancel, TimesOut, GraceEnds
<1>6. CASE Announce \/ Send
  BY <1>6 DEF Announce, Send
<1>7. CASE Launch
  BY <1>7 DEF Launch
<1>8. CASE Awaited \/ Join \/ Crash \/ Store \/ Decide
  BY <1>8 DEF Awaited, Join, Crash, Store, Decide
<1>9. CASE Succeed \/ ExportRead \/ ExportFails
  BY <1>9, ReportAssumption DEF Succeed, ExportRead, ExportFails
<1>10. CASE GitRead \/ Complete \/ Tell
  BY <1>10 DEF GitRead, Complete, Tell
<1>11. CASE UNCHANGED vars
  BY <1>11 DEF vars
<1> QED BY <1>1, <1>2, <1>3, <1>4, <1>5, <1>6, <1>7, <1>8, <1>9, <1>10, <1>11
        DEF Next, Execute, Reading

\* What was read is part of what was written, and no export is tried too often.
THEOREM ReportTypes == Spec => []TypeOK
<1>1. Init => TypeOK /\ AttemptsLeft
  <2> SUFFICES ASSUME Init PROVE TypeOK /\ AttemptsLeft
    OBVIOUS
  <2>1. written \in Seq(Kinds) /\ read \in 0..Len(written) /\ last \in 0..Len(written)
    BY DEF Init
  <2>2. tries \in 0..Attempts /\ tries < Attempts
    BY ReportAssumption DEF Init
  <2>3. asked \in BOOLEAN /\ timedOut \in BOOLEAN
    BY DEF Init
  <2> QED BY <2>1, <2>2, <2>3 DEF Init, TypeOK, AttemptsLeft, Lines
<1> QED BY <1>1, TypeStep, PTL DEF Spec

-----------------------------------------------------------------------------
(* The execution as the worker sees it.                                      *)

\* How far it is: what becomes of a success and of the answer is past the decision.
Stage ==
    IF pc \in {"start", "announce"} THEN "spawned"
    ELSE IF pc \in {"waiting", "term", "kill", "join", "store", "decide"} THEN "executing"
    ELSE "settled"

\* How it ended: a row that says FAILED while the event is still set is of a crash.
Outcome ==
    IF Stage # "settled" THEN "none"
    ELSE IF pc \notin {"tell", "told"} THEN "COMPLETED"
    ELSE IF asked /\ row.status = "FAILED" THEN "CRASHED"
    ELSE row.status

Contract ==
    INSTANCE ExecutionOutcome
    WITH stage <- Stage,
         event <- asked /\ (Stage = "settled" => Outcome = "CRASHED"),
         outcome <- Outcome

\* The row is of the decision: RUNNING before it, CANCELLED only if the event was set,
\* and COMPLETED only if it was not.
Decided ==
    IF pc \in {"tell", "told"}
    THEN /\ row.status \in {"FAILED", "CANCELLED", "COMPLETED"}
         /\ row.status = "CANCELLED" => asked
         /\ row.status = "COMPLETED" => ~asked
    ELSE pc \in {"export", "git", "summary"} => ~asked

LEMMA DecidedStep == Decided /\ [Next]_vars => Decided'
<1> SUFFICES ASSUME Decided, [Next]_vars PROVE Decided'
  OBVIOUS
<1> USE DEF Decided, Goto, runVars, readVars, execVars, outVars
<1>1. CASE UNCHANGED <<pc, asked, row>>
  BY <1>1
<1>2. CASE RequestCancel
  BY <1>2 DEF RequestCancel
<1>3. CASE Announce \/ Launch \/ Awaited \/ Join \/ Store
  BY <1>3 DEF Announce, Launch, Awaited, Join, Store
<1>4. CASE TimesOut \/ GraceEnds
  BY <1>4 DEF TimesOut, GraceEnds
<1>5. CASE Crash
  <2>1. row'.status = "FAILED"
    BY <1>5 DEF Crash
  <2> QED BY <1>5, <2>1 DEF Crash
<1>6. CASE Decide
  BY <1>6 DEF Decide, Finish
<1>7. CASE Succeed \/ ExportRead \/ ExportFails \/ GitRead
  BY <1>7 DEF Succeed, ExportRead, ExportFails, GitRead
<1>8. CASE Complete
  BY <1>8 DEF Complete, Finish
<1>9. CASE Tell
  BY <1>9 DEF Tell
<1>10. CASE Write \/ Commit \/ Exit \/ Reading \/ Send \/ UNCHANGED vars
  BY <1>1, <1>10 DEF Write, Commit, Exit, Reading, Read, Told, ReadAll, Send, vars
<1> QED BY <1>2, <1>3, <1>4, <1>5, <1>6, <1>7, <1>8, <1>9, <1>10 DEF Next, Execute

\* Each step of an execution is one the worker may expect, or none of its business.
LEMMA ContractStep == Decided /\ [Next]_vars => [Contract!Next]_(Contract!vars)
<1> SUFFICES ASSUME Decided, [Next]_vars PROVE [Contract!Next]_(Contract!vars)
  OBVIOUS
<1> USE DEF Decided, Goto, runVars, readVars, execVars, outVars, Stage, Outcome, Contract!vars
<1>1. CASE UNCHANGED <<pc, asked, row>>
  BY <1>1
<1>2. CASE RequestCancel
  BY <1>2 DEF RequestCancel, Contract!Next, Contract!RequestCancel
<1>3. CASE Launch
  BY <1>3 DEF Launch, Contract!Next, Contract!Begin
<1>4. CASE Announce \/ Awaited \/ Join \/ TimesOut \/ GraceEnds
  BY <1>4 DEF Announce, Awaited, Join, TimesOut, GraceEnds
<1>5. CASE Store
  BY <1>5 DEF Store
<1>6. CASE Crash
  <2>1. row'.status = "FAILED"
    BY <1>6 DEF Crash
  <2> QED BY <1>6, <2>1 DEF Crash, Contract!Next, Contract!Settle
<1>7. CASE Decide
  BY <1>7 DEF Decide, Finish, Contract!Next, Contract!Settle
<1>8. CASE Succeed
  BY <1>8 DEF Succeed, Contract!Next, Contract!Settle
<1>9. CASE ExportRead \/ ExportFails \/ GitRead
  BY <1>9 DEF ExportRead, ExportFails, GitRead
<1>10. CASE Complete
  BY <1>10 DEF Complete, Finish
<1>11. CASE Tell
  BY <1>11 DEF Tell
<1>12. CASE Write \/ Commit \/ Exit \/ Reading \/ Send \/ UNCHANGED vars
  BY <1>1, <1>12 DEF Write, Commit, Exit, Reading, Read, Told, ReadAll, Send, vars
<1> QED BY <1>2, <1>3, <1>4, <1>5, <1>6, <1>7, <1>8, <1>9, <1>10, <1>11, <1>12 DEF Next, Execute

\* The reader, the export and the answer change nothing about what the worker may expect of
\* an execution: it is ExecutionOutcome that is carried out here too, a crash of the reader
\* included.
THEOREM ReportKeepsContract == Spec => Contract!Spec
<1>1. Init => Contract!Init /\ Decided
  BY DEF Init, Decided, Contract!Init, Stage, Outcome
<1> QED BY <1>1, DecidedStep, ContractStep, PTL DEF Spec, Contract!Spec
=============================================================================
