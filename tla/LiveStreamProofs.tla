-------------------------- MODULE LiveStreamProofs --------------------------
(***************************************************************************)
(* Proofs about LiveStream, for any chats, streams, clips and handlers.    *)
(***************************************************************************)
EXTENDS LiveStream, TLAPS

Recording == {"recording", "int", "term", "kill"}

\* A recorder runs only while its loop attends to it; the same of the clip, which
\* is also judged and sent.
Attended ==
    \A s \in Streams :
        /\ recorder[s] = "running" => loop[s] \in Recording \/ chat[s] \in lost
        /\ s \in clip => loop[s] \in Recording \cup {"judge", "send"} \/ chat[s] \in lost
        /\ s \in error => loop[s] = "notify" \/ s \in noticed

\* stop_all has the streams it has not stopped yet on its list, or waits for them.
Covered ==
    /\ closing = "stopping" =>
         \A s \in Streams : Live(s) => chat[s] \in toStop \/ stopper[0] = s
    /\ closing = "closed" => \A s \in Streams : ~Live(s)

Table ==
    /\ \A s \in Streams : Live(s) => chat[s] \in Chats
    /\ CanBeStopped

IInv ==
    /\ TypeOK
    /\ Table
    /\ Attended
    /\ Covered

LEMMA InitIInv == Init => IInv
BY StreamAssumption DEF Init, IInv, TypeOK, Table, CanBeStopped, Attended, Covered, Live,
   Waiters, Streams, Recording

LEMMA StartStep ==
    ASSUME IInv, NEW c \in Chats, NEW s \in Streams, Start(c, s)
    PROVE  IInv'
<1> USE StreamAssumption DEF IInv
<1>0. s \in Streams \cup {0} /\ c # 0 /\ s # 0
  BY DEF Streams
<1>1. /\ entry' = [entry EXCEPT ![c] = s] /\ chat' = [chat EXCEPT ![s] = c]
      /\ loop' = [loop EXCEPT ![s] = "head"]
      /\ UNCHANGED <<stop, audio, recorder, lost, clip, sent, error, noticed, stopper, closing, toStop>>
      /\ closing = "no" /\ entry[c] = 0 /\ chat[s] = 0
  BY DEF Start, Goto
<1>2. TypeOK'
  BY <1>0, <1>1 DEF TypeOK
<1>3. ~Live(s)
  BY <1>0, <1>1 DEF Table
<1>4. ASSUME NEW r \in Streams, Live(r)' PROVE chat'[r] \in Chats /\ entry'[chat'[r]] = r
  <2>1. CASE r = s
    <3>1. chat'[r] = c /\ entry'[c] = s
      BY <2>1, <1>0, <1>1 DEF TypeOK
    <3> QED BY <2>1, <3>1
  <2>2. CASE r # s
    <3>1. chat'[r] = chat[r] /\ Live(r)
      BY <2>2, <1>0, <1>1, <1>4 DEF TypeOK, Live
    <3>2. chat[r] \in Chats /\ entry[chat[r]] = r /\ r # 0
      BY <3>1 DEF Table, CanBeStopped, Streams
    <3>3. chat[r] # c
      BY <3>2, <1>1
    <3> QED BY <3>1, <3>2, <3>3, <1>1 DEF TypeOK
  <2> QED BY <2>1, <2>2
<1>7. Table'
  BY <1>4 DEF Table, CanBeStopped
<1>5. Attended'
  BY <1>0, <1>1, <1>3 DEF Attended, TypeOK, Live, Recording
<1>6. Covered'
  BY <1>1 DEF Covered
<1> QED BY <1>1, <1>2, <1>5, <1>6, <1>7

LEMMA HandlerStep ==
    ASSUME IInv,
           \/ \E h \in Stoppers, c \in Chats : Stop(h, c)
           \/ \E w \in Waiters : StopReturns(w)
           \/ Closing
    PROVE  IInv'
<1> USE StreamAssumption DEF IInv
<1>0. UNCHANGED <<entry, chat, loop, audio, recorder, lost, clip, sent, error, noticed>>
  BY DEF Stop, StopReturns, Closing, StopAll, StopNext, Closed
<1>1. Table' /\ Attended'
  BY <1>0 DEF Table, CanBeStopped, Attended, Live
<1>2. TypeOK' /\ Covered'
  <2>1. ASSUME NEW h \in Stoppers, NEW c \in Chats, Stop(h, c) PROVE TypeOK' /\ Covered'
    BY <2>1, <1>0 DEF Stop, TypeOK, Waiters, Covered
  <2>2. ASSUME NEW w \in Waiters, StopReturns(w) PROVE TypeOK' /\ Covered'
    <3>1. TypeOK'
      BY <2>2, <1>0 DEF StopReturns, TypeOK
    <3>2. Covered'
      BY <2>2, <1>0 DEF StopReturns, TypeOK, Covered, Live
    <3> QED BY <3>1, <3>2
  <2>3. CASE StopAll
    BY <2>3, <1>0 DEF StopAll, TypeOK, Covered, Table, CanBeStopped, Live, Streams
  <2>4. ASSUME NEW c \in Chats, StopNext(c) PROVE TypeOK' /\ Covered'
    <3>0. 0 \in Waiters
      BY DEF Waiters
    <3>1. TypeOK'
      BY <2>4, <1>0 DEF StopNext, TypeOK
    <3>2. ASSUME closing = "stopping", NEW s \in Streams, Live(s)
          PROVE  chat[s] \in toStop' \/ stopper'[0] = s
      <4>1. chat[s] \in toStop
        BY <3>2, <2>4 DEF Covered, StopNext, Streams
      <4>2. CASE chat[s] = c
        <5>1. entry[c] = s /\ s # 0
          BY <4>2, <3>2 DEF Table, CanBeStopped, Streams
        <5> QED BY <5>1, <2>4, <3>0 DEF StopNext, TypeOK
      <4>3. CASE chat[s] # c
        BY <4>1, <4>3, <2>4 DEF StopNext
      <4> QED BY <4>2, <4>3
    <3>3. closing' = closing
      BY <2>4 DEF StopNext
    <3> QED BY <3>1, <3>2, <3>3, <1>0 DEF Covered, Live
  <2>5. CASE Closed
    BY <2>5, <1>0 DEF Closed, TypeOK, Covered, Live, Streams
  <2> QED BY <2>1, <2>2, <2>3, <2>4, <2>5 DEF Closing
<1> QED BY <1>1, <1>2

\* A step of a loop moves that loop on and touches nothing of the others.
LEMMA LoopStep ==
    ASSUME IInv, NEW s \in Streams, Loop(s)
    PROVE  IInv'
<1> USE StreamAssumption DEF IInv
<1>l. Live(s)
  BY DEF Live, Loop, NextClip, Attempt, ClipEnds, NoReaction, RecorderAwaited, ClipGood,
     ClipBad, Send, Notify, Done
<1>c. chat[s] \in Chats /\ entry[chat[s]] = s
  BY <1>l DEF Table, CanBeStopped
<1>0. UNCHANGED <<chat, stopper, closing, toStop>>
  BY DEF Loop, NextClip, Attempt, ClipEnds, NoReaction, RecorderAwaited, ClipGood, ClipBad,
     Send, Notify, Done
<1>1. CASE Done(s)
  <2>1. /\ entry' = [entry EXCEPT ![chat[s]] = 0] /\ stop' = stop \cup {s}
        /\ loop' = [loop EXCEPT ![s] = "gone"] /\ loop[s] = "done"
        /\ UNCHANGED <<chat, audio, recorder, lost, clip, sent, error, noticed, stopper, closing, toStop>>
    BY <1>1 DEF Done, Goto
  <2>2. TypeOK'
    BY <2>1 DEF TypeOK
  <2>3. \A r \in Streams : Live(r)' => Live(r) /\ r # s
    BY <2>1 DEF Live, TypeOK
  <2>4. Table'
    BY <2>1, <2>3, <1>c DEF Table, CanBeStopped, TypeOK
  <2>5. Attended'
    BY <2>1 DEF Attended, TypeOK, Recording
  <2>6. Covered'
    BY <2>1, <2>3 DEF Covered
  <2> QED BY <2>1, <2>2, <2>4, <2>5, <2>6
<1>2. CASE ~Done(s)
  <2>1. UNCHANGED <<entry, stop>>
    BY <1>2 DEF Loop, NextClip, Attempt, ClipEnds, NoReaction, RecorderAwaited, ClipGood,
       ClipBad, Send, Notify
  <2>2. PICK x \in {"head", "attempt", "recording", "int", "term", "kill", "judge", "send",
                    "notify", "done"} : loop' = [loop EXCEPT ![s] = x]
    BY <1>2 DEF Loop, NextClip, Attempt, ClipEnds, NoReaction, RecorderAwaited, ClipGood,
       ClipBad, Send, Notify, Goto
  <2>3. \A r \in Streams : Live(r)' <=> Live(r)
    BY <2>2, <1>l DEF Live, TypeOK
  <2>4. Table'
    BY <1>0, <2>1, <2>3 DEF Table, CanBeStopped
  <2>5. Covered'
    BY <1>0, <2>3 DEF Covered
  <2>6. TypeOK' /\ Attended'
    <3>1. CASE NextClip(s)
      BY <3>1, <1>0 DEF NextClip, Goto, TypeOK, Attended, Recording
    <3>2. CASE Attempt(s)
      BY <3>2, <1>0 DEF Attempt, Goto, TypeOK, Attended, Recording
    <3>3. CASE ClipEnds(s) \/ NoReaction(s) \/ ClipGood(s)
      BY <3>3, <1>0 DEF ClipEnds, NoReaction, ClipGood, Goto, TypeOK, Attended, Recording
    <3>4. CASE RecorderAwaited(s)
      <4>1. lost' \in SUBSET Chats
        BY <3>4, <1>c DEF RecorderAwaited, TypeOK
      <4>3. Attended'
        BY <3>4 DEF RecorderAwaited, Exited, Goto, TypeOK, Attended, Recording
      <4>4. TypeOK'
        BY <3>4, <4>1, <2>2 DEF RecorderAwaited, TypeOK
      <4> QED BY <4>3, <4>4
    <3>5. CASE ClipBad(s)
      BY <3>5, <1>0 DEF ClipBad, Goto, TypeOK, Attended, Recording
    <3>6. CASE Send(s)
      BY <3>6, <1>0 DEF Send, Goto, TypeOK, Attended, Recording
    <3>7. CASE Notify(s)
      BY <3>7, <1>0 DEF Notify, Goto, TypeOK, Attended, Recording
    <3> QED BY <1>2, <3>1, <3>2, <3>3, <3>4, <3>5, <3>6, <3>7 DEF Loop
  <2> QED BY <2>4, <2>5, <2>6
<1> QED BY <1>1, <1>2

LEMMA RecorderStep ==
    ASSUME IInv, NEW s \in Streams, RecorderWrites(s) \/ RecorderExits(s)
    PROVE  IInv'
<1> USE StreamAssumption DEF IInv
<1>0. UNCHANGED <<entry, chat, loop, stop, audio, lost, sent, error, noticed, stopper, closing, toStop>>
  BY DEF RecorderWrites, RecorderExits
<1>1. Table' /\ Covered'
  BY <1>0 DEF Table, CanBeStopped, Covered, Live
<1>2. TypeOK' /\ Attended'
  <2>1. CASE RecorderWrites(s)
    BY <2>1, <1>0 DEF RecorderWrites, TypeOK, Attended
  <2>2. CASE RecorderExits(s)
    BY <2>2, <1>0 DEF RecorderExits, TypeOK, Attended
  <2> QED BY <2>1, <2>2
<1> QED BY <1>1, <1>2

LEMMA StepIInv == IInv /\ [Next]_vars => IInv'
<1>1. IInv /\ UNCHANGED vars => IInv'
  BY DEF vars, IInv, TypeOK, Table, CanBeStopped, Attended, Covered, Live
<1> QED BY <1>1, StartStep, HandlerStep, LoopStep, RecorderStep DEF Next

\* The inductive invariant, of which the next theorems are consequences.
THEOREM StreamInvariant == Spec => []IInv
BY InitIInv, StepIInv, PTL DEF Spec

\* The table of streams, the loops and the recorders keep their types: an entry is always
\* a stream that was started, or none.
THEOREM StreamTypes == Spec => []TypeOK
<1>1. IInv => TypeOK
  BY DEF IInv
<1> QED BY <1>1, StreamInvariant, PTL

\* No loop ever gets out of reach of /stream_stop (stream.py:61-83): the callback
\* that removes a chat's entry never removes that of a newer stream.
THEOREM AlwaysStoppable == Spec => []CanBeStopped
<1>1. IInv => CanBeStopped
  BY DEF IInv, Table
<1> QED BY StreamInvariant, <1>1, PTL

\* One recorder per chat, as long as a SIGKILL ends a recorder within its wait.
THEOREM RecordsOnce == Spec => []OneRecorder
<1>1. IInv => OneRecorder
  <2> SUFFICES ASSUME IInv, NEW r \in Streams, NEW s \in Streams, chat[r] \notin lost,
                      recorder[r] = "running", recorder[s] = "running", chat[r] = chat[s]
               PROVE  r = s
    BY DEF OneRecorder
  <2>1. Live(r) /\ Live(s)
    BY DEF IInv, Attended, Recording, Live
  <2> QED BY <2>1 DEF IInv, Table, CanBeStopped
<1> QED BY StreamInvariant, <1>1, PTL

\* What a loop leaves behind when it is over.
THEOREM LeavesNothing == Spec => []NothingLeft
<1>1. IInv => NothingLeft
  BY DEF IInv, Attended, Recording, NothingLeft
<1> QED BY StreamInvariant, <1>1, PTL

\* stop_all leaves no loop and no recorder, whatever the loops were doing when the
\* shutdown began (stream.py:85-88).
THEOREM ShutsDownClean == Spec => []CleanShutdown
<1>1. IInv => CleanShutdown
  <2> SUFFICES ASSUME IInv, closing = "closed", NEW s \in Streams
               PROVE  ~Live(s) /\ (recorder[s] # "running" \/ chat[s] \in lost)
    BY DEF CleanShutdown
  <2>1. ~Live(s)
    BY DEF IInv, Covered
  <2> QED BY <2>1 DEF IInv, Attended, Recording, Live
<1> QED BY StreamInvariant, <1>1, PTL
=============================================================================
