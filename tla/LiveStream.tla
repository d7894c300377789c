----------------------------- MODULE LiveStream -----------------------------
(***************************************************************************)
(* The live streams of services/stream.py with the handlers of /stream and *)
(* /stream_stop (commands/stream.py) and stop_all at shutdown: the table   *)
(* of streams by chat, the loop of each stream, its wf-recorder process,   *)
(* the clip it writes, and the callback that removes the stream.           *)
(*                                                                         *)
(* Streams are numbered in the order they are started.  How long a timed   *)
(* wait lasts is left open: it may give up at any moment.                  *)
(***************************************************************************)
EXTENDS Naturals

CONSTANTS
    Chats,
    Stoppers,    \* handlers of /stream_stop at a time
    MaxStreams,  \* streams started altogether (model bound)
    MaxClips,    \* clips sent per stream (model bound)
    WithAudio    \* settings.stream_with_audio

ASSUME StreamAssumption ==
    /\ MaxStreams \in Nat /\ MaxClips \in Nat
    /\ WithAudio \in BOOLEAN
    /\ 0 \notin Chats /\ 0 \notin Stoppers

Streams == 1..MaxStreams

VARIABLES
    entry,     \* _streams: the stream of each chat, 0 if none
    chat,      \* the chat of each stream
    loop,      \* where the loop of each stream stands
    stop,      \* the stop events that are set
    audio,     \* the streams whose current clip is tried with audio
    recorder,  \* the wf-recorder of each stream, and how it exited
    lost,      \* history: recorders that outlived their SIGKILL wait, by chat
    clip,      \* the streams whose target file is on disk
    sent,      \* history: clips sent, per stream
    error,     \* the streams that ended in an error
    noticed,   \* history: the streams whose error was sent to the chat
    stopper,   \* the stream a /stream_stop handler or stop_all waits for, 0 if none
    closing,   \* stop_all has not begun, is under way, is through
    toStop     \* the chats it still has to stop

vars == <<entry, chat, loop, stop, audio, recorder, lost, clip, sent, error,
          noticed, stopper, closing, toStop>>

\* stop_all waits like a handler does.
Waiters == Stoppers \cup {0}

Init ==
    /\ entry = [c \in Chats |-> 0]
    /\ chat = [s \in Streams |-> 0]
    /\ loop = [s \in Streams |-> "none"]
    /\ stop = {}
    /\ audio = {}
    /\ recorder = [s \in Streams |-> "none"]
    /\ lost = {}
    /\ clip = {}
    /\ sent = [s \in Streams |-> 0]
    /\ error = {}
    /\ noticed = {}
    /\ stopper = [w \in Waiters |-> 0]
    /\ closing = "no"
    /\ toStop = {}

Exited(s) == recorder[s] \in {"ok", "bad"}

Goto(s, step) == loop' = [loop EXCEPT ![s] = step]

-----------------------------------------------------------------------------
(* The handlers.                                                             *)

\* Mutant of Start: only a stream that nobody has stopped yet is in the way.
StartOver(c, s) ==
    /\ closing = "no"
    /\ entry[c] = 0 \/ entry[c] \in stop
    /\ chat[s] = 0
    /\ \A r \in Streams : r < s => chat[r] # 0
    /\ entry' = [entry EXCEPT ![c] = s]
    /\ chat' = [chat EXCEPT ![s] = c]
    /\ Goto(s, "head")
    /\ UNCHANGED <<stop, audio, recorder, lost, clip, sent, error, noticed, stopper, closing, toStop>>

\* /stream: refused if the chat has a stream.  No update is handled once the bot
\* shuts down.
Start(c, s) ==
    /\ closing = "no"
    /\ entry[c] = 0
    /\ chat[s] = 0
    /\ \A r \in Streams : r < s => chat[r] # 0
    /\ entry' = [entry EXCEPT ![c] = s]
    /\ chat' = [chat EXCEPT ![s] = c]
    /\ Goto(s, "head")
    /\ UNCHANGED <<stop, audio, recorder, lost, clip, sent, error, noticed, stopper, closing, toStop>>

\* /stream_stop: sets the event and waits for the loop.
Stop(h, c) ==
    /\ closing = "no"
    /\ stopper[h] = 0
    /\ entry[c] # 0
    /\ stop' = stop \cup {entry[c]}
    /\ stopper' = [stopper EXCEPT ![h] = entry[c]]
    /\ UNCHANGED <<entry, chat, loop, audio, recorder, lost, clip, sent, error, noticed, closing, toStop>>

\* The loop's task is done.  Its callback comes before whoever waits for it.
StopReturns(w) ==
    /\ stopper[w] # 0
    /\ loop[stopper[w]] = "gone"
    /\ stopper' = [stopper EXCEPT ![w] = 0]
    /\ UNCHANGED <<entry, chat, loop, stop, audio, recorder, lost, clip, sent, error, noticed,
                   closing, toStop>>

\* stop_all: the chats that have a stream now, one after the other.
StopAll ==
    /\ closing = "no"
    /\ closing' = "stopping"
    /\ toStop' = {c \in Chats : entry[c] # 0}
    /\ UNCHANGED <<entry, chat, loop, stop, audio, recorder, lost, clip, sent, error, noticed,
                   stopper>>

StopNext(c) ==
    /\ c \in toStop
    /\ stopper[0] = 0
    /\ toStop' = toStop \ {c}
    /\ IF entry[c] = 0 THEN UNCHANGED <<stop, stopper>>
       ELSE /\ stop' = stop \cup {entry[c]}
            /\ stopper' = [stopper EXCEPT ![0] = entry[c]]
    /\ UNCHANGED <<entry, chat, loop, audio, recorder, lost, clip, sent, error, noticed,
                   closing>>

Closed ==
    /\ closing = "stopping"
    /\ toStop = {}
    /\ stopper[0] = 0
    /\ closing' = "closed"
    /\ UNCHANGED <<entry, chat, loop, stop, audio, recorder, lost, clip, sent, error, noticed,
                   stopper, toStop>>

-----------------------------------------------------------------------------
(* The loop of one stream.                                                   *)

\* while not stop: the next clip, first with audio if so configured.
NextClip(s) ==
    /\ loop[s] = "head"
    /\ s \in stop \/ sent[s] < MaxClips
    /\ IF s \in stop THEN Goto(s, "done") /\ UNCHANGED audio
       ELSE /\ Goto(s, "attempt")
            /\ audio' = IF WithAudio THEN audio \cup {s} ELSE audio
    /\ UNCHANGED <<entry, chat, stop, recorder, lost, clip, sent, error, noticed, stopper, closing, toStop>>

\* One attempt: unless stopped, wf-recorder is spawned, which may fail.
Attempt(s) ==
    /\ loop[s] = "attempt"
    /\ IF s \in stop
         THEN Goto(s, "done") /\ UNCHANGED <<recorder, error>>
         ELSE \/ /\ Goto(s, "recording")
                 /\ recorder' = [recorder EXCEPT ![s] = "running"]
                 /\ UNCHANGED error
              \/ /\ Goto(s, "notify")
                 /\ error' = error \cup {s}
                 /\ UNCHANGED recorder
    /\ UNCHANGED <<entry, chat, stop, audio, lost, clip, sent, noticed, stopper, closing, toStop>>

\* The length of a clip, or the stop event: SIGINT.
ClipEnds(s) ==
    /\ loop[s] = "recording"
    /\ Goto(s, "int")
    /\ UNCHANGED <<entry, chat, stop, audio, recorder, lost, clip, sent, error, noticed, stopper,
                   closing, toStop>>

\* Mutants of NoReaction: wf-recorder is left to itself after the SIGINT; the wait
\* after the SIGINT has no timeout.
NoReactionNoKill(s) ==
    /\ loop[s] = "int"
    /\ ~Exited(s)
    /\ Goto(s, "judge")
    /\ UNCHANGED <<entry, chat, stop, audio, recorder, lost, clip, sent, error, noticed, stopper,
                   closing, toStop>>

NoReactionPatient(s) ==
    /\ loop[s] = "term"
    /\ ~Exited(s)
    /\ Goto(s, "kill")
    /\ UNCHANGED <<entry, chat, stop, audio, recorder, lost, clip, sent, error, noticed, stopper,
                   closing, toStop>>

\* It does not exit in time: SIGTERM, and after that SIGKILL.
NoReaction(s) ==
    /\ loop[s] \in {"int", "term"}
    /\ ~Exited(s)
    /\ Goto(s, IF loop[s] = "int" THEN "term" ELSE "kill")
    /\ UNCHANGED <<entry, chat, stop, audio, recorder, lost, clip, sent, error, noticed, stopper,
                   closing, toStop>>

\* It exits within one of the waits, or even the SIGKILL has not ended it.
RecorderAwaited(s) ==
    /\ loop[s] \in {"int", "term", "kill"}
    /\ Exited(s) \/ loop[s] = "kill"
    /\ Goto(s, "judge")
    /\ lost' = IF Exited(s) THEN lost ELSE lost \cup {chat[s]}
    /\ UNCHANGED <<entry, chat, stop, audio, recorder, clip, sent, error, noticed, stopper, closing, toStop>>

\* The clip is good if wf-recorder exited with 0 and wrote something.
ClipGood(s) ==
    /\ loop[s] = "judge"
    /\ recorder[s] = "ok"
    /\ s \in clip
    /\ Goto(s, "send")
    /\ UNCHANGED <<entry, chat, stop, audio, recorder, lost, clip, sent, error, noticed, stopper,
                   closing, toStop>>

\* Mutant of ClipBad: an unusable clip stays where it is.
ClipBadKept(s) ==
    /\ loop[s] = "judge"
    /\ IF s \in audio
         THEN Goto(s, "attempt") /\ audio' = audio \ {s} /\ UNCHANGED error
         ELSE Goto(s, "notify") /\ error' = error \cup {s} /\ UNCHANGED audio
    /\ UNCHANGED <<entry, chat, stop, recorder, lost, clip, sent, noticed, stopper, closing, toStop>>

\* Otherwise (an empty clip counts as none) it is removed; the first attempt of a
\* clip is repeated without audio, and the failure of another ends the stream.
ClipBad(s) ==
    /\ loop[s] = "judge"
    /\ clip' = clip \ {s}
    /\ IF s \in audio
         THEN Goto(s, "attempt") /\ audio' = audio \ {s} /\ UNCHANGED error
         ELSE Goto(s, "notify") /\ error' = error \cup {s} /\ UNCHANGED audio
    /\ UNCHANGED <<entry, chat, stop, recorder, lost, sent, noticed, stopper, closing, toStop>>

\* send_video, after which the clip is removed in any case.
Send(s) ==
    /\ loop[s] = "send"
    /\ clip' = clip \ {s}
    /\ \/ Goto(s, "head") /\ sent' = [sent EXCEPT ![s] = @ + 1] /\ UNCHANGED error
       \/ Goto(s, "notify") /\ error' = error \cup {s} /\ UNCHANGED sent
    /\ UNCHANGED <<entry, chat, stop, audio, recorder, lost, noticed, stopper, closing, toStop>>

\* The error goes to the chat, as far as Telegram takes it.
Notify(s) ==
    /\ loop[s] = "notify"
    /\ noticed' = noticed \cup {s}
    /\ Goto(s, "done")
    /\ UNCHANGED <<entry, chat, stop, audio, recorder, lost, clip, sent, error, stopper, closing, toStop>>

\* The done callback takes the chat's stream out of the table.
Done(s) ==
    /\ loop[s] = "done"
    /\ entry' = [entry EXCEPT ![chat[s]] = 0]
    /\ stop' = stop \cup {s}
    /\ Goto(s, "gone")
    /\ UNCHANGED <<chat, audio, recorder, lost, clip, sent, error, noticed, stopper, closing, toStop>>

-----------------------------------------------------------------------------
(* wf-recorder.                                                              *)

RecorderWrites(s) ==
    /\ recorder[s] = "running"
    /\ s \notin clip
    /\ clip' = clip \cup {s}
    /\ UNCHANGED <<entry, chat, loop, stop, audio, recorder, lost, sent, error, noticed, stopper,
                   closing, toStop>>

\* It exits: with 0 or badly, and not with 0 on a SIGKILL.
RecorderExits(s) ==
    /\ recorder[s] = "running"
    /\ \/ recorder' = [recorder EXCEPT ![s] = "bad"]
       \/ loop[s] # "kill" /\ recorder' = [recorder EXCEPT ![s] = "ok"]
    /\ UNCHANGED <<entry, chat, loop, stop, audio, lost, clip, sent, error, noticed, stopper,
                   closing, toStop>>

Loop(s) ==
    \/ NextClip(s) \/ Attempt(s) \/ ClipEnds(s) \/ NoReaction(s) \/ RecorderAwaited(s)
    \/ ClipGood(s) \/ ClipBad(s) \/ Send(s) \/ Notify(s) \/ Done(s)

Closing == StopAll \/ (\E c \in Chats : StopNext(c)) \/ Closed

Next ==
    \/ \E c \in Chats, s \in Streams : Start(c, s)
    \/ \E h \in Stoppers, c \in Chats : Stop(h, c)
    \/ \E w \in Waiters : StopReturns(w)
    \/ Closing
    \/ \E s \in Streams : Loop(s) \/ RecorderWrites(s) \/ RecorderExits(s)

\* The loops go on and the waiters are woken; a recorder ends on a SIGKILL only.
Fairness ==
    /\ \A s \in Streams : WF_vars(Loop(s))
    /\ \A w \in Waiters : WF_vars(StopReturns(w))
    /\ WF_vars(\E c \in Chats : StopNext(c)) /\ WF_vars(Closed)
    /\ \A s \in Streams : WF_vars(loop[s] = "kill" /\ RecorderExits(s))

Spec == Init /\ [][Next]_vars
FairSpec == Spec /\ Fairness

-----------------------------------------------------------------------------

TypeOK ==
    /\ entry \in [Chats -> Streams \cup {0}]
    /\ chat \in [Streams -> Chats \cup {0}]
    /\ loop \in [Streams -> {"none", "head", "attempt", "recording", "int", "term", "kill",
                             "judge", "send", "notify", "done", "gone"}]
    /\ stop \in SUBSET Streams
    /\ audio \in SUBSET Streams
    /\ recorder \in [Streams -> {"none", "running", "ok", "bad"}]
    /\ lost \in SUBSET Chats
    /\ clip \in SUBSET Streams
    /\ sent \in [Streams -> Nat]
    /\ error \in SUBSET Streams
    /\ noticed \in SUBSET Streams
    /\ stopper \in [Waiters -> Streams \cup {0}]
    /\ closing \in {"no", "stopping", "closed"}
    /\ toStop \in SUBSET Chats

Live(s) == loop[s] \notin {"none", "gone"}

\* Every loop can be stopped: it is the one the table has for its chat, however
\* stops, errors and new starts interleave with the done callbacks (stream.py:61-83).
CanBeStopped == \A s \in Streams : Live(s) => entry[chat[s]] = s

\* "One stream per chat" (stream.py:8): one screen recorder per chat at most, unless
\* one outlived its SIGKILL.
OneRecorder ==
    \A r, s \in Streams :
        recorder[r] = "running" /\ recorder[s] = "running" /\ chat[r] = chat[s]
            => r = s \/ chat[r] \in lost

\* A loop that is over has left nothing behind: no recorder, unless not even a
\* SIGKILL ended it, no clip, and no error the chat was not told of.
NothingLeft ==
    \A s \in Streams : loop[s] = "gone" =>
        /\ recorder[s] # "running" \/ chat[s] \in lost
        /\ s \notin clip \/ chat[s] \in lost
        /\ s \in error => s \in noticed

\* "cleaned up on shutdown" (pc-control.md:114): when stop_all is through, no loop and
\* no recorder is left.
CleanShutdown ==
    closing = "closed" =>
        \A s \in Streams : ~Live(s) /\ (recorder[s] # "running" \/ chat[s] \in lost)

\* /stream_stop is answered and the shutdown goes on, even if wf-recorder reacts
\* to neither SIGINT nor SIGTERM.
StopEnds == \A w \in Waiters : stopper[w] # 0 ~> stopper[w] = 0
=============================================================================
