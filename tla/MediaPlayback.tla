--------------------------- MODULE MediaPlayback ---------------------------
(***************************************************************************)
(* Playback of the files a user sends (services/media.py 45-108, 205-211,  *)
(* commands/media.py 32-64): the handler downloads the file and spawns     *)
(* mpv, a supervisor task waits for mpv, ends it when it plays too long    *)
(* and removes the file; stop_all cancels the supervisors when the bot     *)
(* shuts down, and the end of the event loop cancels all that is left.     *)
(*                                                                         *)
(* How long a timed wait lasts is left open: it may give up at any moment. *)
(***************************************************************************)
CONSTANTS Plays  \* the files that are sent

VARIABLES
    pc,        \* where the handler, later the supervisor, of each file stands
    file,      \* the files on disk, whole or in part
    mpv,       \* the player of each file
    lost,      \* history: the players that outlived the wait after their SIGKILL
    closing,   \* how far the shutdown is
    cancelled  \* the tasks that are cancelled and have not noticed yet

vars == <<pc, file, mpv, lost, closing, cancelled>>

Handling == {"download", "play"}
Supervising == {"wait", "term", "kill"}
Supervised == {"scheduled"} \cup Supervising

Init ==
    /\ pc = [p \in Plays |-> "none"]
    /\ file = {}
    /\ mpv = [p \in Plays |-> "none"]
    /\ lost = {}
    /\ closing = "no"
    /\ cancelled = {}

Goto(p, step) == pc' = [pc EXCEPT ![p] = step]

\* A task goes on only if no cancellation waits for it.
At(p, step) == pc[p] = step /\ p \notin cancelled

-----------------------------------------------------------------------------
(* The handler.                                                              *)

\* A file is sent.  Polling is over before the shutdown begins.
Receive(p) ==
    /\ closing = "no"
    /\ pc[p] = "none"
    /\ Goto(p, "download")
    /\ UNCHANGED <<file, mpv, lost, closing, cancelled>>

DownloadWrites(p) ==
    /\ At(p, "download")
    /\ p \notin file
    /\ file' = file \cup {p}
    /\ UNCHANGED <<pc, mpv, lost, closing, cancelled>>

\* The download is refused or breaks off; what was written stays.
DownloadFails(p) ==
    /\ At(p, "download")
    /\ Goto(p, "over")
    /\ UNCHANGED <<file, mpv, lost, closing, cancelled>>

Downloaded(p) ==
    /\ At(p, "download")
    /\ p \in file
    /\ Goto(p, "play")
    /\ UNCHANGED <<file, mpv, lost, closing, cancelled>>

\* mpv is spawned and its supervisor scheduled, or mpv is missing.
Play(p) ==
    /\ At(p, "play")
    /\ \/ Goto(p, "scheduled") /\ mpv' = [mpv EXCEPT ![p] = "running"]
       \/ Goto(p, "over") /\ UNCHANGED mpv
    /\ UNCHANGED <<file, lost, closing, cancelled>>

-----------------------------------------------------------------------------
(* The supervisor.                                                           *)

Supervise(p) ==
    /\ At(p, "scheduled")
    /\ Goto(p, "wait")
    /\ UNCHANGED <<file, mpv, lost, closing, cancelled>>

\* Mutant of PlaysTooLong: no SIGKILL, and the wait after the SIGTERM has no timeout.
PlaysOn(p) ==
    /\ At(p, "wait")
    /\ mpv[p] = "running"
    /\ Goto(p, "term")
    /\ UNCHANGED <<file, mpv, lost, closing, cancelled>>

\* mpv does not exit in time: SIGTERM, and after that SIGKILL.
PlaysTooLong(p) ==
    /\ At(p, "wait") \/ At(p, "term")
    /\ mpv[p] = "running"
    /\ Goto(p, IF pc[p] = "wait" THEN "term" ELSE "kill")
    /\ UNCHANGED <<file, mpv, lost, closing, cancelled>>

\* mpv has exited, or even the SIGKILL has not ended it.  The file is removed.
Finished(p) ==
    /\ \E step \in Supervising : At(p, step)
    /\ mpv[p] = "exited" \/ pc[p] = "kill"
    /\ Goto(p, "over")
    /\ file' = file \ {p}
    /\ lost' = IF mpv[p] = "exited" THEN lost ELSE lost \cup {p}
    /\ UNCHANGED <<mpv, closing, cancelled>>

PlayerExits(p) ==
    /\ mpv[p] = "running"
    /\ mpv' = [mpv EXCEPT ![p] = "exited"]
    /\ UNCHANGED <<pc, file, lost, closing, cancelled>>

-----------------------------------------------------------------------------
(* The shutdown.                                                             *)

\* stop_all cancels the supervisors there are, and waits for them.
StopAll ==
    /\ closing = "no"
    /\ closing' = "stopping"
    /\ cancelled' = {p \in Plays : pc[p] \in Supervised}
    /\ UNCHANGED <<pc, file, mpv, lost>>

\* Mutant of Cancel: a cancelled supervisor that has begun keeps the file too.
CancelKeeping(p) ==
    /\ p \in cancelled
    /\ cancelled' = cancelled \ {p}
    /\ Goto(p, "over")
    /\ UNCHANGED <<file, mpv, lost, closing>>

\* A cancelled supervisor that has begun removes the file on its way out, one that
\* has not begun never runs at all, and neither has a handler anything to tidy up.
Cancel(p) ==
    /\ p \in cancelled
    /\ cancelled' = cancelled \ {p}
    /\ Goto(p, "over")
    /\ file' = IF pc[p] \in Supervising THEN file \ {p} ELSE file
    /\ UNCHANGED <<mpv, lost, closing>>

Closed ==
    /\ closing = "stopping"
    /\ cancelled = {}
    /\ closing' = "closed"
    /\ UNCHANGED <<pc, file, mpv, lost, cancelled>>

\* asyncio.run cancels every task that is left: also handlers still at work, and
\* the supervisors of players these spawned after stop_all.
LoopEnds ==
    /\ closing = "closed"
    /\ closing' = "ending"
    /\ cancelled' = {p \in Plays : pc[p] \in Handling \cup Supervised}
    /\ UNCHANGED <<pc, file, mpv, lost>>

Task(p) ==
    \/ DownloadFails(p) \/ Downloaded(p) \/ Play(p)
    \/ Supervise(p) \/ PlaysTooLong(p) \/ Finished(p) \/ Cancel(p)

Next ==
    \/ \E p \in Plays : Receive(p) \/ DownloadWrites(p) \/ Task(p) \/ PlayerExits(p)
    \/ StopAll \/ Closed \/ LoopEnds

\* Downloads end, one way or the other; tasks go on; mpv ends on a SIGKILL only.
Fairness ==
    \A p \in Plays : WF_vars(Task(p)) /\ WF_vars(pc[p] = "kill" /\ PlayerExits(p))

Spec == Init /\ [][Next]_vars
FairSpec == Spec /\ Fairness

-----------------------------------------------------------------------------

TypeOK ==
    /\ pc \in [Plays -> {"none", "over"} \cup Handling \cup Supervised]
    /\ file \in SUBSET Plays
    /\ mpv \in [Plays -> {"none", "running", "exited"}]
    /\ lost \in SUBSET Plays
    /\ closing \in {"no", "stopping", "closed", "ending"}
    /\ cancelled \in SUBSET Plays

\* mpv keeps its file while it plays, up to the shutdown and short of a player that
\* not even a SIGKILL ends (media.py:89-108).
FileWhilePlaying ==
    closing = "no" => \A p \in Plays : mpv[p] = "running" => p \in file \/ p \in lost

\* "A supervisor task waits up to OTC_PLAYBACK_MAX_SECONDS, then kills the process
\* group" (pc-control.md:94): no player is out of its supervisor's sight.
PlayersSupervised ==
    closing = "no" =>
        \A p \in Plays : mpv[p] = "running" => pc[p] \in Supervised \/ p \in lost

\* The file of a player leaves with its supervisor, however the player ended, and
\* cannot be left behind by a player that was started (media.py:107).
PlayedFileRemoved ==
    \A p \in Plays : pc[p] = "over" /\ mpv[p] # "none" /\ closing = "no" => p \notin file

\* A supervisor that has begun never leaves the file, whether its player ends or the
\* shutdown cancels it in any of its waits (media.py:94-108).
BegunRemoves ==
    [][\A p \in Plays : pc[p] \in Supervising /\ pc'[p] = "over" => p \notin file']_vars

\* The whole of a playback ends, also if mpv ignores SIGTERM.
PlaybackEnds == \A p \in Plays : pc[p] = "download" ~> pc[p] = "over"
=============================================================================
