---------------------------- MODULE PauseControl ----------------------------
(***************************************************************************)
(* The pause agreement of a rollback session                               *)
(* (src/netplay/session/pause.rs).  Each player votes; a vote to pause     *)
(* names a frame some way ahead, and both sides stop at the earliest frame *)
(* named in the current episode.  As in Timeline, a PauseControl is a      *)
(* record and its methods are operators on it.                             *)
(***************************************************************************)
EXTENDS Timeline

\* None is no pair of flags either.
ASSUME FlagsAssumption == None \notin BOOLEAN \X BOOLEAN

Vote(target, paused) == [target |-> target, paused |-> paused]

NewPause ==
    [local         |-> Vote(None, FALSE),
     peer          |-> Vote(None, FALSE),
     episode       |-> None,
     reported      |-> None,
     local_request |-> 0,
     local_acked   |-> 0,
     peer_request  |-> 0,
     desired       |-> FALSE]

\* The frame at which this side stops: fn barrier.
Barrier(c) == c.episode
AtBarrier(c, frame) == Barrier(c) # None /\ frame >= Barrier(c)

\* Fault: the episode ends before the release is acknowledged.
FinishEarly(c) ==
    IF ~c.local.paused /\ ~c.peer.paused
    THEN [c EXCEPT !.episode = None]
    ELSE c

FinishEpisode(c) ==
    IF ~c.local.paused /\ ~c.peer.paused /\ c.local_acked = c.local_request
    THEN [c EXCEPT !.episode = None]
    ELSE c

\* Fault: the latest vote decides, not the earliest frame.
UpdateEpisodeLatest(c, target, paused) ==
    IF paused THEN [c EXCEPT !.episode = target] ELSE FinishEpisode(c)

UpdateEpisode(c, target, paused) ==
    IF paused
    THEN [c EXCEPT !.episode = IF @ = None THEN target ELSE Lesser(@, target)]
    ELSE FinishEpisode(c)

-----------------------------------------------------------------------------
(* The local vote: fn request and fn reconcile.                            *)

Desire(c, paused) == [c EXCEPT !.desired = paused]

\* Nothing to change, or a release still has to be acknowledged.
Deferred(c) ==
    \/ c.local.paused = c.desired
    \/ c.desired /\ c.local_acked # c.local_request

Target(c, current) ==
    IF ~c.desired THEN c.local.target
    ELSE IF Barrier(c) # None /\ Barrier(c) >= current THEN Barrier(c)
    ELSE current + PauseLead

Reconcile(c, current) ==
    IF Deferred(c) THEN c
    ELSE UpdateEpisode(
            [c EXCEPT !.local = Vote(Target(c, current), c.desired),
                      !.local_request = @ + 1],
            Target(c, current), c.desired)

\* The message reconcile returns, if any.
Change(c, current) ==
    IF Deferred(c) THEN <<>>
    ELSE <<[type |-> "PauseChange", request |-> c.local_request + 1,
            frame |-> Target(c, current), paused |-> c.desired]>>

-----------------------------------------------------------------------------
(* The peer's vote: fn observe; and its answer to ours: fn acknowledge.    *)

Repeated(c, m) == m.request = c.peer_request

ObserveErr(c, current, m) ==
    \/ m.request = 0
    \/ Repeated(c, m) /\ c.peer # Vote(m.frame, m.paused)
    \/ /\ ~Repeated(c, m)
       /\ \/ m.request # c.peer_request + 1
          \/ c.peer.paused = m.paused
          \/ m.paused /\ m.frame \notin current .. current + 2 * PauseLead
          \/ ~m.paused /\ c.peer.target # m.frame

Observe(c, m) ==
    IF Repeated(c, m) THEN c
    ELSE UpdateEpisode(
            [c EXCEPT !.peer = Vote(m.frame, m.paused),
                      !.peer_request = m.request],
            m.frame, m.paused)

AcknowledgeErr(c, m) == m.request = 0 \/ m.request > c.local_request

\* Fault: the episode is left open.
AcknowledgedOpen(c, m) ==
    [c EXCEPT !.local_acked = IF m.request > @ THEN m.request ELSE @]

\* acknowledge, before it reconciles.
Acknowledged(c, m) ==
    FinishEpisode([c EXCEPT !.local_acked =
                        IF m.request > @ THEN m.request ELSE @])

-----------------------------------------------------------------------------
(* What the player is told: fn status returns None or two flags.           *)

Flags(c) == <<c.local.paused, c.peer.paused>>
Running == <<FALSE, FALSE>>

\* Fault: the pause is reported before its frames are confirmed.
StatusEarly(c, frame, confirmed) ==
    IF Barrier(c) # None /\ frame < Barrier(c)
    THEN IF c.reported = None THEN None ELSE Running
    ELSE IF \/ Barrier(c) # None /\ Flags(c) = Running
            \/ Barrier(c) = None /\ c.reported = None
            \/ c.reported = Flags(c)
         THEN None
         ELSE Flags(c)

Status(c, frame, confirmed) ==
    IF Barrier(c) # None /\ frame < Barrier(c)
    THEN IF c.reported = None THEN None ELSE Running
    ELSE IF \/ Barrier(c) # None /\ (confirmed < Barrier(c) \/ Flags(c) = Running)
            \/ Barrier(c) = None /\ c.reported = None
            \/ c.reported = Flags(c)
         THEN None
         ELSE Flags(c)

Report(c, frame, confirmed) ==
    LET status == Status(c, frame, confirmed)
    IN  [c EXCEPT !.reported = IF status = None THEN @
                               ELSE IF status = Running THEN None
                               ELSE status]
=============================================================================
