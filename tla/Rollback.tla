------------------------------ MODULE Rollback ------------------------------
(***************************************************************************)
(* One peer of a rollback session against a remote player who may say      *)
(* anything: inputs arrive late, out of order, twice, too far ahead, and   *)
(* even rewritten.  The peer is the Timeline and the Execution of          *)
(* src/netplay/session.rs without the pause protocol and the network.      *)
(*                                                                         *)
(* A batch (session.rs, fn batch) handles some events and ends by          *)
(* correcting and committing; an event is a Receive step and the end of    *)
(* the batch is part of Poll and of Step.                                  *)
(***************************************************************************)
EXTENDS Execution

CONSTANTS Player, MaxFrame

VARIABLES
    peer,    \* the session's timeline, machine, snapshots and buckets
    failed,  \* why the session ended: "no", "remote" or "rollback"
    truth    \* history: the word accepted for each frame and port, if any

vars == <<peer, failed, truth>>

ASSUME PlayerAssumption == Player \in Ports
ASSUME MaxFrameAssumption == MaxFrame \in Nat

Init ==
    /\ peer = Fresh(Player)
    /\ failed = "no"
    /\ truth = [f \in 0 .. InputDelay - 1 |-> [i \in Ports |-> Neutral]]

\* The end of a batch, and the errors that could stop it.
Settle(e) == Commit(Correct(e))
SettleErr(e) == CorrectErr(e) \/ WindowErr(Settle(e))

\* handle_event of Message::Input, when the timeline accepts it.
Receive(f, b) ==
    /\ failed = "no"
    /\ ~ReceiveErr(peer.timeline, f, b)
    /\ peer' = [peer EXCEPT !.timeline = ReceiveRemote(peer.timeline, f, b)]
    /\ truth' = IF Ignored(peer.timeline, f) THEN truth
                ELSE Put(truth, f, Other(Player), b)
    /\ UNCHANGED failed

\* The same when it does not: the error ends the session.
Reject(f, b) ==
    /\ failed = "no"
    /\ ReceiveErr(peer.timeline, f, b)
    /\ failed' = "remote"
    /\ UNCHANGED <<peer, truth>>

\* fn poll and fn accept_event, after their events.
Poll ==
    /\ failed = "no"
    /\ peer' = IF SettleErr(peer) THEN peer ELSE Settle(peer)
    /\ failed' = IF SettleErr(peer) THEN "rollback" ELSE "no"
    /\ UNCHANGED truth

\* fn step: a batch, then one frame of play, then a commit.
Step(b) ==
    LET settled == Settle(peer)
        t       == settled.timeline
    IN  /\ failed = "no"
        /\ peer.timeline.frame < MaxFrame
        /\ ~SettleErr(peer)
        /\ peer' = Commit(Play(settled, b))
        /\ truth' = Put(truth, SampleFrame(t), Player, SampleValue(t, b))
        /\ failed' = IF WindowErr(peer') THEN "rollback" ELSE "no"

Next ==
    \/ \E f \in 0 .. MaxFrame + Lookahead + 1, b \in Buttons :
            Receive(f, b) \/ Reject(f, b)
    \/ Poll
    \/ \E b \in Buttons : Step(b)

Spec == Init /\ [][Next]_vars

-----------------------------------------------------------------------------
(* What a peer guarantees, whatever the remote player sends.               *)

\* The session record and the history have the types of the Rust structs.
TypeOK ==
    /\ failed \in {"no", "remote", "rollback"}
    /\ TimelineType(peer.timeline)
    /\ ExecutionType(peer)
    /\ IsMap(truth, Entries)
    /\ peer.timeline.player = Player

\* No message sequence makes fn correct or fn commit fail: a misprediction is
\* always at most PREDICTION_WINDOW frames old ("correction exceeds retained
\* window"), its snapshot is still held ("rollback snapshot retired"), every
\* frame to replay is on record ("missing executed frame"), and the snapshot
\* and output windows are never exceeded.
NeverAborts == failed # "rollback"

\* Every frame handed to the host was simulated with the words both players
\* really gave for it: no prediction is ever released by fn commit.
ReleasedTrue ==
    \A k \in DOMAIN peer.released :
        k - 1 \in DOMAIN truth /\ peer.released[k] = truth[k - 1]

\* Frames are released without gaps, and never past the confirmed frame.
ReleasedContiguous ==
    /\ DOMAIN peer.released = 1 .. peer.committed
    /\ peer.committed <= ConfirmedFrame(peer.timeline)

\* Before the first misprediction the machine has run with the best knowledge
\* of each frame: once fn correct has cleared `dirty`, no simulated frame,
\* predicted ones included, still reflects a superseded prediction.
NoStaleFrame ==
    \A f \in DOMAIN peer.timeline.executed :
        Clean(peer.timeline, f) => peer.core[f] = PortsAt(peer.timeline, f)

\* The memory of a timeline is bounded however long the session lasts.
RetainedBound == InputsRecent(peer.timeline)

\* A released frame is final, and confirmation never retreats, also across
\* a rollback.
ReleasedFinal ==
    [][/\ \A k \in DOMAIN peer.released :
            k \in DOMAIN peer'.released /\ peer'.released[k] = peer.released[k]
       /\ peer'.timeline.confirmed >= peer.timeline.confirmed]_vars
\* The inductive strengthening of the invariants above.
RollbackInv ==
    /\ failed \in {"no", "remote"}
    /\ peer.timeline.player = Player
    /\ ExecutionInv(peer, truth)
=============================================================================
