----------------------------- MODULE Execution ------------------------------
(***************************************************************************)
(* How a netplay session drives the emulated machine along its timeline    *)
(* (src/netplay/session/execution.rs): simulate a frame, restore a snapshot*)
(* and replay, and release what is confirmed.                              *)
(*                                                                         *)
(* The machine is deterministic, so its state after n frames is a function *)
(* of the n port words it was given: a machine state is a TRAJECTORY, a    *)
(* function from 0 .. n - 1 to port words.  A snapshot is the trajectory   *)
(* at which it was taken, and so is the content of an output bucket (audio,*)
(* ports and state hash are functions of it).                              *)
(***************************************************************************)
EXTENDS Timeline, FiniteSets

\* The trajectory after the first n frames of c.
Prefix(c, n) == [f \in 0 .. n - 1 |-> c[f]]

Fresh(player) ==
    [timeline  |-> WithDelay(player),
     core      |-> [f \in {} |-> [i \in Ports |-> Neutral]],
     snapshots |-> [k \in {0} |-> [f \in {} |-> [i \in Ports |-> Neutral]]],
     outputs   |-> [k \in {} |-> [f \in {} |-> [i \in Ports |-> Neutral]]],
     committed |-> 0,
     released  |-> [k \in {} |-> [i \in Ports |-> Neutral]]]

\* map.insert for every frame of a range, each value the machine's state then.
Capture(map, core, frames) ==
    [k \in DOMAIN map \cup frames |->
        IF k \in frames THEN Prefix(core, k) ELSE map[k]]

\* execute for the consecutive inputs of `plan`, a function from frames to port
\* words: run the machine, then take a snapshot and fill a bucket for each.
Ran(core, plan) ==
    [f \in DOMAIN core \cup DOMAIN plan |->
        IF f \in DOMAIN plan THEN plan[f] ELSE core[f]]
Completed(plan) == {f + 1 : f \in DOMAIN plan}

Execute(e, plan) ==
    LET core == Ran(e.core, plan)
    IN  [e EXCEPT
            !.core = core,
            !.snapshots = Capture(e.snapshots, core, Completed(plan)),
            !.outputs = Capture(e.outputs, core, Completed(plan))]

\* correct: restore the snapshot of the first mispredicted frame and replay.
CorrectErr(e) ==
    \/ CorrectionErr(e.timeline)
    \/ CorrectedErr(e.timeline)
    \/ e.timeline.dirty # None /\ e.timeline.dirty \notin DOMAIN e.snapshots

Until(map, frame) == [k \in {j \in DOMAIN map : j <= frame} |-> map[k]]

Correct(e) ==
    IF e.timeline.dirty = None THEN e
    ELSE LET first == e.timeline.dirty
             restored ==
                [e EXCEPT !.core = e.snapshots[first],
                          !.snapshots = Until(e.snapshots, first),
                          !.outputs = Until(e.outputs, first)]
         IN  [Execute(restored, Correction(e.timeline)) EXCEPT
                !.timeline = Corrected(e.timeline)]

\* commit: release the confirmed buckets in frame order, drop older snapshots.
\* Fault: predicted frames are released as well.
ReleasedEarly(e) == {k \in DOMAIN e.outputs : k <= e.timeline.frame}
Released(e) ==
    {k \in DOMAIN e.outputs : k <= ConfirmedFrame(e.timeline)}

\* Fault: the snapshot of the confirmed frame itself is dropped.
KeptAfter(e) == {k \in DOMAIN e.snapshots : k > ConfirmedFrame(e.timeline)}
Kept(e) == {k \in DOMAIN e.snapshots : k >= ConfirmedFrame(e.timeline)}

Commit(e) ==
    LET out == Released(e)
    IN  [e EXCEPT
            !.released = [k \in DOMAIN e.released \cup out |->
                IF k \in out THEN e.outputs[k][k - 1] ELSE e.released[k]],
            !.outputs = [k \in DOMAIN e.outputs \ out |-> e.outputs[k]],
            !.committed = IF out = {} THEN e.committed ELSE Latest(out),
            !.snapshots = [k \in Kept(e) |-> e.snapshots[k]]]

\* The two ensure! that end fn commit.
WindowErr(e) ==
    \/ Cardinality(DOMAIN e.snapshots) > PREDICTION_WINDOW + 1
    \/ Cardinality(DOMAIN e.outputs) > PREDICTION_WINDOW

\* The frame of step: sample the buttons, then simulate a frame unless the
\* prediction window is used up.
Play(e, b) ==
    LET t == SampleLocal(e.timeline, b)
    IN  IF Stalled(t) THEN [e EXCEPT !.timeline = t]
        ELSE [Execute(e, [f \in {t.frame} |-> PortsAt(t, t.frame)]) EXCEPT
                !.timeline = Advance(t)]
-----------------------------------------------------------------------------
(* What every operation preserves.                                         *)

ExecutionType(e) ==
    /\ e \in [timeline : {e.timeline}, core : {e.core},
              snapshots : {e.snapshots}, outputs : {e.outputs},
              committed : Nat, released : {e.released}]
    /\ IsMap(e.core, PortValues)
    /\ DOMAIN e.core = 0 .. e.timeline.frame - 1
    /\ IsMap(e.released, PortValues)

\* The machine ran what the timeline has on record, and before that the truth.
CoreHistory(e, g) ==
    \A f \in DOMAIN e.core :
        IF f \in DOMAIN e.timeline.executed
        THEN e.core[f] = e.timeline.executed[f]
        ELSE f < e.timeline.confirmed /\ f \in DOMAIN g /\ e.core[f] = g[f]

\* A snapshot is the state the machine had then, and the ones a correction may
\* ask for are there.
SnapshotsHeld(e) ==
    /\ \A k \in DOMAIN e.snapshots :
            k \in 0 .. e.timeline.frame /\ e.snapshots[k] = Prefix(e.core, k)
    /\ \A k \in 0 .. e.timeline.frame :
            \/ k >= e.timeline.confirmed
            \/ k = e.timeline.frame
            \/ e.timeline.dirty # None /\ k >= e.timeline.dirty
            => k \in DOMAIN e.snapshots

\* A bucket waits for every frame not yet released, and no misprediction
\* reaches back to a released frame.
OutputsHeld(e) ==
    /\ DOMAIN e.outputs = e.committed + 1 .. e.timeline.frame
    /\ \A k \in DOMAIN e.outputs : e.outputs[k] = Prefix(e.core, k)
    /\ e.committed <= ConfirmedFrame(e.timeline)
    /\ e.timeline.dirty # None => e.committed <= e.timeline.dirty

ReleasedRight(e, g) ==
    /\ DOMAIN e.released = 1 .. e.committed
    /\ \A k \in DOMAIN e.released :
            k - 1 \in DOMAIN g /\ e.released[k] = g[k - 1]

ExecutionInv(e, g) ==
    /\ TimelineInv(e.timeline, g)
    /\ ExecutionType(e)
    /\ CoreHistory(e, g)
    /\ SnapshotsHeld(e)
    /\ OutputsHeld(e)
    /\ ReleasedRight(e, g)
=============================================================================
