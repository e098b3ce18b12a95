--------------------------- MODULE RollbackProofs ---------------------------
(***************************************************************************)
(* The guarantees of one peer, for every prediction window, input delay,   *)
(* retention, set of buttons and length of play.                           *)
(***************************************************************************)
EXTENDS Rollback, SessionLemmas

\* The end of a batch never fails, keeps the invariant, leaves nothing to
\* correct and takes back no released frame.
LEMMA SettleInv ==
    ASSUME NEW e, NEW g, ExecutionInv(e, g)
    PROVE  /\ ~SettleErr(e)
           /\ ExecutionInv(Settle(e), g)
           /\ Settle(e).timeline.dirty = None
           /\ Settle(e).timeline.player = e.timeline.player
           /\ Settle(e).timeline.confirmed = e.timeline.confirmed
           /\ \A k \in DOMAIN e.released :
                /\ k \in DOMAIN Settle(e).released
                /\ Settle(e).released[k] = e.released[k]
<1> DEFINE c == Correct(e)
<1>1. ~CorrectErr(e)
    BY CorrectNeverErrs
<1>2. /\ ExecutionInv(c, g)
      /\ c.timeline.dirty = None
      /\ c.timeline.player = e.timeline.player
      /\ c.timeline.confirmed = e.timeline.confirmed
      /\ c.released = e.released
    BY CorrectInv
<1> HIDE DEF c
<1>3. /\ ExecutionInv(Commit(c), g)
      /\ Commit(c).timeline = c.timeline
      /\ \A k \in DOMAIN c.released :
            k \in DOMAIN Commit(c).released
            /\ Commit(c).released[k] = c.released[k]
      /\ ~WindowErr(Commit(c))
    BY <1>2, CommitInv
<1>4. Settle(e) = Commit(c)
    BY DEF Settle, c
<1> QED
    BY <1>1, <1>2, <1>3, <1>4 DEF SettleErr

\* What ReleasedFinal says of one step.
Extends(d, e) ==
    /\ \A k \in DOMAIN e.released :
            k \in DOMAIN d.released /\ d.released[k] = e.released[k]
    /\ d.timeline.confirmed >= e.timeline.confirmed

\* An accepted input.
LEMMA ReceiveStep ==
    ASSUME RollbackInv, NEW f \in Nat, NEW b \in Buttons, Receive(f, b)
    PROVE  RollbackInv' /\ Extends(peer', peer)
<1> DEFINE t == peer.timeline
           u == ReceiveRemote(t, f, b)
<1>1. ExecutionInv(peer, truth) /\ t.player = Player /\ failed = "no"
    BY DEF RollbackInv, Receive
<1>2. ~ReceiveErr(t, f, b) /\ peer' = [peer EXCEPT !.timeline = u]
      /\ truth' = (IF Ignored(t, f) THEN truth
                   ELSE Put(truth, f, Other(t.player), b))
      /\ failed' = failed
    BY <1>1 DEF Receive
<1>3. ExecutionInv(peer', truth')
    BY <1>1, <1>2, ReceiveInv
<1>4. TimelineInv(t, truth) /\ IsSession(peer)
    BY <1>1 DEF ExecutionInv, ExecutionType, IsSession
<1>5. u.player = t.player /\ u.confirmed >= t.confirmed
    BY <1>2, <1>4, ReceiveRemoteFields
<1> HIDE DEF u
<1>6. peer'.timeline = u /\ peer'.released = peer.released
    BY <1>2, <1>4 DEF IsSession
<1> QED
    BY <1>1, <1>2, <1>3, <1>5, <1>6 DEF RollbackInv, Extends

\* The end of a batch.
LEMMA PollStep ==
    ASSUME RollbackInv, Poll
    PROVE  RollbackInv' /\ Extends(peer', peer)
<1>1. /\ ExecutionInv(peer, truth) /\ peer.timeline.player = Player
      /\ peer.timeline.confirmed \in Nat
    BY ExecutionFacts DEF RollbackInv
<1>2. ~SettleErr(peer)
    BY <1>1, SettleInv
<1>3. peer' = Settle(peer) /\ failed' = "no" /\ truth' = truth
    BY <1>2 DEF Poll
<1>4. /\ ExecutionInv(Settle(peer), truth)
      /\ Settle(peer).timeline.player = peer.timeline.player
      /\ Settle(peer).timeline.confirmed = peer.timeline.confirmed
      /\ \A k \in DOMAIN peer.released :
            /\ k \in DOMAIN Settle(peer).released
            /\ Settle(peer).released[k] = peer.released[k]
    BY <1>1, SettleInv
<1> QED
    BY <1>1, <1>3, <1>4 DEF RollbackInv, Extends

\* A frame of play.
LEMMA StepStep ==
    ASSUME RollbackInv, NEW b \in Buttons, Step(b)
    PROVE  RollbackInv' /\ Extends(peer', peer)
<1> DEFINE s == Settle(peer)
           t == s.timeline
           x == Play(s, b)
           h == Put(truth, SampleFrame(t), Player, SampleValue(t, b))
<1>1. /\ ExecutionInv(peer, truth) /\ peer.timeline.player = Player
      /\ peer.timeline.confirmed \in Nat
    BY ExecutionFacts DEF RollbackInv
<1>2. /\ ExecutionInv(s, truth)
      /\ t.dirty = None
      /\ t.player = Player
      /\ t.confirmed = peer.timeline.confirmed
      /\ \A k \in DOMAIN peer.released :
            k \in DOMAIN s.released /\ s.released[k] = peer.released[k]
    BY <1>1, SettleInv
<1>3. /\ peer' = Commit(x) /\ truth' = h
      /\ failed' = IF WindowErr(peer') THEN "rollback" ELSE "no"
    BY DEF Step
<1> HIDE DEF s
<1>4. /\ ExecutionInv(x, h)
      /\ x.timeline.dirty = None
      /\ x.timeline.player = t.player
      /\ x.timeline.confirmed >= t.confirmed
      /\ x.released = s.released
    BY <1>2, PlayExecution
<1> HIDE DEF x, h
<1>5. /\ ExecutionInv(Commit(x), h)
      /\ Commit(x).timeline = x.timeline
      /\ \A k \in DOMAIN x.released :
            k \in DOMAIN Commit(x).released
            /\ Commit(x).released[k] = x.released[k]
      /\ ~WindowErr(Commit(x))
    BY <1>4, CommitInv
<1>6. failed' = "no"
    BY <1>3, <1>5
<1> QED
    BY <1>2, <1>3, <1>4, <1>5, <1>6 DEF RollbackInv, Extends

\* Every step of a peer preserves the invariant and takes nothing back.
LEMMA NextInv ==
    ASSUME RollbackInv, [Next]_vars
    PROVE  RollbackInv' /\ Extends(peer', peer)
<1>1. CASE UNCHANGED vars
    <2>1. peer.timeline.confirmed \in Nat
        BY ExecutionFacts DEF RollbackInv
    <2> QED
        BY <1>1, <2>1 DEF vars, RollbackInv, Extends
<1>2. ASSUME NEW f \in 0 .. MaxFrame + Lookahead + 1, NEW b \in Buttons,
             Receive(f, b)
      PROVE  RollbackInv' /\ Extends(peer', peer)
    BY <1>2, ReceiveStep
<1>3. ASSUME NEW f \in 0 .. MaxFrame + Lookahead + 1, NEW b \in Buttons,
             Reject(f, b)
      PROVE  RollbackInv' /\ Extends(peer', peer)
    <2>1. peer.timeline.confirmed \in Nat
        BY ExecutionFacts DEF RollbackInv
    <2> QED
        BY <1>3, <2>1 DEF Reject, RollbackInv, Extends
<1>4. CASE Poll
    BY <1>4, PollStep
<1>5. ASSUME NEW b \in Buttons, Step(b)
      PROVE  RollbackInv' /\ Extends(peer', peer)
    BY <1>5, StepStep
<1> QED
    BY <1>1, <1>2, <1>3, <1>4, <1>5 DEF Next

\* The inductive invariant: the peer's record of the game agrees, frame by
\* frame, with what both players really pressed, and everything a correction
\* may need is still held.
THEOREM Invariance == Spec => []RollbackInv
<1>1. Init => RollbackInv
    <2>1. Fresh(Player).timeline.player = Player
        BY DEF Fresh, WithDelay
    <2> QED
        BY <2>1, FreshInv, PlayerAssumption DEF Init, RollbackInv
<1>2. RollbackInv /\ [Next]_vars => RollbackInv'
    BY NextInv
<1> QED
    BY <1>1, <1>2, PTL DEF Spec

\* The state of a peer always has the types of the Rust structs.
THEOREM TypeCorrect == Spec => []TypeOK
<1>1. RollbackInv => TypeOK
    BY DEF RollbackInv, ExecutionInv, TimelineInv, TypeOK
<1> QED
    BY <1>1, Invariance, PTL

\* fn correct and fn commit never fail, whatever the remote player sends: their
\* checks ("correction exceeds retained window", "missing executed frame",
\* "rollback snapshot retired" and the two window bounds) are unreachable.
THEOREM RollbackNeverAborts == Spec => []NeverAborts
<1>1. RollbackInv => NeverAborts
    BY DEF RollbackInv, NeverAborts
<1> QED
    BY <1>1, Invariance, PTL

\* No prediction is ever released: every frame fn commit hands to the host was
\* simulated with the words both players really gave for it.
THEOREM ReleasedIsTrue == Spec => []ReleasedTrue
<1>1. RollbackInv => ReleasedTrue
    BY DEF RollbackInv, ExecutionInv, ReleasedRight, ReleasedTrue
<1> QED
    BY <1>1, Invariance, PTL

\* Frames are released in order, without gaps, up to the confirmed frame.
THEOREM ReleasedInOrder == Spec => []ReleasedContiguous
<1>1. RollbackInv => ReleasedContiguous
    BY DEF RollbackInv, ExecutionInv, ReleasedRight, OutputsHeld,
           ReleasedContiguous
<1> QED
    BY <1>1, Invariance, PTL

\* No simulated frame before the first known misprediction still reflects a
\* superseded prediction.
THEOREM NothingStale == Spec => []NoStaleFrame
<1>1. RollbackInv => NoStaleFrame
    <2> SUFFICES ASSUME RollbackInv, NEW f \in DOMAIN peer.timeline.executed,
                        Clean(peer.timeline, f)
                 PROVE  peer.core[f] = PortsAt(peer.timeline, f)
        BY DEF NoStaleFrame
    <2>1. /\ TimelineInv(peer.timeline, truth) /\ ExecutionType(peer)
          /\ CoreHistory(peer, truth)
        BY DEF RollbackInv, ExecutionInv
    <2>2. f \in DOMAIN peer.core
        BY <2>1 DEF TimelineInv, ExecutedSpan, ExecutionType
    <2>3. peer.core[f] = peer.timeline.executed[f]
        BY <2>1, <2>2 DEF CoreHistory
    <2>4. peer.timeline.executed[f] = PortsAt(peer.timeline, f)
        BY <2>1 DEF TimelineInv, ExecutedCurrent
    <2> QED
        BY <2>3, <2>4
<1> QED
    BY <1>1, Invariance, PTL

\* However long the session lasts, the inputs held reach back no further than
\* the prediction window and the retention, and ahead no further than the
\* lookahead: the timeline's memory is bounded.
THEOREM MemoryBounded == Spec => []RetainedBound
<1>1. RollbackInv => RetainedBound
    BY DEF RollbackInv, ExecutionInv, TimelineInv, RetainedBound
<1> QED
    BY <1>1, Invariance, PTL

\* No step takes back or changes a released frame, and confirmation never
\* retreats, also when a rollback restores an older machine state.
THEOREM ReleasedIsFinal == Spec => ReleasedFinal
<1>1. RollbackInv /\ [Next]_vars =>
        [/\ \A k \in DOMAIN peer.released :
                k \in DOMAIN peer'.released
                /\ peer'.released[k] = peer.released[k]
         /\ peer'.timeline.confirmed >= peer.timeline.confirmed]_vars
    BY NextInv DEF Extends
<1> QED
    BY <1>1, Invariance, PTL DEF Spec, ReleasedFinal
=============================================================================
