-------------------------- MODULE PausePlayProofs --------------------------
(***************************************************************************)
(* Proofs about PausePlay.  Two invariants are proved, one on top of the   *)
(* other.                                                                  *)
(*                                                                         *)
(* PlayInv is about the counters: how far each session has sampled, played *)
(* and heard, and which inputs are under way.  It holds for every delay    *)
(* and gives TypeOK, and that no input is refused.                         *)
(*                                                                         *)
(* PauseInv adds Pact, what the two PauseControls and the messages between *)
(* them have in common, and holds when InputDelay is at least 1 (with no   *)
(* delay a vote can come too late, which the run pause_zero_delay shows).  *)
(* It gives NoFalseAlarm, PausedTogether and SameBarrier.                  *)
(*                                                                         *)
(* The lemmas about two PauseControls are in SessionLemmas. They, and most *)
(* of those below, are about two sessions given by their parts, so that    *)
(* they are of constant level and serve both ports:                        *)
(*   c, f, s, k, h   the first one's PauseControl, frames played, inputs   *)
(*                   sampled, peer's inputs known, and messages to it;     *)
(*   d, e, t, l, g   the same of the second.                               *)
(***************************************************************************)
EXTENDS PausePlay, SessionLemmas

-----------------------------------------------------------------------------
\* One session's counters: it has played f frames, sampled s and knows k inputs of
\* the peer, which has sampled t; h is under way to it, b says it is in a batch.
Side(f, s, k, h, t, b) ==
    /\ b => h # <<>>
    /\ f <= MaxFrame
    /\ InputDelay <= k /\ k <= t
    /\ s = f + InputDelay \/ s = f + InputDelay + 1
    /\ f <= k + PREDICTION_WINDOW
    /\ \A i \in 1 .. Len(h) : IsInput(h[i]) => k <= h[i].frame /\ h[i].frame < t
    /\ \A i, j \in 1 .. Len(h) :
            i < j /\ IsInput(h[i]) /\ IsInput(h[j]) => h[i].frame < h[j].frame

\* The types of the variables.
PlayTypes ==
    /\ frame \in [Ports -> Nat] /\ sampled \in [Ports -> Nat] /\ known \in [Ports -> Nat]
    /\ pause \in [Ports -> Controls] /\ chan \in [Ports -> Seq(Messages)]
    /\ busy \in [Ports -> BOOLEAN]
    /\ status \in [Ports -> {"up", "input exceeds lookahead", "pause refused"}]

\* One port of the counters' invariant, and both.
PlaySide(p) ==
    /\ Side(frame[p], sampled[p], known[p], chan[p], sampled[Other(p)], busy[p])
    /\ Sane(pause[p]) /\ Below(pause[p], frame[p])

PlayInv == PlayTypes /\ \A p \in Ports : PlaySide(p)

\* One port of the pause invariant, and both.
PauseSide(p) ==
    /\ status[p] = "up"
    /\ Told(pause[p], frame[p], Confirmed(sampled[p], known[p]), busy[p])
    /\ Pact(pause[p], frame[p], known[p], chan[p],
            pause[Other(p)], frame[Other(p)], known[Other(p)], chan[Other(p)])

PauseInv == PlayInv /\ \A p \in Ports : PauseSide(p)

\* What is known of the peer's inputs after the message m.
Learnt(k, m) == IF IsInput(m) THEN m.frame + 1 ELSE k

\* Taking the head of the channel keeps the counters' invariant.
LEMMA SideTake ==
    ASSUME NEW f \in Nat, NEW s \in Nat, NEW k \in Nat, NEW h \in Seq(Messages),
           NEW t \in Nat, NEW b, NEW b2 \in BOOLEAN,
           Side(f, s, k, h, t, b), h # <<>>, b2 => Len(h) > 1
    PROVE  /\ Side(f, s, Learnt(k, Head(h)), Tail(h), t, b2)
           /\ Learnt(k, Head(h)) \in Nat /\ k <= Learnt(k, Head(h))
  <1> DEFINE m == Head(h)
             u == Tail(h)
             k2 == Learnt(k, m)
  <1>1. /\ u \in Seq(Messages) /\ Len(h) \in Nat \ {0} /\ h[1] = m /\ 1 \in 1 .. Len(h)
        /\ Len(u) = Len(h) - 1
        /\ \A i \in 1 .. Len(u) : u[i] = h[i + 1] /\ i + 1 \in 1 .. Len(h)
        /\ \A i \in 1 .. Len(u) : u[i] \in Messages
        /\ m \in Messages
    BY TailFacts
  <1>2. /\ IsInput(m) => k2 = m.frame + 1 /\ m.frame \in Nat
        /\ ~IsInput(m) => k2 = k
        /\ k2 \in Nat
    BY <1>1, MessageTypes DEF Learnt
  <1> HIDE DEF m, u, k2
  <1>3. IsInput(m) => k <= m.frame /\ m.frame < t BY <1>1 DEF Side
  <1>4. k <= k2 /\ k2 <= t
    <2>1. k <= t BY DEF Side
    <2> QED BY <2>1, <1>2, <1>3
  <1>5. b2 => u # <<>> BY <1>1
  <1>6. ASSUME NEW i \in 1 .. Len(u), IsInput(u[i]) PROVE k2 <= u[i].frame /\ u[i].frame < t
    <2>1. u[i] = h[i + 1] /\ i + 1 \in 1 .. Len(h) BY <1>1
    <2>2. 1 < i + 1 BY <1>1
    <2>3. u[i].frame \in Nat BY <1>1, <1>6, MessageTypes
    <2>4. k <= u[i].frame /\ u[i].frame < t BY <2>1, <1>6 DEF Side
    <2>5. IsInput(m) => m.frame < u[i].frame BY <2>1, <2>2, <1>1, <1>6 DEF Side
    <2> QED BY <2>3, <2>4, <2>5, <1>2
  <1>7. ASSUME NEW i \in 1 .. Len(u), NEW j \in 1 .. Len(u), i < j,
               IsInput(u[i]), IsInput(u[j])
        PROVE  u[i].frame < u[j].frame
    <2>1. i + 1 < j + 1 BY <1>1, <1>7
    <2>2. /\ u[i] = h[i + 1] /\ u[j] = h[j + 1]
          /\ i + 1 \in 1 .. Len(h) /\ j + 1 \in 1 .. Len(h)
      BY <1>1
    <2> QED BY <1>7, <2>1, <2>2 DEF Side
  <1>8. InputDelay <= k2 /\ f <= k2 + PREDICTION_WINDOW
    <2>1. InputDelay <= k /\ f <= k + PREDICTION_WINDOW BY DEF Side
    <2> QED BY <2>1, <1>2, <1>4, Numbers
  <1>9. f <= MaxFrame /\ (s = f + InputDelay \/ s = f + InputDelay + 1) BY DEF Side
  <1>10. Side(f, s, k2, u, t, b2) BY <1>4, <1>5, <1>6, <1>7, <1>8, <1>9 DEF Side
  <1> QED BY <1>2, <1>4, <1>10 DEF u, m, k2

\* Sending an input that was just sampled, or anything else, keeps the peer's.
LEMMA SidePut ==
    ASSUME NEW f \in Nat, NEW s \in Nat, NEW k \in Nat, NEW h \in Seq(Messages),
           NEW t \in Nat, NEW t2 \in Nat, NEW b, NEW n \in Messages,
           Side(f, s, k, h, t, b), t <= t2,
           IsInput(n) => n.frame = t /\ t2 = t + 1
    PROVE  Side(f, s, k, Append(h, n), t2, b)
  <1> DEFINE a == Append(h, n)
  <1>1. /\ Len(h) \in Nat /\ Len(a) = Len(h) + 1 /\ a[Len(h) + 1] = n
        /\ \A i \in 1 .. Len(h) : a[i] = h[i] /\ h[i] \in Messages
    BY AppendFacts
  <1>2. \A i \in 1 .. Len(a) : i = Len(h) + 1 \/ i \in 1 .. Len(h) BY <1>1
  <1>3. a # <<>> BY <1>1
  <1> HIDE DEF a
  <1>4. InputDelay <= k /\ k <= t2 /\ k <= t
    <2>1. InputDelay <= k /\ k <= t BY DEF Side
    <2> QED BY <2>1
  <1>5. ASSUME NEW i \in 1 .. Len(h), IsInput(h[i])
        PROVE  k <= h[i].frame /\ h[i].frame < t /\ h[i].frame \in Nat
    BY <1>1, <1>5, MessageTypes DEF Side
  <1>6. ASSUME NEW i \in 1 .. Len(a), IsInput(a[i]) PROVE k <= a[i].frame /\ a[i].frame < t2
    <2>1. CASE i = Len(h) + 1
      <3>1. a[i].frame = t /\ t2 = t + 1 BY <2>1, <1>1, <1>6
      <3> QED BY <3>1, <1>4
    <2>2. CASE i \in 1 .. Len(h)
      <3>1. a[i] = h[i] BY <2>2, <1>1
      <3>2. k <= a[i].frame /\ a[i].frame < t /\ a[i].frame \in Nat
        BY <3>1, <2>2, <1>5, <1>6
      <3> QED BY <3>2
    <2> QED BY <2>1, <2>2, <1>2
  <1>7. ASSUME NEW i \in 1 .. Len(a), NEW j \in 1 .. Len(a), i < j,
               IsInput(a[i]), IsInput(a[j])
        PROVE  a[i].frame < a[j].frame
    <2>1. i \in 1 .. Len(h) /\ a[i] = h[i] BY <1>1, <1>2, <1>7
    <2>2. CASE j = Len(h) + 1
      <3>1. a[j].frame = t BY <2>2, <1>1, <1>7
      <3> QED BY <3>1, <2>1, <1>5, <1>7
    <2>3. CASE j \in 1 .. Len(h)
      <3>1. a[j] = h[j] BY <2>3, <1>1
      <3> QED BY <3>1, <2>1, <2>3, <1>7 DEF Side
    <2> QED BY <2>2, <2>3, <1>2
  <1>8. Side(f, s, k, a, t2, b) BY <1>3, <1>4, <1>6, <1>7 DEF Side
  <1> QED BY <1>8 DEF a

-----------------------------------------------------------------------------
(* The steps of the specification.                                         *)

\* Only p's session moves, and what it sends goes to the peer's channel.
Moved(p) ==
    /\ PlayTypes'
    /\ frame'[Other(p)] = frame[Other(p)] /\ sampled'[Other(p)] = sampled[Other(p)]
    /\ known'[Other(p)] = known[Other(p)] /\ pause'[Other(p)] = pause[Other(p)]
    /\ busy'[Other(p)] = busy[Other(p)] /\ status'[Other(p)] = status[Other(p)]

\* What a step of p has to keep for the counters.
LEMMA PlayMoves ==
    ASSUME PlayInv, NEW p \in Ports, Moved(p),
           Side(frame'[p], sampled'[p], known'[p], chan'[p], sampled[Other(p)], busy'[p]),
           Sane(pause'[p]), Below(pause'[p], frame'[p]),
           Side(frame[Other(p)], sampled[Other(p)], known[Other(p)], chan'[Other(p)],
                sampled'[p], busy[Other(p)])
    PROVE  PlayInv'
  <1>1. Other(p) \in Ports /\ Other(Other(p)) = p /\ \A r \in Ports : r = p \/ r = Other(p)
    BY TwoPorts
  <1>2. PlaySide(p)' BY <1>1 DEF PlaySide, Moved
  <1>3. PlaySide(Other(p))' BY <1>1 DEF PlayInv, PlaySide, Moved
  <1> QED BY <1>1, <1>2, <1>3 DEF PlayInv, Moved

\* What a step of p has to keep for the pause agreement.
LEMMA PauseMoves ==
    ASSUME PauseInv, NEW p \in Ports, Moved(p), PlayInv', status'[p] = "up",
           Told(pause'[p], frame'[p], Confirmed(sampled'[p], known'[p]), busy'[p]),
           Pact(pause'[p], frame'[p], known'[p], chan'[p],
                pause[Other(p)], frame[Other(p)], known[Other(p)], chan'[Other(p)])
    PROVE  PauseInv'
  <1>1. Other(p) \in Ports /\ Other(Other(p)) = p /\ \A r \in Ports : r = p \/ r = Other(p)
    BY TwoPorts
  <1>2. PauseSide(p)' BY <1>1 DEF PauseSide, Moved
  <1>3. Pact(pause[Other(p)], frame[Other(p)], known[Other(p)], chan'[Other(p)],
             pause'[p], frame'[p], known'[p], chan'[p])
    BY PactSymmetric
  <1>4. PauseSide(Other(p))' BY <1>1, <1>3 DEF PauseInv, PauseSide, Moved
  <1> QED BY <1>1, <1>2, <1>4 DEF PauseInv

\* What the invariant says of a port and of its peer.
LEMMA PortTypes ==
    ASSUME PlayInv, NEW p \in Ports
    PROVE  /\ frame[p] \in Nat /\ sampled[p] \in Nat /\ known[p] \in Nat
           /\ pause[p] \in Controls /\ chan[p] \in Seq(Messages) /\ busy[p] \in BOOLEAN
           /\ Side(frame[p], sampled[p], known[p], chan[p], sampled[Other(p)], busy[p])
           /\ Sane(pause[p]) /\ Below(pause[p], frame[p])
  BY DEF PlayInv, PlayTypes, PlaySide

\* report_pause changes what was told and no more.
LEMMA ReportedSame ==
    ASSUME NEW c \in Controls, NEW p, NEW ends \in BOOLEAN
    PROVE  /\ ReportedIf(ends, p, c) \in Controls /\ Same(c, ReportedIf(ends, p, c))
           /\ Reported(p, c) \in Controls /\ Same(c, Reported(p, c))
  <1>1. Same(c, c) BY DEF Same
  <1> QED BY <1>1, ReportFields DEF ReportedIf, Reported

\* What the player is told after a step, from what it was told before.
LEMMA ReportedTold ==
    ASSUME NEW c \in Controls, NEW p, NEW ends \in BOOLEAN,
           frame'[p] \in Nat, sampled'[p] \in Nat, known'[p] \in Nat,
           Halts(c, frame'[p]), c.reported # Running,
           c.reported # None => frame'[p] <= Confirmed(sampled'[p], known'[p])
    PROVE  /\ Told(ReportedIf(ends, p, c), frame'[p], Confirmed(sampled'[p], known'[p]), ~ends)
           /\ \A b : Told(Reported(p, c), frame'[p], Confirmed(sampled'[p], known'[p]), b)
  <1> DEFINE f == frame'[p]
             y == Confirmed(sampled'[p], known'[p])
  <1>1. f \in Nat /\ y \in Nat BY DEF Confirmed, Lesser
  <1>2. Reported(p, c) = Report(c, f, Lesser(f, y)) BY DEF Reported
  <1> HIDE DEF f, y
  <1>3. /\ Reported(p, c).reported # Running
        /\ Reported(p, c).reported # None => f <= y /\ c.episode # None /\ f >= c.episode
    BY <1>1, <1>2, ReportTold DEF f, y
  <1>4. Reported(p, c).episode = c.episode BY ReportedSame DEF Same
  <1>5. \A b : Told(Reported(p, c), f, y, b) BY <1>3, <1>4 DEF Told
  <1>6. Told(c, f, y, TRUE) BY DEF Told, f, y
  <1>7. Told(ReportedIf(ends, p, c), f, y, ~ends)
    <2>1. CASE ends BY <2>1, <1>5 DEF ReportedIf
    <2>2. CASE ~ends
      <3>1. (~ends) = TRUE BY <2>2
      <3> QED BY <3>1, <2>2, <1>6 DEF ReportedIf
    <2> QED BY <2>1, <2>2
  <1> QED BY <1>5, <1>7 DEF f, y

\* The head of the channel.
LEMMA HeadType ==
    ASSUME NEW h \in Seq(Messages), h # <<>>
    PROVE  Head(h) \in Messages /\ Tail(h) \in Seq(Messages)
  BY TailFacts

\* p takes a step to these values; g is what is then under way to its peer.
Acts(p, f, s, k, c, h, g, b) ==
    /\ frame' = [frame EXCEPT ![p] = f] /\ sampled' = [sampled EXCEPT ![p] = s]
    /\ known' = [known EXCEPT ![p] = k] /\ pause' = [pause EXCEPT ![p] = c]
    /\ chan' = [chan EXCEPT ![p] = h, ![Other(p)] = g]
    /\ busy' = [busy EXCEPT ![p] = b] /\ UNCHANGED status

\* The same, at p and in both channels.
Reaches(p, f, s, k, c, h, g, b) ==
    /\ frame'[p] = f /\ sampled'[p] = s /\ known'[p] = k /\ pause'[p] = c
    /\ chan'[p] = h /\ chan'[Other(p)] = g /\ busy'[p] = b /\ status'[p] = status[p]

\* Such a step, seen at each port.
LEMMA ActsMoves ==
    ASSUME PlayInv, NEW p \in Ports, NEW f \in Nat, NEW s \in Nat, NEW k \in Nat,
           NEW c \in Controls, NEW h \in Seq(Messages), NEW g \in Seq(Messages),
           NEW b \in BOOLEAN, Acts(p, f, s, k, c, h, g, b)
    PROVE  Moved(p) /\ Reaches(p, f, s, k, c, h, g, b)
  <1> DEFINE q == Other(p)
  <1>1. q \in Ports /\ q # p BY TwoPorts
  <1> HIDE DEF q
  <1>2. frame' \in [Ports -> Nat] /\ frame'[p] = f /\ frame'[q] = frame[q]
    BY <1>1 DEF Acts, PlayInv, PlayTypes
  <1>3. sampled' \in [Ports -> Nat] /\ sampled'[p] = s /\ sampled'[q] = sampled[q]
    BY <1>1 DEF Acts, PlayInv, PlayTypes
  <1>4. known' \in [Ports -> Nat] /\ known'[p] = k /\ known'[q] = known[q]
    BY <1>1 DEF Acts, PlayInv, PlayTypes
  <1>5. pause' \in [Ports -> Controls] /\ pause'[p] = c /\ pause'[q] = pause[q]
    BY <1>1 DEF Acts, PlayInv, PlayTypes
  <1>6. chan' \in [Ports -> Seq(Messages)] /\ chan'[p] = h /\ chan'[q] = g
    BY <1>1 DEF Acts, PlayInv, PlayTypes, q
  <1>7. busy' \in [Ports -> BOOLEAN] /\ busy'[p] = b /\ busy'[q] = busy[q]
    BY <1>1 DEF Acts, PlayInv, PlayTypes
  <1>8. PlayTypes' /\ status' = status
    BY <1>2, <1>3, <1>4, <1>5, <1>6, <1>7 DEF Acts, PlayInv, PlayTypes
  <1>9. Moved(p) BY <1>2, <1>3, <1>4, <1>5, <1>7, <1>8 DEF Moved, q
  <1> QED BY <1>2, <1>3, <1>4, <1>5, <1>6, <1>7, <1>8, <1>9 DEF Reaches, q

\* A step to values that keep the counters' invariant.
LEMMA PlayActs ==
    ASSUME PlayInv, NEW p \in Ports, NEW f \in Nat, NEW s \in Nat, NEW k \in Nat,
           NEW c \in Controls, NEW h \in Seq(Messages), NEW g \in Seq(Messages),
           NEW b \in BOOLEAN, Acts(p, f, s, k, c, h, g, b),
           Side(f, s, k, h, sampled[Other(p)], b), Sane(c), Below(c, f),
           Side(frame[Other(p)], sampled[Other(p)], known[Other(p)], g, s, busy[Other(p)])
    PROVE  PlayInv'
  <1>1. Moved(p) /\ Reaches(p, f, s, k, c, h, g, b) BY ActsMoves
  <1> QED BY <1>1, PlayMoves DEF Reaches

\* The check that fails ends the session and moves nothing else.
LEMMA PlayFails ==
    ASSUME PlayInv, NEW p \in Ports, NEW ends \in BOOLEAN, chan[p] # <<>>,
           NEW why \in {"input exceeds lookahead", "pause refused"}, Fails(p, why),
           UNCHANGED chan, busy' = [busy EXCEPT ![p] = ~ends]
    PROVE  PlayInv'
  <1> DEFINE q == Other(p)
  <1>1. q \in Ports /\ q # p BY TwoPorts
  <1>2. Moved(p) BY <1>1 DEF Moved, Fails, PlayInv, PlayTypes
  <1>3. Side(frame[p], sampled[p], known[p], chan[p], sampled[q], busy'[p])
    BY DEF PlayInv, PlaySide, Side
  <1>4. /\ frame'[p] = frame[p] /\ sampled'[p] = sampled[p] /\ known'[p] = known[p]
        /\ pause'[p] = pause[p] /\ chan'[p] = chan[p] /\ chan'[q] = chan[q]
    BY DEF Fails
  <1>5. Side(frame[q], sampled[q], known[q], chan[q], sampled[p], busy[q])
    BY <1>1, TwoPorts DEF PlayInv, PlaySide
  <1> QED BY <1>2, <1>3, <1>4, <1>5, PortTypes, PlayMoves

\* p takes the next message of a batch, which goes on unless ends.
Takes(p, ends) ==
    /\ chan[p] # <<>> /\ (ends \/ Len(chan[p]) > 1)
    /\ busy' = [busy EXCEPT ![p] = ~ends]

\* An input within the lookahead is taken.
LEMMA InputActs ==
    ASSUME PlayInv, NEW p \in Ports, NEW ends \in BOOLEAN, Takes(p, ends),
           IsInput(Head(chan[p])), ReceiveInput(p, Head(chan[p]), ends),
           ~(Head(chan[p]).frame > frame[p] + Lookahead)
    PROVE  LET m == Head(chan[p])
               c == ReportedIf(ends, p, pause[p])
           IN  /\ Acts(p, frame[p], sampled[p], m.frame + 1, c,
                       Tail(chan[p]), chan[Other(p)], ~ends)
               /\ c \in Controls /\ Same(pause[p], c)
               /\ m.frame + 1 \in Nat /\ known[p] <= m.frame + 1
               /\ Side(frame[p], sampled[p], m.frame + 1, Tail(chan[p]),
                       sampled[Other(p)], ~ends)
  <1> DEFINE q == Other(p)
             m == Head(chan[p])
             c == ReportedIf(ends, p, pause[p])
  <1>1. q \in Ports /\ q # p /\ Other(q) = p BY TwoPorts
  <1>2. m \in Messages /\ Tail(chan[p]) \in Seq(Messages) /\ m.frame \in Nat
    BY PortTypes, HeadType, MessageTypes DEF Takes
  <1>3. /\ known' = [known EXCEPT ![p] = m.frame + 1]
        /\ UNCHANGED <<frame, sampled, status>>
        /\ pause' = [pause EXCEPT ![p] = c]
        /\ chan' = [chan EXCEPT ![p] = Tail(chan[p])]
    BY DEF ReceiveInput
  <1>4. c \in Controls /\ Same(pause[p], c) BY PortTypes, ReportedSame
  <1>5. Acts(p, frame[p], sampled[p], m.frame + 1, c, Tail(chan[p]), chan[q], ~ends)
    BY <1>1, <1>3 DEF Acts, Takes, PlayInv, PlayTypes
  <1>6. /\ Side(frame[p], sampled[p], m.frame + 1, Tail(chan[p]), sampled[q], ~ends)
        /\ known[p] <= m.frame + 1 /\ m.frame + 1 \in Nat
    <2>1. Learnt(known[p], m) = m.frame + 1 BY DEF Learnt
    <2>2. (~ends) \in BOOLEAN /\ (~ends => Len(chan[p]) > 1) BY DEF Takes
    <2>3. /\ frame[p] \in Nat /\ sampled[p] \in Nat /\ known[p] \in Nat
          /\ sampled[q] \in Nat /\ chan[p] \in Seq(Messages) /\ chan[p] # <<>>
          /\ Side(frame[p], sampled[p], known[p], chan[p], sampled[q], busy[p])
      BY <1>1, PortTypes DEF Takes
    <2>4. /\ Side(frame[p], sampled[p], Learnt(known[p], m), Tail(chan[p]), sampled[q], ~ends)
          /\ Learnt(known[p], m) \in Nat /\ known[p] <= Learnt(known[p], m)
      BY <2>2, <2>3, SideTake
    <2> QED BY <2>1, <2>4
  <1> QED BY <1>4, <1>5, <1>6

\* handle_event of an input keeps the counters' invariant.
LEMMA PlayReceiveInput ==
    ASSUME PlayInv, NEW p \in Ports, NEW ends \in BOOLEAN, Takes(p, ends),
           IsInput(Head(chan[p])), ReceiveInput(p, Head(chan[p]), ends)
    PROVE  PlayInv'
  <1> DEFINE m == Head(chan[p])
             c == ReportedIf(ends, p, pause[p])
  <1>1. CASE m.frame > frame[p] + Lookahead BY <1>1, PlayFails DEF ReceiveInput, Takes
  <1>2. CASE ~(m.frame > frame[p] + Lookahead)
    <2>1. /\ Acts(p, frame[p], sampled[p], m.frame + 1, c, Tail(chan[p]), chan[Other(p)], ~ends)
          /\ c \in Controls /\ Same(pause[p], c) /\ m.frame + 1 \in Nat
          /\ Side(frame[p], sampled[p], m.frame + 1, Tail(chan[p]), sampled[Other(p)], ~ends)
      BY <1>2, InputActs
    <2>2. Sane(c) /\ Below(c, frame[p]) BY <2>1, PortTypes, SaneMoves
    <2>3. /\ Side(frame[Other(p)], sampled[Other(p)], known[Other(p)], chan[Other(p)],
                  sampled[p], busy[Other(p)])
          /\ chan[Other(p)] \in Seq(Messages) /\ Tail(chan[p]) \in Seq(Messages)
      BY PortTypes, HeadType, TwoPorts DEF Takes
    <2>4. (~ends) \in BOOLEAN OBVIOUS
    <2> HIDE DEF c, m
    <2> QED BY <2>1, <2>2, <2>3, <2>4, PortTypes, PlayActs
  <1> QED BY <1>1, <1>2

\* A pause message that is taken leaves the counters.
LEMMA OwnTake ==
    ASSUME PlayInv, NEW p \in Ports, NEW ends \in BOOLEAN, Takes(p, ends),
           ~IsInput(Head(chan[p]))
    PROVE  Side(frame[p], sampled[p], known[p], Tail(chan[p]), sampled[Other(p)], ~ends)
  <1>1. /\ frame[p] \in Nat /\ sampled[p] \in Nat /\ known[p] \in Nat
        /\ sampled[Other(p)] \in Nat /\ chan[p] \in Seq(Messages) /\ chan[p] # <<>>
        /\ Side(frame[p], sampled[p], known[p], chan[p], sampled[Other(p)], busy[p])
    BY TwoPorts, PortTypes DEF Takes
  <1>2. Learnt(known[p], Head(chan[p])) = known[p] BY DEF Learnt
  <1>3. (~ends) \in BOOLEAN /\ (~ends => Len(chan[p]) > 1) BY DEF Takes
  <1>4. Side(frame[p], sampled[p], Learnt(known[p], Head(chan[p])), Tail(chan[p]),
             sampled[Other(p)], ~ends)
    BY <1>1, <1>3, SideTake
  <1> QED BY <1>2, <1>4

\* A pause message that is sent leaves the peer's.
LEMMA PeerPut ==
    ASSUME PlayInv, NEW p \in Ports, NEW n \in Messages, ~IsInput(n)
    PROVE  Side(frame[Other(p)], sampled[Other(p)], known[Other(p)],
                Append(chan[Other(p)], n), sampled[p], busy[Other(p)])
  <1> DEFINE q == Other(p)
  <1>1. /\ frame[q] \in Nat /\ sampled[q] \in Nat /\ known[q] \in Nat
        /\ chan[q] \in Seq(Messages) /\ sampled[p] \in Nat
        /\ Side(frame[q], sampled[q], known[q], chan[q], sampled[p], busy[q])
    BY TwoPorts, PortTypes
  <1>2. sampled[p] <= sampled[p] BY <1>1
  <1> HIDE DEF q
  <1>3. Side(frame[q], sampled[q], known[q], Append(chan[q], n), sampled[p], busy[q])
    BY <1>1, <1>2, SidePut
  <1> QED BY <1>3 DEF q

\* A change that fn observe accepts is taken, and answered.
LEMMA ChangeActs ==
    ASSUME PlayInv, NEW p \in Ports, NEW ends \in BOOLEAN, Takes(p, ends),
           IsChange(Head(chan[p])), ReceiveChange(p, Head(chan[p]), ends),
           ~ObserveErr(pause[p], frame[p], Head(chan[p]))
    PROVE  LET m == Head(chan[p])
               n == [type |-> "PauseAck", request |-> m.request]
               c == ReportedIf(ends, p, Observe(pause[p], m))
           IN  /\ Acts(p, frame[p], sampled[p], known[p], c, Tail(chan[p]),
                       Append(chan[Other(p)], n), ~ends)
               /\ m \in Messages /\ ~IsInput(m)
               /\ n \in Messages /\ ~IsInput(n) /\ IsAck(n, m.request)
  <1> DEFINE q == Other(p)
             m == Head(chan[p])
             n == [type |-> "PauseAck", request |-> m.request]
             c == ReportedIf(ends, p, Observe(pause[p], m))
  <1>1. q \in Ports /\ q # p BY TwoPorts
  <1>2. m \in Messages /\ m.request \in Nat /\ ~IsInput(m)
    BY PortTypes, HeadType, MessageTypes DEF Takes, IsInput, IsChange
  <1>3. n \in Messages /\ IsAck(n, m.request) /\ ~IsInput(n)
    BY <1>2 DEF Messages, AckMessages, IsAck, IsInput
  <1>4. /\ UNCHANGED <<frame, sampled, known, status>>
        /\ pause' = [pause EXCEPT ![p] = c]
        /\ chan' = [chan EXCEPT ![p] = Tail(chan[p]), ![q] = Append(chan[q], n)]
    BY <1>1 DEF ReceiveChange, PlayInv, PlayTypes
  <1>5. Acts(p, frame[p], sampled[p], known[p], c, Tail(chan[p]), Append(chan[q], n), ~ends)
    BY <1>4 DEF Acts, Takes, PlayInv, PlayTypes
  <1> QED BY <1>2, <1>3, <1>5

\* handle_event of a change keeps the counters' invariant, refused or repeated
\* ones included.
LEMMA PlayReceiveChange ==
    ASSUME PlayInv, NEW p \in Ports, NEW ends \in BOOLEAN, Takes(p, ends),
           IsChange(Head(chan[p])), ReceiveChange(p, Head(chan[p]), ends)
    PROVE  PlayInv'
  <1> DEFINE m == Head(chan[p])
             n == [type |-> "PauseAck", request |-> m.request]
             x == Observe(pause[p], m)
             c == ReportedIf(ends, p, x)
             a == Append(chan[Other(p)], n)
  <1>1. CASE ObserveErr(pause[p], frame[p], m)
    BY <1>1, PlayFails DEF ReceiveChange, Takes
  <1>2. CASE ~ObserveErr(pause[p], frame[p], m)
    <2>1. /\ Acts(p, frame[p], sampled[p], known[p], c, Tail(chan[p]), a, ~ends)
          /\ m \in Messages /\ ~IsInput(m) /\ n \in Messages /\ ~IsInput(n)
      BY <1>2, ChangeActs
    <2>2. x \in Controls /\ Sane(x) /\ Below(x, frame[p])
      <3>1. CASE Repeated(pause[p], m)
        <4>1. x = pause[p] BY <3>1 DEF Observe
        <4> QED BY <4>1, PortTypes
      <3>2. CASE ~Repeated(pause[p], m)
        <4> HIDE DEF m
        <4>1. IsChange(m) BY DEF m
        <4>2. x \in Controls /\ Observed(pause[p], x, m)
          BY <4>1, <3>2, <2>1, PortTypes, ObserveFields
        <4> HIDE DEF x
        <4> QED BY <4>1, <4>2, <3>2, <2>1, <1>2, PortTypes, SaneMoves
      <3> QED BY <3>1, <3>2
    <2> HIDE DEF x
    <2>3. c \in Controls /\ Same(x, c) BY <2>2, ReportedSame
    <2>4. Sane(c) /\ Below(c, frame[p]) BY <2>2, <2>3, PortTypes, SaneMoves
    <2>5. /\ Side(frame[p], sampled[p], known[p], Tail(chan[p]), sampled[Other(p)], ~ends)
          /\ Side(frame[Other(p)], sampled[Other(p)], known[Other(p)], a, sampled[p],
                  busy[Other(p)])
      BY <2>1, OwnTake, PeerPut
    <2>6. (~ends) \in BOOLEAN /\ a \in Seq(Messages) /\ Tail(chan[p]) \in Seq(Messages)
      BY <2>1, TwoPorts, PortTypes, HeadType, AppendFacts DEF Takes
    <2> HIDE DEF c, a
    <2> QED BY <2>1, <2>3, <2>4, <2>5, <2>6, PortTypes, PlayActs
  <1> QED BY <1>1, <1>2

\* An answer that fn acknowledge accepts is taken, and a vote that waited is sent.
LEMMA AckActs ==
    ASSUME PlayInv, NEW p \in Ports, NEW ends \in BOOLEAN, Takes(p, ends),
           Head(chan[p]).type = "PauseAck", ReceiveAck(p, Head(chan[p]), ends),
           ~AcknowledgeErr(pause[p], Head(chan[p]))
    PROVE  LET m == Head(chan[p])
               x == Acknowledged(pause[p], m)
               c == ReportedIf(ends, p, Reconcile(x, frame[p]))
           IN  /\ Acts(p, frame[p], sampled[p], known[p], c, Tail(chan[p]),
                       chan[Other(p)] \o Change(x, frame[p]), ~ends)
               /\ m \in Messages /\ ~IsInput(m)
               /\ x \in Controls /\ Heard(pause[p], x, m)
               /\ x.reported = pause[p].reported
               /\ Sane(x) /\ Below(x, frame[p])
  <1> DEFINE q == Other(p)
             m == Head(chan[p])
             x == Acknowledged(pause[p], m)
             c == ReportedIf(ends, p, Reconcile(x, frame[p]))
             a == chan[q] \o Change(x, frame[p])
  <1>1. q \in Ports /\ q # p BY TwoPorts
  <1>2. m \in Messages /\ ~IsInput(m)
    BY PortTypes, HeadType, MessageTypes DEF Takes, IsInput
  <1>3. /\ UNCHANGED <<frame, sampled, known, status>>
        /\ pause' = [pause EXCEPT ![p] = c]
        /\ chan' = [chan EXCEPT ![p] = Tail(chan[p]), ![q] = a]
    BY <1>1 DEF ReceiveAck, PlayInv, PlayTypes
  <1>4. Acts(p, frame[p], sampled[p], known[p], c, Tail(chan[p]), a, ~ends)
    BY <1>3 DEF Acts, Takes, PlayInv, PlayTypes
  <1>5. x \in Controls /\ Heard(pause[p], x, m) /\ x.reported = pause[p].reported
    BY <1>2, PortTypes, AcknowledgedFields
  <1>6. m.type = "PauseAck" /\ ~AcknowledgeErr(pause[p], m) OBVIOUS
  <1> HIDE DEF m, x
  <1>7. Sane(x) /\ Below(x, frame[p]) BY <1>2, <1>5, <1>6, PortTypes, SaneMoves
  <1> QED BY <1>2, <1>4, <1>5, <1>7 DEF m, x

\* What fn reconcile sends leaves the counters.
LEMMA PeerReconciles ==
    ASSUME PlayInv, NEW p \in Ports, NEW x \in Controls, Sane(x), Below(x, frame[p])
    PROVE  LET a == chan[Other(p)] \o Change(x, frame[p])
           IN  /\ a \in Seq(Messages)
               /\ Side(frame[Other(p)], sampled[Other(p)], known[Other(p)], a,
                       sampled[p], busy[Other(p)])
               /\ Reconcile(x, frame[p]) \in Controls
               /\ Sane(Reconcile(x, frame[p])) /\ Below(Reconcile(x, frame[p]), frame[p])
  <1> DEFINE q == Other(p)
             a == chan[q] \o Change(x, frame[p])
             y == Reconcile(x, frame[p])
  <1>1. q \in Ports /\ Other(q) = p BY TwoPorts
  <1>2. /\ y \in Controls /\ Sane(y) /\ Below(y, frame[p]) /\ a \in Seq(Messages)
        /\ \/ a = chan[q]
           \/ \E n \in Messages : a = Append(chan[q], n) /\ Moves(x, y, frame[p], n)
    BY <1>1, PortTypes, ReconcileMoves
  <1> HIDE DEF a, y
  <1>3. Side(frame[q], sampled[q], known[q], a, sampled[p], busy[q])
    <2>1. CASE a = chan[q] BY <2>1, <1>1, PortTypes
    <2>2. ASSUME NEW n \in Messages, a = Append(chan[q], n), Moves(x, y, frame[p], n)
          PROVE  Side(frame[q], sampled[q], known[q], a, sampled[p], busy[q])
      <3>1. ~IsInput(n) BY <2>2 DEF Moves, IsChange, IsInput
      <3> QED BY <3>1, <2>2, PeerPut
    <2> QED BY <2>1, <2>2, <1>2
  <1> QED BY <1>2, <1>3 DEF a, y

\* handle_event of an acknowledgment keeps the counters' invariant.
LEMMA PlayReceiveAck ==
    ASSUME PlayInv, NEW p \in Ports, NEW ends \in BOOLEAN, Takes(p, ends),
           Head(chan[p]).type = "PauseAck", ReceiveAck(p, Head(chan[p]), ends)
    PROVE  PlayInv'
  <1> DEFINE m == Head(chan[p])
             x == Acknowledged(pause[p], m)
             y == Reconcile(x, frame[p])
             c == ReportedIf(ends, p, y)
             a == chan[Other(p)] \o Change(x, frame[p])
  <1>1. CASE AcknowledgeErr(pause[p], m)
    BY <1>1, PlayFails DEF ReceiveAck, Takes
  <1>2. CASE ~AcknowledgeErr(pause[p], m)
    <2>1. /\ Acts(p, frame[p], sampled[p], known[p], c, Tail(chan[p]), a, ~ends)
          /\ ~IsInput(m) /\ x \in Controls /\ Sane(x) /\ Below(x, frame[p])
      BY <1>2, AckActs
    <2> HIDE DEF x
    <2>2. /\ a \in Seq(Messages) /\ y \in Controls /\ Sane(y) /\ Below(y, frame[p])
          /\ Side(frame[Other(p)], sampled[Other(p)], known[Other(p)], a, sampled[p],
                  busy[Other(p)])
      BY <2>1, PeerReconciles
    <2> HIDE DEF y, a
    <2>3. c \in Controls /\ Same(y, c) BY <2>2, ReportedSame
    <2>4. Sane(c) /\ Below(c, frame[p]) BY <2>2, <2>3, PortTypes, SaneMoves
    <2>5. Side(frame[p], sampled[p], known[p], Tail(chan[p]), sampled[Other(p)], ~ends)
      BY <2>1, OwnTake
    <2>6. (~ends) \in BOOLEAN /\ Tail(chan[p]) \in Seq(Messages)
      BY PortTypes, HeadType DEF Takes
    <2> HIDE DEF c
    <2> QED BY <2>1, <2>2, <2>3, <2>4, <2>5, <2>6, PortTypes, PlayActs
  <1> QED BY <1>1, <1>2

\* fn request_pause, by what it changes.
LEMMA RequestActs ==
    ASSUME PlayInv, NEW p \in Ports, NEW paused \in BOOLEAN, RequestPause(p, paused)
    PROVE  LET x == Desire(pause[p], paused)
           IN  /\ Acts(p, frame[p], sampled[p], known[p], Reconcile(x, frame[p]), chan[p],
                       chan[Other(p)] \o Change(x, frame[p]), busy[p])
               /\ x \in Controls /\ Same(pause[p], x) /\ x.reported = pause[p].reported
               /\ Sane(x) /\ Below(x, frame[p])
  <1> DEFINE q == Other(p)
             x == Desire(pause[p], paused)
             y == Reconcile(x, frame[p])
             a == chan[q] \o Change(x, frame[p])
  <1>1. q \in Ports /\ q # p BY TwoPorts
  <1>2. /\ UNCHANGED <<frame, sampled, known, busy, status>>
        /\ pause' = [pause EXCEPT ![p] = y] /\ chan' = [chan EXCEPT ![q] = a]
    BY <1>1 DEF RequestPause, PlayInv, PlayTypes
  <1>3. Acts(p, frame[p], sampled[p], known[p], y, chan[p], a, busy[p])
    BY <1>1, <1>2 DEF Acts, PlayInv, PlayTypes
  <1>4. x \in Controls /\ Same(pause[p], x) /\ x.reported = pause[p].reported
    BY PortTypes, DesireSame
  <1> HIDE DEF x
  <1>5. Sane(x) /\ Below(x, frame[p]) BY <1>4, PortTypes, SaneMoves
  <1> QED BY <1>3, <1>4, <1>5 DEF x

\* fn request_pause keeps the counters' invariant.
LEMMA PlayRequestPause ==
    ASSUME PlayInv, NEW p \in Ports, NEW paused \in BOOLEAN, RequestPause(p, paused)
    PROVE  PlayInv'
  <1> DEFINE x == Desire(pause[p], paused)
             y == Reconcile(x, frame[p])
             a == chan[Other(p)] \o Change(x, frame[p])
  <1>1. /\ Acts(p, frame[p], sampled[p], known[p], y, chan[p], a, busy[p])
        /\ x \in Controls /\ Sane(x) /\ Below(x, frame[p])
    BY RequestActs
  <1> HIDE DEF x
  <1>2. /\ a \in Seq(Messages) /\ y \in Controls /\ Sane(y) /\ Below(y, frame[p])
        /\ Side(frame[Other(p)], sampled[Other(p)], known[Other(p)], a, sampled[p],
                busy[Other(p)])
    BY <1>1, PeerReconciles
  <1> HIDE DEF y, a
  <1> QED BY <1>1, <1>2, PortTypes, PlayActs

\* fn poll without a message, by what it changes.
LEMMA IdleActs ==
    ASSUME PlayInv, NEW p \in Ports, Idle(p)
    PROVE  /\ Acts(p, frame[p], sampled[p], known[p], Reported(p, pause[p]), chan[p],
                   chan[Other(p)], busy[p])
           /\ Reported(p, pause[p]) \in Controls /\ Same(pause[p], Reported(p, pause[p]))
  <1>1. Other(p) \in Ports /\ Other(p) # p BY TwoPorts
  <1>2. /\ UNCHANGED <<frame, sampled, known, chan, busy, status>>
        /\ pause' = [pause EXCEPT ![p] = Reported(p, pause[p])]
    BY DEF Idle
  <1>3. Reported(p, pause[p]) \in Controls /\ Same(pause[p], Reported(p, pause[p]))
    BY PortTypes, ReportedSame
  <1> QED BY <1>1, <1>2, <1>3 DEF Acts, PlayInv, PlayTypes

\* fn poll without a message keeps the counters' invariant.
LEMMA PlayIdle ==
    ASSUME PlayInv, NEW p \in Ports, Idle(p)
    PROVE  PlayInv'
  <1> DEFINE c == Reported(p, pause[p])
  <1>1. /\ Acts(p, frame[p], sampled[p], known[p], c, chan[p], chan[Other(p)], busy[p])
        /\ c \in Controls /\ Same(pause[p], c)
    BY IdleActs
  <1>2. Sane(c) /\ Below(c, frame[p]) BY <1>1, PortTypes, SaneMoves
  <1>3. /\ Side(frame[Other(p)], sampled[Other(p)], known[Other(p)], chan[Other(p)],
                sampled[p], busy[Other(p)])
        /\ chan[Other(p)] \in Seq(Messages)
    BY PortTypes, TwoPorts
  <1> HIDE DEF c
  <1> QED BY <1>1, <1>2, <1>3, PortTypes, PlayActs

\* A frame is simulated only while the window allows it.
LEMMA WindowKept ==
    ASSUME NEW f \in Nat, NEW s \in Nat, NEW k \in Nat, MayRun(f, s, k)
    PROVE  f + 1 <= k + PREDICTION_WINDOW /\ f + 1 <= s + PREDICTION_WINDOW
  BY Numbers DEF MayRun, Monus, Confirmed, Lesser

\* The frame, the slot sampled and the channel to the peer after fn step.
StepFrame(p) ==
    IF MayRun(frame[p], frame[p] + InputDelay + 1, known[p])
    THEN frame[p] + 1 ELSE frame[p]
StepInput(p) == [type |-> "Input", frame |-> frame[p] + InputDelay]
StepSends(p) ==
    IF sampled[p] = frame[p] + InputDelay + 1 THEN chan[Other(p)]
    ELSE Append(chan[Other(p)], StepInput(p))

\* fn step, by what it changes.
LEMMA StepActs ==
    ASSUME PlayInv, NEW p \in Ports, Step(p)
    PROVE  LET c == Reported(p, pause[p])
               s == frame[p] + InputDelay + 1
           IN  /\ Acts(p, StepFrame(p), s, known[p], c, chan[p], StepSends(p), busy[p])
               /\ StepFrame(p) \in Nat /\ s \in Nat /\ c \in Controls /\ Same(pause[p], c)
               /\ StepInput(p) \in Messages /\ IsInput(StepInput(p))
               /\ StepSends(p) \in Seq(Messages)
               /\ Below(pause[p], frame[p] + 1)
               /\ Side(StepFrame(p), s, known[p], chan[p], sampled[Other(p)], busy[p])
               /\ Side(frame[Other(p)], sampled[Other(p)], known[Other(p)],
                       StepSends(p), s, busy[Other(p)])
  <1> DEFINE q == Other(p)
             c == Reported(p, pause[p])
             f == frame[p]
             s == f + InputDelay + 1
             n == StepInput(p)
             a == StepSends(p)
  <1>1. q \in Ports /\ q # p /\ Other(q) = p BY TwoPorts
  <1>2. /\ f \in Nat /\ sampled[p] \in Nat /\ known[p] \in Nat /\ chan[p] \in Seq(Messages)
        /\ frame[q] \in Nat /\ sampled[q] \in Nat /\ known[q] \in Nat
        /\ chan[q] \in Seq(Messages) /\ InputDelay \in Nat
        /\ Side(f, sampled[p], known[p], chan[p], sampled[q], busy[p])
        /\ Side(frame[q], sampled[q], known[q], chan[q], sampled[p], busy[q])
    BY <1>1, PortTypes, Numbers
  <1>3. s \in Nat /\ StepFrame(p) \in Nat BY <1>2 DEF StepFrame
  <1>4. n \in Messages /\ IsInput(n) /\ n.frame = f + InputDelay
    BY <1>2 DEF StepInput, Messages, InputMessages, IsInput
  <1>5. a \in Seq(Messages) BY <1>2, <1>4, AppendFacts DEF StepSends
  <1>6. c \in Controls /\ Same(pause[p], c) BY PortTypes, ReportedSame
  <1>7. Acts(p, StepFrame(p), s, known[p], c, chan[p], a, busy[p])
    <2>1. /\ sampled' = [sampled EXCEPT ![p] = s]
          /\ chan' = [chan EXCEPT ![q] = a]
          /\ frame' = [frame EXCEPT ![p] = StepFrame(p)]
          /\ UNCHANGED <<known, busy, status>>
          /\ pause' = [pause EXCEPT ![p] = c]
      BY <1>1 DEF Step, StepFrame, StepSends, StepInput, PlayInv, PlayTypes
    <2> QED BY <1>1, <2>1 DEF Acts, PlayInv, PlayTypes
  <1>8. Below(pause[p], f + 1)
    <2>1. ~AtBarrier(pause[p], f) BY DEF Step
    <2>2. pause[p].episode \in Nat \cup {None} BY PortTypes, ControlTypes
    <2> QED BY <2>1, <2>2, <1>2 DEF AtBarrier, Barrier, Below
  <1>9. Side(StepFrame(p), s, known[p], chan[p], sampled[q], busy[p])
    <2>1. f < MaxFrame /\ MaxFrame \in Nat BY PausePlayAssumption DEF Step
    <2>2. StepFrame(p) = f \/ (StepFrame(p) = f + 1 /\ MayRun(f, s, known[p]))
      BY DEF StepFrame
    <2>3. f <= known[p] + PREDICTION_WINDOW BY <1>2 DEF Side
    <2>4. StepFrame(p) <= known[p] + PREDICTION_WINDOW
      BY <2>2, <2>3, <1>2, <1>3, WindowKept
    <2>5. StepFrame(p) <= MaxFrame BY <2>1, <2>2, <1>2
    <2>6. s = StepFrame(p) + InputDelay \/ s = StepFrame(p) + InputDelay + 1
      BY <2>2, <1>2
    <2> HIDE DEF s, q, f
    <2> QED BY <2>4, <2>5, <2>6, <1>2 DEF Side
  <1>10. Side(frame[q], sampled[q], known[q], a, s, busy[q])
    <2>1. sampled[p] = s \/ sampled[p] = f + InputDelay BY <1>2 DEF Side
    <2>2. CASE sampled[p] = s BY <2>2, <1>2 DEF StepSends
    <2>3. CASE sampled[p] # s
      <3>1. a = Append(chan[q], n) BY <2>3 DEF StepSends
      <3>2. sampled[p] = f + InputDelay /\ s = sampled[p] + 1 /\ sampled[p] <= s
        BY <2>1, <2>3, <1>2
      <3>3. n.frame = sampled[p] BY <3>2, <1>4
      <3> HIDE DEF a, s, n, q
      <3> QED BY <3>1, <3>2, <3>3, <1>2, <1>3, <1>4, SidePut
    <2> QED BY <2>2, <2>3
  <1> QED BY <1>3, <1>4, <1>5, <1>6, <1>7, <1>8, <1>9, <1>10

\* fn step keeps the counters' invariant.
LEMMA PlayStep ==
    ASSUME PlayInv, NEW p \in Ports, Step(p)
    PROVE  PlayInv'
  <1> DEFINE c == Reported(p, pause[p])
             s == frame[p] + InputDelay + 1
  <1>1. /\ Acts(p, StepFrame(p), s, known[p], c, chan[p], StepSends(p), busy[p])
        /\ StepFrame(p) \in Nat /\ s \in Nat /\ c \in Controls /\ Same(pause[p], c)
        /\ StepSends(p) \in Seq(Messages) /\ Below(pause[p], frame[p] + 1)
        /\ Side(StepFrame(p), s, known[p], chan[p], sampled[Other(p)], busy[p])
        /\ Side(frame[Other(p)], sampled[Other(p)], known[Other(p)],
                StepSends(p), s, busy[Other(p)])
    BY StepActs
  <1>2. Sane(c) BY <1>1, PortTypes, SaneMoves
  <1>3. Below(c, StepFrame(p))
    <2>1. c.episode = pause[p].episode BY <1>1 DEF Same
    <2>2. StepFrame(p) = frame[p] \/ StepFrame(p) = frame[p] + 1 BY DEF StepFrame
    <2> QED BY <2>1, <2>2, <1>1, PortTypes DEF Below
  <1> HIDE DEF c, s
  <1> QED BY <1>1, <1>2, <1>3, PortTypes, PlayActs

\* Both sessions begin with the inputs of the delay, which are neutral.
LEMMA PlayInit ==
    ASSUME Init
    PROVE  PlayInv
  <1>1. NewPause \in Controls /\ Sane(NewPause) /\ \A f : Below(NewPause, f)
    BY Numbers DEF NewPause, Vote, Votes, Controls, Sane, Below
  <1>2. <<>> \in Seq(Messages) /\ Len(<<>>) = 0 OBVIOUS
  <1>3. PlayTypes BY <1>1, <1>2, Numbers DEF Init, PlayTypes
  <1>4. ASSUME NEW p \in Ports PROVE PlaySide(p)
    <2>1. /\ frame[p] = 0 /\ sampled[p] = InputDelay /\ known[p] = InputDelay
          /\ pause[p] = NewPause /\ chan[p] = <<>> /\ busy[p] = FALSE
          /\ sampled[Other(p)] = InputDelay
      BY TwoPorts DEF Init
    <2>2. Side(0, InputDelay, InputDelay, <<>>, InputDelay, FALSE)
      BY Numbers, PausePlayAssumption, <1>2 DEF Side
    <2> QED BY <2>1, <2>2, <1>1 DEF PlaySide
  <1> QED BY <1>3, <1>4 DEF PlayInv

\* One message of a batch.
LEMMA ReceiveCases ==
    ASSUME NEW p \in Ports, NEW ends \in BOOLEAN, Receive(p, ends)
    PROVE  /\ Takes(p, ends)
           /\ \/ IsInput(Head(chan[p])) /\ ReceiveInput(p, Head(chan[p]), ends)
              \/ IsChange(Head(chan[p])) /\ ReceiveChange(p, Head(chan[p]), ends)
              \/ Head(chan[p]).type = "PauseAck" /\ ReceiveAck(p, Head(chan[p]), ends)
  BY DEF Receive, Takes, IsInput, IsChange

\* Every step keeps the counters' invariant.
LEMMA PlayNext ==
    ASSUME PlayInv, [Next]_vars
    PROVE  PlayInv'
  <1>1. ASSUME NEW p \in Ports, NEW ends \in Ends, Receive(p, ends) PROVE PlayInv'
    <2>1. ends \in BOOLEAN BY PausePlayAssumption
    <2> QED BY <1>1, <2>1, ReceiveCases, PlayReceiveInput, PlayReceiveChange, PlayReceiveAck
  <1>2. CASE UNCHANGED vars
    BY <1>2 DEF vars, PlayInv, PlayTypes, PlaySide
  <1> QED BY <1>1, <1>2, PlayStep, PlayIdle, PlayRequestPause DEF Next

\* PlayInv is an invariant, for every delay: a session samples at most a frame past
\* the delay, plays at most the window past what it knows, knows no input that was
\* not sampled, and the inputs under way are the next ones, in order.
THEOREM PlayInvariant == Spec => []PlayInv
  <1>1. Init => PlayInv BY PlayInit
  <1>2. PlayInv /\ [Next]_vars => PlayInv' BY PlayNext
  <1> QED BY <1>1, <1>2, PTL DEF Spec

\* The invariant bounds what TypeOK bounds.
LEMMA PlayBounds ==
    ASSUME PlayInv
    PROVE  TypeOK
  <1> SUFFICES ASSUME NEW p \in Ports
               PROVE  /\ busy[p] => chan[p] # <<>>
                      /\ frame[p] \in 0 .. MaxFrame
                      /\ known[p] \in InputDelay .. sampled[Other(p)]
                      /\ sampled[p] \in frame[p] + InputDelay .. frame[p] + InputDelay + 1
                      /\ frame[p] <= Confirmed(sampled[p], known[p]) + PREDICTION_WINDOW
                      /\ pause[p].episode \in Nat \cup {None}
                      /\ pause[p].local_acked \in 0 .. pause[p].local_request
    BY DEF TypeOK
  <1>1. /\ frame[p] \in Nat /\ sampled[p] \in Nat /\ known[p] \in Nat
        /\ sampled[Other(p)] \in Nat /\ InputDelay \in Nat /\ PREDICTION_WINDOW \in Nat
        /\ MaxFrame \in Nat
        /\ Side(frame[p], sampled[p], known[p], chan[p], sampled[Other(p)], busy[p])
    BY PortTypes, TwoPorts, Numbers, PausePlayAssumption
  <1>2. /\ busy[p] => chan[p] # <<>>
        /\ frame[p] <= MaxFrame /\ InputDelay <= known[p] /\ known[p] <= sampled[Other(p)]
        /\ sampled[p] = frame[p] + InputDelay \/ sampled[p] = frame[p] + InputDelay + 1
        /\ frame[p] <= known[p] + PREDICTION_WINDOW
    BY <1>1 DEF Side
  <1>3. frame[p] <= Confirmed(sampled[p], known[p]) + PREDICTION_WINDOW
    BY <1>1, <1>2 DEF Confirmed, Lesser
  <1>4. /\ pause[p].episode \in Nat \cup {None}
        /\ pause[p].local_acked \in Nat /\ pause[p].local_request \in Nat
        /\ pause[p].local_acked <= pause[p].local_request
    BY PortTypes, ControlTypes DEF Sane
  <1> QED BY <1>1, <1>2, <1>3, <1>4

\* TypeOK holds: the counters and votes of fn step, fn request_pause and handle_event
\* keep their types and bounds, for every delay and every number of requests.
THEOREM PlayTypesHold == Spec => []TypeOK
  <1>1. PlayInv => TypeOK BY PlayBounds
  <1> QED BY <1>1, PlayInvariant, PTL

-----------------------------------------------------------------------------
(* The pause agreement, when a button takes effect at least a frame later.  *)

\* A step to values that keep the agreement.
LEMMA PauseActs ==
    ASSUME PauseInv, PlayInv', NEW p \in Ports, NEW f \in Nat, NEW s \in Nat, NEW k \in Nat,
           NEW c \in Controls, NEW h \in Seq(Messages), NEW g \in Seq(Messages),
           NEW b \in BOOLEAN, Acts(p, f, s, k, c, h, g, b),
           Told(c, f, Confirmed(s, k), b),
           Pact(c, f, k, h, pause[Other(p)], frame[Other(p)], known[Other(p)], g)
    PROVE  PauseInv'
  <1>1. Moved(p) /\ Reaches(p, f, s, k, c, h, g, b) BY ActsMoves DEF PauseInv
  <1>2. status'[p] = "up" BY <1>1 DEF PauseInv, PauseSide, Reaches
  <1> QED BY <1>1, <1>2, PauseMoves DEF Reaches

\* What the agreement says of a port and its peer.
LEMMA PausePort ==
    ASSUME PauseInv, NEW p \in Ports
    PROVE  /\ PlayInv /\ status[p] = "up"
           /\ Told(pause[p], frame[p], Confirmed(sampled[p], known[p]), busy[p])
           /\ Pact(pause[p], frame[p], known[p], chan[p], pause[Other(p)],
                   frame[Other(p)], known[Other(p)], chan[Other(p)])
           /\ frame[p] <= known[p] + PREDICTION_WINDOW
           /\ frame[p] \in Nat /\ sampled[p] \in Nat /\ known[p] \in Nat
           /\ pause[p] \in Controls /\ chan[p] \in Seq(Messages)
           /\ frame[Other(p)] \in Nat /\ known[Other(p)] \in Nat
           /\ pause[Other(p)] \in Controls /\ chan[Other(p)] \in Seq(Messages)
  <1>1. PlayInv BY DEF PauseInv
  <1>2. frame[p] <= known[p] + PREDICTION_WINDOW BY <1>1, PortTypes DEF Side
  <1> QED BY <1>1, <1>2, PortTypes, TwoPorts DEF PauseInv, PauseSide

\* More input confirms more.
LEMMA ConfirmsMore ==
    ASSUME NEW s \in Nat, NEW k \in Nat, NEW k2 \in Nat, k <= k2, NEW f \in Nat,
           f <= Confirmed(s, k)
    PROVE  f <= Confirmed(s, k2)
  BY DEF Confirmed, Lesser

\* A message taken, up to the report that ends the batch.
LEMMA PauseReceives ==
    ASSUME PauseInv, PlayInv', NEW p \in Ports, NEW ends \in BOOLEAN, Takes(p, ends),
           NEW k \in Nat, known[p] <= k, NEW x \in Controls,
           x.reported = pause[p].reported, NEW g \in Seq(Messages),
           Acts(p, frame[p], sampled[p], k, ReportedIf(ends, p, x), Tail(chan[p]), g, ~ends),
           Pact(x, frame[p], k, Tail(chan[p]), pause[Other(p)], frame[Other(p)],
                known[Other(p)], g)
    PROVE  PauseInv'
  <1> DEFINE c == ReportedIf(ends, p, x)
  <1>1. /\ PlayInv /\ frame[p] \in Nat /\ sampled[p] \in Nat /\ known[p] \in Nat
        /\ Told(pause[p], frame[p], Confirmed(sampled[p], known[p]), busy[p])
        /\ Tail(chan[p]) \in Seq(Messages)
    BY PausePort, HeadType DEF Takes
  <1>2. c \in Controls /\ Same(x, c) BY ReportedSame
  <1>3. frame'[p] = frame[p] /\ sampled'[p] = sampled[p] /\ known'[p] = k
    <2>1. /\ (~ends) \in BOOLEAN
          /\ Acts(p, frame[p], sampled[p], k, c, Tail(chan[p]), g, ~ends)
      OBVIOUS
    <2> HIDE DEF c
    <2>2. Reaches(p, frame[p], sampled[p], k, c, Tail(chan[p]), g, ~ends)
      BY <2>1, <1>1, <1>2, ActsMoves
    <2> QED BY <2>2 DEF Reaches
  <1>4. Halts(x, frame[p]) BY DEF Pact, Half
  <1>5. /\ x.reported # Running
        /\ x.reported # None => frame[p] <= Confirmed(sampled[p], k)
    BY <1>1, ConfirmsMore DEF Told
  <1>6. Told(c, frame[p], Confirmed(sampled[p], k), ~ends)
    <2>1. Told(c, frame'[p], Confirmed(sampled'[p], known'[p]), ~ends)
      BY <1>1, <1>3, <1>4, <1>5, ReportedTold
    <2> QED BY <2>1, <1>3
  <1>7. Pact(c, frame[p], k, Tail(chan[p]), pause[Other(p)], frame[Other(p)],
             known[Other(p)], g)
    BY <1>2, PausePort, PactSame DEF Same
  <1>8. /\ (~ends) \in BOOLEAN
        /\ Acts(p, frame[p], sampled[p], k, c, Tail(chan[p]), g, ~ends)
    OBVIOUS
  <1> HIDE DEF c
  <1> QED BY <1>1, <1>2, <1>6, <1>7, <1>8, PauseActs

\* The two sides are never further apart than the window and the delay allow.
LEMMA Neighbours ==
    ASSUME PlayInv, NEW p \in Ports
    PROVE  Near(frame[p], sampled[p], frame[Other(p)], known[Other(p)], chan[Other(p)])
  <1> DEFINE q == Other(p)
  <1>1. q \in Ports /\ Other(q) = p BY TwoPorts
  <1>2. /\ frame[p] \in Nat /\ sampled[p] \in Nat /\ known[p] \in Nat
        /\ frame[q] \in Nat /\ sampled[q] \in Nat /\ known[q] \in Nat
        /\ Side(frame[p], sampled[p], known[p], chan[p], sampled[q], busy[p])
        /\ Side(frame[q], sampled[q], known[q], chan[q], sampled[p], busy[q])
    BY <1>1, PortTypes
  <1> HIDE DEF q
  <1>3. /\ known[p] <= sampled[q] /\ frame[p] <= known[p] + PREDICTION_WINDOW
        /\ sampled[p] = frame[p] + InputDelay \/ sampled[p] = frame[p] + InputDelay + 1
        /\ sampled[q] = frame[q] + InputDelay \/ sampled[q] = frame[q] + InputDelay + 1
        /\ known[q] <= sampled[p]
    BY <1>2 DEF Side
  <1>4. /\ sampled[p] <= frame[p] + InputDelay + 1
        /\ frame[p] <= frame[q] + InputDelay + 1 + PREDICTION_WINDOW
    BY <1>2, <1>3, Numbers
  <1>5. \A i \in 1 .. Len(chan[q]) : IsInput(chan[q][i]) => chan[q][i].frame < sampled[p]
    BY <1>2 DEF Side
  <1> QED BY <1>3, <1>4, <1>5 DEF Near, q

\* The peer's input is within the lookahead.
LEMMA InputAccepted ==
    ASSUME PlayInv, NEW p \in Ports, chan[p] # <<>>, IsInput(Head(chan[p]))
    PROVE  ~(Head(chan[p]).frame > frame[p] + Lookahead)
  <1> DEFINE q == Other(p)
             m == Head(chan[p])
  <1>1. q \in Ports /\ Other(q) = p BY TwoPorts
  <1>2. /\ frame[p] \in Nat /\ sampled[p] \in Nat /\ frame[q] \in Nat /\ sampled[q] \in Nat
        /\ chan[p] \in Seq(Messages)
        /\ Side(frame[p], sampled[p], known[p], chan[p], sampled[q], busy[p])
    BY <1>1, PortTypes
  <1>3. m = chan[p][1] /\ 1 \in 1 .. Len(chan[p]) /\ m \in Messages /\ m.frame \in Nat
    BY <1>2, TailFacts, MessageTypes
  <1>4. m.frame < sampled[q] BY <1>2, <1>3 DEF Side
  <1>5. /\ sampled[q] <= frame[q] + InputDelay + 1
        /\ frame[q] <= frame[p] + InputDelay + 1 + PREDICTION_WINDOW
    BY <1>1, Neighbours DEF Near
  <1>6. Lookahead = PREDICTION_WINDOW + 2 * InputDelay + 1 BY Numbers DEF Lookahead
  <1> HIDE DEF q, m
  <1>7. /\ frame[p] \in Nat /\ frame[q] \in Nat /\ sampled[q] \in Nat /\ m.frame \in Nat
        /\ PREDICTION_WINDOW \in Nat /\ InputDelay \in Nat
    BY <1>2, <1>3, Numbers
  <1>8. ~(m.frame > frame[p] + Lookahead) BY <1>4, <1>5, <1>6, <1>7
  <1> QED BY <1>8 DEF m

\* handle_event of an input keeps the agreement, and never refuses it.
LEMMA PauseReceiveInput ==
    ASSUME PauseInv, NEW p \in Ports, NEW ends \in BOOLEAN, Takes(p, ends),
           IsInput(Head(chan[p])), ReceiveInput(p, Head(chan[p]), ends)
    PROVE  PauseInv'
  <1> DEFINE m == Head(chan[p])
             c == ReportedIf(ends, p, pause[p])
             k == m.frame + 1
  <1>1. PlayInv /\ chan[p] # <<>> BY PausePort DEF Takes
  <1>2. ~(m.frame > frame[p] + Lookahead) BY <1>1, InputAccepted
  <1>3. /\ Acts(p, frame[p], sampled[p], k, c, Tail(chan[p]), chan[Other(p)], ~ends)
        /\ k \in Nat /\ known[p] <= k
    BY <1>1, <1>2, InputActs
  <1>4. Pact(pause[p], frame[p], k, Tail(chan[p]), pause[Other(p)], frame[Other(p)],
             known[Other(p)], chan[Other(p)])
    BY <1>1, PausePort, TakeInput
  <1>5. PlayInv' BY <1>1, PlayReceiveInput
  <1> HIDE DEF m, k
  <1> QED BY <1>3, <1>4, <1>5, PausePort, PauseReceives

\* handle_event of a change keeps the agreement, and never refuses it.
LEMMA PauseReceiveChange ==
    ASSUME PauseInv, NEW p \in Ports, NEW ends \in BOOLEAN, Takes(p, ends),
           IsChange(Head(chan[p])), ReceiveChange(p, Head(chan[p]), ends)
    PROVE  PauseInv'
  <1> DEFINE m == Head(chan[p])
             n == [type |-> "PauseAck", request |-> m.request]
             x == Observe(pause[p], m)
             a == Append(chan[Other(p)], n)
  <1>1. PlayInv /\ chan[p] # <<>> BY PausePort DEF Takes
  <1>2. ~ObserveErr(pause[p], frame[p], m) BY <1>1, PausePort, ChangeAccepted
  <1>3. /\ Acts(p, frame[p], sampled[p], known[p], ReportedIf(ends, p, x), Tail(chan[p]), a,
                ~ends)
        /\ m \in Messages /\ n \in Messages /\ IsAck(n, m.request)
    BY <1>1, <1>2, ChangeActs
  <1>4. ~Repeated(pause[p], m)
    <2>1. Follows(pause[p], m) BY <1>1, PausePort, HeadChange
    <2>2. pause[p].peer_request \in Nat BY PausePort, Counters
    <2> QED BY <2>1, <2>2 DEF Follows, Repeated
  <1>5. x \in Controls /\ Observed(pause[p], x, m) /\ x.reported = pause[p].reported
    BY <1>3, <1>4, PausePort, ObserveFields
  <1>6. a \in Seq(Messages) BY <1>3, PausePort, AppendFacts
  <1> HIDE DEF x
  <1>7. Pact(x, frame[p], known[p], Tail(chan[p]), pause[Other(p)], frame[Other(p)],
             known[Other(p)], a)
    <2> HIDE DEF n
    <2> QED BY <1>1, <1>3, <1>5, PausePort, TakeChange
  <1>8. PlayInv' BY <1>1, PlayReceiveChange
  <1>9. known[p] <= known[p] BY PausePort
  <1> HIDE DEF a
  <1> QED BY <1>3, <1>5, <1>6, <1>7, <1>8, <1>9, PausePort, PauseReceives

\* handle_event of an acknowledgment keeps the agreement, and never refuses it.
LEMMA PauseReceiveAck ==
    ASSUME InputDelay >= 1, PauseInv, NEW p \in Ports, NEW ends \in BOOLEAN, Takes(p, ends),
           Head(chan[p]).type = "PauseAck", ReceiveAck(p, Head(chan[p]), ends)
    PROVE  PauseInv'
  <1> DEFINE q == Other(p)
             m == Head(chan[p])
             x == Acknowledged(pause[p], m)
             y == Reconcile(x, frame[p])
             a == chan[q] \o Change(x, frame[p])
             t == Tail(chan[p])
  <1>1. PlayInv /\ chan[p] # <<>> BY PausePort DEF Takes
  <1>2. ~AcknowledgeErr(pause[p], m) BY <1>1, PausePort, AckAccepted
  <1>3. /\ Acts(p, frame[p], sampled[p], known[p], ReportedIf(ends, p, y), t, a, ~ends)
        /\ m \in Messages /\ x \in Controls /\ Heard(pause[p], x, m)
        /\ x.reported = pause[p].reported /\ Sane(x) /\ Below(x, frame[p])
    BY <1>1, <1>2, AckActs
  <1> HIDE DEF x
  <1>4. Pact(x, frame[p], known[p], t, pause[q], frame[q], known[q], chan[q])
    BY <1>1, <1>3, PausePort, TakeAck
  <1>5. Near(frame[p], sampled[p], frame[q], known[q], chan[q]) BY <1>1, Neighbours
  <1>6. t \in Seq(Messages) BY <1>1, PausePort, HeadType
  <1>7. Pact(y, frame[p], known[p], t, pause[q], frame[q], known[q], a)
    <2> HIDE DEF q, t
    <2>1. /\ frame[q] \in Nat /\ known[q] \in Nat /\ pause[q] \in Controls
          /\ chan[q] \in Seq(Messages)
      BY PausePort DEF q
    <2> QED BY <2>1, <1>3, <1>4, <1>5, <1>6, PausePort, PactReconciles
  <1>8. y \in Controls /\ y.reported = pause[p].reported /\ a \in Seq(Messages)
    BY <1>3, PausePort, ReconcileMoves
  <1>9. PlayInv' BY <1>1, PlayReceiveAck
  <1>10. known[p] <= known[p] BY PausePort
  <1> HIDE DEF y, a
  <1> QED BY <1>3, <1>7, <1>8, <1>9, <1>10, PausePort, PauseReceives

\* fn request_pause keeps the agreement.
LEMMA PauseRequestPause ==
    ASSUME InputDelay >= 1, PauseInv, NEW p \in Ports, NEW paused \in BOOLEAN,
           RequestPause(p, paused)
    PROVE  PauseInv'
  <1> DEFINE q == Other(p)
             x == Desire(pause[p], paused)
             y == Reconcile(x, frame[p])
             a == chan[q] \o Change(x, frame[p])
  <1>1. PlayInv BY PausePort
  <1>2. /\ Acts(p, frame[p], sampled[p], known[p], y, chan[p], a, busy[p])
        /\ x \in Controls /\ Same(pause[p], x) /\ x.reported = pause[p].reported
        /\ Sane(x) /\ Below(x, frame[p])
    BY <1>1, RequestActs
  <1> HIDE DEF x
  <1>3. Pact(x, frame[p], known[p], chan[p], pause[q], frame[q], known[q], chan[q])
    BY <1>2, PausePort, PactSame DEF Same
  <1>4. Near(frame[p], sampled[p], frame[q], known[q], chan[q]) BY <1>1, Neighbours
  <1>5. Pact(y, frame[p], known[p], chan[p], pause[q], frame[q], known[q], a)
    <2> HIDE DEF q
    <2>1. /\ frame[q] \in Nat /\ known[q] \in Nat /\ pause[q] \in Controls
          /\ chan[q] \in Seq(Messages)
      BY PausePort DEF q
    <2> QED BY <2>1, <1>2, <1>3, <1>4, PausePort, PactReconciles
  <1>6. /\ y \in Controls /\ y.reported = pause[p].reported /\ a \in Seq(Messages)
        /\ \/ y = x
           \/ \E n \in Messages : Moves(x, y, frame[p], n)
    BY <1>2, PausePort, ReconcileMoves
  <1> HIDE DEF y, a
  <1>7. x.episode # None => y.episode = x.episode
    BY <1>6 DEF Moves, Voted, Withdrawn
  <1>8. Told(y, frame[p], Confirmed(sampled[p], known[p]), busy[p])
    <2>1. x.episode = pause[p].episode BY <1>2 DEF Same
    <2>2. Told(pause[p], frame[p], Confirmed(sampled[p], known[p]), busy[p]) BY PausePort
    <2> QED BY <2>1, <2>2, <1>6, <1>7 DEF Told
  <1>9. PlayInv' BY <1>1, PlayRequestPause
  <1>10. busy[p] \in BOOLEAN BY <1>1, PortTypes
  <1> QED BY SMTT(30), <1>2, <1>5, <1>6, <1>8, <1>9, <1>10, PausePort, PauseActs

\* fn poll without a message keeps the agreement.
LEMMA PauseIdle ==
    ASSUME PauseInv, NEW p \in Ports, Idle(p)
    PROVE  PauseInv'
  <1> DEFINE c == Reported(p, pause[p])
  <1>1. PlayInv BY PausePort
  <1>2. /\ Acts(p, frame[p], sampled[p], known[p], c, chan[p], chan[Other(p)], busy[p])
        /\ c \in Controls /\ Same(pause[p], c)
    BY <1>1, IdleActs
  <1>3. Pact(c, frame[p], known[p], chan[p], pause[Other(p)], frame[Other(p)],
             known[Other(p)], chan[Other(p)])
    BY <1>2, PausePort, PactSame DEF Same
  <1>4. Told(c, frame[p], Confirmed(sampled[p], known[p]), busy[p])
    <2>1. frame'[p] = frame[p] /\ sampled'[p] = sampled[p] /\ known'[p] = known[p]
      BY DEF Idle
    <2>2. /\ Halts(pause[p], frame[p]) /\ pause[p].reported # Running
          /\ pause[p].reported # None => frame[p] <= Confirmed(sampled[p], known[p])
      BY PausePort DEF Pact, Half, Told
    <2>3. \A b : Told(c, frame'[p], Confirmed(sampled'[p], known'[p]), b)
      BY <2>1, <2>2, PausePort, ReportedTold
    <2> QED BY <2>1, <2>3
  <1>5. PlayInv' BY <1>1, PlayIdle
  <1>6. busy[p] \in BOOLEAN BY <1>1, PortTypes
  <1> HIDE DEF c
  <1> QED BY SMTT(30), <1>2, <1>3, <1>4, <1>5, <1>6, PausePort, PauseActs

\* fn step keeps the agreement.
LEMMA PauseStep ==
    ASSUME PauseInv, NEW p \in Ports, Step(p)
    PROVE  PauseInv'
  <1> DEFINE q == Other(p)
             c == Reported(p, pause[p])
             f == StepFrame(p)
             s == frame[p] + InputDelay + 1
             a == StepSends(p)
  <1>1. PlayInv BY PausePort
  <1>2. /\ Acts(p, f, s, known[p], c, chan[p], a, busy[p])
        /\ f \in Nat /\ s \in Nat /\ c \in Controls /\ Same(pause[p], c)
        /\ StepInput(p) \in Messages /\ IsInput(StepInput(p))
        /\ a \in Seq(Messages) /\ Below(pause[p], frame[p] + 1)
    BY <1>1, StepActs
  <1>3. /\ frame[q] \in Nat /\ known[q] \in Nat /\ pause[q] \in Controls
        /\ chan[q] \in Seq(Messages)
        /\ Pact(pause[p], frame[p], known[p], chan[p], pause[q], frame[q], known[q], chan[q])
    BY PausePort
  <1> HIDE DEF q, s, c, f
  <1>4. Pact(pause[p], f, known[p], chan[p], pause[q], frame[q], known[q], chan[q])
    <2>1. CASE f = frame[p] BY <2>1, <1>3
    <2>2. CASE f = frame[p] + 1
      <3>1. pause[p].episode # None => frame[p] < pause[p].episode
        <4>1. pause[p].episode \in Nat \cup {None} BY PausePort, ControlTypes
        <4> QED BY <4>1, <1>2, PausePort DEF Below
      <3>2. Pact(pause[p], frame[p] + 1, known[p], chan[p], pause[q], frame[q], known[q],
                 chan[q])
        BY <3>1, <1>3, PausePort, RunFrame
      <3> QED BY <3>2, <2>2
    <2> QED BY <2>1, <2>2 DEF f, StepFrame
  <1>5. Pact(pause[p], f, known[p], chan[p], pause[q], frame[q], known[q], a)
    <2>1. CASE a = chan[q] BY <2>1, <1>4
    <2>2. CASE a = Append(chan[q], StepInput(p))
      <3> HIDE DEF a
      <3>1. Pact(pause[p], f, known[p], chan[p], pause[q], frame[q], known[q],
                 Append(chan[q], StepInput(p)))
        BY <1>2, <1>3, <1>4, PausePort, PutInput
      <3> QED BY <3>1, <2>2
    <2> QED BY <2>1, <2>2 DEF StepSends, q
  <1> HIDE DEF a
  <1>6. Pact(c, f, known[p], chan[p], pause[q], frame[q], known[q], a)
    BY <1>2, <1>3, <1>5, PausePort, PactSame DEF Same
  <1>7. Told(c, f, Confirmed(s, known[p]), busy[p])
    <2>1. frame'[p] = f /\ sampled'[p] = s /\ known'[p] = known[p]
      <3>1. Reaches(p, f, s, known[p], c, chan[p], a, busy[p])
        BY <1>1, <1>2, PausePort, PortTypes, ActsMoves
      <3> QED BY <3>1 DEF Reaches
    <2>2. pause[p].reported = None
      <3>1. ~busy[p] /\ ~AtBarrier(pause[p], frame[p]) BY DEF Step, Ready
      <3>2. Told(pause[p], frame[p], Confirmed(sampled[p], known[p]), busy[p])
        BY PausePort
      <3> QED BY <3>1, <3>2 DEF Told, AtBarrier, Barrier
    <2>3. Running # None BY PausePort, FlagsType
    <2>4. Halts(pause[p], f) BY <1>4 DEF Pact, Half
    <2>5. \A b : Told(c, frame'[p], Confirmed(sampled'[p], known'[p]), b)
      <3>1. /\ frame'[p] \in Nat /\ sampled'[p] \in Nat /\ known'[p] \in Nat
            /\ Halts(pause[p], frame'[p]) /\ pause[p] \in Controls
        BY <2>1, <2>4, <1>2, PausePort
      <3> QED BY <3>1, <2>2, <2>3, ReportedTold DEF c
    <2> QED BY <2>1, <2>5
  <1>8. PlayInv' BY <1>1, PlayStep
  <1>9. busy[p] \in BOOLEAN BY <1>1, PortTypes
  <1> QED BY SMTT(30), <1>2, <1>6, <1>7, <1>8, <1>9, PausePort, PauseActs DEF q

\* Two new sessions agree.
LEMMA PauseInit ==
    ASSUME Init
    PROVE  PauseInv
  <1> DEFINE c == NewPause
  <1>1. PlayInv BY PlayInit
  <1>2. c.reported = None /\ Running # None BY NewPact
  <1>3. ASSUME NEW p \in Ports PROVE PauseSide(p)
    <2>1. /\ status[p] = "up" /\ pause[p] = c /\ chan[p] = <<>> /\ frame[p] = 0
          /\ pause[Other(p)] = c /\ chan[Other(p)] = <<>> /\ frame[Other(p)] = 0
      BY TwoPorts DEF Init, c
    <2>2. \A y, b : Told(c, 0, y, b) BY <1>2 DEF Told
    <2>3. \A k, l : Pact(c, 0, k, <<>>, c, 0, l, <<>>) BY NewPact
    <2> QED BY <2>1, <2>2, <2>3 DEF PauseSide
  <1> QED BY <1>1, <1>3 DEF PauseInv

\* Every step keeps the agreement.
LEMMA PauseNext ==
    ASSUME InputDelay >= 1, PauseInv, [Next]_vars
    PROVE  PauseInv'
  <1>1. ASSUME NEW p \in Ports, NEW ends \in Ends, Receive(p, ends) PROVE PauseInv'
    <2>1. ends \in BOOLEAN BY PausePlayAssumption
    <2> QED BY <1>1, <2>1, ReceiveCases, PauseReceiveInput, PauseReceiveChange,
               PauseReceiveAck
  <1>2. CASE UNCHANGED vars
    BY <1>2 DEF vars, PauseInv, PauseSide, PlayInv, PlayTypes, PlaySide
  <1> QED BY <1>1, <1>2, PauseStep, PauseIdle, PauseRequestPause DEF Next

\* PauseInv is an invariant when the delay is at least one frame: the votes, the
\* changes and acknowledgments under way and the two barriers fit together, and
\* every vote arrives before its receiver has passed the frame it names.
THEOREM PauseInvariant == ASSUME InputDelay >= 1 PROVE Spec => []PauseInv
  <1>1. Init => PauseInv BY PauseInit
  <1>2. PauseInv /\ [Next]_vars => PauseInv' BY PauseNext
  <1> QED BY <1>1, <1>2, PTL DEF Spec

-----------------------------------------------------------------------------
(* What the agreement gives.                                               *)

\* Two sessions that have both told the player have stopped at the same frame.
LEMMA TogetherWhenTold ==
    ASSUME PauseInv
    PROVE  PausedTogether
  <1> SUFFICES ASSUME \A p \in Ports : ~busy[p] /\ pause[p].reported = Flags(pause[p])
               PROVE  /\ frame[0] = frame[1]
                      /\ \A p \in Ports : frame[p] <= Confirmed(sampled[p], known[p])
    BY DEF PausedTogether
  <1>1. ASSUME NEW p \in Ports
        PROVE  /\ Lasting(pause[p], chan[p]) /\ pause[p].episode = frame[p]
               /\ frame[p] <= Confirmed(sampled[p], known[p])
    <2>1. busy[p] = FALSE
      <3>1. busy[p] \in BOOLEAN BY PausePort, PortTypes
      <3> QED BY <3>1
    <2>2. Told(pause[p], frame[p], Confirmed(sampled[p], known[p]), FALSE)
      BY <2>1, PausePort
    <2> QED BY <2>2, PausePort, ToldStops
  <1>2. ASSUME NEW p \in Ports PROVE frame[Other(p)] <= frame[p]
    <2>1. Other(p) \in Ports BY TwoPorts
    <2>2. /\ Lasting(pause[p], chan[p]) /\ pause[p].episode = frame[p]
          /\ pause[Other(p)].episode = frame[Other(p)]
      BY <2>1, <1>1
    <2>3. frame[Other(p)] <= known[Other(p)] + PREDICTION_WINDOW BY <2>1, PausePort
    <2> QED BY <2>2, <2>3, PausePort, StopsNoLater
  <1>3. 0 \in Ports /\ 1 \in Ports /\ Other(0) = 1 /\ Other(1) = 0 BY DEF Ports, Other
  <1>4. frame[0] <= frame[1] /\ frame[1] <= frame[0] BY <1>2, <1>3
  <1>5. frame[0] \in Nat /\ frame[1] \in Nat BY <1>3, PausePort
  <1> QED BY <1>1, <1>4, <1>5

\* When every vote has been seen and answered, the peer stops as early.
LEMMA SettledStops ==
    ASSUME NEW c \in Controls, NEW d \in Controls, NEW f \in Nat, NEW k \in Nat,
           NEW e \in Nat, NEW l \in Nat, NEW h \in Seq(Messages), NEW g \in Seq(Messages),
           Pact(c, f, k, h, d, e, l, g), c.local_acked = c.local_request,
           d.peer_request = c.local_request, c.episode # None
    PROVE  d.episode # None /\ d.episode <= c.episode
  <1>1. Lasting(c, h) BY DEF Lasting, Finishing
  <1>2. ~Names(g, c.episode)
    <2> SUFFICES ASSUME NEW i \in 1 .. Len(g), IsVote(g[i]) PROVE FALSE BY DEF Names
    <2>1. Says(d, c, g[i]) /\ g[i].request \in Nat
      <3>1. Sent(c, d, g) /\ IsChange(g[i]) BY DEF Pact, Half, IsVote
      <3> QED BY <3>1, ChangeSays
    <2>2. c.local_request \in Nat BY Counters
    <2> QED BY <2>1, <2>2 DEF Says
  <1> QED BY <1>1, <1>2 DEF Pact, Half, Agree, Lasting

\* Two sessions that have seen all votes have the same barrier.
LEMMA SameWhenSettled ==
    ASSUME PauseInv
    PROVE  SameBarrier
  <1> SUFFICES ASSUME \A p \in Ports : Settled(p)
               PROVE  pause[0].episode = pause[1].episode
    BY DEF SameBarrier, Barrier
  <1>1. ASSUME NEW p \in Ports, pause[p].episode # None
        PROVE  pause[Other(p)].episode # None /\ pause[Other(p)].episode <= pause[p].episode
    <2>1. Other(p) \in Ports /\ Other(Other(p)) = p BY TwoPorts
    <2>2. /\ pause[p].local_acked = pause[p].local_request
          /\ pause[Other(p)].peer_request = pause[p].local_request
      BY <2>1 DEF Settled
    <2> QED BY <2>2, <1>1, PausePort, SettledStops
  <1>2. 0 \in Ports /\ 1 \in Ports /\ Other(0) = 1 /\ Other(1) = 0 BY DEF Ports, Other
  <1>3. pause[0].episode \in Nat \cup {None} /\ pause[1].episode \in Nat \cup {None}
    BY <1>2, PausePort, ControlTypes
  <1>4. CASE pause[0].episode = None \/ pause[1].episode = None BY <1>1, <1>2, <1>4
  <1>5. CASE pause[0].episode # None /\ pause[1].episode # None
    <2>1. pause[0].episode <= pause[1].episode /\ pause[1].episode <= pause[0].episode
      BY <1>1, <1>2, <1>5
    <2> QED BY <2>1, <1>3, <1>5
  <1> QED BY <1>4, <1>5

\* NoFalseAlarm holds with a delay of at least one frame: no input and no pause
\* message of an honest peer is refused by handle_event, however the requests of the
\* two players cross.
THEOREM NoSessionEnds == ASSUME InputDelay >= 1 PROVE Spec => []NoFalseAlarm
  <1>1. PauseInv => NoFalseAlarm BY DEF PauseInv, PauseSide, NoFalseAlarm
  <1> QED BY <1>1, PauseInvariant, PTL

\* PausedTogether holds with a delay of at least one frame: when report_pause has told
\* both players of the votes as they stand, both have stopped at the same frame, and
\* neither shows a frame that is not confirmed.
THEOREM PauseIsCommon == ASSUME InputDelay >= 1 PROVE Spec => []PausedTogether
  <1>1. PauseInv => PausedTogether BY TogetherWhenTold
  <1> QED BY <1>1, PauseInvariant, PTL

\* SameBarrier holds with a delay of at least one frame: when each side has seen and
\* answered all votes of the other, fn barrier is the same on both.
THEOREM BarrierIsCommon == ASSUME InputDelay >= 1 PROVE Spec => []SameBarrier
  <1>1. PauseInv => SameBarrier BY SameWhenSettled
  <1> QED BY <1>1, PauseInvariant, PTL

\* No input is refused for running past the lookahead.
InputsAccepted == \A p \in Ports : status[p] # "input exceeds lookahead"

\* InputsAccepted holds for every delay, zero included: an input is sampled at most
\* the delay and a frame ahead of its sender, and the sender at most the window and
\* as much again ahead of the receiver, which is what Lookahead allows.
THEOREM InputsAreAccepted == Spec => []InputsAccepted
  <1>1. Init => InputsAccepted BY DEF Init, InputsAccepted
  <1>2. ASSUME PlayInv, InputsAccepted, [Next]_vars PROVE InputsAccepted'
    <2>1. ASSUME NEW p \in Ports, NEW ends \in Ends, Receive(p, ends)
          PROVE  InputsAccepted'
      <3>1. ends \in BOOLEAN BY PausePlayAssumption
      <3>2. chan[p] # <<>> BY <2>1 DEF Receive
      <3>3. status \in [Ports -> {"up", "input exceeds lookahead", "pause refused"}]
        BY <1>2 DEF PlayInv, PlayTypes
      <3>4. status' = status \/ status' = [status EXCEPT ![p] = "pause refused"]
        <4>1. CASE IsInput(Head(chan[p])) /\ ReceiveInput(p, Head(chan[p]), ends)
          BY <4>1, <3>2, <1>2, InputAccepted DEF ReceiveInput
        <4>2. CASE IsChange(Head(chan[p])) /\ ReceiveChange(p, Head(chan[p]), ends)
          BY <4>2 DEF ReceiveChange, Fails
        <4>3. CASE Head(chan[p]).type = "PauseAck" /\ ReceiveAck(p, Head(chan[p]), ends)
          BY <4>3 DEF ReceiveAck, Fails
        <4> QED BY <4>1, <4>2, <4>3, <3>1, <2>1, ReceiveCases
      <3> QED BY <3>3, <3>4, <1>2 DEF InputsAccepted
    <2>2. ASSUME NEW p \in Ports,
                 \/ Step(p) \/ Idle(p)
                 \/ \E paused \in BOOLEAN : RequestPause(p, paused)
          PROVE  InputsAccepted'
      BY <2>2, <1>2 DEF Step, Idle, RequestPause, InputsAccepted
    <2>3. CASE UNCHANGED vars BY <2>3, <1>2 DEF vars, InputsAccepted
    <2> QED BY <2>1, <2>2, <2>3, <1>2 DEF Next
  <1> QED BY <1>1, <1>2, PlayInvariant, PTL DEF Spec
=============================================================================
