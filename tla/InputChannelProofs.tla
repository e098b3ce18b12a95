------------------------- MODULE InputChannelProofs -------------------------
(***************************************************************************)
(* Proofs about InputChannel, for every window, batch, first frame, bound  *)
(* and network: no honest packet is refused, pending covers what has not   *)
(* been delivered, and the two ends implement InputStream.                 *)
(*                                                                         *)
(* The two directions are independent: Flow relates the sender s of one    *)
(* direction, its receiver r, the words w pushed, the words d delivered    *)
(* and the packets N under way.  Every map either end or a packet holds is *)
(* a part of w, so two of them never disagree about a frame; and           *)
(*     acknowledged <= received <= sent <= acknowledged + WINDOW           *)
(* bounds every frame that can still arrive by the receive window.         *)
(***************************************************************************)
EXTENDS InputChannel, TLAPS, WellFoundedInduction, FiniteSetTheorems

\* m holds words of w, for some of the frames S.
IsPart(m, w, S) == DOMAIN m \subseteq S /\ m = Only(w, DOMAIN m)

IsEnd(c) ==
    c \in [sent : Nat, acknowledged : Nat, received : Nat,
           pending : {c.pending}, waiting : {c.waiting}, history : {c.history},
           ack_dirty : BOOLEAN]

\* A packet of s: its inputs are s's words and it acknowledges what s has.
IsPacket(m, s, w) ==
    /\ m.ack \in First .. s.received
    /\ IsPart(m.inputs, w, First .. s.sent - 1)

\* acknowledged <= received <= sent <= acknowledged + WINDOW
InOrder(s, r) ==
    /\ First <= s.acknowledged
    /\ s.acknowledged <= r.received
    /\ r.received <= s.sent
    /\ s.sent <= s.acknowledged + WINDOW

Flow(s, r, w, d, N) ==
    /\ InOrder(s, r)
    /\ w = Only(w, First .. s.sent - 1)
    /\ s.pending = Only(w, s.acknowledged .. s.sent - 1)
    /\ d = Only(w, First .. r.received - 1)
    /\ IsPart(r.waiting, w, r.received .. s.sent - 1)
    /\ IsPart(r.history, w, First .. r.received - 1)
    /\ \A m \in N : IsPacket(m, s, w)

\* The stream of inputs from p to its peer.
FlowFrom(p) ==
    Flow(end[p], end[Peer(p)], pushed[p], delivered[Peer(p)], net[Peer(p)])

Pairs ==
    /\ end = [p \in Players |-> end[p]]
    /\ net = [p \in Players |-> net[p]]
    /\ pushed = [p \in Players |-> pushed[p]]
    /\ delivered = [p \in Players |-> delivered[p]]
    /\ status \in [Players -> {"up", "exhausted"}]

ChannelInv ==
    /\ Pairs
    /\ \A p \in Players : IsEnd(end[p]) /\ end[p].sent <= MaxSent[p]
    /\ \A p \in Players : FlowFrom(p)

-----------------------------------------------------------------------------
(* The operators.                                                          *)

\* Every non-empty set of natural numbers has a least element.
LEMMA LeastElement ==
    ASSUME NEW S, S \subseteq Nat, S # {}
    PROVE  \E m \in S : \A n \in S : m <= n
<1>1. PICK m \in S : \A n \in S : ~(<<n, m>> \in OpToRel(<, Nat))
  BY WFMin, NatLessThanWellFounded
<1>2. \A n \in S : ~(n < m) BY <1>1 DEF OpToRel
<1> QED BY <1>2, SMT

\* The delivery loop stops at the first frame that has not arrived.
LEMMA ArrivedStops ==
    ASSUME NEW received \in Nat, NEW top \in Nat, NEW frames,
           frames \subseteq received .. top - 1, received <= top
    PROVE  LET n == Arrived(received, frames)
           IN  /\ n \in received .. top
               /\ n \notin frames
               /\ received .. n - 1 \subseteq frames
<1> DEFINE Missing == {n \in Nat : n >= received /\ n \notin frames}
           Candidates == {received} \cup {f + 1 : f \in frames}
           Stops(n) == n >= received /\ n \notin frames
                        /\ received .. n - 1 \subseteq frames
<1>1. top \in Missing OBVIOUS
<1>2. PICK n \in Missing : \A k \in Missing : n <= k BY <1>1, LeastElement
<1>3. Stops(n) BY <1>2
<1>4. n \in Candidates
  <2>1. CASE n = received BY <2>1
  <2>2. CASE n # received
    <3>1. n - 1 \in received .. n - 1 BY <2>2, <1>3
    <3>2. n - 1 \in frames BY <3>1, <1>3
    <3> QED BY <3>2
  <2> QED BY <2>1, <2>2
<1>5. Arrived(received, frames) \in Candidates /\ Stops(Arrived(received, frames))
  BY <1>3, <1>4 DEF Arrived
<1>6. Candidates \subseteq received .. top OBVIOUS
<1> QED BY <1>5, <1>6

\* The size of an interval, and of a part of one.
LEMMA IntervalSize ==
    ASSUME NEW a \in Nat, NEW b \in Nat, a <= b
    PROVE  /\ Cardinality(a .. b - 1) = b - a
           /\ \A S : S \subseteq a .. b - 1 => Cardinality(S) <= b - a
<1> DEFINE c == b - 1
<1>0. a \in Int /\ c \in Int /\ (a > c => b - a = 0) /\ c - a + 1 = b - a OBVIOUS
<1>1. IsFiniteSet(a .. b - 1) /\ Cardinality(a .. b - 1) = b - a
  <2> HIDE DEF c
  <2>1. IsFiniteSet(a .. c) /\ Cardinality(a .. c) = IF a > c THEN 0 ELSE c - a + 1
    BY <1>0, FS_Interval
  <2>2. IsFiniteSet(a .. c) /\ Cardinality(a .. c) = b - a BY <1>0, <2>1
  <2> QED BY <2>2 DEF c
<1>2. ASSUME NEW S, S \subseteq a .. b - 1 PROVE Cardinality(S) <= b - a
  BY ZenonT(30), <1>1, <1>2, FS_Subset
<1> QED BY <1>1, <1>2

\* The first BATCH pending inputs are pending ones.
LEMMA BatchPending == ASSUME NEW c PROVE Batch(c) \subseteq DOMAIN c.pending
<1> DEFINE D == DOMAIN c.pending
<1>1. Batch(c) = {f \in D : Cardinality({g \in D : g < f}) < BATCH} BY DEF Batch
<1> HIDE DEF D
<1>2. {f \in D : Cardinality({g \in D : g < f}) < BATCH} \subseteq D BY Zenon
<1> QED BY <1>1, <1>2 DEF D

\* A part of a part.
LEMMA PartOfPart ==
    ASSUME NEW m, NEW w, NEW S, NEW T, NEW U, IsPart(m, w, S),
           U \subseteq DOMAIN m, U \subseteq T
    PROVE  IsPart(Only(m, U), w, T)
<1>1. DOMAIN Only(m, U) = U BY DEF Only
<1>2. \A f \in U : m[f] = w[f] BY DEF IsPart, Only
<1> QED BY <1>1, <1>2 DEF IsPart, Only
-----------------------------------------------------------------------------
(* Sending: push, encode, and the loss of a packet.                        *)

\* The window has room exactly when fewer than WINDOW inputs are pending.
LEMMA WindowOpen ==
    ASSUME NEW s, NEW r, NEW w, NEW d, NEW N, IsEnd(s), IsEnd(r),
           Flow(s, r, w, d, N), ~PushErr(s)
    PROVE  s.sent + 1 <= s.acknowledged + WINDOW
<1>1. DOMAIN s.pending = s.acknowledged .. s.sent - 1 BY DEF Flow, Only
<1>2. s.acknowledged \in Nat /\ s.sent \in Nat /\ s.acknowledged <= s.sent
      /\ r.received \in Nat
  BY DEF IsEnd, Flow, InOrder
<1>3. Cardinality(DOMAIN s.pending) = s.sent - s.acknowledged
  BY <1>1, <1>2, IntervalSize
<1> QED BY <1>2, <1>3, ChannelAssumption DEF PushErr

\* A push extends the words and keeps everything else in place.
LEMMA PushFlow ==
    ASSUME NEW s, NEW r, NEW w, NEW d, NEW N, NEW b, IsEnd(s), IsEnd(r),
           Flow(s, r, w, d, N), ~PushErr(s)
    PROVE  /\ IsEnd(Pushed(s, b))
           /\ Flow(Pushed(s, b), r, With(w, s.sent, b), d, N)
<1> DEFINE c == Pushed(s, b)
           v == With(w, s.sent, b)
<1>1. /\ s.sent \in Nat /\ s.acknowledged \in Nat /\ r.received \in Nat
      /\ s.received \in Nat
      /\ First \in Nat /\ WINDOW \in Nat /\ InOrder(s, r)
  BY ChannelAssumption DEF IsEnd, Flow
<1>2. /\ c.sent = s.sent + 1 /\ c.acknowledged = s.acknowledged
      /\ c.received = s.received /\ c.pending = With(s.pending, s.sent, b)
      /\ IsEnd(c)
  <2> DEFINE P == With(s.pending, s.sent, b)
  <2>1. c = [s EXCEPT !.pending = P, !.sent = s.sent + 1] BY DEF Pushed
  <2> HIDE DEF P, c
  <2>2. s \in [sent : Nat, acknowledged : Nat, received : Nat,
               pending : {s.pending}, waiting : {s.waiting},
               history : {s.history}, ack_dirty : BOOLEAN]
    BY DEF IsEnd
  <2>3. c = [sent |-> s.sent + 1, acknowledged |-> s.acknowledged,
             received |-> s.received, pending |-> P, waiting |-> s.waiting,
             history |-> s.history, ack_dirty |-> s.ack_dirty]
    BY <2>1, <2>2
  <2>4. s.sent + 1 \in Nat BY <1>1
  <2>5. IsEnd(c) BY <2>2, <2>3, <2>4 DEF IsEnd
  <2> QED BY <2>3, <2>5 DEF P
<1>3. DOMAIN w = First .. s.sent - 1 BY DEF Flow, Only
<1>4. /\ DOMAIN v = First .. s.sent /\ v[s.sent] = b
      /\ \A f \in First .. s.sent - 1 : v[f] = w[f]
  BY <1>1, <1>3 DEF With, InOrder
<1>5. v = Only(v, First .. c.sent - 1) BY <1>1, <1>2, <1>4 DEF With, Only
<1>6. c.pending = Only(v, c.acknowledged .. c.sent - 1)
  <2>1. DOMAIN s.pending = s.acknowledged .. s.sent - 1 BY DEF Flow, Only
  <2>2. DOMAIN s.pending \cup {s.sent} = s.acknowledged .. s.sent
    BY <1>1, <2>1 DEF InOrder
  <2>3. \A f \in s.acknowledged .. s.sent - 1 : s.pending[f] = w[f] /\ v[f] = w[f]
    BY SMTT(30), <1>1, <1>4 DEF Flow, Only, InOrder
  <2>4. c.pending = [g \in s.acknowledged .. s.sent |->
                        IF g = s.sent THEN b ELSE s.pending[g]]
    BY <1>2, <2>2 DEF With
  <2>5. \A g \in s.acknowledged .. s.sent :
            (IF g = s.sent THEN b ELSE s.pending[g]) = v[g]
    BY <1>1, <1>4, <2>3
  <2>6. c.acknowledged .. c.sent - 1 = s.acknowledged .. s.sent BY <1>1, <1>2
  <2> HIDE DEF c, v
  <2> QED BY <2>4, <2>5, <2>6 DEF Only
<1>7. ASSUME NEW m, NEW S, IsPart(m, w, S), S \subseteq First .. s.sent - 1
      PROVE  IsPart(m, v, S)
  BY <1>4, <1>7 DEF IsPart, Only
<1>8. IsPart(r.waiting, v, r.received .. c.sent - 1)
  <2>1. r.received .. s.sent - 1 \subseteq First .. s.sent - 1 BY <1>1 DEF InOrder
  <2>2. IsPart(r.waiting, v, r.received .. s.sent - 1) BY <1>7, <2>1 DEF Flow
  <2> QED BY <1>1, <1>2, <2>2 DEF IsPart
<1>9. IsPart(r.history, v, First .. r.received - 1)
  <2>1. First .. r.received - 1 \subseteq First .. s.sent - 1 BY <1>1 DEF InOrder
  <2> QED BY <1>7, <2>1 DEF Flow
<1>10. d = Only(v, First .. r.received - 1)
  BY <1>1, <1>4 DEF Flow, Only, InOrder
<1>11. ASSUME NEW m \in N PROVE IsPacket(m, c, v)
  <2>1. IsPacket(m, s, w) BY <1>11 DEF Flow
  <2>2. IsPart(m.inputs, v, First .. s.sent - 1) BY <1>7, <2>1 DEF IsPacket
  <2> QED BY <1>1, <1>2, <2>1, <2>2 DEF IsPacket, IsPart
<1>12. InOrder(c, r) BY <1>1, <1>2, WindowOpen DEF InOrder
<1> QED BY <1>2, <1>5, <1>6, <1>8, <1>9, <1>10, <1>11, <1>12 DEF Flow

\* A packet is made of pending inputs, and the sender forgets only that it
\* owed an acknowledgment.
LEMMA SendFlow ==
    ASSUME NEW s, NEW r, NEW w, NEW d, NEW N, IsEnd(s), IsEnd(r),
           First <= s.received, Flow(s, r, w, d, N)
    PROVE  /\ IsEnd(Encoded(s))
           /\ Flow(Encoded(s), r, w, d, Sent(N, s))
<1> DEFINE c == Encoded(s)
<1>1. /\ c.sent = s.sent /\ c.acknowledged = s.acknowledged
      /\ c.received = s.received /\ c.pending = s.pending
      /\ IsEnd(c)
  BY DEF IsEnd, Encoded
<1>2. IsPacket(Packet(s), s, w)
  <2>1. DOMAIN s.pending = s.acknowledged .. s.sent - 1 BY DEF Flow, Only
  <2>2. IsPart(s.pending, w, s.acknowledged .. s.sent - 1)
    BY <2>1 DEF Flow, Only, IsPart
  <2>3. Batch(s) \subseteq First .. s.sent - 1
    BY SMTT(30), <2>1, BatchPending, ChannelAssumption DEF IsEnd, Flow, InOrder
  <2>4. IsPart(Only(s.pending, Batch(s)), w, First .. s.sent - 1)
    BY <2>2, <2>3, BatchPending, PartOfPart
  <2> QED BY <2>4, ChannelAssumption DEF Packet, IsPacket, IsEnd
<1>3. Sent(N, s) \subseteq N \cup {Packet(s)} BY DEF Sent
<1>4. \A m \in Sent(N, s) : IsPacket(m, c, w)
  BY <1>1, <1>2, <1>3 DEF Flow, IsPacket
<1> QED BY <1>1, <1>4 DEF Flow, InOrder

\* Nothing depends on a packet being there.
LEMMA LoseFlow ==
    ASSUME NEW s, NEW r, NEW w, NEW d, NEW N, Flow(s, r, w, d, N), NEW m
    PROVE  Flow(s, r, w, d, N \ {m})
BY DEF Flow
-----------------------------------------------------------------------------
(* Receiving.                                                              *)

\* A frame of a packet under way fits the receive window.
LEMMA PacketFits ==
    ASSUME NEW s, NEW r, NEW w, NEW d, NEW N, IsEnd(s), IsEnd(r),
           Flow(s, r, w, d, N), NEW m \in N
    PROVE  /\ DOMAIN m.inputs \subseteq First .. s.sent - 1
           /\ \A f \in DOMAIN m.inputs : m.inputs[f] = w[f]
           /\ s.sent <= r.received + WINDOW
           /\ r.received <= s.sent
           /\ s.sent \in Nat /\ r.received \in Nat /\ First \in Nat /\ WINDOW \in Nat
<1>1. IsPacket(m, s, w) BY DEF Flow
<1>2. /\ DOMAIN m.inputs \subseteq First .. s.sent - 1
      /\ \A f \in DOMAIN m.inputs : m.inputs[f] = w[f]
  BY <1>1 DEF IsPacket, IsPart, Only
<1>3. s.sent \in Nat /\ s.acknowledged \in Nat /\ r.received \in Nat
      /\ First \in Nat /\ WINDOW \in Nat
  BY ChannelAssumption DEF IsEnd
<1> QED BY <1>2, <1>3 DEF Flow, InOrder

\* The inputs that wait after a packet has been read, and where they start.
LEMMA WaitingPart ==
    ASSUME NEW s, NEW r, NEW w, NEW d, NEW N, IsEnd(s), IsEnd(r),
           Flow(s, r, w, d, N), NEW m \in N
    PROVE  IsPart(Waiting(r, m), w, r.received .. s.sent - 1)
<1> DEFINE D == DOMAIN r.waiting \cup {g \in DOMAIN m.inputs : g >= r.received}
<1>1. DOMAIN Waiting(r, m) = D BY DEF Waiting
<1>2. /\ DOMAIN r.waiting \subseteq r.received .. s.sent - 1
      /\ \A f \in DOMAIN r.waiting : r.waiting[f] = w[f]
  BY DEF Flow, IsPart, Only
<1>3. D \subseteq r.received .. s.sent - 1 BY <1>2, PacketFits
<1>4. \A f \in D : Waiting(r, m)[f] = w[f] BY <1>2, PacketFits DEF Waiting
<1> QED BY <1>1, <1>3, <1>4 DEF IsPart, Only, Waiting

\* No check of receive fails on a packet of an honest peer.
LEMMA ReceiveAccepted ==
    ASSUME NEW s, NEW r, NEW w, NEW d, NEW N, IsEnd(s), IsEnd(r),
           Flow(s, r, w, d, N), NEW m \in N, s.received <= r.sent
    PROVE  ~ReceiveErr(r, m)
<1>1. m.ack \in First .. r.sent
  <2>1. m.ack \in First .. s.received BY DEF Flow, IsPacket
  <2> QED BY <2>1, ChannelAssumption DEF IsEnd
<1>2. ASSUME NEW f \in DOMAIN m.inputs
      PROVE  /\ ~(f < First)
             /\ ~(f >= r.received + WINDOW)
             /\ f \in DOMAIN r.history => r.history[f] = m.inputs[f]
             /\ f \in DOMAIN r.waiting => r.waiting[f] = m.inputs[f]
  <2>1. f \in First .. s.sent - 1 /\ m.inputs[f] = w[f] BY <1>2, PacketFits
  <2>2. ~(f < First) /\ ~(f >= r.received + WINDOW) BY <2>1, PacketFits
  <2>3. f \in DOMAIN r.history => r.history[f] = w[f] BY DEF Flow, IsPart, Only
  <2>4. f \in DOMAIN r.waiting => r.waiting[f] = w[f] BY DEF Flow, IsPart, Only
  <2> QED BY <2>1, <2>2, <2>3, <2>4
<1>3. Cardinality(DOMAIN Waiting(r, m)) <= WINDOW
  <2> DEFINE top == r.received + WINDOW
  <2>1. r.received \in Nat /\ top \in Nat /\ r.received <= top BY PacketFits
  <2>2. DOMAIN Waiting(r, m) \subseteq r.received .. top - 1
    BY WaitingPart, PacketFits DEF IsPart
  <2> HIDE DEF top
  <2>3. Cardinality(DOMAIN Waiting(r, m)) <= top - r.received
    BY <2>1, <2>2, IntervalSize
  <2> QED BY <2>3, PacketFits DEF top
<1>4. DOMAIN Waiting(r, m) =
        DOMAIN r.waiting \cup {f \in DOMAIN m.inputs : f >= r.received}
  BY DEF Waiting
<1>5. Cardinality(DOMAIN r.waiting \cup
        {f \in DOMAIN m.inputs : f >= r.received}) <= WINDOW
  BY <1>3, <1>4
<1>6. Cardinality(DOMAIN Waiting(r, m)) \in Nat
  <2>1. IsFiniteSet(DOMAIN Waiting(r, m))
    <3>1. DOMAIN Waiting(r, m) \subseteq r.received .. s.sent - 1
      BY WaitingPart DEF IsPart
    <3>2. IsFiniteSet(r.received .. s.sent - 1)
      <4> DEFINE top == s.sent - 1
      <4>1. r.received \in Int /\ top \in Int BY PacketFits
      <4> HIDE DEF top
      <4>2. IsFiniteSet(r.received .. top) BY <4>1, FS_Interval
      <4> QED BY <4>2 DEF top
    <3> QED BY <3>1, <3>2, FS_Subset
  <2> QED BY <2>1, FS_CardinalityType
<1>7. ~(Cardinality(DOMAIN r.waiting \cup
        {f \in DOMAIN m.inputs : f >= r.received}) > WINDOW)
  BY <1>4, <1>5, <1>6, ChannelAssumption
<1> QED BY <1>1, <1>2, <1>7 DEF ReceiveErr

\* What receive does to each field of the channel.
LEMMA ReceivedFields ==
    ASSUME NEW s, NEW r, NEW w, NEW d, NEW N, IsEnd(s), IsEnd(r),
           Flow(s, r, w, d, N), NEW m \in N
    PROVE  LET c == Received(r, m)
           IN  /\ IsEnd(c)
               /\ c.sent = r.sent
               /\ c.acknowledged = Acked(r, m)
               /\ c.pending = Only(r.pending, Unsent(r, Acked(r, m)))
               /\ c.received \in r.received .. s.sent
               /\ r.received .. c.received - 1 \subseteq DOMAIN Waiting(r, m)
               /\ IsPart(c.waiting, w, c.received .. s.sent - 1)
               /\ IsPart(c.history, w, First .. c.received - 1)
<1> DEFINE waiting == Waiting(r, m)
           upto    == Arrived(r.received, DOMAIN waiting)
           fresh   == r.received .. upto - 1
           past    == [f \in DOMAIN r.history \cup fresh |->
                        IF f \in fresh THEN waiting[f] ELSE r.history[f]]
           c       == Received(r, m)
<1>1. /\ IsPart(waiting, w, r.received .. s.sent - 1)
      /\ s.sent \in Nat /\ r.received \in Nat /\ First \in Nat
      /\ r.received <= s.sent /\ First <= r.received
  <2>1. s.acknowledged \in Nat BY DEF IsEnd
  <2>2. IsPart(waiting, w, r.received .. s.sent - 1) BY WaitingPart
  <2>3. First <= s.acknowledged /\ s.acknowledged <= r.received BY DEF Flow, InOrder
  <2> QED BY <2>1, <2>2, <2>3, PacketFits
<1>2. /\ upto \in r.received .. s.sent
      /\ upto \notin DOMAIN waiting
      /\ fresh \subseteq DOMAIN waiting
  <2>1. DOMAIN waiting \subseteq r.received .. s.sent - 1 BY <1>1 DEF IsPart
  <2> HIDE DEF waiting
  <2> QED BY <1>1, <2>1, ArrivedStops
<1>3. m.ack \in Nat
  <2>1. m.ack \in First .. s.received /\ s.received \in Nat BY DEF Flow, IsPacket, IsEnd
  <2> QED BY <1>1, <2>1
<1>4. Acked(r, m) \in Nat BY <1>3 DEF Acked, IsEnd
<1>5. AckDirty(r, m) \in BOOLEAN BY DEF AckDirty, IsEnd
<1>6. c = [r EXCEPT !.acknowledged = Acked(r, m),
                    !.pending = Only(r.pending, Unsent(r, Acked(r, m))),
                    !.received = upto,
                    !.waiting = Only(waiting, DOMAIN waiting \ fresh),
                    !.history = Recent(past),
                    !.ack_dirty = AckDirty(r, m)]
  BY DEF Received
<1> HIDE DEF waiting, upto, past, c
<1>7. /\ c.sent = r.sent
      /\ c.acknowledged = Acked(r, m)
      /\ c.pending = Only(r.pending, Unsent(r, Acked(r, m)))
      /\ c.received = upto
      /\ c.waiting = Only(waiting, DOMAIN waiting \ fresh)
      /\ c.history = Recent(past)
      /\ IsEnd(c)
  <2> DEFINE A == Acked(r, m)
             P == Only(r.pending, Unsent(r, Acked(r, m)))
             W == Only(waiting, DOMAIN waiting \ fresh)
             H == Recent(past)
             D == AckDirty(r, m)
  <2>1. upto \in Nat BY <1>1, <1>2
  <2>2. c = [r EXCEPT !.acknowledged = A, !.pending = P, !.received = upto,
                      !.waiting = W, !.history = H, !.ack_dirty = D]
        /\ A \in Nat /\ D \in BOOLEAN
    BY <1>4, <1>5, <1>6
  <2> HIDE DEF A, P, W, H, D
  <2>3. /\ c.sent = r.sent /\ c.acknowledged = A /\ c.pending = P
        /\ c.received = upto /\ c.waiting = W /\ c.history = H
        /\ IsEnd(c)
    BY <2>1, <2>2 DEF IsEnd
  <2> QED BY <2>3 DEF A, P, W, H
<1>8. IsPart(c.waiting, w, c.received .. s.sent - 1)
  <2>1. DOMAIN waiting \ fresh \subseteq c.received .. s.sent - 1
    BY <1>1, <1>2, <1>7 DEF IsPart
  <2>2. DOMAIN waiting \ fresh \subseteq DOMAIN waiting OBVIOUS
  <2> DEFINE U == DOMAIN waiting \ fresh
             S == r.received .. s.sent - 1
             T == c.received .. s.sent - 1
  <2>3. IsPart(waiting, w, S) /\ U \subseteq DOMAIN waiting /\ U \subseteq T
    BY <1>1, <2>1, <2>2
  <2>4. c.waiting = Only(waiting, U) BY <1>7
  <2> HIDE DEF U, S, T
  <2>5. IsPart(c.waiting, w, T) BY <2>3, <2>4, PartOfPart
  <2> QED BY <2>5 DEF T
<1>9. IsPart(past, w, First .. upto - 1)
  <2>1. /\ DOMAIN r.history \subseteq First .. r.received - 1
        /\ \A f \in DOMAIN r.history : r.history[f] = w[f]
    BY DEF Flow, IsPart, Only
  <2>2. DOMAIN past = DOMAIN r.history \cup fresh BY DEF past
  <2>3. DOMAIN past \subseteq First .. upto - 1 BY <1>1, <1>2, <2>1, <2>2
  <2>4. \A f \in fresh : waiting[f] = w[f] BY <1>1, <1>2 DEF IsPart, Only
  <2>5. past = Only(w, DOMAIN past) BY <2>1, <2>2, <2>4 DEF Only, past
  <2> QED BY <2>3, <2>5 DEF IsPart
<1>10. IsPart(c.history, w, First .. c.received - 1)
  <2> DEFINE K == {f \in DOMAIN past : Cardinality({g \in DOMAIN past : g > f}) < WINDOW}
  <2>1. Recent(past) = Only(past, K) BY DEF Recent
  <2>2. K \subseteq DOMAIN past BY Zenon
  <2> HIDE DEF K
  <2>3. K \subseteq First .. upto - 1 BY <1>9, <2>2 DEF IsPart
  <2> QED BY <1>7, <1>9, <2>1, <2>2, <2>3, PartOfPart
<1>11. c.received \in r.received .. s.sent BY <1>2, <1>7
<1>12. r.received .. c.received - 1 \subseteq DOMAIN Waiting(r, m)
  BY <1>2, <1>7 DEF waiting
<1> QED BY <1>7, <1>8, <1>10, <1>11, <1>12 DEF c
\* The words published to the session when d had been published before.
Delivered(d, r, m) ==
    [f \in DOMAIN d \cup (r.received .. Received(r, m).received - 1) |->
        IF f >= r.received THEN Waiting(r, m)[f] ELSE d[f]]

\* The stream towards the receiver: what is delivered is what was pushed.
LEMMA ReceiveFlow ==
    ASSUME NEW s, NEW r, NEW w, NEW d, NEW N, IsEnd(s), IsEnd(r),
           Flow(s, r, w, d, N), NEW m \in N
    PROVE  Flow(s, Received(r, m), w, Delivered(d, r, m), N)
<1> DEFINE c == Received(r, m)
<1>1. /\ IsEnd(c)
      /\ c.received \in r.received .. s.sent
      /\ r.received .. c.received - 1 \subseteq DOMAIN Waiting(r, m)
      /\ IsPart(c.waiting, w, c.received .. s.sent - 1)
      /\ IsPart(c.history, w, First .. c.received - 1)
  BY ReceivedFields
<1>2. /\ s.sent \in Nat /\ s.acknowledged \in Nat /\ r.received \in Nat
      /\ c.received \in Nat /\ First \in Nat /\ InOrder(s, r)
  BY <1>1, ChannelAssumption DEF IsEnd, Flow
<1> HIDE DEF c
<1>3. InOrder(s, c) BY <1>1, <1>2, ChannelAssumption DEF InOrder
<1>4. DOMAIN d = First .. r.received - 1 /\ \A f \in DOMAIN d : d[f] = w[f]
  BY DEF Flow, Only
<1>5. DOMAIN d \cup (r.received .. c.received - 1) = First .. c.received - 1
  BY <1>1, <1>2, <1>4 DEF InOrder
<1>6. \A f \in r.received .. c.received - 1 : Waiting(r, m)[f] = w[f]
  BY <1>1, WaitingPart DEF IsPart, Only
<1>7. Delivered(d, r, m) = Only(w, First .. c.received - 1)
  <2>1. Delivered(d, r, m) = [f \in DOMAIN d \cup (r.received .. c.received - 1) |->
            IF f >= r.received THEN Waiting(r, m)[f] ELSE d[f]]
    BY DEF Delivered, c
  <2>2. ASSUME NEW f \in First .. c.received - 1
        PROVE  (IF f >= r.received THEN Waiting(r, m)[f] ELSE d[f]) = w[f]
    BY <1>2, <1>4, <1>6, <2>2
  <2> QED BY <1>5, <2>1, <2>2 DEF Only
<1>8. Flow(s, c, w, Delivered(d, r, m), N) BY <1>1, <1>3, <1>7 DEF Flow
<1> QED BY <1>8 DEF c

\* The stream from the receiver: an acknowledgment m of what q has received
\* shortens the pending inputs.
LEMMA AckFlow ==
    ASSUME NEW c, NEW n, NEW q, NEW w, NEW d, NEW N, NEW m,
           IsEnd(c), IsEnd(n), IsEnd(q), Flow(c, q, w, d, N),
           m.ack \in First .. q.received,
           n.sent = c.sent, n.acknowledged = Acked(c, m),
           n.pending = Only(c.pending, Unsent(c, Acked(c, m))),
           c.received <= n.received
    PROVE  Flow(n, q, w, d, N)
<1>1. /\ c.sent \in Nat /\ c.acknowledged \in Nat /\ c.received \in Nat
      /\ n.sent \in Nat /\ n.acknowledged \in Nat /\ n.received \in Nat
      /\ q.received \in Nat /\ First \in Nat /\ WINDOW \in Nat /\ InOrder(c, q)
      /\ m.ack \in Nat
  BY SMTT(30), ChannelAssumption DEF IsEnd, Flow
<1>2. InOrder(n, q) BY <1>1 DEF InOrder, Acked
<1>3. c.acknowledged <= n.acknowledged BY <1>1 DEF Acked
<1>4. c.pending = Only(w, c.acknowledged .. c.sent - 1) BY DEF Flow
<1>5. n.pending = Only(w, n.acknowledged .. n.sent - 1)
  <2>1. DOMAIN c.pending = c.acknowledged .. c.sent - 1 BY <1>4 DEF Only
  <2>2. Unsent(c, Acked(c, m)) = n.acknowledged .. n.sent - 1
    BY <1>1, <1>3, <2>1 DEF Unsent
  <2>3. \A f \in n.acknowledged .. n.sent - 1 : c.pending[f] = w[f]
    BY <1>1, <1>3, <1>4 DEF Only
  <2> QED BY <2>2, <2>3 DEF Only
<1>6. \A k \in N : IsPacket(k, n, w)
  BY <1>1 DEF Flow, IsPacket
<1> QED BY <1>2, <1>5, <1>6 DEF Flow

-----------------------------------------------------------------------------
(* The state machine.                                                      *)

\* The peer of a player is the other one.
LEMMA PeerFacts ==
    \A p \in Players : Peer(p) \in Players /\ Peer(p) # p /\ Peer(Peer(p)) = p
        /\ \A q \in Players : q = p \/ q = Peer(p)
BY DEF Players, Peer

\* What a packet acknowledges has been received, and so had been sent.
LEMMA ReceivedWasSent ==
    ASSUME ChannelInv, NEW p \in Players
    PROVE  /\ First <= end[p].received
           /\ end[p].received <= end[Peer(p)].sent
<1>1. FlowFrom(Peer(p)) /\ Peer(Peer(p)) = p BY PeerFacts DEF ChannelInv
<1>2. InOrder(end[Peer(p)], end[p]) BY <1>1 DEF FlowFrom, Flow
<1>3. IsEnd(end[p]) /\ IsEnd(end[Peer(p)]) BY PeerFacts DEF ChannelInv
<1> QED BY <1>2, <1>3, ChannelAssumption DEF InOrder, IsEnd

\* The invariant is shown for both directions of the player that moves.
LEMMA BothFlows ==
    ASSUME NEW p \in Players, FlowFrom(p)', FlowFrom(Peer(p))',
           Pairs', IsEnd(end[p])', IsEnd(end[Peer(p)])',
           end'[p].sent <= MaxSent[p], end'[Peer(p)].sent <= MaxSent[Peer(p)]
    PROVE  ChannelInv'
<1>1. \A q \in Players : q = p \/ q = Peer(p) BY PeerFacts
<1>2. \A q \in Players : FlowFrom(q)' BY <1>1
<1>3. \A q \in Players : IsEnd(end[q])' /\ end'[q].sent <= MaxSent[q] BY <1>1
<1> QED BY <1>2, <1>3 DEF ChannelInv
\* Two fresh ends with nothing under way.
LEMMA ChannelInit == Init => ChannelInv
<1> SUFFICES ASSUME Init PROVE ChannelInv OBVIOUS
<1>1. First \in Nat /\ WINDOW \in Nat /\ First .. First - 1 = {}
  BY ChannelAssumption
<1>2. IsEnd(Fresh) BY <1>1 DEF IsEnd, Fresh
<1>3. Nothing = Only(Nothing, First .. First - 1)
      /\ IsPart(Nothing, Nothing, First .. First - 1)
  BY <1>1 DEF Nothing, Only, IsPart
<1>4. Flow(Fresh, Fresh, Nothing, Nothing, {})
  <2>1. /\ Fresh.sent = First /\ Fresh.acknowledged = First /\ Fresh.received = First
        /\ Fresh.pending = Nothing /\ Fresh.waiting = Nothing /\ Fresh.history = Nothing
    BY DEF Fresh
  <2>2. InOrder(Fresh, Fresh) BY <1>1, <2>1 DEF InOrder
  <2> QED BY <1>3, <2>1, <2>2 DEF Flow
<1>5. \A p \in Players : FlowFrom(p)
  BY <1>4, PeerFacts DEF Init, FlowFrom
<1>6. Pairs BY DEF Init, Pairs
<1>7. \A p \in Players : IsEnd(end[p]) /\ end[p].sent <= MaxSent[p]
  BY <1>2, ChannelAssumption DEF Init, Fresh, Players
<1> QED BY <1>5, <1>6, <1>7 DEF ChannelInv

\* The session sends an input.
LEMMA PushKeeps ==
    ASSUME ChannelInv, NEW p \in Players, NEW b, Push(p, b)
    PROVE  ChannelInv'
<1> DEFINE q == Peer(p)
           c == Pushed(end[p], b)
           v == With(pushed[p], end[p].sent, b)
<1>1. q \in Players /\ q # p /\ Peer(q) = p BY PeerFacts
<1>2. /\ IsEnd(end[p]) /\ IsEnd(end[q]) /\ FlowFrom(p) /\ FlowFrom(q) /\ Pairs
      /\ end[p].sent <= MaxSent[p] /\ end[q].sent <= MaxSent[q]
      /\ end[p].sent \in Nat /\ end[p].received \in Nat
      /\ MaxSent[p] \in Nat
  BY <1>1, ChannelAssumption DEF ChannelInv, IsEnd, Players
<1>3. IsEnd(c) /\ Flow(c, end[q], v, delivered[q], net[q])
  BY <1>2, PushFlow DEF Push, FlowFrom
<1>4. c.received = end[p].received /\ First <= c.received
      /\ c.sent = end[p].sent + 1 /\ c.waiting = end[p].waiting
      /\ c.history = end[p].history
  BY <1>2, ReceivedWasSent DEF Pushed, IsEnd
<1>5. IsEnd(Encoded(c)) /\ Flow(Encoded(c), end[q], v, delivered[q], Sent(net[q], c))
  BY <1>2, <1>3, <1>4, SendFlow
<1>6. /\ end'[p] = Encoded(c) /\ end'[q] = end[q]
      /\ pushed'[p] = v /\ pushed'[q] = pushed[q]
      /\ net'[q] = Sent(net[q], c) /\ net'[p] = net[p]
      /\ delivered' = delivered /\ status' = status
      /\ Pairs'
  BY <1>1, <1>2 DEF Push, Pairs
<1>7. FlowFrom(p)' BY <1>5, <1>6 DEF FlowFrom
<1>8. /\ end'[p].received = end[p].received /\ end'[p].waiting = end[p].waiting
      /\ end'[p].history = end[p].history /\ end'[p].sent = end[p].sent + 1
  BY <1>3, <1>4, <1>6 DEF Encoded, IsEnd
<1>9. FlowFrom(q)'
  BY <1>1, <1>2, <1>6, <1>8 DEF FlowFrom, Flow, InOrder
<1>10. end'[p].sent <= MaxSent[p] BY <1>2, <1>8 DEF Push
<1> QED BY <1>1, <1>2, <1>5, <1>6, <1>7, <1>9, <1>10, BothFlows

\* The retry timer sends the same inputs again.
LEMMA RetryKeeps ==
    ASSUME ChannelInv, NEW p \in Players, Retry(p)
    PROVE  ChannelInv'
<1> DEFINE q == Peer(p)
           c == end[p]
<1>1. q \in Players /\ q # p /\ Peer(q) = p BY PeerFacts
<1>2. /\ IsEnd(end[p]) /\ IsEnd(end[q]) /\ FlowFrom(p) /\ FlowFrom(q) /\ Pairs
      /\ end[p].sent <= MaxSent[p] /\ end[q].sent <= MaxSent[q]
  BY <1>1 DEF ChannelInv
<1>3. /\ IsEnd(Encoded(c))
      /\ Flow(Encoded(c), end[q], pushed[p], delivered[q], Sent(net[q], c))
  BY <1>2, ReceivedWasSent, SendFlow DEF FlowFrom
<1>4. /\ end'[p] = Encoded(c) /\ end'[q] = end[q]
      /\ pushed' = pushed
      /\ net'[q] = Sent(net[q], c) /\ net'[p] = net[p]
      /\ delivered' = delivered /\ status' = status
      /\ Pairs'
  BY <1>1, <1>2 DEF Retry, Pairs
<1>5. FlowFrom(p)' BY <1>3, <1>4 DEF FlowFrom
<1>6. /\ end'[p].received = end[p].received /\ end'[p].waiting = end[p].waiting
      /\ end'[p].history = end[p].history /\ end'[p].sent = end[p].sent
  BY <1>2, <1>4 DEF Encoded, IsEnd
<1>7. FlowFrom(q)' BY <1>1, <1>2, <1>4, <1>6 DEF FlowFrom, Flow, InOrder
<1> QED BY <1>1, <1>2, <1>3, <1>4, <1>5, <1>6, <1>7, BothFlows

\* What is known when p handles a packet: it is accepted.
LEMMA ReceiveFacts ==
    ASSUME ChannelInv, NEW p \in Players, NEW m, Receive(p, m)
    PROVE  LET q == Peer(p)
               n == Received(end[p], m)
           IN  /\ end'[p] = n /\ end'[q] = end[q]
               /\ delivered'[p] = Delivered(delivered[p], end[p], m)
               /\ delivered'[q] = delivered[q]
               /\ UNCHANGED <<net, pushed, status>>
               /\ Pairs'
               /\ m \in net[p]
<1> DEFINE q == Peer(p)
<1>1. q \in Players /\ q # p /\ Peer(q) = p BY PeerFacts
<1>2. IsEnd(end[p]) /\ IsEnd(end[q]) /\ FlowFrom(q) /\ Pairs
  BY <1>1 DEF ChannelInv
<1>3. ~ReceiveErr(end[p], m)
  BY <1>1, <1>2, ReceivedWasSent, ReceiveAccepted DEF Receive, FlowFrom
<1>4. /\ end' = [end EXCEPT ![p] = Received(end[p], m)]
      /\ delivered' = [delivered EXCEPT ![p] = Delivered(@, end[p], m)]
      /\ UNCHANGED <<net, pushed, status>>
      /\ m \in net[p]
  BY <1>3 DEF Receive, Delivered
<1> QED BY <1>1, <1>2, <1>4 DEF Pairs

\* A packet is handled.
LEMMA ReceiveKeeps ==
    ASSUME ChannelInv, NEW p \in Players, NEW m, Receive(p, m)
    PROVE  ChannelInv'
<1> DEFINE q == Peer(p)
           n == Received(end[p], m)
<1>1. q \in Players /\ q # p /\ Peer(q) = p BY PeerFacts
<1>2. /\ IsEnd(end[p]) /\ IsEnd(end[q]) /\ FlowFrom(p) /\ FlowFrom(q) /\ Pairs
      /\ end[p].sent <= MaxSent[p] /\ end[q].sent <= MaxSent[q]
  BY <1>1 DEF ChannelInv
<1>3. /\ end'[p] = n /\ end'[q] = end[q]
      /\ delivered'[p] = Delivered(delivered[p], end[p], m)
      /\ delivered'[q] = delivered[q]
      /\ UNCHANGED <<net, pushed, status>>
      /\ Pairs'
      /\ m \in net[p]
  BY ReceiveFacts
<1>4. Flow(end[q], end[p], pushed[q], delivered[p], net[p])
  BY <1>1, <1>2 DEF FlowFrom
<1>5. FlowFrom(q)' BY <1>1, <1>2, <1>3, <1>4, ReceiveFlow DEF FlowFrom
<1>6. /\ IsEnd(n) /\ n.sent = end[p].sent /\ n.acknowledged = Acked(end[p], m)
      /\ n.pending = Only(end[p].pending, Unsent(end[p], Acked(end[p], m)))
      /\ n.received \in end[p].received .. end[q].sent
  BY <1>2, <1>3, <1>4, ReceivedFields
<1>7. end[p].received <= n.received /\ m.ack \in First .. end[q].received
  BY <1>2, <1>3, <1>4, <1>6 DEF Flow, IsPacket, IsEnd
<1>8. Flow(n, end[q], pushed[p], delivered[q], net[q])
  BY <1>2, <1>6, <1>7, AckFlow DEF FlowFrom
<1>9. FlowFrom(p)' BY <1>3, <1>8 DEF FlowFrom
<1> QED BY <1>1, <1>2, <1>3, <1>5, <1>6, <1>9, BothFlows
\* Every step preserves the invariant.
LEMMA ChannelStep == ChannelInv /\ [Next]_vars => ChannelInv'
<1> SUFFICES ASSUME ChannelInv, [Next]_vars PROVE ChannelInv' OBVIOUS
<1>1. ASSUME NEW p \in Players, NEW b, Push(p, b) PROVE ChannelInv'
  BY <1>1, PushKeeps
<1>2. ASSUME NEW p \in Players, Exhaust(p) PROVE ChannelInv'
  <2>1. /\ UNCHANGED <<end, net, pushed, delivered>>
        /\ status' \in [Players -> {"up", "exhausted"}]
    BY <1>2 DEF Exhaust, ChannelInv, Pairs
  <2> QED BY <2>1 DEF ChannelInv, Pairs, FlowFrom
<1>3. ASSUME NEW p \in Players, Retry(p) PROVE ChannelInv'
  BY <1>3, RetryKeeps
<1>4. ASSUME NEW p \in Players, NEW m, Receive(p, m) PROVE ChannelInv'
  BY <1>4, ReceiveKeeps
<1>5. ASSUME NEW p \in Players, NEW m, Lose(p, m) PROVE ChannelInv'
  <2> DEFINE q == Peer(p)
  <2>1. q \in Players /\ q # p /\ Peer(q) = p BY PeerFacts
  <2>2. /\ UNCHANGED <<end, status, pushed, delivered>>
        /\ net'[p] = net[p] \ {m} /\ net'[q] = net[q] /\ Pairs'
    BY <1>5, <2>1 DEF Lose, ChannelInv, Pairs
  <2>3. FlowFrom(p)' BY <2>1, <2>2 DEF ChannelInv, FlowFrom
  <2>4. FlowFrom(q)' BY <2>1, <2>2, LoseFlow DEF ChannelInv, FlowFrom
  <2> QED BY <2>1, <2>2, <2>3, <2>4, BothFlows DEF ChannelInv
<1>6. CASE UNCHANGED vars
  BY <1>6 DEF vars, ChannelInv, Pairs, FlowFrom
<1> QED BY <1>1, <1>2, <1>3, <1>4, <1>5, <1>6 DEF Next

\* Both directions stay in order, whatever the network loses, repeats and
\* reorders (datagram.rs: InputChannel).
THEOREM ChannelInvariant == Spec => []ChannelInv
BY ChannelInit, ChannelStep, PTL DEF Spec

\* The fields of InputChannel keep their types and their bounds.
THEOREM ChannelTypes == Spec => []TypeOK
<1>1. ChannelInv => TypeOK
  <2> SUFFICES ASSUME ChannelInv, NEW p \in Players
               PROVE  /\ status[p] \in {"up", "exhausted", "refused"}
                      /\ end[p].sent \in First .. MaxSent[p]
                      /\ end[p].acknowledged \in First .. MaxSent[p]
                      /\ end[p].received \in First .. MaxSent[Peer(p)]
                      /\ end[p].ack_dirty \in BOOLEAN
                      /\ DOMAIN end[p].pending \subseteq First .. MaxSent[p] - 1
                      /\ DOMAIN end[p].waiting \cup DOMAIN end[p].history
                            \subseteq First .. MaxSent[Peer(p)] - 1
    BY DEF TypeOK
  <2> DEFINE q == Peer(p)
             c == end[p]
             d == end[q]
  <2>1. /\ IsEnd(c) /\ IsEnd(d) /\ FlowFrom(p)
        /\ Flow(d, c, pushed[q], delivered[p], net[p])
        /\ c.sent <= MaxSent[p] /\ d.sent <= MaxSent[q]
        /\ MaxSent[p] \in Nat /\ MaxSent[q] \in Nat /\ First \in Nat
    BY PeerFacts, ChannelAssumption DEF ChannelInv, FlowFrom, Players
  <2>2. /\ c.sent \in Nat /\ c.acknowledged \in Nat /\ c.received \in Nat
        /\ d.sent \in Nat /\ d.acknowledged \in Nat /\ d.received \in Nat
        /\ c.ack_dirty \in BOOLEAN
        /\ InOrder(c, d) /\ InOrder(d, c)
    BY <2>1 DEF IsEnd, FlowFrom, Flow
  <2>3. DOMAIN c.pending = c.acknowledged .. c.sent - 1
    BY <2>1 DEF FlowFrom, Flow, Only
  <2>4. /\ DOMAIN c.waiting \subseteq c.received .. d.sent - 1
        /\ DOMAIN c.history \subseteq First .. c.received - 1
    BY <2>1 DEF Flow, IsPart
  <2>5. status[p] \in {"up", "exhausted"} BY DEF ChannelInv, Pairs
  <2>6. /\ c.sent \in First .. MaxSent[p] /\ c.acknowledged \in First .. MaxSent[p]
        /\ c.received \in First .. MaxSent[q]
    BY <2>1, <2>2 DEF InOrder
  <2>7. DOMAIN c.pending \subseteq First .. MaxSent[p] - 1
    BY <2>1, <2>2, <2>3, <2>6
  <2>8. DOMAIN c.waiting \cup DOMAIN c.history \subseteq First .. MaxSent[q] - 1
    BY <2>1, <2>2, <2>4, <2>6
  <2> QED BY <2>2, <2>5, <2>6, <2>7, <2>8
<1> QED BY <1>1, ChannelInvariant, PTL

\* InputChannel::receive never rejects a packet of an honest peer, however
\* late, repeated or out of order it comes.
THEOREM HonestNeverRefused == Spec => []NeverRefused
<1>1. ChannelInv => NeverRefused BY DEF ChannelInv, Pairs, NeverRefused
<1> QED BY <1>1, ChannelInvariant, PTL

\* An input leaves pending (InputChannel::acknowledge) only after the peer has
\* published it.
THEOREM PendingIsEnough == Spec => []PendingCovers
<1>1. ChannelInv => PendingCovers
  <2> SUFFICES ASSUME ChannelInv, NEW p \in Players
               PROVE  /\ end[p].acknowledged <= end[Peer(p)].received
                      /\ end[Peer(p)].received <= end[p].sent
                      /\ DOMAIN end[p].pending = end[p].acknowledged .. end[p].sent - 1
                      /\ \A f \in DOMAIN pushed[p] :
                            f \in DOMAIN end[p].pending \/ f \in DOMAIN delivered[Peer(p)]
    BY DEF PendingCovers
  <2> DEFINE q == Peer(p)
  <2>1. /\ IsEnd(end[p]) /\ IsEnd(end[q])
        /\ Flow(end[p], end[q], pushed[p], delivered[q], net[q])
    BY PeerFacts DEF ChannelInv, FlowFrom
  <2>2. /\ DOMAIN pushed[p] = First .. end[p].sent - 1
        /\ DOMAIN delivered[q] = First .. end[q].received - 1
        /\ DOMAIN end[p].pending = end[p].acknowledged .. end[p].sent - 1
    BY <2>1 DEF Flow, Only
  <2>3. end[p].acknowledged <= end[q].received /\ end[q].received <= end[p].sent
    BY <2>1 DEF Flow, InOrder
  <2> QED BY <2>1, <2>2, <2>3, ChannelAssumption DEF IsEnd
<1> QED BY <1>1, ChannelInvariant, PTL

-----------------------------------------------------------------------------
(* The two ends implement InputStream.                                     *)

\* A push of the channel is a push of the stream: the window of the channel,
\* counted in unacknowledged inputs, is no wider than that of the stream,
\* counted in undelivered ones.
LEMMA PushImplements ==
    ASSUME ChannelInv, NEW p \in Players, NEW b \in Buttons[end[p].sent], Push(p, b)
    PROVE  Stream!Push(p)
<1> DEFINE q == Peer(p)
           n == end[p].sent
           R == {f \in {First} \cup {g + 1 : g \in DOMAIN pushed[p]} :
                    f \notin DOMAIN pushed[p]}
<1>1. /\ IsEnd(end[p]) /\ IsEnd(end[q]) /\ Pairs
      /\ Flow(end[p], end[q], pushed[p], delivered[q], net[q])
  BY PeerFacts DEF ChannelInv, FlowFrom
<1>2. /\ DOMAIN pushed[p] = First .. n - 1
      /\ DOMAIN delivered[q] = First .. end[q].received - 1
  BY <1>1 DEF Flow, Only
<1>3. /\ n \in Nat /\ First \in Nat /\ WINDOW \in Nat
      /\ end[p].acknowledged \in Nat /\ end[q].received \in Nat
      /\ end[p].acknowledged <= end[q].received /\ end[q].received <= n
      /\ First <= end[p].acknowledged /\ First <= n
  BY SMTT(30), <1>1, ChannelAssumption DEF Flow, InOrder, IsEnd
<1>4. n + 1 <= end[p].acknowledged + WINDOW BY <1>1, WindowOpen DEF Push
<1>5. n \in R
  <2>1. n \notin DOMAIN pushed[p] BY <1>2, <1>3
  <2>2. n = First \/ n - 1 \in DOMAIN pushed[p] BY <1>2, <1>3
  <2> QED BY <1>3, <2>1, <2>2
<1>6. n < First + WINDOW \/ n - WINDOW \in DOMAIN delivered[q]
  <2> DEFINE k == end[q].received
             a == end[p].acknowledged
  <2>1. n \in Nat /\ First \in Nat /\ WINDOW \in Nat /\ k \in Nat /\ a \in Nat
        /\ a <= k /\ n + 1 <= a + WINDOW
    BY <1>3, <1>4
  <2> HIDE DEF n, k, a
  <2>2. n < First + WINDOW \/ n - WINDOW \in First .. k - 1 BY <2>1
  <2> QED BY <1>2, <2>2 DEF n, k
<1>7. With(pushed[p], n, b) =
        [f \in First .. n |-> IF f = n THEN b ELSE pushed[p][f]]
  <2>1. DOMAIN pushed[p] \cup {n} = First .. n BY <1>2, <1>3
  <2> QED BY <2>1 DEF With
<1>8. pushed' = [pushed EXCEPT ![p] =
                    [f \in First .. n |-> IF f = n THEN b ELSE pushed[p][f]]]
      /\ UNCHANGED delivered
  BY <1>7 DEF Push
<1> HIDE DEF n
<1>9. b \in Buttons[n] BY DEF n
<1> QED BY <1>5, <1>6, <1>8, <1>9 DEF Stream!Push, Stream!Peer, Peer

\* A packet that brings news is a delivery of the stream; one that brings none
\* changes nothing.
LEMMA ReceiveImplements ==
    ASSUME ChannelInv, NEW p \in Players, NEW m, Receive(p, m)
    PROVE  Stream!Deliver(p) \/ UNCHANGED <<pushed, delivered>>
<1> DEFINE q == Peer(p)
           c == end[p]
           k == end'[p].received
<1>1. ChannelInv' BY ReceiveKeeps
<1>2. /\ q \in Players /\ Peer(q) = p /\ q # p BY PeerFacts
<1>3. /\ IsEnd(c) /\ IsEnd(end[q]) /\ Pairs
      /\ Flow(end[q], c, pushed[q], delivered[p], net[p])
      /\ end'[q] = end[q] /\ pushed' = pushed /\ net' = net
      /\ delivered'[q] = delivered[q] /\ Pairs'
      /\ end'[p] = Received(c, m) /\ m \in net[p]
  BY <1>2, ReceiveFacts DEF ChannelInv, FlowFrom
<1>4. Flow(end[q], end'[p], pushed[q], delivered'[p], net[p])
  BY <1>1, <1>2, <1>3 DEF ChannelInv, FlowFrom
<1>5. /\ delivered[p] = Only(pushed[q], First .. c.received - 1)
      /\ delivered'[p] = Only(pushed[q], First .. k - 1)
      /\ pushed[q] = Only(pushed[q], First .. end[q].sent - 1)
  BY <1>3, <1>4 DEF Flow
<1>6. /\ k \in c.received .. end[q].sent
      /\ c.received \in Nat /\ end[q].sent \in Nat /\ First \in Nat
      /\ First <= c.received
  <2>1. k \in c.received .. end[q].sent BY <1>3, ReceivedFields
  <2>2. First <= c.received BY ReceivedWasSent
  <2>3. c.received \in Nat /\ end[q].sent \in Nat /\ First \in Nat
    BY <1>3, ChannelAssumption DEF IsEnd
  <2> QED BY <2>1, <2>2, <2>3
<1>7. delivered' = [delivered EXCEPT ![p] = delivered'[p]]
  BY <1>2, <1>3, PeerFacts DEF Pairs
<1>8. CASE k = c.received
  <2>1. delivered'[p] = delivered[p] BY <1>5, <1>8
  <2>2. delivered' = delivered BY <1>3, <1>7, <2>1 DEF Pairs
  <2> QED BY <1>3, <2>2
<1>9. CASE k # c.received
  <2> DEFINE n == k - 1
  <2>1. /\ DOMAIN pushed[q] = First .. end[q].sent - 1
        /\ DOMAIN delivered[p] = First .. c.received - 1
    BY <1>5 DEF Only
  <2>2. n \in DOMAIN pushed[q] \ DOMAIN delivered[p] BY <1>6, <1>9, <2>1
  <2>3. delivered'[p] = [f \in First .. n |-> pushed[q][f]]
    BY <1>5 DEF Only
  <2>4. Stream!Continues(delivered[p], delivered'[p])
    BY <1>5, <1>6, <2>1, <2>3 DEF Stream!Continues, Only
  <2>5. delivered' = [delivered EXCEPT ![p] = [f \in First .. n |-> pushed[q][f]]]
    BY <1>7, <2>3
  <2> HIDE DEF n
  <2> QED BY <1>3, <2>2, <2>4, <2>5 DEF Stream!Deliver, Stream!Peer, Peer
<1> QED BY <1>8, <1>9

\* The two ends of the direct transport implement two reliable, ordered streams
\* at most WINDOW frames long (datagram.rs over rtc.rs).
THEOREM ChannelImplementsStream == Spec => ReliableStreams
<1>1. Init => Stream!Init
  BY DEF Init, Stream!Init, Players, Stream!Players, Nothing
<1>2. ChannelInv /\ [Next]_vars => [Stream!Next]_<<pushed, delivered>>
  <2> SUFFICES ASSUME ChannelInv, [Next]_vars
               PROVE  Stream!Next \/ UNCHANGED <<pushed, delivered>>
    OBVIOUS
  <2>1. ASSUME NEW p \in Players, NEW b \in Buttons[end[p].sent], Push(p, b)
        PROVE  Stream!Next
    BY <2>1, PushImplements DEF Stream!Next, Stream!Players, Players
  <2>2. ASSUME NEW p \in Players, Exhaust(p) PROVE UNCHANGED <<pushed, delivered>>
    BY <2>2 DEF Exhaust
  <2>3. ASSUME NEW p \in Players, Retry(p) PROVE UNCHANGED <<pushed, delivered>>
    BY <2>3 DEF Retry
  <2>4. ASSUME NEW p \in Players, NEW m, Receive(p, m)
        PROVE  Stream!Next \/ UNCHANGED <<pushed, delivered>>
    BY <2>4, ReceiveImplements DEF Stream!Next, Stream!Players, Players
  <2>5. ASSUME NEW p \in Players, NEW m, Lose(p, m)
        PROVE  UNCHANGED <<pushed, delivered>>
    BY <2>5 DEF Lose
  <2>6. CASE UNCHANGED vars BY <2>6 DEF vars
  <2> QED BY <2>1, <2>2, <2>3, <2>4, <2>5, <2>6 DEF Next
<1> QED BY <1>1, <1>2, ChannelInvariant, PTL DEF Spec, ReliableStreams, Stream!Spec
=============================================================================
