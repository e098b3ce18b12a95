---------------------------- MODULE InputChannel ----------------------------
(***************************************************************************)
(* Inputs over datagrams (crates/zeff-netplay/src/datagram.rs), driven by  *)
(* the direct transport's worker (src/netplay/network/rtc.rs): every       *)
(* packet repeats the oldest unacknowledged inputs and acknowledges what   *)
(* has arrived.  The data channel may lose, repeat and reorder packets.    *)
(*                                                                         *)
(* A packet is a record with the acknowledgment and a function from the    *)
(* frames it carries to their words; first and count are that function's   *)
(* domain.  A packet is authenticated, so only what the peer encoded       *)
(* arrives, and the length and signature checks of receive always hold.    *)
(***************************************************************************)
EXTENDS Integers, FiniteSets

CONSTANTS
    WINDOW,    \* how many inputs may be unacknowledged, and may wait
    BATCH,     \* how many inputs a packet carries at most
    First,     \* the first frame sent: the input delay
    Buttons,   \* Buttons[f]: the words that may be pressed at frame f
    MaxSent,   \* bound: player p pushes frames First .. MaxSent[p] - 1
    InFlight   \* bound: packets under way in one direction

ASSUME ChannelAssumption ==
    /\ WINDOW \in Nat \ {0} /\ BATCH \in Nat \ {0} /\ First \in Nat
    /\ MaxSent \in [{0, 1} -> Nat] /\ \A p \in {0, 1} : First <= MaxSent[p]
    /\ InFlight \in Nat

VARIABLES
    end,       \* end[p]: player p's InputChannel
    net,       \* net[p]: the packets under way to p
    status,    \* status[p]: "up", or the error that ended p's worker
    pushed,    \* history: pushed[p], the words p's session sent
    delivered  \* history: delivered[p], the peer's words published to p

vars == <<end, net, status, pushed, delivered>>

Players == {0, 1}
Peer(p) == 1 - p
Nothing == [f \in {} |-> 0]

\* Fault: the receiver starts at frame 0.
FreshFromZero ==
    [sent |-> First, acknowledged |-> First, received |-> 0,
     pending |-> Nothing, waiting |-> Nothing, history |-> Nothing,
     ack_dirty |-> FALSE]

\* InputChannel::new
Fresh ==
    [sent |-> First, acknowledged |-> First, received |-> First,
     pending |-> Nothing, waiting |-> Nothing, history |-> Nothing,
     ack_dirty |-> FALSE]

Init ==
    /\ end = [p \in Players |-> Fresh]
    /\ net = [p \in Players |-> {}]
    /\ status = [p \in Players |-> "up"]
    /\ pushed = [p \in Players |-> Nothing]
    /\ delivered = [p \in Players |-> Nothing]

Only(map, S) == [f \in S |-> map[f]]
With(map, f, b) == [g \in DOMAIN map \cup {f} |-> IF g = f THEN b ELSE map[g]]

-----------------------------------------------------------------------------
(* InputChannel::push and encode.                                          *)

\* Fault: the window is not checked.
PushUnchecked(c) == FALSE
PushErr(c) == Cardinality(DOMAIN c.pending) >= WINDOW
Pushed(c, b) ==
    [c EXCEPT !.pending = With(c.pending, c.sent, b), !.sent = c.sent + 1]

\* The frames of a packet: the first BATCH of the pending ones.
Batch(c) ==
    {f \in DOMAIN c.pending :
        Cardinality({g \in DOMAIN c.pending : g < f}) < BATCH}
\* Fault: what was sent is acknowledged instead of what was received.
PacketAcksSent(c) == [ack |-> c.sent, inputs |-> Only(c.pending, Batch(c))]
Packet(c) == [ack |-> c.received, inputs |-> Only(c.pending, Batch(c))]
Silent(c) == c.pending = Nothing /\ ~c.ack_dirty
Encoded(c) == IF Silent(c) THEN c ELSE [c EXCEPT !.ack_dirty = FALSE]

\* try_send_input: a packet for which there is no room is lost.
Sent(packets, c) ==
    IF Silent(c) \/ Cardinality(packets) >= InFlight THEN packets
    ELSE packets \cup {Packet(c)}

-----------------------------------------------------------------------------
(* InputChannel::receive.                                                  *)

ReceiveErr(c, m) ==
    \/ m.ack \notin First .. c.sent
    \/ \E f \in DOMAIN m.inputs :
        \/ f < First
        \/ f >= c.received + WINDOW
        \/ f \in DOMAIN c.history /\ c.history[f] # m.inputs[f]
        \/ f \in DOMAIN c.waiting \ DOMAIN c.history /\ c.waiting[f] # m.inputs[f]
    \/ Cardinality(DOMAIN c.waiting \cup
            {f \in DOMAIN m.inputs : f >= c.received}) > WINDOW

Waiting(c, m) ==
    [f \in DOMAIN c.waiting \cup {g \in DOMAIN m.inputs : g >= c.received} |->
        IF f \in DOMAIN m.inputs THEN m.inputs[f] ELSE c.waiting[f]]

\* The first frame not yet there: where the delivery loop stops.
Arrived(received, frames) ==
    CHOOSE n \in {received} \cup {f + 1 : f \in frames} :
        n >= received /\ n \notin frames /\ received .. n - 1 \subseteq frames

\* The history after the delivery loop, without what pop_first drops.
Recent(map) ==
    Only(map, {f \in DOMAIN map :
        Cardinality({g \in DOMAIN map : g > f}) < WINDOW})

\* Fault: an old packet takes the acknowledgment back.
AckedAnew(c, m) == m.ack
Acked(c, m) == IF m.ack > c.acknowledged THEN m.ack ELSE c.acknowledged

\* What is still to be sent when all before `acked` has arrived.
Unsent(c, acked) == {f \in DOMAIN c.pending : f >= acked}

\* Every packet with inputs is to be acknowledged, a repeated one too.
\* Fault: a packet without news is not, so a lost acknowledgment stays lost.
AckIfNews(c, m) == c.ack_dirty \/ \E f \in DOMAIN m.inputs : f >= c.received
AckDirty(c, m) == c.ack_dirty \/ DOMAIN m.inputs # {}

Received(c, m) ==
    LET waiting == Waiting(c, m)
        upto    == Arrived(c.received, DOMAIN waiting)
        fresh   == c.received .. upto - 1
    IN  [c EXCEPT
            !.acknowledged = Acked(c, m),
            !.pending = Only(c.pending, Unsent(c, Acked(c, m))),
            !.received = upto,
            !.waiting = Only(waiting, DOMAIN waiting \ fresh),
            !.history = Recent([f \in DOMAIN c.history \cup fresh |->
                IF f \in fresh THEN waiting[f] ELSE c.history[f]]),
            !.ack_dirty = AckDirty(c, m)]

-----------------------------------------------------------------------------
(* The worker of the direct transport.                                     *)

\* A Message::Input from the session: push, then send at once.
Push(p, b) ==
    LET c == Pushed(end[p], b)
    IN  /\ status[p] = "up"
        /\ end[p].sent < MaxSent[p]
        /\ ~PushErr(end[p])
        /\ pushed' = [pushed EXCEPT ![p] = With(@, end[p].sent, b)]
        /\ net' = [net EXCEPT ![Peer(p)] = Sent(@, c)]
        /\ end' = [end EXCEPT ![p] = Encoded(c)]
        /\ UNCHANGED <<status, delivered>>

\* "unacknowledged input window exhausted" ends the worker.
Exhaust(p) ==
    /\ status[p] = "up"
    /\ end[p].sent < MaxSent[p]
    /\ PushErr(end[p])
    /\ status' = [status EXCEPT ![p] = "exhausted"]
    /\ UNCHANGED <<end, net, pushed, delivered>>

\* The retry timer.
Retry(p) ==
    /\ status[p] = "up"
    /\ ~Silent(end[p])
    /\ net' = [net EXCEPT ![Peer(p)] = Sent(@, end[p])]
    /\ end' = [end EXCEPT ![p] = Encoded(end[p])]
    /\ UNCHANGED <<status, pushed, delivered>>

\* A packet is handled; the network may deliver it again.
Receive(p, m) ==
    LET c    == end[p]
        news == Received(c, m)
    IN  /\ status[p] = "up"
        /\ m \in net[p]
        /\ IF ReceiveErr(c, m)
           THEN /\ status' = [status EXCEPT ![p] = "refused"]
                /\ UNCHANGED <<end, delivered>>
           ELSE /\ end' = [end EXCEPT ![p] = news]
                /\ delivered' = [delivered EXCEPT ![p] =
                    [f \in DOMAIN @ \cup (c.received .. news.received - 1) |->
                        IF f >= c.received THEN Waiting(c, m)[f] ELSE @[f]]]
                /\ UNCHANGED status
        /\ UNCHANGED <<net, pushed>>

\* The network drops a packet.
Lose(p, m) ==
    /\ m \in net[p]
    /\ net' = [net EXCEPT ![p] = @ \ {m}]
    /\ UNCHANGED <<end, status, pushed, delivered>>

Next ==
    \E p \in Players :
        \/ \E b \in Buttons[end[p].sent] : Push(p, b)
        \/ Exhaust(p)
        \/ Retry(p)
        \/ \E m \in net[p] : Receive(p, m) \/ Lose(p, m)

Spec == Init /\ [][Next]_vars

\* The packet p's peer is sending now arrives, and an older one is dropped.
ReceiveLatest(p) == Receive(p, Packet(end[Peer(p)]))
Expire(p) == \E m \in net[p] \ {Packet(end[Peer(p)])} : Lose(p, m)

\* The worker's loop always comes back to its retry timer; a packet that is
\* sent over and over is not lost for ever, and none is under way for ever.
Fairness ==
    \A p \in Players :
        /\ WF_vars(Retry(p))
        /\ SF_vars(ReceiveLatest(p))
        /\ WF_vars(Expire(p))

FairSpec == Spec /\ Fairness
-----------------------------------------------------------------------------
(* Properties.                                                             *)

\* The ends, packets and histories have the types of the Rust structs.
TypeOK ==
    \A p \in Players :
        /\ status[p] \in {"up", "exhausted", "refused"}
        /\ end[p].sent \in First .. MaxSent[p]
        /\ end[p].acknowledged \in First .. MaxSent[p]
        /\ end[p].received \in First .. MaxSent[Peer(p)]
        /\ end[p].ack_dirty \in BOOLEAN
        /\ DOMAIN end[p].pending \subseteq First .. MaxSent[p] - 1
        /\ DOMAIN end[p].waiting \cup DOMAIN end[p].history
                \subseteq First .. MaxSent[Peer(p)] - 1

\* However packets are lost, repeated and reordered, an honest peer's packet
\* passes every check of InputChannel::receive: its acknowledgment names a
\* frame that was sent, its inputs fit the receive window, and a repeated input
\* is the one remembered in waiting or in the bounded history.
NeverRefused == \A p \in Players : status[p] # "refused"

\* What one end still holds as pending is exactly what the other may not have
\* yet: an acknowledgment never runs ahead of the delivery it stands for, and
\* an input is dropped from pending only after it has been delivered.
PendingCovers ==
    \A p \in Players :
        /\ end[p].acknowledged <= end[Peer(p)].received
        /\ end[Peer(p)].received <= end[p].sent
        /\ DOMAIN end[p].pending = end[p].acknowledged .. end[p].sent - 1
        /\ \A f \in DOMAIN pushed[p] :
                f \in DOMAIN end[p].pending \/ f \in DOMAIN delivered[Peer(p)]

Stream == INSTANCE InputStream

\* The two ends implement two reliable, ordered, bounded streams.
ReliableStreams == Stream!Spec

\* Time and again everything pushed has been acknowledged, and so
\* (PendingCovers) delivered, and the window is open, also when the only packet
\* that acknowledged an input was lost, unless a worker has stopped.
EventuallyAcknowledged ==
    \A p \in Players :
        []<>(end[p].pending = Nothing \/ \E q \in Players : status[q] # "up")
=============================================================================
