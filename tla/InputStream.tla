---------------------------- MODULE InputStream -----------------------------
(***************************************************************************)
(* What the netplay session relies on when its inputs travel over a direct *)
(* connection: two independent streams, one per player, each delivered in  *)
(* order, without loss, repetition or change, and at most WINDOW frames    *)
(* behind its sender.  InputChannel implements it over datagrams.          *)
(***************************************************************************)
EXTENDS Integers

CONSTANTS
    Buttons,   \* Buttons[f]: the words that may be pressed at frame f
    First, WINDOW

VARIABLES
    pushed,    \* pushed[p]: the words player p gave, frame by frame
    delivered  \* delivered[p]: the words of the other player handed to p

Players == {0, 1}
Peer(p) == 1 - p

\* b is a with more frames at its end.
Continues(a, b) ==
    /\ DOMAIN a \subseteq DOMAIN b
    /\ \A f \in DOMAIN a : b[f] = a[f]

Init ==
    /\ pushed = [p \in Players |-> [f \in {} |-> 0]]
    /\ delivered = [p \in Players |-> [f \in {} |-> 0]]

Push(p) ==
    \E n \in {f \in {First} \cup {g + 1 : g \in DOMAIN pushed[p]} :
                f \notin DOMAIN pushed[p]} :
    \E b \in Buttons[n] :
        /\ n < First + WINDOW \/ n - WINDOW \in DOMAIN delivered[Peer(p)]
        /\ pushed' = [pushed EXCEPT ![p] =
                        [f \in First .. n |-> IF f = n THEN b ELSE pushed[p][f]]]
        /\ UNCHANGED delivered

\* One or more further frames arrive together.
Deliver(p) ==
    \E n \in DOMAIN pushed[Peer(p)] \ DOMAIN delivered[p] :
        /\ delivered' = [delivered EXCEPT ![p] =
                            [f \in First .. n |-> pushed[Peer(p)][f]]]
        /\ Continues(delivered[p], delivered'[p])
        /\ UNCHANGED pushed

Next == \E p \in Players : Push(p) \/ Deliver(p)

Spec == Init /\ [][Next]_<<pushed, delivered>>
=============================================================================
