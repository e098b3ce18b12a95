----------------------------- MODULE SharedGame -----------------------------
(***************************************************************************)
(* What two netplay sessions promise their players: one game.  Each player *)
(* is shown the frames of the game in order; a frame once shown is final,  *)
(* and a frame shown to both was made from the same words.                 *)
(***************************************************************************)
EXTENDS Integers

CONSTANT Words      \* what a frame can be made from

VARIABLE shown      \* shown[p]: frame k of the game, as player p saw it

Players == {0, 1}

Init == shown = [p \in Players |-> [k \in {} |-> 0]]

\* One or more frames are shown to player p.
Show(p) ==
    /\ shown' = [shown EXCEPT ![p] = shown'[p]]
    /\ \E n \in DOMAIN shown'[p] : DOMAIN shown'[p] = 1 .. n
    /\ DOMAIN shown[p] # DOMAIN shown'[p]
    /\ \A k \in DOMAIN shown[p] :
            k \in DOMAIN shown'[p] /\ shown'[p][k] = shown[p][k]
    /\ \A k \in DOMAIN shown'[p] :
            /\ shown'[p][k] \in Words
            /\ k \in DOMAIN shown[1 - p] => shown'[p][k] = shown[1 - p][k]

Next == \E p \in Players : Show(p)

Spec == Init /\ [][Next]_shown
=============================================================================
