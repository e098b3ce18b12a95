--------------------------- MODULE MCInputChannel ---------------------------
(* Model-checking instances of InputChannel. *)
EXTENDS InputChannel

\* One player sends past the window, the other a single input.
Uneven == [p \in Players |-> IF p = 0 THEN First + 3 ELSE First + 1]

\* A word of its own for every frame: the code compares the words of one frame
\* only, so more words per frame would add no behaviour.
Numbered == [f \in Nat |-> {f}]
=============================================================================
