----------------------------- MODULE MCSession ------------------------------
(* Model-checking instances of Session. *)
EXTENDS Session

\* Nobody pauses, or one player does.
Never == [p \in Ports |-> 0]
One == [p \in Ports |-> p]
=============================================================================
