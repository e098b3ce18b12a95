---------------------------- MODULE MCPausePlay -----------------------------
(* Model-checking instances of PausePlay. *)
EXTENDS PausePlay

\* One player pauses, releases and pauses again; the other pauses once.
Again == [p \in Ports |-> IF p = 0 THEN 3 ELSE 1]
\* One player pauses once.
Single == [p \in Ports |-> IF p = 0 THEN 1 ELSE 0]
=============================================================================
