---------------------------- MODULE MCSaveStore -----------------------------
(* Model-checking instances of SaveStore. *)
EXTENDS SaveStore

SavePaths == {"primary", "start", "history", "generation", "state"}

\* The save lies beside the ROM, everything else below recovery/<media>, which
\* is created on demand.
SaveFolders == {"rom", "media", "component", "history", "state"}
SaveHolder ==
    [f \in SavePaths |->
        CASE f = "primary" -> "rom" [] f = "generation" -> "media"
          [] f = "start" -> "component" [] OTHER -> f]
SaveAbove ==
    [d \in SaveFolders |->
        CASE d \in {"rom", "media"} -> {}
          [] d \in {"component", "state"} -> {"media"}
          [] d = "history" -> {"media", "component"}]
\* A build that syncs no directory has many more outcomes of a power failure.
SaveLimit ==
    [unix \in BOOLEAN |->
        IF unix THEN [plays |-> 2, fails |-> 2, crashes |-> 1]
        ELSE [plays |-> 1, fails |-> 1, crashes |-> 1]]
SaveAbsent == [f \in SavePaths |-> IF f = "history" THEN <<>> ELSE None]
=============================================================================
