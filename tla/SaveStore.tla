----------------------------- MODULE SaveStore ------------------------------
(***************************************************************************)
(* How the emulation thread keeps battery RAM: the save file and its       *)
(* history (src/save_paths/sram_recovery.rs), the battery generation and   *)
(* the recovery state written at shutdown (src/emu_thread/recovery.rs,     *)
(* save_paths/recovery_state.rs), the periodic flush (emu_thread/          *)
(* persistence.rs, emu_loop.rs).  Every file is written by AtomicFile.     *)
(*                                                                         *)
(* Battery RAM is a member of Data; its SHA-256 is the member itself.  The *)
(* history directory is one file that holds the sequence of its entries.   *)
(* A recovery state is its battery witness and the battery RAM inside its  *)
(* payload.  A cartridge without a clock is modelled (one component).      *)
(***************************************************************************)
EXTENDS AtomicFile, Integers, Sequences

CONSTANTS
    Data, Blank, None,
    MAX_HISTORY, MAX_PENDING_HISTORY,
    Limit  \* bounds for each build: changes of RAM, failed steps, power failures

ASSUME StoreAssumption ==
    /\ Blank \in Data /\ None \notin Data
    /\ None \notin [generation : Nat, hash : Data]
    /\ Paths = {"primary", "start", "history", "generation", "state"}
    /\ Absent = [f \in Paths |-> IF f = "history" THEN <<>> ELSE None]
    /\ MAX_HISTORY \in Nat \ {0} /\ MAX_PENDING_HISTORY \in Nat \ {0}
    /\ Limit \in [BOOLEAN -> [plays : Nat, fails : Nat, crashes : Nat]]

VARIABLES
    machine,   \* the emulated machine and what its thread is doing
    session,   \* RecoverySession's entry, the generation in memory and, for the
               \* properties, whether the file may have another (unsure)
    reported,  \* history: the RAM last reported saved, until the save changes
    replaced,  \* history: the save this process replaced last
    suspended, \* history: a recovery state was saved at shutdown and nothing since
    used       \* how much of the bounds is used

vars == <<files, host, write, kept, machine, session, reported, replaced, suspended, used>>

Read(path) == files[path].now
Newest(entries) == entries[Len(entries)]

\* The process is not running.
Off == [at |-> "down", ram |-> Blank, dirty |-> FALSE, closing |-> FALSE]
NoSession == [initial |-> None, startWritten |-> FALSE, pending |-> <<>>,
              previous |-> None, drained |-> FALSE, persisted |-> None,
              unsure |-> FALSE]

Init ==
    /\ files = [f \in Paths |-> Settled(Absent[f])]
    /\ \E unix \in BOOLEAN : host = [unix |-> unix, folders |->
            [d \in Folders |-> IF d \in OnWay("primary") THEN "sure" ELSE "absent"]]
    /\ write = Idle
    /\ kept = [f \in Paths |-> {Absent[f]}]
    /\ machine = Off
    /\ session = NoSession
    /\ reported = None
    /\ replaced = None
    /\ suspended = FALSE
    /\ used = [plays |-> 0, fails |-> 0, crashes |-> 0]

To(place) == machine' = [machine EXCEPT !.at = place]

\* A step that may fail, within the bound.
MayFail ==
    /\ used.fails < Limit[host.unix].fails
    /\ used' = [used EXCEPT !.fails = @ + 1]

-----------------------------------------------------------------------------
(* Starting, playing, resuming.                                            *)

\* The ROM is loaded: battery RAM from the save file, begin_with, and the
\* generation as far as it can be read.
Start ==
    /\ machine.at = "down"
    /\ \E initial \in {Read("primary"), "failed"},
          persisted \in {Read("generation"), None} :
        /\ session' = [initial |-> initial, startWritten |-> FALSE, pending |-> <<>>,
                       previous |-> None, drained |-> FALSE, persisted |-> persisted,
                       unsure |-> FALSE]
        /\ machine' = [at |-> "idle", dirty |-> FALSE, closing |-> FALSE,
                       ram |-> IF initial \in Data THEN initial ELSE Blank]
        /\ IF initial = "failed" \/ persisted # Read("generation")
           THEN MayFail /\ suspended' = FALSE ELSE UNCHANGED <<suspended, used>>
    /\ replaced' = None
    /\ UNCHANGED <<fileVars, reported>>

\* A frame writes battery RAM.
Play ==
    /\ machine.at = "idle"
    /\ used.plays < Limit[host.unix].plays
    /\ \E ram \in Data : machine' = [machine EXCEPT !.ram = ram, !.dirty = TRUE]
    /\ used' = [used EXCEPT !.plays = @ + 1]
    /\ suspended' = FALSE
    /\ UNCHANGED <<fileVars, session, reported, replaced>>

\* witness_for_current_components
CurrentWitness ==
    IF session.persisted # None /\ session.persisted.hash = machine.ram
    THEN session.persisted ELSE None

\* Fault: the generation alone decides.
ClassifyByGeneration(captured, current) ==
    IF captured = None \/ current = None THEN "Unknown"
    ELSE IF captured.generation < current.generation THEN "Stale"
    ELSE IF captured.generation > current.generation THEN "Inconsistent"
    ELSE "Fresh"

\* classify_recovery_freshness
Classify(captured, current) ==
    IF captured = None \/ current = None THEN "Unknown"
    ELSE IF captured.generation < current.generation THEN "Stale"
    ELSE IF captured.generation > current.generation THEN "Inconsistent"
    ELSE IF captured.hash = current.hash THEN "Fresh"
    ELSE "Inconsistent"

\* handle_recovery_inspection with resume: only a fresh state is loaded.
Resume ==
    /\ machine.at = "idle"
    /\ Read("state") # None
    /\ Classify(Read("state").witness, CurrentWitness) = "Fresh"
    /\ machine' = [machine EXCEPT !.ram = Read("state").ram, !.dirty = TRUE]
    /\ UNCHANGED <<fileVars, session, reported, replaced, suspended, used>>

-----------------------------------------------------------------------------
(* commit_battery_generation: the save, its history, the generation.       *)

\* The flush is over; a periodic one that failed is retried.
Ended(ok) ==
    machine' = [machine EXCEPT !.at = IF machine.closing THEN "down" ELSE "idle",
                               !.dirty = @ /\ ~ok]

\* flush_battery_sram_if_due, or handle_shutdown; write_locked up to its
\* first drain_pending.  A save that could not be read at the start, or cannot
\* be read now, is left alone.
Flush(closing) ==
    /\ machine.at = "idle"
    /\ closing \/ machine.dirty
    /\ \/ /\ session.initial # "failed"
          /\ machine' = [machine EXCEPT !.at = "drain", !.closing = closing]
          /\ UNCHANGED used
       \/ /\ machine' = [machine EXCEPT !.at = IF closing THEN "down" ELSE "idle"]
          /\ IF session.initial = "failed" THEN UNCHANGED used ELSE MayFail
    /\ session' = [session EXCEPT !.drained = FALSE]
    /\ suspended' = FALSE
    /\ UNCHANGED <<fileVars, reported, replaced>>

\* Fault: a history entry that could not be written is forgotten.
GiveUpDropping ==
    /\ session' = [session EXCEPT !.pending = Tail(@)]
    /\ To(IF session.drained THEN "generation" ELSE "compare")

\* drain_pending has failed: what is pending stays so.
GiveUp ==
    /\ To(IF session.drained THEN "generation" ELSE "compare")
    /\ UNCHANGED session

\* persist_recovery takes the oldest pending save: session-start.sav first.
PersistStart ==
    /\ machine.at = "drain"
    /\ session.pending # <<>>
    /\ ~session.startWritten
    /\ IF session.initial = None
       THEN /\ session' = [session EXCEPT !.startWritten = TRUE]
            /\ UNCHANGED <<fileVars, machine>>
       ELSE /\ Begin("start", session.initial)
            /\ To("start")
            /\ UNCHANGED session
    /\ UNCHANGED <<reported, replaced, suspended, used>>

PersistStarted ==
    /\ machine.at = "start"
    /\ Return
    /\ IF write.at = "ok"
       THEN /\ To("drain")
            /\ session' = [session EXCEPT !.startWritten = TRUE]
       ELSE GiveUp
    /\ UNCHANGED <<reported, replaced, suspended, used>>

\* Then a new entry of the history, unless the last one is the same.
Duplicate == Read("history") # <<>> /\ Newest(Read("history")) = Head(session.pending)

PersistHistory ==
    /\ machine.at = "drain"
    /\ session.pending # <<>>
    /\ session.startWritten
    /\ IF Duplicate
       THEN To("prune") /\ UNCHANGED fileVars
       ELSE /\ Begin("history", Append(Read("history"), Head(session.pending)))
            /\ To("history")
    /\ UNCHANGED <<session, reported, replaced, suspended, used>>

PersistedHistory ==
    /\ machine.at = "history"
    /\ Return
    /\ IF write.at = "ok" THEN To("prune") /\ UNCHANGED session ELSE GiveUp
    /\ UNCHANGED <<reported, replaced, suspended, used>>

\* The oldest entries beyond MAX_HISTORY are removed, without a sync.
Prune ==
    /\ machine.at = "prune"
    /\ \/ /\ Len(Read("history")) > MAX_HISTORY
          /\ \E disk \in {files["history"].disk, Tail(Read("history"))} :
                files' = [files EXCEPT !["history"] =
                            [@ EXCEPT !.now = Tail(Read("history")), !.disk = disk]]
          /\ kept' = [kept EXCEPT !["history"] = @ \cup {Tail(Read("history"))}]
          /\ UNCHANGED <<machine, session, used>>
       \/ /\ Len(Read("history")) <= MAX_HISTORY
          /\ session' = [session EXCEPT !.pending = Tail(@)]
          /\ To("drain")
          /\ UNCHANGED <<files, kept, used>>
       \/ /\ Len(Read("history")) > MAX_HISTORY
          /\ MayFail
          /\ GiveUp
          /\ UNCHANGED <<files, kept>>
    /\ UNCHANGED <<host, write, reported, replaced, suspended>>

Drained ==
    /\ machine.at = "drain"
    /\ session.pending = <<>>
    /\ To(IF session.drained THEN "generation" ELSE "compare")
    /\ UNCHANGED <<fileVars, session, reported, replaced, suspended, used>>

\* An unchanged save needs no write.
Unchanged ==
    /\ machine.at = "compare"
    /\ Read("primary") = machine.ram
    /\ To("generation")
    /\ UNCHANGED <<fileVars, session, reported, replaced, suspended, used>>

WritePrimary ==
    /\ machine.at = "compare"
    /\ Read("primary") # machine.ram
    /\ session' = [session EXCEPT !.previous = Read("primary")]
    /\ Begin("primary", machine.ram)
    /\ To("primary")
    /\ reported' = None
    /\ UNCHANGED <<replaced, suspended, used>>

\* push_pending
Pushed(pending, previous) ==
    IF previous = None \/ (pending # <<>> /\ Newest(pending) = previous) THEN pending
    ELSE Append(IF Len(pending) = MAX_PENDING_HISTORY THEN Tail(pending) ELSE pending,
                previous)

\* The save has been replaced: what it held is now pending.
Published ==
    /\ session' = [session EXCEPT !.pending = Pushed(@, session.previous),
                                  !.previous = None, !.drained = TRUE]
    /\ replaced' = session.previous

PrimaryOk ==
    /\ machine.at = "primary"
    /\ write.at = "ok"
    /\ Return
    /\ Published
    /\ To(IF session.previous = None THEN "generation" ELSE "drain")
    /\ UNCHANGED <<reported, suspended, used>>

\* An error, although the new save may be in place.
PrimaryErr ==
    /\ machine.at = "primary"
    /\ write.at = "err"
    /\ Return
    /\ \/ /\ IF Read("primary") = machine.ram THEN Published
             ELSE UNCHANGED <<session, replaced>>
          /\ UNCHANGED used
       \/ /\ MayFail  \* nor can the save be read back
          /\ replaced' = None
          /\ UNCHANGED session
    /\ Ended(FALSE)
    /\ UNCHANGED <<reported, suspended>>

\* reconcile_battery_generation
Reconcile(persisted, hash) ==
    IF persisted = None THEN [generation |-> 0, hash |-> hash]
    ELSE IF persisted.hash = hash THEN persisted
    ELSE [generation |-> persisted.generation + 1, hash |-> hash]

\* The barrier lets the envelope follow only a generation that is written.
Committed(record) ==
    /\ session' = [session EXCEPT !.persisted = record]
    /\ reported' = machine.ram
    /\ IF machine.closing
       THEN To("state") /\ Begin("state", [witness |-> record, ram |-> machine.ram])
       ELSE Ended(TRUE) /\ UNCHANGED fileVars

\* Fault: the envelope does not wait for the generation.
GenerationFailsUnseen(record) ==
    /\ write.at = "err"
    /\ session' = [session EXCEPT !.persisted = record]
    /\ Return
    /\ UNCHANGED machine

\* The generation could not be written: no envelope follows.
GenerationFails(record) ==
    /\ write.at = "err"
    /\ session' = [session EXCEPT !.unsure = @ \/ Read("generation") = record]
    /\ Return
    /\ Ended(FALSE)

\* write_generation: nothing to write if the battery has not changed.
Generation ==
    LET record == Reconcile(session.persisted, machine.ram)
    IN  /\ machine.at = "generation"
        /\ \/ /\ write = Idle
              /\ IF session.persisted = record THEN Committed(record)
                 ELSE /\ Begin("generation", record)
                      /\ UNCHANGED <<machine, session, reported>>
           \/ /\ write.at = "ok"
              /\ session' = [session EXCEPT !.persisted = record, !.unsure = FALSE]
              /\ Return
              /\ UNCHANGED <<machine, reported>>
           \/ /\ GenerationFails(record)
              /\ UNCHANGED reported
        /\ UNCHANGED <<replaced, suspended, used>>

\* write_recovery_state has ended; so does the thread.
Saved ==
    /\ machine.at = "state"
    /\ suspended' = (write.at = "ok" /\ ~session.unsure)
    /\ Return
    /\ Ended(TRUE)
    /\ UNCHANGED <<session, reported, replaced, used>>

-----------------------------------------------------------------------------

Disk ==
    /\ WriteStep
    /\ UNCHANGED <<machine, session, reported, replaced, suspended, used>>

DiskFails ==
    /\ Fail
    /\ MayFail
    /\ UNCHANGED <<machine, session, reported, replaced, suspended>>

\* What is in memory is lost, and what was suspended unless the files it needs
\* are left as they were.
Crash ==
    /\ used.crashes < Limit[host.unix].crashes
    /\ PowerFailure
    /\ machine' = Off
    /\ session' = NoSession
    /\ replaced' = None
    /\ suspended' = (suspended /\ machine.at = "down" /\
                      \A f \in {"primary", "generation", "state"} :
                          files'[f].now = files[f].now)
    /\ used' = [used EXCEPT !.crashes = @ + 1]
    /\ UNCHANGED reported

Next ==
    \/ Start \/ Play \/ Resume \/ \E closing \in BOOLEAN : Flush(closing)
    \/ PersistStart \/ PersistStarted \/ PersistHistory \/ PersistedHistory
    \/ Prune \/ Drained \/ Unchanged \/ WritePrimary \/ PrimaryOk \/ PrimaryErr
    \/ Generation \/ Saved \/ Disk \/ DiskFails \/ Crash

Spec == Init /\ [][Next]_vars

-----------------------------------------------------------------------------

\* The save this process replaced last can be recovered, as the newest entry of
\* the history or of what is still pending, whichever writes of the history,
\* of session-start.sav or of its pruning failed, unless the save could not
\* even be read back.
HistoryKeepsLast ==
    replaced # None =>
        /\ session.pending \o Read("history") # <<>>
        /\ replaced = IF session.pending # <<>> THEN Newest(session.pending)
                      ELSE Newest(Read("history"))

\* Resuming never takes the player to other battery data: a recovery state
\* that is called fresh holds the battery RAM the machine has now, whatever
\* crashed, failed or could not be read since it was written.
ResumeKeepsBattery ==
    [][Resume => machine'.ram = machine.ram]_vars

\* What was suspended can be resumed: after a shutdown that reported the
\* recovery state saved, the next start finds it fresh, also when the power
\* failed in between and left the save, the generation and the state as they
\* were.  (Not so after a write of the generation that failed in its last
\* step, when the file has changed although the thread believes it has not.)
SuspendResumes ==
    suspended /\ machine.at = "idle" =>
        Classify(Read("state").witness, CurrentWitness) = "Fresh"

\* A power failure never takes a file back behind the last write of it that
\* reported success: where directories are synced (unix) the file reads as
\* that write left it, or as one put in place or pruned since, whichever of
\* these failed.  Files other than the save may be missing altogether, when a
\* directory they lie in was created by the program and not synced.
SuccessSurvives ==
    [][host.unix /\ Crash =>
        \A f \in Paths :
            \/ files'[f].now \in kept[f]
            \/ f # "primary" /\ ~Founded(f) /\ files'[f].now = Absent[f]]_vars

\* Battery RAM that was reported saved survives a power failure, where the
\* directory of the save is synced at all.
ReportedDurable ==
    host.unix /\ reported # None => files["primary"].disk = reported
=============================================================================
