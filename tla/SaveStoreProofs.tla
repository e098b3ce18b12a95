-------------------------- MODULE SaveStoreProofs ---------------------------
(***************************************************************************)
(* Proofs about SaveStore: no file is ever torn, a power failure does not  *)
(* take back a write that reported success where directories are synced,   *)
(* and resuming keeps the battery.                                         *)
(*                                                                         *)
(* FileInv speaks of the files and the write under way alone; every action *)
(* of SaveStore acts on them by one step of AtomicFile or by pruning the   *)
(* history, so it is enough to show that these steps preserve it.  Link    *)
(* ties the write to the thread: only a thread that has begun a write has  *)
(* one under way, so nothing else touches the files meanwhile.             *)
(***************************************************************************)
EXTENDS SaveStore, TLAPS

Steps == {"stage", "sync", "replace", "sync parent", "ok", "err"}

\* Whatever the contents V are, the files and the write under way hold them,
\* and no file is torn.
Shape(V) ==
    /\ write = Idle \/
            write \in [at : Steps, path : Paths, value : V, synced : BOOLEAN]
    /\ files \in [Paths -> [now : V, disk : V, torn : {FALSE}]]

\* The data are synced before the rename, and in place after it; on unix the
\* directory is synced before success is reported.
WriteOrder ==
    /\ write.at = "replace" => write.synced = TRUE
    /\ write.at \in {"sync parent", "ok"} => files[write.path].now = write.value
    /\ write.at = "ok" /\ host.unix => files[write.path].disk = write.value

\* A recovery state holds the battery RAM that its witness names.
Witnessed(v) == v # None => v.ram = v.witness.hash

StateWitnessed ==
    /\ Witnessed(files["state"].now)
    /\ Witnessed(files["state"].disk)
    /\ write # Idle /\ write.path = "state" => Witnessed(write.value)

FileInv == (\E V : Shape(V)) /\ WriteOrder /\ StateWitnessed

MachineShape == \E A : machine \in [at : A, ram : A, dirty : A, closing : A]

Busy == {"start", "history", "primary", "generation", "state"}

Link == write # Idle => machine.at \in Busy

SaveInv == FileInv /\ MachineShape /\ Link

-----------------------------------------------------------------------------

\* The paths of the save store.
LEMMA PathsKnown ==
    /\ \A f \in {"primary", "start", "history", "generation", "state"} : f \in Paths
    /\ "state" \in Paths
BY StoreAssumption

\* An idle write has the place of its own.
LEMMA IdleAt == Idle.at = "idle"
BY DEF Idle

\* A write under way is not the idle one.
LEMMA IdleApart ==
    ASSUME NEW V, NEW w \in [at : Steps, path : Paths, value : V, synced : BOOLEAN]
    PROVE  w # Idle
<1>1. w.at \in Steps OBVIOUS
<1> QED BY <1>1, IdleAt DEF Steps

\* A write that has a place is under way.
LEMMA UnderWay ==
    ASSUME NEW V, Shape(V), write.at # "idle"
    PROVE  /\ write \in [at : Steps, path : Paths, value : V, synced : BOOLEAN]
           /\ write # Idle
<1>1. write # Idle BY IdleAt
<1> QED BY <1>1 DEF Shape

\* An unchanged file system stays in order.
LEMMA StutterKeeps == ASSUME FileInv, UNCHANGED fileVars PROVE FileInv'
BY DEF FileInv, Shape, WriteOrder, StateWitnessed, Witnessed, fileVars, Idle

\* A write is begun; a recovery state must be witnessed.
LEMMA BeginKeeps ==
    ASSUME NEW path \in Paths, NEW value, FileInv, Begin(path, value),
           path = "state" => Witnessed(value)
    PROVE  FileInv'
<1>1. PICK V : Shape(V) BY DEF FileInv
<1> DEFINE W == V \cup {value}
<1>2. /\ write' = [at |-> "stage", path |-> path, value |-> value, synced |-> FALSE]
      /\ files' = files
  BY DEF Begin
<1>3. Shape(W)' BY <1>1, <1>2 DEF Shape, Steps
<1>4. WriteOrder' BY <1>2 DEF WriteOrder
<1>5. StateWitnessed' BY <1>2 DEF FileInv, StateWitnessed
<1> QED BY <1>3, <1>4, <1>5 DEF FileInv

\* A result is taken: nothing is under way any more.
LEMMA ReturnKeeps == ASSUME FileInv, Return PROVE FileInv'
<1>1. PICK V : Shape(V) BY DEF FileInv
<1>2. write' = Idle /\ files' = files BY DEF Return
<1>3. Shape(V)' BY <1>1, <1>2 DEF Shape
<1> QED BY <1>2, <1>3 DEF FileInv, WriteOrder, StateWitnessed, Idle

\* A step fails: the files are as they were.
LEMMA FailKeeps == ASSUME FileInv, Fail PROVE FileInv'
<1>1. PICK V : Shape(V) BY DEF FileInv
<1>2. /\ write \in [at : Steps, path : Paths, value : V, synced : BOOLEAN]
      /\ write' = [write EXCEPT !.at = "err"]
      /\ files' = files
  BY <1>1, UnderWay DEF Fail
<1>3. /\ write' \in [at : Steps, path : Paths, value : V, synced : BOOLEAN]
      /\ write'.at = "err" /\ write'.path = write.path /\ write'.value = write.value
  BY <1>2 DEF Steps
<1>4. Shape(V)' BY <1>1, <1>2, <1>3 DEF Shape
<1>5. StateWitnessed' BY <1>2, <1>3, IdleApart DEF FileInv, StateWitnessed
<1> QED BY <1>3, <1>4, <1>5 DEF FileInv, WriteOrder

\* After a power failure a file holds what the disk held, or it is missing.
LEMMA PowerLeaves ==
    ASSUME NEW V, Shape(V), PowerFailure, NEW f \in Paths
    PROVE  /\ write' = Idle
           /\ files' \in [Paths -> [now : V \cup {Absent[g] : g \in Paths},
                                   disk : V \cup {Absent[g] : g \in Paths}, torn : {FALSE}]]
           /\ files'[f].disk = files'[f].now
           /\ files'[f].now \in {files[f].disk, Absent[f]}
<1> DEFINE W == V \cup {Absent[g] : g \in Paths}
<1>1. PICK lost : files' = [g \in Paths |->
                    IF Holder[g] \in lost THEN Settled(Absent[g])
                    ELSE [files[g] EXCEPT !.now = files[g].disk]]
  BY DEF PowerFailure
<1>2. ASSUME NEW g \in Paths
      PROVE  /\ files'[g] \in [now : W, disk : W, torn : {FALSE}]
             /\ files'[g].disk = files'[g].now
             /\ files'[g].now \in {files[g].disk, Absent[g]}
  <2>1. files[g] \in [now : V, disk : V, torn : {FALSE}] BY DEF Shape
  <2>2. CASE files'[g] = Settled(Absent[g]) BY <2>2 DEF Settled
  <2>3. CASE files'[g] = [files[g] EXCEPT !.now = files[g].disk] BY <2>1, <2>3
  <2> QED BY <1>1, <2>2, <2>3
<1>3. files' \in [Paths -> [now : W, disk : W, torn : {FALSE}]] BY <1>1, <1>2
<1>4. write' = Idle BY DEF PowerFailure
<1> QED BY <1>2, <1>3, <1>4

\* The files stay in order.
LEMMA PowerFailureKeeps == ASSUME FileInv, PowerFailure PROVE FileInv'
<1>1. PICK V : Shape(V) BY DEF FileInv
<1> DEFINE W == V \cup {Absent[f] : f \in Paths}
<1>2. /\ write' = Idle /\ files' \in [Paths -> [now : W, disk : W, torn : {FALSE}]]
      /\ files'["state"].disk = files'["state"].now
      /\ files'["state"].now \in {files["state"].disk, Absent["state"]}
  BY <1>1, PowerLeaves, PathsKnown
<1>3. Absent["state"] = None BY StoreAssumption
<1>4. StateWitnessed' BY <1>2, <1>3 DEF FileInv, StateWitnessed, Witnessed
<1>5. Shape(W)' BY <1>2 DEF Shape
<1> QED BY <1>2, <1>4, <1>5 DEF FileInv, WriteOrder, Idle

\* The steps of a write: what is renamed into place has been synced.
LEMMA WriteStepKeeps == ASSUME FileInv, WriteStep PROVE FileInv'
<1>1. PICK V : Shape(V) BY DEF FileInv
<1>2. write.at # "idle"
  BY DEF WriteStep, Stage, SyncTemp, Replace, SyncParent
<1>3. /\ write \in [at : Steps, path : Paths, value : V, synced : BOOLEAN]
      /\ write # Idle
  BY <1>1, <1>2, UnderWay
<1>4. files \in [Paths -> [now : V, disk : V, torn : {FALSE}]] BY <1>1 DEF Shape
<1>5. CASE Stage
  <2>1. /\ write' \in [at : Steps, path : Paths, value : V, synced : BOOLEAN]
        /\ write'.at = "sync" /\ write'.path = write.path /\ write'.value = write.value
        /\ files' = files
    BY <1>3, <1>5 DEF Stage, Steps
  <2>2. StateWitnessed' BY <1>3, <2>1 DEF FileInv, StateWitnessed
  <2> QED BY <1>4, <2>1, <2>2 DEF FileInv, Shape, WriteOrder
<1>6. CASE SyncTemp
  <2>1. /\ write' \in [at : Steps, path : Paths, value : V, synced : BOOLEAN]
        /\ write'.at = "replace" /\ write'.path = write.path /\ write'.value = write.value
        /\ write'.synced = TRUE
        /\ files' = files
    BY <1>3, <1>6 DEF SyncTemp, Steps
  <2>2. StateWitnessed' BY <1>3, <2>1 DEF FileInv, StateWitnessed
  <2> QED BY <1>4, <2>1, <2>2 DEF FileInv, Shape, WriteOrder
<1>7. CASE Replace
  <2>1. /\ write' \in [at : Steps, path : Paths, value : V, synced : BOOLEAN]
        /\ write'.at = "sync parent" /\ write'.path = write.path
        /\ write'.value = write.value
    BY <1>3, <1>7 DEF Replace, Steps
  <2>2. write.synced = TRUE BY <1>7 DEF Replace, FileInv, WriteOrder
  <2>3. PICK disk \in {files[write.path].disk, write.value} :
          files' = [files EXCEPT ![write.path] =
                        [now |-> write.value, disk |-> disk, torn |-> FALSE]]
    BY <1>7, <2>2 DEF Replace
  <2>4. /\ files' \in [Paths -> [now : V, disk : V, torn : {FALSE}]]
        /\ files'[write.path].now = write.value
    BY <1>3, <1>4, <2>3
  <2>5. StateWitnessed'
    BY <1>3, <1>4, <2>1, <2>3, PathsKnown DEF FileInv, StateWitnessed, Witnessed
  <2> QED BY <2>1, <2>4, <2>5 DEF FileInv, Shape, WriteOrder
<1>8. CASE SyncParent
  <2>1. /\ write' \in [at : Steps, path : Paths, value : V, synced : BOOLEAN]
        /\ write'.at = "ok" /\ write'.path = write.path
        /\ write'.value = write.value
    BY <1>3, <1>8 DEF SyncParent, Steps
  <2>2. files[write.path].now = write.value
    BY <1>8 DEF SyncParent, FileInv, WriteOrder
  <2>3. /\ files' \in [Paths -> [now : V, disk : V, torn : {FALSE}]]
        /\ files'[write.path].now = write.value
        /\ files'[write.path].disk \in {write.value, files[write.path].disk}
        /\ host'.unix => files'[write.path].disk = write.value
        /\ \A f \in Paths : f # write.path => files'[f] = files[f]
    <3>1. CASE host.unix
      <4>1. files' = [files EXCEPT ![write.path].disk = files[write.path].now]
        BY <1>8, <3>1 DEF SyncParent
      <4> QED BY <1>3, <1>4, <2>2, <4>1
    <3>2. CASE ~host.unix
      <4>1. files' = [files EXCEPT ![write.path].torn = FALSE] /\ host' = host
        BY <1>8, <3>2 DEF SyncParent
      <4> QED BY <1>3, <1>4, <2>2, <3>2, <4>1
    <3> QED BY <3>1, <3>2
  <2>4. StateWitnessed'
    BY <1>3, <1>4, <2>1, <2>3, PathsKnown DEF FileInv, StateWitnessed, Witnessed
  <2> QED BY <2>1, <2>3, <2>4 DEF FileInv, Shape, WriteOrder
<1> QED BY <1>5, <1>6, <1>7, <1>8 DEF WriteStep

\* Pruning the history, when no write is under way.
LEMMA PruneKeeps ==
    ASSUME FileInv, write = Idle, NEW now, NEW disk, UNCHANGED write,
           files' = [files EXCEPT !["history"] =
                        [@ EXCEPT !.now = now, !.disk = disk]]
    PROVE  FileInv'
<1>1. PICK V : Shape(V) BY DEF FileInv
<1> DEFINE W == V \cup {now, disk}
<1>2. "history" \in Paths /\ "state" \in Paths BY PathsKnown
<1>3. files["history"] \in [now : V, disk : V, torn : {FALSE}] BY <1>1, <1>2 DEF Shape
<1>4. [files["history"] EXCEPT !.now = now, !.disk = disk]
        \in [now : W, disk : W, torn : {FALSE}]
  BY <1>3
<1>5. files' \in [Paths -> [now : W, disk : W, torn : {FALSE}]]
  BY <1>1, <1>2, <1>4 DEF Shape
<1>6. files'["state"] = files["state"] BY <1>1, <1>2 DEF Shape
<1>7. StateWitnessed' BY <1>6 DEF FileInv, StateWitnessed
<1>8. Shape(W)' BY <1>5 DEF Shape
<1> QED BY <1>7, <1>8, IdleAt DEF FileInv, WriteOrder

-----------------------------------------------------------------------------
(* The thread's side.                                                      *)

\* The thread has begun no write, so none is under way.
LEMMA NotBusy == ASSUME Link, machine.at \notin Busy PROVE write = Idle
BY DEF Link

\* To moves the thread and changes nothing else of it.
LEMMA ToMoves ==
    ASSUME MachineShape, NEW place, To(place)
    PROVE  MachineShape' /\ machine'.at = place /\ machine'.ram = machine.ram
<1>1. PICK A : machine \in [at : A, ram : A, dirty : A, closing : A]
  BY DEF MachineShape
<1> DEFINE B == A \cup {place}
<1>2. machine \in [at : B, ram : B, dirty : B, closing : B] BY <1>1
<1>3. machine' \in [at : B, ram : B, dirty : B, closing : B] BY <1>2 DEF To
<1>4. machine'.at = place /\ machine'.ram = machine.ram BY <1>2 DEF To
<1> QED BY <1>3, <1>4 DEF MachineShape

\* Ended moves the thread and may leave the battery dirty.
LEMMA EndedMoves == ASSUME MachineShape, NEW ok, Ended(ok) PROVE MachineShape'
<1>1. PICK A : machine \in [at : A, ram : A, dirty : A, closing : A]
  BY DEF MachineShape
<1> DEFINE place == IF machine.closing THEN "down" ELSE "idle"
           dirty == machine.dirty /\ ~ok
           B == A \cup {place, dirty}
<1>2. machine' = [machine EXCEPT !.at = place, !.dirty = dirty] BY DEF Ended
<1> HIDE DEF place, dirty
<1>3. machine \in [at : B, ram : B, dirty : B, closing : B] BY <1>1
<1>4. machine' \in [at : B, ram : B, dirty : B, closing : B] BY <1>2, <1>3
<1> QED BY <1>4 DEF MachineShape

-----------------------------------------------------------------------------
(* The invariant.                                                          *)

\* The invariant holds before the first start.
LEMMA SaveInit == Init => SaveInv
<1> SUFFICES ASSUME Init PROVE SaveInv OBVIOUS
<1> DEFINE V == {Absent[f] : f \in Paths}
           A == {"down", Blank, FALSE}
<1>1. Shape(V) BY DEF Init, Shape, Settled
<1>2. WriteOrder BY IdleAt DEF Init, WriteOrder
<1>3. StateWitnessed
  BY PathsKnown, StoreAssumption DEF Init, StateWitnessed, Witnessed, Settled
<1>4. machine \in [at : A, ram : A, dirty : A, closing : A] BY DEF Init, Off
<1>5. Link BY DEF Init, Link
<1> QED BY <1>1, <1>2, <1>3, <1>4, <1>5 DEF SaveInv, FileInv, MachineShape

\* A record that Reconcile makes or keeps names the RAM it was made for.
LEMMA ReconcileNames == \A p, hash : Reconcile(p, hash).hash = hash
BY DEF Reconcile

\* Steps that leave the files alone while the thread is not writing.
LEMMA QuietKeeps ==
    ASSUME SaveInv, machine.at \notin Busy, UNCHANGED fileVars, MachineShape'
    PROVE  SaveInv'
<1>1. write' = Idle BY NotBusy DEF SaveInv, fileVars
<1> QED BY <1>1, StutterKeeps DEF SaveInv, Link

\* Steps by which the thread begins a write.
LEMMA StartKeeps ==
    ASSUME SaveInv, NEW path \in Paths, NEW value, Begin(path, value),
           path = "state" => Witnessed(value), MachineShape', machine'.at \in Busy
    PROVE  SaveInv'
BY BeginKeeps DEF SaveInv, Link

\* Steps by which it takes a result.
LEMMA TakeKeeps == ASSUME SaveInv, Return, MachineShape' PROVE SaveInv'
<1>1. write' = Idle BY DEF Return
<1> QED BY <1>1, ReturnKeeps DEF SaveInv, Link

\* Every action preserves it: it begins a write, takes a result, moves the
\* thread while nothing is written, prunes, or is a step of the disk.
LEMMA SaveStep == SaveInv /\ [Next]_vars => SaveInv'
<1> SUFFICES ASSUME SaveInv, [Next]_vars PROVE SaveInv' OBVIOUS
<1> USE DEF Busy
<1>0. MachineShape /\ Link /\ FileInv BY DEF SaveInv
<1>m. PICK A : machine \in [at : A, ram : A, dirty : A, closing : A]
  BY <1>0 DEF MachineShape
<1>1. CASE Start
  <2>1. PICK initial \in {Read("primary"), "failed"} :
          machine' = [at |-> "idle", dirty |-> FALSE, closing |-> FALSE,
                      ram |-> IF initial \in Data THEN initial ELSE Blank]
    BY <1>1 DEF Start
  <2> DEFINE ram == IF initial \in Data THEN initial ELSE Blank
             B == {"idle", FALSE, ram}
  <2> HIDE DEF ram
  <2>2. machine' \in [at : B, ram : B, dirty : B, closing : B] BY <2>1 DEF ram
  <2>3. MachineShape' BY <2>2 DEF MachineShape
  <2> QED BY <1>1, <2>3, QuietKeeps DEF Start, fileVars
<1>2. CASE Play
  <2>1. PICK ram \in Data : machine' = [machine EXCEPT !.ram = ram, !.dirty = TRUE]
    BY <1>2 DEF Play
  <2> DEFINE B == A \cup {ram, TRUE}
  <2>2. machine \in [at : B, ram : B, dirty : B, closing : B] BY <1>m
  <2>3. machine' \in [at : B, ram : B, dirty : B, closing : B] BY <2>1, <2>2
  <2>4. MachineShape' BY <2>3 DEF MachineShape
  <2> QED BY <1>2, <2>4, QuietKeeps DEF Play, fileVars
<1>3. CASE Resume
  <2> DEFINE ram == Read("state").ram
             B == A \cup {ram, TRUE}
  <2>1. machine' = [machine EXCEPT !.ram = ram, !.dirty = TRUE] BY <1>3 DEF Resume
  <2> HIDE DEF ram
  <2>2. machine \in [at : B, ram : B, dirty : B, closing : B] BY <1>m
  <2>3. machine' \in [at : B, ram : B, dirty : B, closing : B] BY <2>1, <2>2
  <2>4. MachineShape' BY <2>3 DEF MachineShape
  <2> QED BY <1>3, <2>4, QuietKeeps DEF Resume, fileVars
<1>4. ASSUME NEW closing \in BOOLEAN, Flush(closing) PROVE SaveInv'
  <2> DEFINE place == IF closing THEN "down" ELSE "idle"
             B == A \cup {"drain", closing, place}
  <2>1. \/ machine' = [machine EXCEPT !.at = "drain", !.closing = closing]
        \/ machine' = [machine EXCEPT !.at = place]
    BY <1>4 DEF Flush
  <2> HIDE DEF place
  <2>2. machine \in [at : B, ram : B, dirty : B, closing : B] BY <1>m
  <2>3. machine' \in [at : B, ram : B, dirty : B, closing : B] BY <2>1, <2>2
  <2>4. MachineShape' BY <2>3 DEF MachineShape
  <2> QED BY <1>4, <2>4, QuietKeeps DEF Flush, fileVars
<1>5. CASE PersistStart
  <2>1. CASE session.initial = None
    BY <1>0, <1>5, <2>1, QuietKeeps DEF PersistStart, fileVars, MachineShape
  <2>2. CASE session.initial # None
    <3>1. Begin("start", session.initial) /\ To("start")
      BY <1>5, <2>2 DEF PersistStart
    <3>2. MachineShape' /\ machine'.at = "start" BY <1>0, <3>1, ToMoves
    <3> QED BY <3>1, <3>2, PathsKnown, StartKeeps
  <2> QED BY <2>1, <2>2
<1>6. CASE PersistStarted
  <2>1. Return /\ \E place : To(place) BY <1>6 DEF PersistStarted, GiveUp
  <2> QED BY <1>0, <2>1, ToMoves, TakeKeeps
<1>7. CASE PersistHistory
  <2>1. CASE Duplicate
    <3>1. To("prune") /\ UNCHANGED fileVars BY <1>7, <2>1 DEF PersistHistory
    <3>2. machine.at = "drain" BY <1>7 DEF PersistHistory
    <3> QED BY <1>0, <3>1, <3>2, ToMoves, QuietKeeps
  <2>2. CASE ~Duplicate
    <3> DEFINE value == Append(Read("history"), Head(session.pending))
    <3>1. Begin("history", value) /\ To("history")
      BY <1>7, <2>2 DEF PersistHistory
    <3>2. MachineShape' /\ machine'.at = "history" BY <1>0, <3>1, ToMoves
    <3> HIDE DEF value
    <3> QED BY <3>1, <3>2, PathsKnown, StartKeeps
  <2> QED BY <2>1, <2>2
<1>8. CASE PersistedHistory
  <2>1. Return /\ \E place : To(place) BY <1>8 DEF PersistedHistory, GiveUp
  <2> QED BY <1>0, <2>1, ToMoves, TakeKeeps
<1>9. CASE Prune
  <2>0. machine.at = "prune" /\ write' = write BY <1>9 DEF Prune
  <2>1. write = Idle BY <1>0, <2>0, NotBusy
  <2>2. CASE UNCHANGED fileVars /\ \E place : To(place)
    BY <1>0, <2>0, <2>2, ToMoves, QuietKeeps
  <2>3. CASE /\ UNCHANGED machine
             /\ \E now, disk : files' = [files EXCEPT !["history"] =
                                [@ EXCEPT !.now = now, !.disk = disk]]
    <3>1. FileInv' BY <1>0, <2>0, <2>1, <2>3, PruneKeeps
    <3> QED BY <1>0, <2>0, <2>1, <2>3, <3>1 DEF SaveInv, Link, MachineShape
  <2>4. \/ UNCHANGED fileVars /\ \E place : To(place)
        \/ /\ UNCHANGED machine
           /\ \E now, disk : files' = [files EXCEPT !["history"] =
                                [@ EXCEPT !.now = now, !.disk = disk]]
    BY <1>9 DEF Prune, GiveUp, fileVars
  <2> QED BY <2>2, <2>3, <2>4
<1>10. CASE Drained
  <2>1. \E place : To(place) BY <1>10 DEF Drained
  <2> QED BY <1>0, <1>10, <2>1, ToMoves, QuietKeeps DEF Drained, fileVars
<1>11. CASE Unchanged
  BY <1>0, <1>11, ToMoves, QuietKeeps DEF Unchanged, fileVars
<1>12. CASE WritePrimary
  <2>1. Begin("primary", machine.ram) /\ To("primary") BY <1>12 DEF WritePrimary
  <2>2. MachineShape' /\ machine'.at = "primary" BY <1>0, <2>1, ToMoves
  <2> QED BY <2>1, <2>2, PathsKnown, StartKeeps
<1>13. CASE PrimaryOk
  <2>1. Return /\ \E place : To(place) BY <1>13 DEF PrimaryOk
  <2> QED BY <1>0, <2>1, ToMoves, TakeKeeps
<1>14. CASE PrimaryErr
  <2>1. Return /\ Ended(FALSE) BY <1>14 DEF PrimaryErr
  <2> QED BY <1>0, <2>1, EndedMoves, TakeKeeps
<1>15. CASE Generation
  <2> DEFINE record == Reconcile(session.persisted, machine.ram)
  <2>0. record.hash = machine.ram BY ReconcileNames
  <2>a. machine.at = "generation" BY <1>15 DEF Generation
  <2> HIDE DEF record
  <2>1. CASE write = Idle /\ Committed(record)
    <3>1. CASE machine.closing
      <4> DEFINE value == [witness |-> record, ram |-> machine.ram]
      <4>1. To("state") /\ Begin("state", value) BY <2>1, <3>1 DEF Committed
      <4>2. MachineShape' /\ machine'.at = "state" BY <1>0, <4>1, ToMoves
      <4>3. Witnessed(value) BY <2>0 DEF Witnessed
      <4> HIDE DEF value
      <4> QED BY <4>1, <4>2, <4>3, PathsKnown, StartKeeps
    <3>2. CASE ~machine.closing
      <4>1. Ended(TRUE) /\ UNCHANGED fileVars BY <2>1, <3>2 DEF Committed
      <4>2. MachineShape' BY <1>0, <4>1, EndedMoves
      <4>3. write' = Idle BY <2>1, <4>1 DEF fileVars
      <4>4. FileInv' BY <1>0, <4>1, StutterKeeps
      <4> QED BY <4>2, <4>3, <4>4 DEF SaveInv, Link
    <3> QED BY <3>1, <3>2
  <2>2. CASE Begin("generation", record) /\ UNCHANGED machine
    BY <1>0, <2>a, <2>2, PathsKnown, StartKeeps DEF MachineShape
  <2>3. CASE Return /\ UNCHANGED machine
    BY <1>0, <2>3, TakeKeeps DEF MachineShape
  <2>4. CASE Return /\ Ended(FALSE)
    BY <1>0, <2>4, EndedMoves, TakeKeeps
  <2> QED BY <1>15, <2>1, <2>2, <2>3, <2>4 DEF Generation, GenerationFails, record
<1>16. CASE Saved
  <2>1. Return /\ Ended(TRUE) BY <1>16 DEF Saved
  <2> QED BY <1>0, <2>1, EndedMoves, TakeKeeps
<1>17. CASE Disk
  <2>1. WriteStep /\ UNCHANGED machine BY <1>17 DEF Disk
  <2>2. FileInv' BY <1>0, <2>1, WriteStepKeeps
  <2>3. write.at # "idle" BY <2>1 DEF WriteStep, Stage, SyncTemp, Replace, SyncParent
  <2>4. write # Idle BY <2>3, IdleAt
  <2> QED BY <1>0, <2>1, <2>2, <2>4 DEF SaveInv, Link, MachineShape
<1>18. CASE DiskFails
  <2>1. Fail /\ UNCHANGED machine BY <1>18 DEF DiskFails
  <2>2. FileInv' BY <1>0, <2>1, FailKeeps
  <2>3. write.at # "idle" BY <2>1 DEF Fail
  <2>4. write # Idle BY <2>3, IdleAt
  <2> QED BY <1>0, <2>1, <2>2, <2>4 DEF SaveInv, Link, MachineShape
<1>19. CASE Crash
  <2> DEFINE B == {"down", Blank, FALSE}
  <2>1. PowerFailure /\ machine' = Off BY <1>19 DEF Crash
  <2>2. write' = Idle BY <2>1 DEF PowerFailure
  <2>3. machine' \in [at : B, ram : B, dirty : B, closing : B] BY <2>1 DEF Off
  <2>4. MachineShape' BY <2>3 DEF MachineShape
  <2> QED BY <1>0, <2>1, <2>2, <2>4, PowerFailureKeeps DEF SaveInv, Link
<1>20. CASE UNCHANGED vars
  BY <1>0, <1>20, StutterKeeps DEF SaveInv, Link, MachineShape, vars, fileVars
<1> QED
  BY <1>1, <1>2, <1>3, <1>4, <1>5, <1>6, <1>7, <1>8, <1>9, <1>10, <1>11, <1>12,
     <1>13, <1>14, <1>15, <1>16, <1>17, <1>18, <1>19, <1>20 DEF Next

-----------------------------------------------------------------------------

\* SaveInv is an invariant.
THEOREM SaveInvariant == Spec => []SaveInv
BY SaveInit, SaveStep, PTL DEF Spec

\* Every file holds a complete content, and would after a power failure:
\* write_file_atomically syncs the staged file before it renames it.
THEOREM FilesNeverTorn == Spec => []NeverTorn
<1>1. SaveInv => NeverTorn BY DEF SaveInv, FileInv, Shape, NeverTorn
<1> QED BY <1>1, SaveInvariant, PTL

\* Resuming never changes battery RAM: a state that is fresh was written with
\* the witness the machine has now, and a witness names the RAM saved with it.
THEOREM ResumeSafe == Spec => ResumeKeepsBattery
<1>1. SaveInv /\ [Next]_vars => [Resume => machine'.ram = machine.ram]_vars
  <2> SUFFICES ASSUME SaveInv, Resume PROVE machine'.ram = machine.ram OBVIOUS
  <2>1. PICK A : machine \in [at : A, ram : A, dirty : A, closing : A]
    BY DEF SaveInv, MachineShape
  <2> DEFINE state == Read("state")
  <2>2. /\ state # None
        /\ Classify(state.witness, CurrentWitness) = "Fresh"
        /\ machine' = [machine EXCEPT !.ram = state.ram, !.dirty = TRUE]
    BY DEF Resume
  <2>3. state.ram = state.witness.hash
    BY <2>2 DEF SaveInv, FileInv, StateWitnessed, Witnessed, Read
  <2>4. CurrentWitness # None /\ state.witness.hash = CurrentWitness.hash
    BY <2>2 DEF Classify
  <2>5. CurrentWitness.hash = machine.ram BY <2>4 DEF CurrentWitness
  <2>6. machine'.ram = state.ram BY <2>1, <2>2
  <2> QED BY <2>3, <2>4, <2>5, <2>6
<1> QED BY <1>1, SaveInvariant, PTL DEF Spec, ResumeKeepsBattery

-----------------------------------------------------------------------------
(* What a power failure leaves.                                            *)

\* The directories, that of the save among them, which is there from the start.
HostShape ==
    /\ host \in [unix : BOOLEAN, folders : [Folders -> {"absent", "new", "sure"}]]
    /\ \A d \in OnWay("primary") : host.folders[d] = "sure"

\* What a file may be left with covers what it holds, on unix also on disk.
Covered ==
    /\ \E K : kept \in [Paths -> K]
    /\ \A f \in Paths : files[f].now \in kept[f]
    /\ host.unix => \A f \in Paths : files[f].disk \in kept[f]

KeepInv == HostShape /\ Covered

\* The history is pruned.
PruneMove ==
    /\ \E now : \E disk \in {files["history"].disk, now} :
        /\ files' = [files EXCEPT !["history"] = [@ EXCEPT !.now = now, !.disk = disk]]
        /\ kept' = [kept EXCEPT !["history"] = @ \cup {now}]
    /\ UNCHANGED <<host, write>>

\* What any step does to the files.
LEMMA FileMoves ==
    ASSUME SaveInv, [Next]_vars
    PROVE  \/ UNCHANGED fileVars \/ Return \/ Fail \/ WriteStep \/ PruneMove
           \/ \E path \in Paths : \E value : Begin(path, value)
           \/ Crash
<1>1. CASE Start \/ Play \/ Resume \/ \E closing \in BOOLEAN : Flush(closing)
  BY <1>1 DEF Start, Play, Resume, Flush
<1>2. CASE PersistStart BY <1>2, PathsKnown DEF PersistStart, Begin
<1>3. CASE PersistStarted \/ PersistedHistory \/ PrimaryOk \/ PrimaryErr \/ Saved
  BY <1>3 DEF PersistStarted, PersistedHistory, PrimaryOk, PrimaryErr, Saved
<1>4. CASE PersistHistory BY <1>4, PathsKnown DEF PersistHistory
<1>5. CASE Prune
  <2>1. CASE UNCHANGED <<files, kept>> BY <1>5, <2>1 DEF Prune, fileVars
  <2>2. CASE /\ \E disk \in {files["history"].disk, Tail(Read("history"))} :
                files' = [files EXCEPT !["history"] =
                            [@ EXCEPT !.now = Tail(Read("history")), !.disk = disk]]
             /\ kept' = [kept EXCEPT !["history"] = @ \cup {Tail(Read("history"))}]
    BY <1>5, <2>2 DEF Prune, PruneMove
  <2> QED BY <1>5, <2>1, <2>2 DEF Prune
<1>6. CASE Drained \/ Unchanged BY <1>6 DEF Drained, Unchanged
<1>7. CASE WritePrimary BY <1>7, PathsKnown DEF WritePrimary
<1>8. CASE Generation
  BY <1>8, PathsKnown, Zenon DEF Generation, Committed, GenerationFails
<1>9. CASE Disk \/ DiskFails \/ Crash BY <1>9 DEF Disk, DiskFails
<1>10. CASE UNCHANGED vars BY <1>10 DEF vars, fileVars
<1> QED
  BY <1>1, <1>2, <1>3, <1>4, <1>5, <1>6, <1>7, <1>8, <1>9, <1>10 DEF Next

\* The directories on the way to the save are never new.
LEMMA HomeStays ==
    ASSUME HostShape
    PROVE  /\ OnWay("primary") \subseteq Folders
           /\ Founded("primary")
           /\ \A d \in OnWay("primary") : Above[d] \subseteq OnWay("primary")
<1>1. Holder["primary"] \in Folders BY FolderAssumption, PathsKnown
<1> QED BY <1>1, FolderAssumption DEF HostShape, Founded, OnWay

\* A step that keeps the build and leaves alone what is there.
LEMMA HostKeeps ==
    ASSUME HostShape, NEW F \in [Folders -> {"absent", "new", "sure"}],
           host' = [host EXCEPT !.folders = F],
           \A d \in OnWay("primary") : F[d] = "sure"
    PROVE  HostShape' /\ host'.unix = host.unix /\ host'.folders = F
BY DEF HostShape, OnWay

\* create_dir_all changes no directory that is there.
LEMMA MadeKeeps ==
    ASSUME HostShape, NEW d, host' = Made(d)
    PROVE  HostShape' /\ host'.unix = host.unix
<1> DEFINE F == [e \in Folders |->
                    IF e \in {d} \cup Above[d] /\ host.folders[e] = "absent" THEN "new"
                    ELSE host.folders[e]]
<1>1. host' = [host EXCEPT !.folders = F] BY DEF Made
<1>2. F \in [Folders -> {"absent", "new", "sure"}] BY DEF HostShape
<1>3. \A e \in OnWay("primary") : F[e] = "sure" BY HomeStays DEF HostShape
<1> HIDE DEF F
<1> QED BY <1>1, <1>2, <1>3, HostKeeps

\* A write that is begun.
LEMMA KeepBegin ==
    ASSUME KeepInv, NEW path, NEW value, Begin(path, value) PROVE KeepInv'
BY DEF KeepInv, HostShape, Covered, Begin

\* A failed step may have created directories and changes no file.
LEMMA KeepFail == ASSUME KeepInv, Fail PROVE KeepInv'
<1>1. HostShape' /\ host'.unix = host.unix BY MadeKeeps DEF KeepInv, Fail, HostShape
<1>2. files' = files /\ kept' = kept BY DEF Fail
<1> QED BY <1>1, <1>2 DEF KeepInv, Covered

\* Success is only taken for a content that is in place and, on unix, on disk.
LEMMA KeepReturn == ASSUME SaveInv, KeepInv, Return PROVE KeepInv'
<1>1. files' = files /\ host' = host BY DEF Return
<1>2. HostShape' BY <1>1 DEF KeepInv, HostShape
<1>3. CASE write.at = "ok"
  <2>1. PICK V : Shape(V) BY DEF SaveInv, FileInv
  <2>2. write.path \in Paths BY <1>3, <2>1, UnderWay
  <2>3. /\ files[write.path].now = write.value
        /\ host.unix => files[write.path].disk = write.value
    BY <1>3 DEF SaveInv, FileInv, WriteOrder
  <2>4. kept' = [kept EXCEPT ![write.path] = {write.value}] BY <1>3 DEF Return
  <2>5. PICK K : kept \in [Paths -> K] BY DEF KeepInv, Covered
  <2> DEFINE L == K \cup {{write.value}}
  <2>6. kept' \in [Paths -> L] BY <2>4, <2>5
  <2>7. \A f \in Paths : kept'[f] = IF f = write.path THEN {write.value} ELSE kept[f]
    BY <2>2, <2>4, <2>5
  <2> HIDE DEF L
  <2>8. /\ \A f \in Paths : files'[f].now \in kept'[f]
        /\ host'.unix => \A f \in Paths : files'[f].disk \in kept'[f]
    BY <1>1, <2>3, <2>7 DEF KeepInv, Covered
  <2>9. Covered' BY <2>6, <2>8 DEF Covered
  <2> QED BY <1>2, <2>9 DEF KeepInv
<1>4. CASE write.at # "ok"
  <2>1. kept' = kept BY <1>4 DEF Return
  <2> QED BY <1>1, <1>2, <2>1 DEF KeepInv, Covered
<1> QED BY <1>3, <1>4

\* The rename adds the new content; the sync of the directory makes it the one
\* on disk.
LEMMA KeepWrite == ASSUME SaveInv, KeepInv, WriteStep PROVE KeepInv'
<1>1. PICK V : Shape(V) BY DEF SaveInv, FileInv
<1>2. write.at # "idle" BY DEF WriteStep, Stage, SyncTemp, Replace, SyncParent
<1>3. write.path \in Paths BY <1>1, <1>2, UnderWay
<1>4. files \in [Paths -> [now : V, disk : V, torn : {FALSE}]] BY <1>1 DEF Shape
<1>5. PICK K : kept \in [Paths -> K] BY DEF KeepInv, Covered
<1>6. CASE Stage
  <2>1. HostShape' /\ host'.unix = host.unix BY <1>6, MadeKeeps DEF KeepInv, Stage
  <2>2. files' = files /\ kept' = kept BY <1>6 DEF Stage
  <2> QED BY <2>1, <2>2 DEF KeepInv, Covered
<1>7. CASE SyncTemp BY <1>7 DEF SyncTemp, KeepInv, HostShape, Covered
<1>8. CASE Replace
  <2>1. PICK disk \in {files[write.path].disk, write.value},
             torn \in {FALSE, ~write.synced} :
          files' = [files EXCEPT ![write.path] =
                        [now |-> write.value, disk |-> disk, torn |-> torn]]
    BY <1>8 DEF Replace
  <2>2. host' = host /\ kept' = [kept EXCEPT ![write.path] = @ \cup {write.value}]
    BY <1>8 DEF Replace
  <2> DEFINE L == K \cup {kept[write.path] \cup {write.value}}
  <2>3. kept' \in [Paths -> L] BY <1>5, <2>2
  <2>4. /\ kept'[write.path] = kept[write.path] \cup {write.value}
        /\ files'[write.path].now = write.value /\ files'[write.path].disk = disk
    BY <1>3, <1>4, <1>5, <2>1, <2>2
  <2>5. \A f \in Paths : f # write.path => kept'[f] = kept[f] /\ files'[f] = files[f]
    BY <1>4, <1>5, <2>1, <2>2
  <2> HIDE DEF L
  <2>6. /\ \A f \in Paths : files'[f].now \in kept'[f]
        /\ host'.unix => \A f \in Paths : files'[f].disk \in kept'[f]
    BY <2>1, <2>2, <2>4, <2>5 DEF KeepInv, Covered
  <2>7. Covered' BY <2>3, <2>6 DEF Covered
  <2> QED BY <2>2, <2>7 DEF KeepInv, HostShape
<1>9. CASE SyncParent
  <2>0. kept' = kept BY <1>9 DEF SyncParent
  <2>1. CASE host.unix
    <3> DEFINE F == [d \in Folders |->
                IF d \in Inside(Holder[write.path]) /\ host.folders[d] = "new" THEN "sure"
                ELSE host.folders[d]]
    <3>1. /\ host' = [host EXCEPT !.folders = F]
          /\ files' = [files EXCEPT ![write.path].disk = files[write.path].now]
      BY <1>9, <2>1 DEF SyncParent
    <3>2. F \in [Folders -> {"absent", "new", "sure"}] BY DEF KeepInv, HostShape
    <3>3. \A d \in OnWay("primary") : F[d] = "sure" BY HomeStays DEF KeepInv, HostShape
    <3> HIDE DEF F
    <3>4. HostShape' BY <3>1, <3>2, <3>3, HostKeeps DEF KeepInv
    <3>5. \A f \in Paths : /\ files'[f].now = files[f].now
                           /\ files'[f].disk \in {files[f].disk, files[f].now}
      BY <1>3, <1>4, <3>1
    <3> QED BY <2>0, <2>1, <3>4, <3>5 DEF KeepInv, Covered
  <2>2. CASE ~host.unix
    <3>1. host' = host /\ files' = [files EXCEPT ![write.path].torn = FALSE]
      BY <1>9, <2>2 DEF SyncParent
    <3>2. \A f \in Paths : files'[f].now = files[f].now BY <1>3, <1>4, <3>1
    <3> QED BY <2>0, <2>2, <3>1, <3>2 DEF KeepInv, HostShape, Covered
  <2> QED BY <2>1, <2>2
<1> QED BY <1>6, <1>7, <1>8, <1>9 DEF WriteStep

\* Pruning adds the history that is left.
LEMMA KeepPrune == ASSUME SaveInv, KeepInv, PruneMove PROVE KeepInv'
<1>1. PICK V : Shape(V) BY DEF SaveInv, FileInv
<1>2. files \in [Paths -> [now : V, disk : V, torn : {FALSE}]] BY <1>1 DEF Shape
<1>3. PICK K : kept \in [Paths -> K] BY DEF KeepInv, Covered
<1>4. PICK now : \E disk \in {files["history"].disk, now} :
        /\ files' = [files EXCEPT !["history"] = [@ EXCEPT !.now = now, !.disk = disk]]
        /\ kept' = [kept EXCEPT !["history"] = @ \cup {now}]
  BY DEF PruneMove
<1>5. PICK disk \in {files["history"].disk, now} :
        files' = [files EXCEPT !["history"] = [@ EXCEPT !.now = now, !.disk = disk]]
  BY <1>4
<1> DEFINE L == K \cup {kept["history"] \cup {now}}
<1>6. kept' \in [Paths -> L] BY <1>3, <1>4
<1>7. kept'["history"] = kept["history"] \cup {now} BY <1>3, <1>4, PathsKnown
<1>8. files["history"] \in [now : V, disk : V, torn : {FALSE}] BY <1>2, PathsKnown
<1>9. files'["history"].now = now /\ files'["history"].disk = disk
  BY <1>2, <1>5, <1>8, PathsKnown
<1>10. \A f \in Paths : f # "history" => kept'[f] = kept[f] /\ files'[f] = files[f]
  BY <1>2, <1>3, <1>4, <1>5
<1>11. host' = host BY DEF PruneMove
<1> HIDE DEF L
<1>12. /\ \A f \in Paths : files'[f].now \in kept'[f]
       /\ host'.unix => \A f \in Paths : files'[f].disk \in kept'[f]
  BY <1>5, <1>7, <1>9, <1>10, <1>11 DEF KeepInv, Covered
<1>13. Covered' BY <1>6, <1>12 DEF Covered
<1> QED BY <1>11, <1>13 DEF KeepInv, HostShape

\* What a power failure leaves a file with: a content it may be left with, or
\* nothing when it lay in a new directory.
LEMMA PowerKeeps ==
    ASSUME SaveInv, KeepInv, PowerFailure
    PROVE  /\ KeepInv'
           /\ host.unix => \A f \in Paths :
                \/ files'[f].now \in kept[f]
                \/ f # "primary" /\ ~Founded(f) /\ files'[f].now = Absent[f]
<1>1. PICK V : Shape(V) BY DEF SaveInv, FileInv
<1>2. files \in [Paths -> [now : V, disk : V, torn : {FALSE}]] BY <1>1 DEF Shape
<1>3. PICK gone \in SUBSET {d \in Folders : host.folders[d] = "new"} :
        LET lost == {d \in Folders : ({d} \cup Above[d]) \cap gone # {}}
        IN  /\ files' = [f \in Paths |->
                    IF Holder[f] \in lost THEN Settled(Absent[f])
                    ELSE [files[f] EXCEPT !.now = files[f].disk]]
            /\ host' = [host EXCEPT !.folders = [d \in Folders |->
                    IF d \in lost THEN "absent"
                    ELSE IF host.folders[d] = "new" THEN "sure" ELSE host.folders[d]]]
            /\ kept' = [f \in Paths |-> {files'[f].now}]
  BY DEF PowerFailure
<1> DEFINE lost == {d \in Folders : ({d} \cup Above[d]) \cap gone # {}}
           F == [d \in Folders |->
                    IF d \in lost THEN "absent"
                    ELSE IF host.folders[d] = "new" THEN "sure" ELSE host.folders[d]]
<1>4. /\ host' = [host EXCEPT !.folders = F]
      /\ kept' = [f \in Paths |-> {files'[f].now}]
      /\ \A f \in Paths : files'[f] = IF Holder[f] \in lost THEN Settled(Absent[f])
                                       ELSE [files[f] EXCEPT !.now = files[f].disk]
  BY <1>3
<1>5. \A d \in OnWay("primary") : d \in Folders /\ d \notin lost
  BY HomeStays DEF KeepInv, HostShape
<1>6. \A f \in Paths : Holder[f] \in lost => ~Founded(f)
  BY FolderAssumption DEF Founded, OnWay
<1>7. F \in [Folders -> {"absent", "new", "sure"}] BY DEF KeepInv, HostShape
<1>8. \A d \in OnWay("primary") : F[d] = "sure" BY <1>5 DEF KeepInv, HostShape
<1> HIDE DEF lost, F
<1>9. HostShape' /\ host'.unix = host.unix BY <1>4, <1>7, <1>8, HostKeeps DEF KeepInv
<1>10. ASSUME NEW f \in Paths
       PROVE  /\ files'[f].now = files'[f].disk
              /\ \/ files'[f].now = files[f].disk
                 \/ Holder[f] \in lost /\ files'[f].now = Absent[f]
  <2>1. files[f] \in [now : V, disk : V, torn : {FALSE}] BY <1>2
  <2>2. CASE Holder[f] \in lost
    <3>1. files'[f] = Settled(Absent[f]) BY <1>4, <2>2
    <3> QED BY <2>2, <3>1 DEF Settled
  <2>3. CASE Holder[f] \notin lost BY <1>4, <2>1, <2>3
  <2> QED BY <2>2, <2>3
<1>11. Covered'
  <2> DEFINE K == {{files'[f].now} : f \in Paths}
  <2>1. kept' \in [Paths -> K] BY <1>4
  <2>2. \A f \in Paths : files'[f].now \in kept'[f] /\ files'[f].disk \in kept'[f]
    BY <1>4, <1>10
  <2> QED BY <2>1, <2>2 DEF Covered
<1>12. ASSUME host.unix, NEW f \in Paths
       PROVE  \/ files'[f].now \in kept[f]
              \/ f # "primary" /\ ~Founded(f) /\ files'[f].now = Absent[f]
  <2>1. CASE files'[f].now = files[f].disk BY <1>12, <2>1 DEF KeepInv, Covered
  <2>2. CASE Holder[f] \in lost /\ files'[f].now = Absent[f]
    <3>1. ~Founded(f) BY <1>6, <2>2
    <3>2. f # "primary" BY <3>1, HomeStays DEF KeepInv
    <3> QED BY <2>2, <3>1, <3>2
  <2> QED BY <1>10, <2>1, <2>2
<1> QED BY <1>9, <1>11, <1>12 DEF KeepInv

\* KeepInv holds at first.
LEMMA KeepInit == Init => KeepInv
<1> SUFFICES ASSUME Init PROVE KeepInv OBVIOUS
<1> DEFINE F == [d \in Folders |-> IF d \in OnWay("primary") THEN "sure" ELSE "absent"]
<1>1. PICK unix \in BOOLEAN : host = [unix |-> unix, folders |-> F] BY DEF Init
<1>2. F \in [Folders -> {"absent", "new", "sure"}] OBVIOUS
<1>3. \A d \in OnWay("primary") : F[d] = "sure"
  BY FolderAssumption, PathsKnown DEF OnWay
<1> HIDE DEF F
<1>4. HostShape BY <1>1, <1>2, <1>3 DEF HostShape
<1>5. kept \in [Paths -> {{Absent[f]} : f \in Paths}] BY DEF Init
<1>6. \A f \in Paths : /\ files[f].now = Absent[f] /\ files[f].disk = Absent[f]
                       /\ kept[f] = {Absent[f]}
  BY DEF Init, Settled
<1>7. Covered BY <1>5, <1>6 DEF Covered
<1> QED BY <1>4, <1>7 DEF KeepInv

\* Every step is one of the above.
LEMMA KeepStep == ASSUME SaveInv, KeepInv, [Next]_vars PROVE KeepInv'
<1>1. CASE UNCHANGED fileVars BY <1>1 DEF KeepInv, HostShape, Covered, fileVars
<1>2. CASE Crash BY <1>2, PowerKeeps DEF Crash
<1> QED
  BY <1>1, <1>2, FileMoves, KeepBegin, KeepFail, KeepReturn, KeepWrite, KeepPrune

\* A power failure never takes a file back behind the last write of it that
\* reported success, where write_file_atomically syncs directories, and the
\* save itself is never lost: success is reported only after the sync of the
\* directory, and what is not synced by then is only a new directory's entry.
THEOREM SuccessKept == Spec => SuccessSurvives
<1>1. SaveInv /\ KeepInv /\ [Next]_vars => SaveInv' /\ KeepInv'
  BY SaveStep, KeepStep
<1>2. SaveInv /\ KeepInv /\ [Next]_vars =>
        [host.unix /\ Crash =>
            \A f \in Paths :
                \/ files'[f].now \in kept[f]
                \/ f # "primary" /\ ~Founded(f) /\ files'[f].now = Absent[f]]_vars
  BY PowerKeeps DEF Crash
<1> QED BY <1>1, <1>2, SaveInit, KeepInit, PTL DEF Spec, SuccessSurvives

-----------------------------------------------------------------------------
(* What the save store holds.  StoreType gives every file its content;     *)
(* LastKept says where the save replaced last is to be found while the     *)
(* history is brought up to date; Agreed follows the generation and the    *)
(* save through a flush to the recovery state that is written at its end.  *)

Records == [generation : Nat, hash : Data]
States == [witness : Records, ram : Data]

Content(f) ==
    CASE f = "primary"    -> Data \cup {None}
      [] f = "start"      -> Data \cup {None, "failed"}
      [] f = "history"    -> Seq(Data)
      [] f = "generation" -> Records \cup {None}
      [] f = "state"      -> States \cup {None}

Flushing == {"drain", "start", "history", "prune"}
Places == Flushing \cup {"down", "idle", "compare", "primary", "generation", "state"}

Sessions ==
    [initial : Data \cup {None, "failed"}, startWritten : BOOLEAN,
     pending : Seq(Data), previous : Data \cup {None}, drained : BOOLEAN,
     persisted : Records \cup {None}, unsure : BOOLEAN]

\* The thread writes the file it is at.
StoreType ==
    /\ \A f \in Paths : files[f].now \in Content(f) /\ files[f].disk \in Content(f)
    /\ write # Idle => write.path = machine.at /\ write.value \in Content(write.path)
    /\ machine \in [at : Places, ram : Data, dirty : BOOLEAN, closing : BOOLEAN]
    /\ session \in Sessions

\* While the oldest pending save is moved to the history it is in one of them.
LastKept ==
    /\ machine.at \in {"history", "prune"} => session.pending # <<>>
    /\ machine.at = "history" /\ write # Idle =>
            write.value # <<>> /\ Newest(write.value) = Head(session.pending)
    /\ machine.at = "prune" =>
            Read("history") # <<>> /\ Newest(Read("history")) = Head(session.pending)
    /\ HistoryKeepsLast

\* The generation in memory is that of the file, or the file may be ahead.
GenerationAgreed ==
    /\ machine.at = "generation" /\ write # Idle =>
            write.value = Reconcile(session.persisted, machine.ram)
    /\ machine.at # "down" /\ session.persisted # None /\ ~session.unsure =>
            \/ Read("generation") = session.persisted
            \/ /\ machine.at = "generation" /\ write # Idle
               /\ Read("generation") = write.value

\* Once the save has been written or found unchanged it holds the RAM.
PrimaryAgreed ==
    /\ machine.at \in {"generation", "state"} => Read("primary") = machine.ram
    /\ machine.at \in Flushing /\ session.drained => Read("primary") = machine.ram
    /\ machine.at = "primary" /\ write # Idle => write.value = machine.ram

\* The recovery state is written for what is then in the two files.
StateAgreed ==
    machine.at = "state" =>
        /\ machine.closing
        /\ session.persisted # None /\ session.persisted.hash = machine.ram
        /\ write # Idle =>
                write.value = [witness |-> session.persisted, ram |-> machine.ram]

\* What has been suspended is found again at the next start.
SuspendAgreed ==
    suspended =>
        /\ machine.at \in {"down", "idle"}
        /\ Read("generation") # None
        /\ Read("state").witness = Read("generation")
        /\ Read("state").ram = Read("generation").hash
        /\ Read("primary") = Read("generation").hash
        /\ machine.at = "idle" =>
                /\ session.persisted = Read("generation")
                /\ machine.ram = Read("generation").hash

Agreed == GenerationAgreed /\ PrimaryAgreed /\ StateAgreed /\ SuspendAgreed

StoreInv == SaveInv /\ StoreType /\ LastKept /\ Agreed

\* The paths, their contents, and that no two are the same.
LEMMA ContentFacts ==
    /\ Paths = {"primary", "start", "history", "generation", "state"}
    /\ Content("primary") = Data \cup {None}
    /\ Content("start") = Data \cup {None, "failed"}
    /\ Content("history") = Seq(Data)
    /\ Content("generation") = Records \cup {None}
    /\ Content("state") = States \cup {None}
BY StoreAssumption DEF Content

\* What the files hold, path by path.
LEMMA FileTypes ==
    ASSUME StoreType
    PROVE  /\ Read("primary") \in Data \cup {None}
           /\ Read("history") \in Seq(Data)
           /\ Read("generation") \in Records \cup {None}
           /\ Read("state") \in States \cup {None}
BY ContentFacts DEF StoreType, Read

\* What a step of the disk can change.
LEMMA DiskEffect ==
    ASSUME SaveInv, WriteStep
    PROVE  /\ write # Idle /\ write' # Idle /\ write.path \in Paths
           /\ write'.path = write.path /\ write'.value = write.value
           /\ \A f \in Paths : f # write.path => files'[f] = files[f]
           /\ files'[write.path].now \in {files[write.path].now, write.value}
           /\ files'[write.path].disk \in
                {files[write.path].disk, files[write.path].now, write.value}
<1>1. PICK V : Shape(V) BY DEF SaveInv, FileInv
<1>2. write.at # "idle" BY DEF WriteStep, Stage, SyncTemp, Replace, SyncParent
<1>3. /\ write \in [at : Steps, path : Paths, value : V, synced : BOOLEAN]
      /\ write # Idle
  BY <1>1, <1>2, UnderWay
<1>4. files \in [Paths -> [now : V, disk : V, torn : {FALSE}]] BY <1>1 DEF Shape
<1>5. write.path \in Paths BY <1>3
<1>6. CASE Stage \/ SyncTemp
  <2>1. /\ files' = files /\ write'.at \in {"sync", "replace"}
        /\ write'.path = write.path /\ write'.value = write.value
    BY <1>3, <1>6 DEF Stage, SyncTemp
  <2> QED BY <1>3, <1>5, <2>1, IdleAt
<1>7. CASE Replace
  <2>1. /\ write'.at = "sync parent"
        /\ write'.path = write.path /\ write'.value = write.value
    BY <1>3, <1>7 DEF Replace
  <2>2. PICK disk \in {files[write.path].disk, write.value},
             torn \in {FALSE, ~write.synced} :
          files' = [files EXCEPT ![write.path] =
                        [now |-> write.value, disk |-> disk, torn |-> torn]]
    BY <1>7 DEF Replace
  <2>3. /\ files'[write.path].now = write.value /\ files'[write.path].disk = disk
        /\ \A f \in Paths : f # write.path => files'[f] = files[f]
    BY <1>4, <1>5, <2>2
  <2> QED BY <1>3, <1>5, <2>1, <2>3, IdleAt
<1>8. CASE SyncParent
  <2>1. /\ write'.at = "ok"
        /\ write'.path = write.path /\ write'.value = write.value
    BY <1>3, <1>8 DEF SyncParent
  <2>2. \/ files' = [files EXCEPT ![write.path].disk = files[write.path].now]
        \/ files' = [files EXCEPT ![write.path].torn = FALSE]
    BY <1>8 DEF SyncParent
  <2>3. /\ files'[write.path].now = files[write.path].now
        /\ files'[write.path].disk \in {files[write.path].now, files[write.path].disk}
        /\ \A f \in Paths : f # write.path => files'[f] = files[f]
    BY <1>4, <1>5, <2>2
  <2> QED BY <1>3, <1>5, <2>1, <2>3, IdleAt
<1> QED BY <1>6, <1>7, <1>8 DEF WriteStep

\* A step that fails changes no file and still writes the same.
LEMMA FailEffect ==
    ASSUME SaveInv, Fail
    PROVE  /\ write # Idle /\ write' # Idle /\ files' = files
           /\ write'.path = write.path /\ write'.value = write.value
<1>1. PICK V : Shape(V) BY DEF SaveInv, FileInv
<1>2. /\ write \in [at : Steps, path : Paths, value : V, synced : BOOLEAN]
      /\ write # Idle
  BY <1>1, UnderWay DEF Fail
<1>3. /\ files' = files /\ write'.at = "err"
      /\ write'.path = write.path /\ write'.value = write.value
  BY <1>2 DEF Fail
<1> QED BY <1>2, <1>3, IdleAt

\* A write that is begun.
LEMMA BeginEffect ==
    ASSUME NEW path, NEW value, Begin(path, value)
    PROVE  /\ files' = files /\ write = Idle /\ write' # Idle
           /\ write'.path = path /\ write'.value = value
<1>1. /\ write' = [at |-> "stage", path |-> path, value |-> value, synced |-> FALSE]
      /\ files' = files /\ write = Idle
  BY DEF Begin
<1> QED BY <1>1, IdleAt

\* After a power failure.
LEMMA PowerEffect ==
    ASSUME SaveInv, PowerFailure
    PROVE  /\ write' = Idle
           /\ \A f \in Paths : /\ files'[f].now \in {files[f].disk, Absent[f]}
                               /\ files'[f].disk = files'[f].now
<1>1. PICK V : Shape(V) BY DEF SaveInv, FileInv
<1> QED BY <1>1, PowerLeaves DEF PowerFailure

\* A missing file is read as a content of its kind.
LEMMA AbsentContent == \A f \in Paths : Absent[f] \in Content(f)
<1> SUFFICES ASSUME NEW f \in Paths PROVE Absent[f] \in Content(f) OBVIOUS
<1>1. Absent[f] = IF f = "history" THEN <<>> ELSE None BY StoreAssumption
<1>2. <<>> \in Seq(Data) OBVIOUS
<1> QED BY <1>1, <1>2, StoreAssumption DEF Content

\* Pruning takes the oldest entry of the history.
LEMMA PruneEffect ==
    ASSUME SaveInv, NEW now, NEW disk,
           files' = [files EXCEPT !["history"] = [@ EXCEPT !.now = now, !.disk = disk]]
    PROVE  /\ files'["history"].now = now /\ files'["history"].disk = disk
           /\ \A f \in Paths : f # "history" => files'[f] = files[f]
<1>1. PICK V : Shape(V) BY DEF SaveInv, FileInv
<1>2. files \in [Paths -> [now : V, disk : V, torn : {FALSE}]] BY <1>1 DEF Shape
<1>3. files["history"] \in [now : V, disk : V, torn : {FALSE}] BY <1>2, PathsKnown
<1> QED BY <1>2, <1>3, PathsKnown

\* The tail of a sequence keeps its newest entry, if any is left.
LEMMA TailNewest ==
    ASSUME NEW S, NEW s \in Seq(S), s # <<>>
    PROVE  /\ Tail(s) \in Seq(S)
           /\ Tail(s) # <<>> => Newest(Tail(s)) = Newest(s)
           /\ Tail(s) = <<>> => Newest(s) = Head(s)
           /\ Len(s) > 1 => Tail(s) # <<>>
BY DEF Newest

\* An entry that is appended is the newest.
LEMMA AppendNewest ==
    ASSUME NEW S, NEW s \in Seq(S), NEW x \in S
    PROVE  /\ Append(s, x) \in Seq(S) /\ Append(s, x) # <<>>
           /\ Newest(Append(s, x)) = x
BY DEF Newest

\* push_pending keeps the save that was replaced as the newest pending one.
LEMMA PushedNewest ==
    ASSUME NEW pending \in Seq(Data), NEW previous \in Data \cup {None}
    PROVE  /\ Pushed(pending, previous) \in Seq(Data)
           /\ previous # None =>
                /\ Pushed(pending, previous) # <<>>
                /\ Newest(Pushed(pending, previous)) = previous
<1>1. CASE previous = None \/ (pending # <<>> /\ Newest(pending) = previous)
  <2>1. Pushed(pending, previous) = pending BY <1>1 DEF Pushed
  <2> QED BY <1>1, <2>1
<1>2. CASE ~(previous = None \/ (pending # <<>> /\ Newest(pending) = previous))
  <2> DEFINE rest == IF Len(pending) = MAX_PENDING_HISTORY THEN Tail(pending) ELSE pending
  <2>1. rest \in Seq(Data)
    <3>1. CASE Len(pending) = MAX_PENDING_HISTORY
      <4>1. pending # <<>> BY <3>1, StoreAssumption
      <4> QED BY <3>1, <4>1
    <3> QED BY <3>1
  <2>2. Pushed(pending, previous) = Append(rest, previous) BY <1>2 DEF Pushed
  <2> HIDE DEF rest
  <2> QED BY <1>2, <2>1, <2>2, AppendNewest
<1> QED BY <1>1, <1>2

Machines == [at : Places, ram : Data, dirty : BOOLEAN, closing : BOOLEAN]

\* The process that is not running.
LEMMA OffType == Off \in Machines /\ Off.at = "down" /\ NoSession \in Sessions
<1>1. Off \in Machines /\ Off.at = "down" BY StoreAssumption DEF Off, Machines, Places
<1>2. NoSession \in Sessions BY DEF NoSession, Sessions
<1> QED BY <1>1, <1>2

\* To and Ended move the thread and keep the RAM.
LEMMA MoveTo ==
    ASSUME machine \in Machines, NEW place \in Places, To(place)
    PROVE  /\ machine' \in Machines /\ machine'.at = place
           /\ machine'.ram = machine.ram /\ machine'.closing = machine.closing
BY DEF To, Machines

\* The end of a flush.
LEMMA MoveEnded ==
    ASSUME machine \in Machines, NEW ok \in BOOLEAN, Ended(ok)
    PROVE  /\ machine' \in Machines
           /\ machine'.at = IF machine.closing THEN "down" ELSE "idle"
           /\ machine'.ram = machine.ram /\ machine'.closing = machine.closing
<1> DEFINE place == IF machine.closing THEN "down" ELSE "idle"
           dirty == machine.dirty /\ ~ok
<1>1. machine' = [machine EXCEPT !.at = place, !.dirty = dirty] BY DEF Ended
<1>2. place \in Places BY DEF Places
<1>3. dirty \in BOOLEAN OBVIOUS
<1> HIDE DEF place, dirty
<1>4. machine' \in Machines /\ machine'.at = place
      /\ machine'.ram = machine.ram /\ machine'.closing = machine.closing
  BY <1>1, <1>2, <1>3 DEF Machines
<1> QED BY <1>4 DEF place

\* The record of the current battery generation.
LEMMA ReconcileType ==
    ASSUME NEW p \in Records \cup {None}, NEW hash \in Data
    PROVE  Reconcile(p, hash) \in Records /\ Reconcile(p, hash) # None
<1>1. Reconcile(p, hash) \in Records BY DEF Reconcile, Records
<1> QED BY <1>1, StoreAssumption DEF Records

\* The parts of StoreType that a step without the disk must keep.
LEMMA TypeKept ==
    ASSUME StoreType, files' = files, machine' \in Machines, session' \in Sessions,
           write' # Idle =>
                write'.path = machine'.at /\ write'.value \in Content(write'.path)
    PROVE  StoreType'
BY DEF StoreType, Machines

\* Every action gives every file a content of its kind.
LEMMA TypeStep == ASSUME StoreInv, [Next]_vars PROVE StoreType'
<1> USE DEF Flushing
<1>0. /\ SaveInv /\ StoreType /\ machine \in Machines /\ session \in Sessions
      /\ Link
  BY DEF StoreInv, StoreType, SaveInv, Machines
<1>p. \A f \in {"start", "history", "primary", "generation", "state"} : f \in Paths
  BY PathsKnown
<1>f. /\ Read("primary") \in Data \cup {None} /\ Read("history") \in Seq(Data)
      /\ Read("generation") \in Records \cup {None} /\ Read("state") \in States \cup {None}
  BY <1>0, FileTypes
<1>1. CASE Start
  <2>1. PICK initial \in {Read("primary"), "failed"},
             persisted \in {Read("generation"), None} :
          /\ session' = [initial |-> initial, startWritten |-> FALSE, pending |-> <<>>,
                       previous |-> None, drained |-> FALSE, persisted |-> persisted,
                       unsure |-> FALSE]
          /\ machine' = [at |-> "idle", dirty |-> FALSE, closing |-> FALSE,
                       ram |-> IF initial \in Data THEN initial ELSE Blank]
    BY <1>1 DEF Start
  <2>2. session' \in Sessions BY <1>f, <2>1 DEF Sessions
  <2> DEFINE ram == IF initial \in Data THEN initial ELSE Blank
  <2>3. ram \in Data BY StoreAssumption
  <2> HIDE DEF ram
  <2>4. machine' \in Machines BY <2>1, <2>3 DEF Machines, Places, ram
  <2>5. write = Idle /\ write' = write /\ files' = files
    BY <1>0, <1>1, NotBusy DEF Start, Busy, fileVars
  <2> QED BY <1>0, <2>2, <2>4, <2>5, TypeKept
<1>2. CASE Play
  <2>1. PICK ram \in Data : machine' = [machine EXCEPT !.ram = ram, !.dirty = TRUE]
    BY <1>2 DEF Play
  <2>2. machine' \in Machines BY <1>0, <2>1 DEF Machines
  <2>5. write = Idle /\ write' = write /\ files' = files /\ session' = session
    BY <1>0, <1>2, NotBusy DEF Play, Busy, fileVars
  <2> QED BY <1>0, <2>2, <2>5, TypeKept
<1>3. CASE Resume
  <2> DEFINE ram == Read("state").ram
  <2>1. machine' = [machine EXCEPT !.ram = ram, !.dirty = TRUE] BY <1>3 DEF Resume
  <2>2. ram \in Data BY <1>3, <1>f DEF Resume, States
  <2> HIDE DEF ram
  <2>3. machine' \in Machines BY <1>0, <2>1, <2>2 DEF Machines
  <2>5. write = Idle /\ write' = write /\ files' = files /\ session' = session
    BY <1>0, <1>3, NotBusy DEF Resume, Busy, fileVars
  <2> QED BY <1>0, <2>3, <2>5, TypeKept
<1>4. ASSUME NEW closing \in BOOLEAN, Flush(closing) PROVE StoreType'
  <2> DEFINE place == IF closing THEN "down" ELSE "idle"
  <2>0. place \in Places BY DEF Places
  <2>1. \/ machine' = [machine EXCEPT !.at = "drain", !.closing = closing]
        \/ machine' = [machine EXCEPT !.at = place]
    BY <1>4 DEF Flush
  <2> HIDE DEF place
  <2>2. machine' \in Machines BY <1>0, <2>0, <2>1 DEF Machines, Places
  <2>3. session' \in Sessions BY <1>0, <1>4 DEF Flush, Sessions
  <2>5. write = Idle /\ write' = write /\ files' = files
    BY <1>0, <1>4, NotBusy DEF Flush, Busy, fileVars
  <2> QED BY <1>0, <2>2, <2>3, <2>5, TypeKept
<1>5. CASE PersistStart
  <2>1. CASE session.initial = None
    <3>1. write = Idle BY <1>0, <1>5, NotBusy DEF PersistStart, Busy
    <3>2. session' \in Sessions BY <1>0, <1>5, <2>1 DEF PersistStart, Sessions
    <3> QED BY <1>0, <1>5, <2>1, <3>1, <3>2, TypeKept DEF PersistStart, fileVars
  <2>2. CASE session.initial # None
    <3>1. Begin("start", session.initial) /\ To("start") /\ session' = session
      BY <1>5, <2>2 DEF PersistStart
    <3>2. session.initial \in Content("start") BY <1>0, ContentFacts DEF Sessions
    <3>3. machine' \in Machines /\ machine'.at = "start"
      BY <1>0, <3>1, MoveTo DEF Places
    <3>4. files' = files /\ write'.path = "start" /\ write'.value = session.initial
      BY <3>1, BeginEffect
    <3> QED BY <1>0, <3>1, <3>2, <3>3, <3>4, TypeKept
  <2> QED BY <2>1, <2>2
<1>6. CASE PersistStarted \/ PersistedHistory
  <2>1. Return /\ \E place \in Places : To(place)
    BY <1>6 DEF PersistStarted, PersistedHistory, GiveUp, Places
  <2>2. session' = session \/ session' = [session EXCEPT !.startWritten = TRUE]
    BY <1>6 DEF PersistStarted, PersistedHistory, GiveUp
  <2>3. session' \in Sessions BY <1>0, <2>2 DEF Sessions
  <2>4. machine' \in Machines BY <1>0, <2>1, MoveTo
  <2> QED BY <1>0, <2>1, <2>3, <2>4, TypeKept DEF Return
<1>7. CASE PersistHistory
  <2>1. CASE Duplicate
    <3>1. To("prune") /\ files' = files /\ write' = write /\ session' = session
      BY <1>7, <2>1 DEF PersistHistory, fileVars
    <3>2. machine' \in Machines BY <1>0, <3>1, MoveTo DEF Places
    <3>3. write = Idle BY <1>0, <1>7, NotBusy DEF PersistHistory, Busy
    <3> QED BY <1>0, <3>1, <3>2, <3>3, TypeKept
  <2>2. CASE ~Duplicate
    <3> DEFINE value == Append(Read("history"), Head(session.pending))
    <3>1. Begin("history", value) /\ To("history") /\ session' = session
      BY <1>7, <2>2 DEF PersistHistory
    <3>2. value \in Seq(Data)
      <4>1. session.pending \in Seq(Data) BY <1>0 DEF Sessions
      <4>2. session.pending # <<>> BY <1>7 DEF PersistHistory
      <4> QED BY <1>f, <4>1, <4>2
    <3> HIDE DEF value
    <3>3. machine' \in Machines /\ machine'.at = "history"
      BY <1>0, <3>1, MoveTo DEF Places
    <3>4. files' = files /\ write'.path = "history" /\ write'.value = value
      BY <3>1, BeginEffect
    <3> QED BY <1>0, <3>1, <3>2, <3>3, <3>4, TypeKept, ContentFacts
  <2> QED BY <2>1, <2>2
<1>9. CASE Prune
  <2>0. machine.at = "prune" /\ write' = write BY <1>9 DEF Prune
  <2>1. write = Idle BY <1>0, <2>0, NotBusy DEF Busy
  <2>2. CASE files' = files
    <3>1. \E place \in Places : To(place)
      <4>1. CASE Len(Read("history")) > MAX_HISTORY /\ GiveUp
        BY <4>1 DEF GiveUp, Places
      <4>2. CASE To("drain") BY <4>2 DEF Places
      <4>3. CASE /\ UNCHANGED machine
        BY <1>0, <4>3 DEF To, Machines
      <4> QED BY <1>9, <4>1, <4>2, <4>3 DEF Prune
    <3>2. \/ session' = session
          \/ /\ session' = [session EXCEPT !.pending = Tail(@)]
             /\ session.pending # <<>>
      BY <1>9, <2>0 DEF Prune, GiveUp, StoreInv, LastKept
    <3>3. session' \in Sessions BY <1>0, <3>2 DEF Sessions
    <3>4. machine' \in Machines BY <1>0, <3>1, MoveTo
    <3> QED BY <1>0, <2>0, <2>1, <2>2, <3>3, <3>4, TypeKept
  <2>3. CASE /\ Len(Read("history")) > MAX_HISTORY
             /\ \E disk \in {files["history"].disk, Tail(Read("history"))} :
                    files' = [files EXCEPT !["history"] =
                                [@ EXCEPT !.now = Tail(Read("history")), !.disk = disk]]
             /\ UNCHANGED <<machine, session>>
    <3>1. PICK disk \in {files["history"].disk, Tail(Read("history"))} :
            files' = [files EXCEPT !["history"] =
                        [@ EXCEPT !.now = Tail(Read("history")), !.disk = disk]]
      BY <2>3
    <3>2. Tail(Read("history")) \in Seq(Data) BY <1>f, <2>3, StoreAssumption
    <3>3. files["history"].disk \in Seq(Data) BY <1>0, <1>p, ContentFacts DEF StoreType
    <3>4. /\ files'["history"].now \in Seq(Data) /\ files'["history"].disk \in Seq(Data)
          /\ \A f \in Paths : f # "history" => files'[f] = files[f]
      BY <1>0, <3>1, <3>2, <3>3, PruneEffect
    <3>5. \A f \in Paths : files'[f].now \in Content(f) /\ files'[f].disk \in Content(f)
      BY <1>0, <3>4, ContentFacts DEF StoreType
    <3> QED BY <1>0, <2>0, <2>1, <2>3, <3>5 DEF StoreType
  <2> QED BY <1>9, <2>2, <2>3 DEF Prune
<1>10. CASE Drained \/ Unchanged
  <2>1. \E place \in Places : To(place) BY <1>10 DEF Drained, Unchanged, Places
  <2>2. machine' \in Machines BY <1>0, <2>1, MoveTo
  <2>3. write = Idle /\ write' = write /\ files' = files /\ session' = session
    BY <1>0, <1>10, NotBusy DEF Drained, Unchanged, Busy, fileVars
  <2> QED BY <1>0, <2>2, <2>3, TypeKept
<1>12. CASE WritePrimary
  <2>1. /\ Begin("primary", machine.ram) /\ To("primary")
        /\ session' = [session EXCEPT !.previous = Read("primary")]
    BY <1>12 DEF WritePrimary
  <2>2. session' \in Sessions BY <1>0, <1>f, <2>1 DEF Sessions
  <2>3. machine' \in Machines /\ machine'.at = "primary" BY <1>0, <2>1, MoveTo DEF Places
  <2>4. files' = files /\ write'.path = "primary" /\ write'.value = machine.ram
    BY <2>1, BeginEffect
  <2>5. machine.ram \in Content("primary") BY <1>0, ContentFacts DEF Machines
  <2> QED BY <1>0, <2>2, <2>3, <2>4, <2>5, TypeKept
<1>13. CASE PrimaryOk \/ PrimaryErr
  <2>1. Return BY <1>13 DEF PrimaryOk, PrimaryErr
  <2>2. machine' \in Machines
    <3>1. CASE PrimaryOk
      <4>1. \E place \in Places : To(place) BY <3>1 DEF PrimaryOk, Places
      <4> QED BY <1>0, <4>1, MoveTo
    <3>2. CASE PrimaryErr
      <4>1. Ended(FALSE) BY <3>2 DEF PrimaryErr
      <4> QED BY <1>0, <4>1, MoveEnded
    <3> QED BY <1>13, <3>1, <3>2
  <2>3. session' \in Sessions
    <3>1. CASE session' = session BY <1>0, <3>1
    <3>2. CASE Published
      <4> DEFINE P == Pushed(session.pending, session.previous)
      <4>1. P \in Seq(Data) BY <1>0, PushedNewest DEF Sessions
      <4>2. session' = [session EXCEPT !.pending = P, !.previous = None, !.drained = TRUE]
        BY <3>2 DEF Published
      <4> HIDE DEF P
      <4> QED BY <1>0, <4>1, <4>2 DEF Sessions
    <3> QED BY <1>13, <3>1, <3>2 DEF PrimaryOk, PrimaryErr
  <2> QED BY <1>0, <2>1, <2>2, <2>3, TypeKept DEF Return
<1>15. CASE Generation
  <2> DEFINE record == Reconcile(session.persisted, machine.ram)
  <2>0. record \in Records BY <1>0, ReconcileType DEF Sessions, Machines
  <2>a. machine.at = "generation" BY <1>15 DEF Generation
  <2> HIDE DEF record
  <2>1. CASE write = Idle /\ Committed(record)
    <3>0. session' = [session EXCEPT !.persisted = record] BY <2>1 DEF Committed
    <3>1. session' \in Sessions BY <1>0, <2>0, <3>0 DEF Sessions
    <3>2. CASE machine.closing
      <4> DEFINE value == [witness |-> record, ram |-> machine.ram]
      <4>1. To("state") /\ Begin("state", value) BY <2>1, <3>2 DEF Committed
      <4>2. value \in Content("state")
        BY <1>0, <2>0, ContentFacts DEF States, Machines
      <4> HIDE DEF value
      <4>3. machine' \in Machines /\ machine'.at = "state"
        BY <1>0, <4>1, MoveTo DEF Places
      <4>4. files' = files /\ write'.path = "state" /\ write'.value = value
        BY <4>1, BeginEffect
      <4> QED BY <1>0, <3>1, <4>2, <4>3, <4>4, TypeKept
    <3>3. CASE ~machine.closing
      <4>1. Ended(TRUE) /\ write' = Idle /\ files' = files
        BY <2>1, <3>3 DEF Committed, fileVars
      <4>2. machine' \in Machines BY <1>0, <4>1, MoveEnded
      <4> QED BY <1>0, <3>1, <4>1, <4>2, TypeKept
    <3> QED BY <3>2, <3>3
  <2>2. CASE Begin("generation", record) /\ UNCHANGED <<machine, session>>
    <3>1. files' = files /\ write'.path = "generation" /\ write'.value = record
      BY <2>2, BeginEffect
    <3> QED BY <1>0, <2>0, <2>a, <2>2, <3>1, TypeKept, ContentFacts
  <2>3. CASE /\ Return /\ UNCHANGED machine
             /\ session' = [session EXCEPT !.persisted = record, !.unsure = FALSE]
    <3>1. session' \in Sessions BY <1>0, <2>0, <2>3 DEF Sessions
    <3> QED BY <1>0, <2>3, <3>1, TypeKept DEF Return
  <2>4. CASE GenerationFails(record)
    <3> DEFINE u == session.unsure \/ Read("generation") = record
    <3>1. Return /\ Ended(FALSE) /\ session' = [session EXCEPT !.unsure = u]
      BY <2>4 DEF GenerationFails
    <3>2. u \in BOOLEAN BY <1>0 DEF Sessions
    <3> HIDE DEF u
    <3>3. session' \in Sessions BY <1>0, <3>1, <3>2 DEF Sessions
    <3>4. machine' \in Machines BY <1>0, <3>1, MoveEnded
    <3> QED BY <1>0, <3>1, <3>3, <3>4, TypeKept DEF Return
  <2> QED BY <1>15, <2>1, <2>2, <2>3, <2>4 DEF Generation, record
<1>16. CASE Saved
  <2>1. Return /\ Ended(TRUE) /\ session' = session BY <1>16 DEF Saved
  <2>2. machine' \in Machines BY <1>0, <2>1, MoveEnded
  <2> QED BY <1>0, <2>1, <2>2, TypeKept DEF Return
<1>17. CASE Disk
  <2>1. WriteStep /\ UNCHANGED <<machine, session>> BY <1>17 DEF Disk
  <2>2. /\ write # Idle /\ write' # Idle /\ write.path \in Paths
        /\ write'.path = write.path /\ write'.value = write.value
        /\ \A f \in Paths : f # write.path => files'[f] = files[f]
        /\ files'[write.path].now \in {files[write.path].now, write.value}
        /\ files'[write.path].disk \in
                {files[write.path].disk, files[write.path].now, write.value}
    BY <1>0, <2>1, DiskEffect
  <2>3. \A f \in Paths : files'[f].now \in Content(f) /\ files'[f].disk \in Content(f)
    BY <1>0, <2>2 DEF StoreType
  <2> QED BY <1>0, <2>1, <2>2, <2>3 DEF StoreType
<1>18. CASE DiskFails
  <2>1. Fail /\ UNCHANGED <<machine, session>> BY <1>18 DEF DiskFails
  <2>2. /\ write # Idle /\ files' = files
        /\ write'.path = write.path /\ write'.value = write.value
    BY <1>0, <2>1, FailEffect
  <2> QED BY <1>0, <2>1, <2>2 DEF StoreType
<1>19. CASE Crash
  <2>1. PowerFailure /\ machine' = Off /\ session' = NoSession BY <1>19 DEF Crash
  <2>2. machine' \in Machines BY <2>1, OffType
  <2>3. session' \in Sessions BY <2>1, OffType
  <2>4. /\ write' = Idle
        /\ \A f \in Paths : /\ files'[f].now \in {files[f].disk, Absent[f]}
                            /\ files'[f].disk = files'[f].now
    BY <1>0, <2>1, PowerEffect
  <2>5. \A f \in Paths : files'[f].now \in Content(f) /\ files'[f].disk \in Content(f)
    BY <1>0, <2>4, AbsentContent DEF StoreType
  <2> QED BY <2>2, <2>3, <2>4, <2>5 DEF StoreType, Machines
<1>20. CASE UNCHANGED vars
  BY <1>0, <1>20 DEF StoreType, vars
<1> QED
  BY <1>1, <1>2, <1>3, <1>4, <1>5, <1>6, <1>7, <1>9, <1>10, <1>12,
     <1>13, <1>15, <1>16, <1>17, <1>18, <1>19, <1>20 DEF Next

-----------------------------------------------------------------------------
(* The save replaced last.                                                 *)

\* Steps that touch neither the pending saves nor the history.
LEMMA LastKeptQuiet ==
    ASSUME LastKept, files'["history"] = files["history"],
           session'.pending = session.pending, replaced' = replaced,
           machine'.at \notin {"history", "prune"}
    PROVE  LastKept'
BY DEF LastKept, HistoryKeepsLast, Read

\* Steps after which this process has replaced nothing.
LEMMA LastKeptNone ==
    ASSUME replaced' = None, machine'.at \notin {"history", "prune"}
    PROVE  LastKept'
BY DEF LastKept, HistoryKeepsLast

\* Every action keeps the save replaced last where it can be found.
LEMMA LastStep == ASSUME StoreInv, [Next]_vars, StoreType' PROVE LastKept'
<1> USE DEF Flushing
<1>0. /\ SaveInv /\ StoreType /\ machine \in Machines /\ session \in Sessions
      /\ Link /\ LastKept /\ HistoryKeepsLast
  BY DEF StoreInv, StoreType, SaveInv, Machines, LastKept
<1>p. \A f \in {"start", "history", "primary", "generation", "state"} : f \in Paths
  BY PathsKnown
<1>f. /\ Read("primary") \in Data \cup {None} /\ Read("history") \in Seq(Data)
      /\ Read("generation") \in Records \cup {None} /\ Read("state") \in States \cup {None}
      /\ session.pending \in Seq(Data)
      /\ Read("history")' \in Seq(Data) /\ session'.pending \in Seq(Data)
  <2>1. Read("history")' \in Seq(Data) BY <1>p, ContentFacts DEF StoreType, Read
  <2>2. session' \in Sessions BY DEF StoreType
  <2> QED BY <1>0, <2>1, <2>2, FileTypes DEF Sessions
<1>1. CASE Start BY <1>1, LastKeptNone DEF Start
<1>2. CASE Play
  <2>1. machine'.at = "idle" BY <1>0, <1>2 DEF Play, Machines
  <2> QED BY <1>0, <1>2, <2>1, LastKeptQuiet DEF Play, fileVars
<1>3. CASE Resume
  <2>1. machine'.at = "idle" BY <1>0, <1>3 DEF Resume, Machines
  <2> QED BY <1>0, <1>3, <2>1, LastKeptQuiet DEF Resume, fileVars
<1>4. ASSUME NEW closing \in BOOLEAN, Flush(closing) PROVE LastKept'
  <2>1. machine'.at \in {"drain", "down", "idle"} BY <1>0, <1>4 DEF Flush, Machines
  <2>2. session'.pending = session.pending BY <1>0, <1>4 DEF Flush, Sessions
  <2> QED BY <1>0, <1>4, <2>1, <2>2, LastKeptQuiet DEF Flush, fileVars
<1>5. CASE PersistStart
  <2>1. files' = files /\ replaced' = replaced BY <1>5 DEF PersistStart, Begin, fileVars
  <2>2. session'.pending = session.pending BY <1>0, <1>5 DEF PersistStart, Sessions
  <2>3. machine'.at \in {"drain", "start"}
    BY <1>0, <1>5 DEF PersistStart, To, Machines
  <2> QED BY <1>0, <2>1, <2>2, <2>3, LastKeptQuiet
<1>6. CASE PersistStarted
  <2>1. files' = files /\ replaced' = replaced BY <1>6 DEF PersistStarted, Return
  <2>2. session'.pending = session.pending
    BY <1>0, <1>6 DEF PersistStarted, GiveUp, Sessions
  <2>3. machine'.at \in {"drain", "generation", "compare"}
    BY <1>0, <1>6 DEF PersistStarted, GiveUp, To, Machines
  <2> QED BY <1>0, <2>1, <2>2, <2>3, LastKeptQuiet
<1>7. CASE PersistHistory
  <2>0. session' = session /\ replaced' = replaced /\ session.pending # <<>>
    BY <1>7 DEF PersistHistory
  <2>1. CASE Duplicate
    <3>1. To("prune") /\ files' = files BY <1>7, <2>1 DEF PersistHistory, fileVars
    <3>2. machine'.at = "prune" BY <1>0, <3>1, MoveTo DEF Places
    <3> QED BY <1>0, <2>0, <2>1, <3>1, <3>2 DEF LastKept, Duplicate, HistoryKeepsLast, Read
  <2>2. CASE ~Duplicate
    <3> DEFINE x == Head(session.pending)
               value == Append(Read("history"), x)
    <3>1. Begin("history", value) /\ To("history") BY <1>7, <2>2 DEF PersistHistory
    <3>2. x \in Data BY <1>f, <2>0
    <3> HIDE DEF x
    <3>3. value # <<>> /\ Newest(value) = x BY <1>f, <3>2, AppendNewest
    <3> HIDE DEF value
    <3>4. machine'.at = "history" BY <1>0, <3>1, MoveTo DEF Places
    <3>5. files' = files /\ write'.value = value BY <3>1, BeginEffect
    <3>6. HistoryKeepsLast' BY <1>0, <2>0, <3>5 DEF HistoryKeepsLast, Read
    <3> QED BY <2>0, <3>3, <3>4, <3>5, <3>6 DEF LastKept, x
  <2> QED BY <2>1, <2>2
<1>8. CASE PersistedHistory
  <2>0. /\ machine.at = "history" /\ files' = files /\ replaced' = replaced
        /\ session' = session /\ session.pending # <<>>
    BY <1>0, <1>8 DEF PersistedHistory, Return, GiveUp, LastKept
  <2>1. CASE write.at = "ok"
    <3>1. write # Idle BY <2>1, IdleAt
    <3>2. write.path = "history" BY <1>0, <2>0, <3>1 DEF StoreType
    <3>3. Read("history") = write.value
      BY <1>0, <2>1, <3>2 DEF SaveInv, FileInv, WriteOrder, Read
    <3>4. machine'.at = "prune" BY <1>0, <1>8, <2>1, MoveTo DEF PersistedHistory, Places
    <3> QED BY <1>0, <2>0, <3>1, <3>3, <3>4 DEF LastKept, HistoryKeepsLast, Read
  <2>2. CASE write.at # "ok"
    <3>1. machine'.at \in {"generation", "compare"}
      BY <1>0, <1>8, <2>2 DEF PersistedHistory, GiveUp, To, Machines
    <3> QED BY <1>0, <2>0, <3>1, LastKeptQuiet
  <2> QED BY <2>1, <2>2
<1>9. CASE Prune
  <2>0. /\ machine.at = "prune" /\ write' = write /\ replaced' = replaced
        /\ session.pending # <<>> /\ Read("history") # <<>>
        /\ Newest(Read("history")) = Head(session.pending)
    BY <1>0, <1>9 DEF Prune, LastKept
  <2>1. CASE /\ Len(Read("history")) > MAX_HISTORY
             /\ \E disk \in {files["history"].disk, Tail(Read("history"))} :
                    files' = [files EXCEPT !["history"] =
                                [@ EXCEPT !.now = Tail(Read("history")), !.disk = disk]]
             /\ UNCHANGED <<machine, session>>
    <3>1. Read("history")' = Tail(Read("history")) BY <1>0, <2>1, PruneEffect DEF Read
    <3>2. Len(Read("history")) > 1 BY <1>f, <2>1, StoreAssumption
    <3>3. Tail(Read("history")) # <<>> /\ Newest(Tail(Read("history"))) = Newest(Read("history"))
      BY <1>f, <2>0, <3>2, TailNewest
    <3>4. HistoryKeepsLast'
      <4>1. replaced # None => replaced = Newest(session.pending)
        BY <1>0, <2>0 DEF HistoryKeepsLast
      <4>2. (session.pending \o Read("history"))' # <<>>
        BY <1>f, <2>0, <2>1
      <4> QED BY <2>0, <2>1, <4>1, <4>2 DEF HistoryKeepsLast
    <3> QED BY <2>0, <2>1, <3>1, <3>3, <3>4 DEF LastKept
  <2>2. CASE /\ session' = [session EXCEPT !.pending = Tail(@)]
             /\ To("drain") /\ files' = files
    <3>1. session'.pending = Tail(session.pending) BY <1>0, <2>2 DEF Sessions
    <3>2. machine'.at = "drain" BY <1>0, <2>2, MoveTo DEF Places
    <3>3. /\ session'.pending # <<>> => Newest(session'.pending) = Newest(session.pending)
          /\ session'.pending = <<>> => Newest(session.pending) = Head(session.pending)
      BY <1>f, <2>0, <3>1, TailNewest
    <3>4. replaced # None => replaced = Newest(session.pending)
      BY <1>0, <2>0 DEF HistoryKeepsLast
    <3>5. Read("history")' = Read("history") BY <2>2 DEF Read
    <3>6. (session.pending \o Read("history"))' # <<>>
      BY <1>f, <2>0, <3>5
    <3>7. HistoryKeepsLast' BY <2>0, <3>3, <3>4, <3>5, <3>6 DEF HistoryKeepsLast
    <3> QED BY <3>2, <3>7 DEF LastKept
  <2>3. CASE GiveUp /\ files' = files
    <3>1. machine'.at \in {"generation", "compare"} /\ session' = session
      BY <1>0, <2>3 DEF GiveUp, To, Machines
    <3> QED BY <1>0, <2>0, <2>3, <3>1, LastKeptQuiet
  <2> QED BY <1>9, <2>1, <2>2, <2>3 DEF Prune
<1>10. CASE Drained \/ Unchanged
  <2>1. machine'.at \in {"generation", "compare"}
    BY <1>0, <1>10 DEF Drained, Unchanged, To, Machines
  <2> QED BY <1>0, <1>10, <2>1, LastKeptQuiet DEF Drained, Unchanged, fileVars
<1>12. CASE WritePrimary
  <2>1. files' = files /\ replaced' = replaced BY <1>12 DEF WritePrimary, Begin
  <2>2. session'.pending = session.pending BY <1>0, <1>12 DEF WritePrimary, Sessions
  <2>3. machine'.at = "primary" BY <1>0, <1>12, MoveTo DEF WritePrimary, Places
  <2> QED BY <1>0, <2>1, <2>2, <2>3, LastKeptQuiet
<1>13. CASE PrimaryOk \/ PrimaryErr
  <2>1. files' = files BY <1>13 DEF PrimaryOk, PrimaryErr, Return
  <2>2. machine'.at \in {"generation", "drain", "down", "idle"}
    BY <1>0, <1>13 DEF PrimaryOk, PrimaryErr, Ended, To, Machines
  <2>3. CASE Published
    <3> DEFINE P == Pushed(session.pending, session.previous)
    <3>1. session'.pending = P /\ replaced' = session.previous
      <4>1. session' = [session EXCEPT !.pending = P, !.previous = None, !.drained = TRUE]
            /\ replaced' = session.previous
        BY <2>3 DEF Published
      <4> HIDE DEF P
      <4> QED BY <1>0, <4>1 DEF Sessions
    <3>2. replaced' # None => P # <<>> /\ Newest(P) = replaced'
      BY <1>0, <3>1, PushedNewest DEF Sessions
    <3> HIDE DEF P
    <3>3. replaced' # None => (session.pending \o Read("history"))' # <<>>
      BY <1>f, <3>1, <3>2
    <3>4. HistoryKeepsLast' BY <3>1, <3>2, <3>3 DEF HistoryKeepsLast
    <3> QED BY <2>2, <3>4 DEF LastKept
  <2>4. CASE session' = session /\ replaced' = replaced
    BY <1>0, <2>1, <2>2, <2>4, LastKeptQuiet
  <2>5. CASE replaced' = None BY <2>2, <2>5, LastKeptNone
  <2> QED BY <1>13, <2>3, <2>4, <2>5 DEF PrimaryOk, PrimaryErr
<1>15. CASE Generation
  <2> DEFINE record == Reconcile(session.persisted, machine.ram)
  <2>1. files' = files /\ replaced' = replaced /\ machine.at = "generation"
    BY <1>15 DEF Generation, Committed, GenerationFails, Begin, Return, fileVars
  <2>2. session'.pending = session.pending
    <3>1. \/ session' = session
          \/ \E r, u : \/ session' = [session EXCEPT !.persisted = r]
                       \/ session' = [session EXCEPT !.persisted = r, !.unsure = u]
                       \/ session' = [session EXCEPT !.unsure = u]
      BY <1>15, Zenon DEF Generation, Committed, GenerationFails
    <3> QED BY <1>0, <3>1 DEF Sessions
  <2>3. machine'.at \in {"state", "down", "idle", "generation"}
    <3>1. machine' = machine \/ To("state") \/ Ended(TRUE) \/ Ended(FALSE)
      BY <1>15, Zenon DEF Generation, Committed, GenerationFails
    <3> QED BY <1>0, <2>1, <3>1, MoveTo, MoveEnded DEF Places
  <2> QED BY <1>0, <2>1, <2>2, <2>3, LastKeptQuiet
<1>16. CASE Saved
  <2>1. machine'.at \in {"down", "idle"} BY <1>0, <1>16, MoveEnded DEF Saved
  <2> QED BY <1>0, <1>16, <2>1, LastKeptQuiet DEF Saved, Return
<1>17. CASE Disk
  <2>1. WriteStep /\ UNCHANGED <<machine, session, replaced>> BY <1>17 DEF Disk
  <2>2. /\ write # Idle /\ write.path \in Paths /\ write'.value = write.value
        /\ \A f \in Paths : f # write.path => files'[f] = files[f]
    BY <1>0, <2>1, DiskEffect
  <2>3. machine.at = write.path /\ machine.at # "prune"
    BY <1>0, <2>2, ContentFacts DEF StoreType
  <2>4. CASE machine.at = "history"
    <3>1. session.pending # <<>> BY <1>0, <2>4 DEF LastKept
    <3>2. (session.pending \o Read("history"))' # <<>> BY <1>f, <2>1, <3>1
    <3>3. HistoryKeepsLast' BY <1>0, <2>1, <3>1, <3>2 DEF HistoryKeepsLast
    <3> QED BY <1>0, <2>1, <2>2, <2>4, <3>1, <3>3 DEF LastKept
  <2>5. CASE machine.at # "history"
    <3>1. files'["history"] = files["history"] BY <1>p, <2>2, <2>3, <2>5
    <3> QED BY <1>0, <2>1, <2>3, <2>5, <3>1, LastKeptQuiet
  <2> QED BY <2>4, <2>5
<1>18. CASE DiskFails
  <2>1. Fail /\ UNCHANGED <<machine, session, replaced>> BY <1>18 DEF DiskFails
  <2>2. write # Idle /\ files' = files /\ write'.value = write.value
    BY <1>0, <2>1, FailEffect
  <2> QED BY <1>0, <2>1, <2>2 DEF LastKept, HistoryKeepsLast, Read
<1>19. CASE Crash
  <2>1. machine'.at = "down" BY <1>19, OffType DEF Crash
  <2> QED BY <1>19, <2>1, LastKeptNone DEF Crash
<1>20. CASE UNCHANGED vars
  BY <1>0, <1>20 DEF LastKept, HistoryKeepsLast, vars, Read
<1> QED
  BY <1>1, <1>2, <1>3, <1>4, <1>5, <1>6, <1>7, <1>8, <1>9, <1>10, <1>12,
     <1>13, <1>15, <1>16, <1>17, <1>18, <1>19, <1>20 DEF Next

-----------------------------------------------------------------------------
(* The generation, the save and the recovery state.                        *)

\* While a flush runs, nothing is suspended.
LEMMA FlushAwake ==
    ASSUME Agreed, machine.at \notin {"down", "idle"} PROVE ~suspended
BY DEF Agreed, SuspendAgreed

\* Steps of a flush that write neither the save, the generation nor the state.
LEMMA AgreedQuiet ==
    ASSUME Agreed, machine.at \in Flushing, ~suspended',
           files'["primary"] = files["primary"],
           files'["generation"] = files["generation"],
           machine'.ram = machine.ram, session'.drained = session.drained,
           session'.persisted = session.persisted, session'.unsure = session.unsure,
           \/ machine'.at \in Flushing \cup {"compare"}
           \/ machine'.at = "generation" /\ session.drained /\ write' = Idle
    PROVE  Agreed'
<1>1. GenerationAgreed' BY DEF Agreed, GenerationAgreed, Read, Flushing
<1>2. PrimaryAgreed' BY DEF Agreed, PrimaryAgreed, Read, Flushing
<1>3. StateAgreed' BY DEF StateAgreed, Flushing
<1>4. SuspendAgreed' BY DEF SuspendAgreed
<1> QED BY <1>1, <1>2, <1>3, <1>4 DEF Agreed

\* Every action keeps the files and the thread in agreement.
LEMMA AgreedStep == ASSUME StoreInv, [Next]_vars, StoreType' PROVE Agreed'
<1>0. /\ SaveInv /\ StoreType /\ machine \in Machines /\ session \in Sessions
      /\ Link /\ Agreed /\ GenerationAgreed /\ PrimaryAgreed /\ StateAgreed
      /\ SuspendAgreed
  BY DEF StoreInv, StoreType, SaveInv, Machines, Agreed
<1>p. \A f \in {"start", "history", "primary", "generation", "state"} : f \in Paths
  BY PathsKnown
<1>a. CASE Start
  <2>1. PICK initial \in {Read("primary"), "failed"},
             persisted \in {Read("generation"), None} :
          /\ session' = [initial |-> initial, startWritten |-> FALSE, pending |-> <<>>,
                       previous |-> None, drained |-> FALSE, persisted |-> persisted,
                       unsure |-> FALSE]
          /\ machine' = [at |-> "idle", dirty |-> FALSE, closing |-> FALSE,
                       ram |-> IF initial \in Data THEN initial ELSE Blank]
          /\ IF initial = "failed" \/ persisted # Read("generation")
             THEN MayFail /\ suspended' = FALSE ELSE UNCHANGED <<suspended, used>>
    BY <1>a DEF Start
  <2>2. /\ machine'.at = "idle" /\ session'.persisted = persisted
        /\ session'.drained = FALSE /\ files' = files /\ write' = write
        /\ machine'.ram = IF initial \in Data THEN initial ELSE Blank
    BY <1>a, <2>1 DEF Start, fileVars
  <2>3. GenerationAgreed' BY <2>2 DEF GenerationAgreed, Read
  <2>4. PrimaryAgreed' /\ StateAgreed' BY <2>2 DEF PrimaryAgreed, StateAgreed, Flushing
  <2>5. ASSUME suspended' PROVE /\ suspended /\ initial = Read("primary")
                                /\ persisted = Read("generation")
    BY <2>1, <2>5
  <2>6. SuspendAgreed'
    <3> SUFFICES ASSUME suspended' PROVE SuspendAgreed' BY DEF SuspendAgreed
    <3>1. suspended /\ initial = Read("primary") /\ persisted = Read("generation")
      BY <2>5
    <3>2. Read("primary") = Read("generation").hash /\ Read("generation") # None
      BY <1>0, <3>1 DEF SuspendAgreed
    <3>3. Read("generation").hash \in Data BY <1>0, <3>2, FileTypes DEF Records
    <3> QED BY <1>0, <2>2, <3>1, <3>2, <3>3 DEF SuspendAgreed, Read
  <2> QED BY <2>3, <2>4, <2>6 DEF Agreed
<1>b. CASE Play
  <2>1. machine.at = "idle" /\ machine'.at = "idle" BY <1>0, <1>b DEF Play, Machines
  <2>2. files' = files /\ session' = session /\ ~suspended' BY <1>b DEF Play, fileVars
  <2>3. GenerationAgreed' BY <1>0, <2>1, <2>2 DEF GenerationAgreed, Read
  <2>4. PrimaryAgreed' /\ StateAgreed' BY <2>1 DEF PrimaryAgreed, StateAgreed, Flushing
  <2> QED BY <2>2, <2>3, <2>4 DEF Agreed, SuspendAgreed
<1>c. CASE Resume
  <2>1. machine.at = "idle" /\ machine'.at = "idle" /\ machine'.ram = Read("state").ram
    BY <1>0, <1>c DEF Resume, Machines
  <2>2. files' = files /\ session' = session /\ suspended' = suspended
    BY <1>c DEF Resume, fileVars
  <2>3. GenerationAgreed' BY <1>0, <2>1, <2>2 DEF GenerationAgreed, Read
  <2>4. PrimaryAgreed' /\ StateAgreed' BY <2>1 DEF PrimaryAgreed, StateAgreed, Flushing
  <2>5. SuspendAgreed' BY <1>0, <2>1, <2>2 DEF SuspendAgreed, Read
  <2> QED BY <2>3, <2>4, <2>5 DEF Agreed
<1>d. ASSUME NEW closing \in BOOLEAN, Flush(closing) PROVE Agreed'
  <2>1. machine.at = "idle" /\ machine'.at \in {"drain", "down", "idle"}
    BY <1>0, <1>d DEF Flush, Machines
  <2>2. /\ files' = files /\ ~suspended'
        /\ session'.persisted = session.persisted /\ session'.unsure = session.unsure
        /\ session'.drained = FALSE
    BY <1>0, <1>d DEF Flush, Sessions, fileVars
  <2>3. GenerationAgreed' BY <1>0, <2>1, <2>2 DEF GenerationAgreed, Read
  <2>4. PrimaryAgreed' /\ StateAgreed'
    BY <2>1, <2>2 DEF PrimaryAgreed, StateAgreed, Flushing
  <2> QED BY <2>2, <2>3, <2>4 DEF Agreed, SuspendAgreed
<1>e. CASE PersistStart
  <2>1. files' = files /\ suspended' = suspended /\ machine.at = "drain"
    BY <1>e DEF PersistStart, Begin, fileVars
  <2>2. /\ session'.persisted = session.persisted /\ session'.unsure = session.unsure
        /\ session'.drained = session.drained
    BY <1>0, <1>e DEF PersistStart, Sessions
  <2>3. machine'.at \in {"drain", "start"} /\ machine'.ram = machine.ram
    BY <1>0, <1>e DEF PersistStart, To, Machines
  <2> QED BY <1>0, <2>1, <2>2, <2>3, AgreedQuiet, FlushAwake DEF Flushing
<1>f. CASE PersistStarted \/ PersistedHistory
  <2>1. files' = files /\ suspended' = suspended /\ machine.at \in {"start", "history"}
        /\ write' = Idle
    BY <1>f DEF PersistStarted, PersistedHistory, Return
  <2>2. /\ session'.persisted = session.persisted /\ session'.unsure = session.unsure
        /\ session'.drained = session.drained
    BY <1>0, <1>f DEF PersistStarted, PersistedHistory, GiveUp, Sessions
  <2>3. /\ machine'.ram = machine.ram
        /\ \/ machine'.at \in {"drain", "prune", "compare"}
           \/ machine'.at = "generation" /\ session.drained
    BY <1>0, <1>f DEF PersistStarted, PersistedHistory, GiveUp, To, Machines
  <2> QED BY <1>0, <2>1, <2>2, <2>3, AgreedQuiet, FlushAwake DEF Flushing
<1>g. CASE PersistHistory
  <2>1. files' = files /\ suspended' = suspended /\ machine.at = "drain"
        /\ session' = session
    BY <1>g DEF PersistHistory, Begin, fileVars
  <2>2. machine'.at \in {"prune", "history"} /\ machine'.ram = machine.ram
    BY <1>0, <1>g DEF PersistHistory, To, Machines
  <2> QED BY <1>0, <2>1, <2>2, AgreedQuiet, FlushAwake DEF Flushing
<1>h. CASE Prune
  <2>0. machine.at = "prune" /\ write' = write /\ suspended' = suspended
    BY <1>h DEF Prune
  <2>1. write = Idle BY <1>0, <2>0, NotBusy DEF Busy
  <2>2. /\ files'["primary"] = files["primary"]
        /\ files'["generation"] = files["generation"]
    <3>1. CASE files' = files BY <3>1
    <3>2. CASE \E now, disk : files' = [files EXCEPT !["history"] =
                                [@ EXCEPT !.now = now, !.disk = disk]]
      BY <1>0, <1>p, <3>2, PruneEffect
    <3> QED BY <1>h, <3>1, <3>2 DEF Prune
  <2>3. /\ session'.persisted = session.persisted /\ session'.unsure = session.unsure
        /\ session'.drained = session.drained
    BY <1>0, <1>h DEF Prune, GiveUp, Sessions
  <2>4. /\ machine'.ram = machine.ram
        /\ \/ machine'.at \in {"drain", "prune", "compare"}
           \/ machine'.at = "generation" /\ session.drained
    BY <1>0, <1>h DEF Prune, GiveUp, To, Machines
  <2> QED BY <1>0, <2>0, <2>1, <2>2, <2>3, <2>4, AgreedQuiet, FlushAwake DEF Flushing
<1>i. CASE Drained
  <2>1. /\ machine.at = "drain" /\ files' = files /\ write' = write
        /\ session' = session /\ suspended' = suspended
    BY <1>i DEF Drained, fileVars
  <2>2. write = Idle BY <1>0, <2>1, NotBusy DEF Busy
  <2>3. /\ machine'.ram = machine.ram
        /\ \/ machine'.at = "compare"
           \/ machine'.at = "generation" /\ session.drained
    BY <1>0, <1>i DEF Drained, To, Machines
  <2> QED BY <1>0, <2>1, <2>2, <2>3, AgreedQuiet, FlushAwake DEF Flushing
<1>j. CASE Unchanged
  <2>1. /\ machine.at = "compare" /\ files' = files /\ write' = write
        /\ session' = session /\ suspended' = suspended
        /\ Read("primary") = machine.ram
    BY <1>j DEF Unchanged, fileVars
  <2>2. machine'.at = "generation" /\ machine'.ram = machine.ram
    BY <1>0, <1>j, MoveTo DEF Unchanged, Places
  <2>3. write = Idle BY <1>0, <2>1, NotBusy DEF Busy
  <2>4. GenerationAgreed' BY <1>0, <2>1, <2>2, <2>3 DEF GenerationAgreed, Read
  <2>5. PrimaryAgreed' /\ StateAgreed'
    BY <2>1, <2>2 DEF PrimaryAgreed, StateAgreed, Read, Flushing
  <2> QED BY <1>0, <2>1, <2>4, <2>5, FlushAwake DEF Agreed, SuspendAgreed
<1>k. CASE WritePrimary
  <2>1. /\ machine.at = "compare" /\ suspended' = suspended
        /\ Begin("primary", machine.ram) /\ To("primary")
    BY <1>k DEF WritePrimary
  <2>2. /\ session'.persisted = session.persisted /\ session'.unsure = session.unsure
    BY <1>0, <1>k DEF WritePrimary, Sessions
  <2>3. files' = files /\ write'.value = machine.ram BY <2>1, BeginEffect
  <2>4. machine'.at = "primary" /\ machine'.ram = machine.ram
    BY <1>0, <2>1, MoveTo DEF Places
  <2>5. GenerationAgreed' BY <1>0, <2>1, <2>2, <2>3, <2>4 DEF GenerationAgreed, Read
  <2>6. PrimaryAgreed' /\ StateAgreed'
    BY <2>3, <2>4 DEF PrimaryAgreed, StateAgreed, Flushing
  <2> QED BY <1>0, <2>1, <2>5, <2>6, FlushAwake DEF Agreed, SuspendAgreed
<1>l. CASE PrimaryOk
  <2>1. /\ machine.at = "primary" /\ write.at = "ok" /\ suspended' = suspended
        /\ files' = files /\ write' = Idle
    BY <1>l DEF PrimaryOk, Return
  <2>2. /\ session'.persisted = session.persisted /\ session'.unsure = session.unsure
        /\ session'.drained = TRUE
    BY <1>0, <1>l DEF PrimaryOk, Published, Sessions
  <2>3. machine'.at \in {"generation", "drain"} /\ machine'.ram = machine.ram
    BY <1>0, <1>l DEF PrimaryOk, To, Machines
  <2>4. Read("primary") = machine.ram
    <3>1. write # Idle BY <2>1, IdleAt
    <3>2. write.path = "primary" /\ write.value = machine.ram
      BY <1>0, <2>1, <3>1 DEF StoreType, PrimaryAgreed
    <3> QED BY <1>0, <2>1, <3>2 DEF SaveInv, FileInv, WriteOrder, Read
  <2>5. GenerationAgreed' BY <1>0, <2>1, <2>2, <2>3 DEF GenerationAgreed, Read
  <2>6. PrimaryAgreed' /\ StateAgreed'
    BY <2>1, <2>3, <2>4 DEF PrimaryAgreed, StateAgreed, Read, Flushing
  <2> QED BY <1>0, <2>1, <2>5, <2>6, FlushAwake DEF Agreed, SuspendAgreed
<1>m. CASE PrimaryErr
  <2>1. /\ machine.at = "primary" /\ suspended' = suspended /\ files' = files
    BY <1>m DEF PrimaryErr, Return
  <2>2. /\ session'.persisted = session.persisted /\ session'.unsure = session.unsure
    BY <1>0, <1>m DEF PrimaryErr, Published, Sessions
  <2>3. machine'.at \in {"down", "idle"}
    BY <1>0, <1>m, MoveEnded DEF PrimaryErr
  <2>4. GenerationAgreed' BY <1>0, <2>1, <2>2, <2>3 DEF GenerationAgreed, Read
  <2>5. PrimaryAgreed' /\ StateAgreed' BY <2>3 DEF PrimaryAgreed, StateAgreed, Flushing
  <2> QED BY <1>0, <2>1, <2>4, <2>5, FlushAwake DEF Agreed, SuspendAgreed
<1>n. CASE Generation
  <2> DEFINE record == Reconcile(session.persisted, machine.ram)
  <2>0. record \in Records /\ record # None /\ record.hash = machine.ram
    BY ZenonT(30), <1>0, ReconcileType, ReconcileNames DEF Sessions, Machines
  <2>a. machine.at = "generation" /\ suspended' = suspended BY <1>n DEF Generation
  <2>b. ~suspended' BY <1>0, <2>a, FlushAwake
  <2>c. Read("primary") = machine.ram BY <1>0, <2>a DEF PrimaryAgreed
  <2>v. write # Idle => write.value = record BY <1>0, <2>a DEF GenerationAgreed
  <2> HIDE DEF record
  <2>1. CASE write = Idle /\ session.persisted = record /\ Committed(record)
    <3>1. /\ session'.persisted = record /\ session'.unsure = session.unsure
      BY <1>0, <2>1 DEF Committed, Sessions
    <3>2. ~session.unsure => Read("generation") = record
      BY <1>0, <2>0, <2>1, <2>a DEF GenerationAgreed
    <3>3. CASE machine.closing
      <4> DEFINE value == [witness |-> record, ram |-> machine.ram]
      <4>1. To("state") /\ Begin("state", value) BY <2>1, <3>3 DEF Committed
      <4> HIDE DEF value
      <4>2. /\ machine'.at = "state" /\ machine'.ram = machine.ram
            /\ machine'.closing = machine.closing
        BY <1>0, <4>1, MoveTo DEF Places
      <4>3. files' = files /\ write'.value = value BY <4>1, BeginEffect
      <4>4. GenerationAgreed' BY <3>1, <3>2, <4>2, <4>3 DEF GenerationAgreed, Read
      <4>5. PrimaryAgreed' BY <2>c, <4>2, <4>3 DEF PrimaryAgreed, Read, Flushing
      <4>6. StateAgreed' BY <2>0, <3>1, <3>3, <4>2, <4>3 DEF StateAgreed, value
      <4> QED BY <2>b, <4>4, <4>5, <4>6 DEF Agreed, SuspendAgreed
    <3>4. CASE ~machine.closing
      <4>1. Ended(TRUE) /\ files' = files BY <2>1, <3>4 DEF Committed, fileVars
      <4>2. machine'.at = "idle" BY <1>0, <3>4, <4>1, MoveEnded
      <4>3. GenerationAgreed' BY <3>1, <3>2, <4>1, <4>2 DEF GenerationAgreed, Read
      <4>4. PrimaryAgreed' /\ StateAgreed'
        BY <4>2 DEF PrimaryAgreed, StateAgreed, Flushing
      <4> QED BY <2>b, <4>3, <4>4 DEF Agreed, SuspendAgreed
    <3> QED BY <3>3, <3>4
  <2>2. CASE Begin("generation", record) /\ UNCHANGED <<machine, session>>
    <3>1. files' = files /\ write'.value = record /\ write = Idle
      BY <2>2, BeginEffect
    <3>2. GenerationAgreed'
      BY <1>0, <2>2, <3>1 DEF GenerationAgreed, Read, record
    <3>3. PrimaryAgreed' /\ StateAgreed'
      BY <2>2, <2>a, <2>c, <3>1 DEF PrimaryAgreed, StateAgreed, Read, Flushing
    <3> QED BY <2>b, <3>2, <3>3 DEF Agreed, SuspendAgreed
  <2>3. CASE /\ write.at = "ok" /\ Return /\ UNCHANGED machine
             /\ session' = [session EXCEPT !.persisted = record, !.unsure = FALSE]
    <3>1. write # Idle BY <2>3, IdleAt
    <3>2. write.path = "generation" /\ write.value = record
      BY <1>0, <2>a, <2>v, <3>1 DEF StoreType
    <3>3. Read("generation") = record
      BY <1>0, <2>3, <3>2 DEF SaveInv, FileInv, WriteOrder, Read
    <3>4. session'.persisted = record BY <1>0, <2>3 DEF Sessions
    <3>5. files' = files /\ write' = Idle BY <2>3 DEF Return
    <3>6. GenerationAgreed' BY <3>3, <3>4, <3>5 DEF GenerationAgreed, Read
    <3>7. PrimaryAgreed' /\ StateAgreed'
      BY <2>3, <2>a, <2>c, <3>5 DEF PrimaryAgreed, StateAgreed, Read, Flushing
    <3> QED BY <2>b, <3>6, <3>7 DEF Agreed, SuspendAgreed
  <2>4. CASE GenerationFails(record)
    <3> DEFINE u == session.unsure \/ Read("generation") = record
    <3>1. /\ Return /\ Ended(FALSE) /\ session' = [session EXCEPT !.unsure = u]
          /\ write.at = "err"
      BY <2>4 DEF GenerationFails
    <3>2. session'.unsure = u /\ session'.persisted = session.persisted
      <4> HIDE DEF u
      <4> QED BY <1>0, <3>1 DEF Sessions
    <3>3. machine'.at \in {"down", "idle"} BY <1>0, <3>1, MoveEnded
    <3>4. files' = files /\ write' = Idle /\ write # Idle BY <3>1, IdleAt DEF Return
    <3>5. write.value = record BY <2>v, <3>4
    <3>6. GenerationAgreed'
      BY <1>0, <2>a, <3>2, <3>3, <3>4, <3>5 DEF GenerationAgreed, Read
    <3>7. PrimaryAgreed' /\ StateAgreed' BY <3>3 DEF PrimaryAgreed, StateAgreed, Flushing
    <3> QED BY <2>b, <3>6, <3>7 DEF Agreed, SuspendAgreed
  <2> QED BY <1>n, <2>1, <2>2, <2>3, <2>4 DEF Generation, record
<1>o. CASE Saved
  <2>1. /\ machine.at = "state" /\ Return /\ Ended(TRUE) /\ session' = session
        /\ suspended' = (write.at = "ok" /\ ~session.unsure)
    BY <1>o DEF Saved
  <2>2. machine.closing BY <1>0, <2>1 DEF StateAgreed
  <2>3. machine'.at = "down" BY <1>0, <2>1, <2>2, MoveEnded
  <2>4. files' = files BY <2>1 DEF Return
  <2>5. GenerationAgreed' /\ PrimaryAgreed' /\ StateAgreed'
    BY <2>3 DEF GenerationAgreed, PrimaryAgreed, StateAgreed, Flushing
  <2>6. SuspendAgreed'
    <3> SUFFICES ASSUME suspended' PROVE SuspendAgreed' BY DEF SuspendAgreed
    <3>1. write.at = "ok" /\ ~session.unsure BY <2>1
    <3>2. write # Idle BY <3>1, IdleAt
    <3>3. write.path = "state" BY <1>0, <2>1, <3>2 DEF StoreType
    <3>4. /\ write.value = [witness |-> session.persisted, ram |-> machine.ram]
          /\ session.persisted # None /\ session.persisted.hash = machine.ram
      BY <1>0, <2>1, <3>2 DEF StateAgreed
    <3>5. Read("state") = write.value
      BY <1>0, <3>1, <3>3 DEF SaveInv, FileInv, WriteOrder, Read
    <3>6. Read("generation") = session.persisted
      BY <1>0, <2>1, <3>1, <3>4 DEF GenerationAgreed
    <3>7. Read("primary") = machine.ram BY <1>0, <2>1 DEF PrimaryAgreed
    <3> QED BY <2>3, <2>4, <3>4, <3>5, <3>6, <3>7 DEF SuspendAgreed, Read
  <2> QED BY <2>5, <2>6 DEF Agreed
<1>q. CASE Disk
  <2>1. WriteStep /\ UNCHANGED <<machine, session, suspended>> BY <1>q DEF Disk
  <2>2. /\ write # Idle /\ write' # Idle /\ write.path \in Paths
        /\ write'.value = write.value
        /\ \A f \in Paths : f # write.path => files'[f] = files[f]
        /\ files'[write.path].now \in {files[write.path].now, write.value}
    BY <1>0, <2>1, DiskEffect
  <2>3. machine.at = write.path BY <1>0, <2>2 DEF StoreType
  <2>4. ~suspended' BY <1>0, <2>1, <2>2, <2>3, ContentFacts, FlushAwake
  <2>5. GenerationAgreed'
    <3>1. CASE machine.at = "generation"
      <4>1. Read("generation")' \in {Read("generation"), write.value}
        BY <2>2, <2>3, <3>1 DEF Read
      <4> QED BY <1>0, <2>1, <2>2, <3>1, <4>1 DEF GenerationAgreed
    <3>2. CASE machine.at # "generation"
      <4>1. Read("generation")' = Read("generation") BY <1>p, <2>2, <2>3, <3>2 DEF Read
      <4> QED BY <1>0, <2>1, <3>2, <4>1 DEF GenerationAgreed
    <3> QED BY <3>1, <3>2
  <2>6. PrimaryAgreed'
    <3>1. machine.at # "primary" => Read("primary")' = Read("primary")
      BY <1>p, <2>2, <2>3 DEF Read
    <3> QED BY <1>0, <2>1, <2>2, <3>1 DEF PrimaryAgreed, Flushing
  <2>7. StateAgreed' BY <1>0, <2>1, <2>2 DEF StateAgreed
  <2> QED BY <2>4, <2>5, <2>6, <2>7 DEF Agreed, SuspendAgreed
<1>r. CASE DiskFails
  <2>1. Fail /\ UNCHANGED <<machine, session, suspended>> BY <1>r DEF DiskFails
  <2>2. write # Idle /\ write' # Idle /\ files' = files /\ write'.value = write.value
    BY <1>0, <2>1, FailEffect
  <2>3. GenerationAgreed' BY <1>0, <2>1, <2>2 DEF GenerationAgreed, Read
  <2>4. PrimaryAgreed' /\ StateAgreed'
    BY <1>0, <2>1, <2>2 DEF PrimaryAgreed, StateAgreed, Read
  <2>5. SuspendAgreed' BY <1>0, <2>1, <2>2 DEF SuspendAgreed, Read
  <2> QED BY <2>3, <2>4, <2>5 DEF Agreed
<1>s. CASE Crash
  <2>1. machine'.at = "down" BY <1>s, OffType DEF Crash
  <2>2. suspended' => /\ suspended
                      /\ files'["primary"].now = files["primary"].now
                      /\ files'["generation"].now = files["generation"].now
                      /\ files'["state"].now = files["state"].now
    BY <1>s DEF Crash
  <2>3. SuspendAgreed' BY <1>0, <2>1, <2>2 DEF SuspendAgreed, Read
  <2>4. GenerationAgreed' /\ PrimaryAgreed' /\ StateAgreed'
    BY <2>1 DEF GenerationAgreed, PrimaryAgreed, StateAgreed, Flushing
  <2> QED BY <2>3, <2>4 DEF Agreed
<1>t. CASE UNCHANGED vars
  BY <1>0, <1>t DEF Agreed, GenerationAgreed, PrimaryAgreed, StateAgreed,
                    SuspendAgreed, vars, Read
<1> QED
  BY <1>a, <1>b, <1>c, <1>d, <1>e, <1>f, <1>g, <1>h, <1>i, <1>j, <1>k, <1>l,
     <1>m, <1>n, <1>o, <1>q, <1>r, <1>s, <1>t DEF Next

\* Before the first start there is nothing to agree on.
LEMMA StoreInit == Init => StoreInv
<1> SUFFICES ASSUME Init PROVE StoreInv OBVIOUS
<1>1. SaveInv BY SaveInit
<1>2. machine.at = "down" /\ ~suspended /\ replaced = None /\ write = Idle
  BY OffType DEF Init
<1>3. ASSUME NEW f \in Paths
      PROVE  files[f].now \in Content(f) /\ files[f].disk \in Content(f)
  <2>1. files[f] = Settled(Absent[f]) BY DEF Init
  <2>2. files[f].now = Absent[f] /\ files[f].disk = Absent[f] BY <2>1 DEF Settled
  <2> QED BY <2>2, AbsentContent
<1>4. machine \in Machines BY OffType DEF Init
<1>5. session \in Sessions BY OffType DEF Init
<1>6. StoreType BY <1>2, <1>3, <1>4, <1>5 DEF StoreType, Machines
<1>7. LastKept BY <1>2 DEF LastKept, HistoryKeepsLast
<1>8. Agreed BY <1>2 DEF Agreed, GenerationAgreed, PrimaryAgreed, StateAgreed,
                         SuspendAgreed, Flushing
<1> QED BY <1>1, <1>6, <1>7, <1>8 DEF StoreInv

\* The contents of the files, the place of the save replaced last and the
\* agreement of the files are invariant.
THEOREM StoreInvariant == Spec => []StoreInv
<1>1. StoreInv /\ [Next]_vars => StoreInv'
  BY SaveStep, TypeStep, LastStep, AgreedStep DEF StoreInv
<1> QED BY <1>1, StoreInit, PTL DEF Spec

\* The save that the process replaced last is the newest pending one or the
\* newest of the history, whichever steps of persist_recovery, push_pending or
\* the pruning failed.
THEOREM LastSaveKept == Spec => []HistoryKeepsLast
<1>1. StoreInv => HistoryKeepsLast BY DEF StoreInv, LastKept
<1> QED BY <1>1, StoreInvariant, PTL

\* What shutdown reported suspended is fresh for classify_recovery_freshness
\* at the next start: the generation file, the save and the recovery state name
\* the same battery.
THEOREM SuspendedResumes == Spec => []SuspendResumes
<1>1. StoreInv => SuspendResumes
  <2> SUFFICES ASSUME StoreInv, suspended, machine.at = "idle"
               PROVE  Classify(Read("state").witness, CurrentWitness) = "Fresh"
    BY DEF SuspendResumes
  <2> DEFINE g == Read("generation")
  <2>1. /\ g # None /\ Read("state").witness = g
        /\ session.persisted = g /\ machine.ram = g.hash
    BY DEF StoreInv, Agreed, SuspendAgreed
  <2>2. g \in Records BY <2>1, FileTypes DEF StoreInv
  <2>3. CurrentWitness = g BY <2>1 DEF CurrentWitness
  <2>4. ~(g.generation < g.generation) /\ ~(g.generation > g.generation)
    BY <2>2 DEF Records
  <2> HIDE DEF g
  <2> QED BY <2>1, <2>3, <2>4 DEF Classify
<1> QED BY <1>1, StoreInvariant, PTL
=============================================================================
