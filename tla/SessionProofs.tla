---------------------------- MODULE SessionProofs ---------------------------
(***************************************************************************)
(* Proofs about Session: two players over an ordered connection, each call *)
(* of which handles some of the messages under way, corrects, plays on,    *)
(* commits and answers. Two invariants are proved.                         *)
(*                                                                         *)
(* GameInv says that there is one game g, the words the two players have   *)
(* given for each frame, and that all a session holds, simulates, releases *)
(* or sends is of that game. It holds for every delay, window and          *)
(* retention, also while a session ends and after it has ended. It gives   *)
(* TypeOK, SameMachine and the refinement of SharedGame, OneGame.          *)
(*                                                                         *)
(* TalkInv says in addition that neither session has failed and how the    *)
(* two fit together: Path is what the messages under way to one of them    *)
(* are (inputs that ascend from the first it lacks, the checkpoints it has *)
(* not heard of, progress, each in its order and of the game), Compared    *)
(* how the checkpoints of the two lie, Pact how their pause controls do.   *)
(* It needs a delay of at least one frame and room for the checkpoints a   *)
(* player may be ahead. It gives NoFalseAlarm and PausedTogether.          *)
(*                                                                         *)
(* A call works on a record from its first event to its last answer. Each  *)
(* part of it is a lemma, once about the game (Busy) and once about the    *)
(* pair (Duet), of constant level; the actions only put them together. The *)
(* loop of fn batch is a recursive function, and what it preserves follows *)
(* from its least counterexample.                                          *)
(***************************************************************************)
EXTENDS Session, SessionLemmas

-----------------------------------------------------------------------------
(* The loop over the events of a batch.                                    *)

\* f is the loop of fn batch over the first m events.
Loops(f, s, events, m) ==
    f = [n \in 0 .. m |->
            IF n = 0 THEN Begin(s) ELSE HandleEvent(f[n - 1], events[n])]

\* The loop has a state after every event.
LEMMA LoopExists ==
    ASSUME NEW s, NEW events, NEW N \in Nat
    PROVE  \E f : Loops(f, s, events, N)
  <1> DEFINE Bad == {m \in Nat : ~\E f : Loops(f, s, events, m)}
  <1>1. SUFFICES ASSUME Bad # {} PROVE FALSE OBVIOUS
  <1>2. PICK m \in Bad : \A n \in Bad : m <= n BY <1>1, LeastElement
  <1>3. CASE m = 0
    <2> DEFINE f == [n \in 0 .. 0 |-> Begin(s)]
    <2>1. f = [n \in 0 .. 0 |->
                IF n = 0 THEN Begin(s) ELSE HandleEvent(f[n - 1], events[n])]
      OBVIOUS
    <2> QED BY <1>2, <1>3, <2>1 DEF Loops
  <1>4. CASE m # 0
    <2>1. m \in Nat /\ m - 1 \in Nat /\ m - 1 \notin Bad BY <1>2, <1>4
    <2>2. PICK f : Loops(f, s, events, m - 1) BY <2>1
    <2> DEFINE h == [n \in 0 .. m |->
                        IF n = m THEN HandleEvent(f[m - 1], events[m]) ELSE f[n]]
    <2>3. \A n \in 0 .. m - 1 : h[n] = f[n] BY <2>1
    <2>4. ASSUME NEW n \in 0 .. m
          PROVE  h[n] = IF n = 0 THEN Begin(s) ELSE HandleEvent(h[n - 1], events[n])
      <3>1. CASE n = m
        <4>1. h[n] = HandleEvent(f[m - 1], events[m]) BY <3>1
        <4>2. h[n - 1] = f[m - 1] BY <3>1, <2>1, <2>3
        <4> QED BY <3>1, <4>1, <4>2, <1>4
      <3>2. CASE n # m
        <4>1. n \in 0 .. m - 1 BY <3>2, <2>1
        <4>2. f[n] = IF n = 0 THEN Begin(s) ELSE HandleEvent(f[n - 1], events[n])
          BY <4>1, <2>2 DEF Loops
        <4>3. n # 0 => n - 1 \in 0 .. m - 1 BY <4>1
        <4> QED BY <4>1, <4>2, <4>3, <2>3
      <3> QED BY <3>1, <3>2
    <2>5. h = [n \in 0 .. m |->
                IF n = 0 THEN Begin(s) ELSE HandleEvent(h[n - 1], events[n])]
      <3>1. h = [n \in 0 .. m |-> h[n]] OBVIOUS
      <3> HIDE DEF h
      <3> QED BY <3>1, <2>4
    <2> HIDE DEF h
    <2>6. Loops(h, s, events, m) BY <2>5 DEF Loops
    <2> QED BY <2>6, <1>2
  <1> QED BY <1>3, <1>4

\* What the loop of a batch computes: a is the work after each event.
Steps(a, s, events) ==
    /\ a[0] = Begin(s)
    /\ \A n \in 1 .. Len(events) : a[n] = HandleEvent(a[n - 1], events[n])

\* The batch's work is the last of a sequence that begins with the session and
\* goes on by one event at a time.
LEMMA HandledSteps ==
    ASSUME NEW s, NEW events, Len(events) \in Nat
    PROVE  \E a : Steps(a, s, events) /\ Handled(s, events) = a[Len(events)]
  <1> DEFINE N == Len(events)
             a == CHOOSE f : Loops(f, s, events, N)
  <1>1. Loops(a, s, events, N) BY LoopExists
  <1>2. Handled(s, events) = a[N] BY DEF Handled, Loops
  <1> HIDE DEF a
  <1>3. a[0] = Begin(s)
    <2>1. 0 \in 0 .. N OBVIOUS
    <2> QED BY <2>1, <1>1 DEF Loops
  <1>4. ASSUME NEW n \in 1 .. N PROVE a[n] = HandleEvent(a[n - 1], events[n])
    <2>1. n \in 0 .. N /\ n # 0 OBVIOUS
    <2> QED BY <2>1, <1>1 DEF Loops
  <1> QED BY <1>2, <1>3, <1>4 DEF Steps

-----------------------------------------------------------------------------
(* The inputs a timeline holds.                                            *)

\* What the entry of a frame is after insertion.
LEMMA PutEntry ==
    ASSUME NEW inputs, IsMap(inputs, Entries), NEW f \in Nat, NEW p \in Ports,
           NEW b \in Buttons, NEW x \in Nat, NEW i \in Ports
    PROVE  /\ Entry(inputs, x) \in Entries
           /\ Entry(Put(inputs, f, p, b), x)[i] =
                IF x = f /\ i = p THEN b ELSE Entry(inputs, x)[i]
  <1>1. \A y \in Nat : Entry(inputs, y) \in Entries BY DEF Entry, IsMap, Entries
  <1> DEFINE e == Entry(inputs, f)
             d == [e EXCEPT ![p] = b]
  <1>2. d[i] = IF i = p THEN b ELSE e[i]
    <2>1. e \in Entries BY <1>1
    <2> HIDE DEF e
    <2> QED BY <2>1 DEF Entries
  <1> HIDE DEF d
  <1>3. /\ DOMAIN Put(inputs, f, p, b) = DOMAIN inputs \cup {f}
        /\ Put(inputs, f, p, b)[f] = d
        /\ \A k \in DOMAIN inputs : k # f => Put(inputs, f, p, b)[k] = inputs[k]
    BY DEF Put, d
  <1>4. CASE x = f BY <1>1, <1>2, <1>3, <1>4 DEF Entry
  <1>5. CASE x # f BY <1>1, <1>3, <1>5 DEF Entry
  <1> QED BY <1>4, <1>5

\* u holds no other inputs than t, and all those of the frames still to play.
Keeps(t, u) ==
    \A x \in Nat, i \in Ports :
        /\ Entry(u.inputs, x)[i] = None \/ Entry(u.inputs, x)[i] = Entry(t.inputs, x)[i]
        /\ x >= t.frame => Entry(u.inputs, x)[i] = Entry(t.inputs, x)[i]

\* Retiring drops inputs of frames that have been played.
LEMMA RetireKeeps ==
    ASSUME NEW t, TimelineType(t) PROVE Keeps(t, Retire(t))
  <1> DEFINE u == Retire(t)
             o == Oldest(t)
  <1>1. /\ DOMAIN u.inputs = {f \in DOMAIN t.inputs : f >= o}
        /\ \A f \in DOMAIN u.inputs : u.inputs[f] = t.inputs[f]
    BY RetireFields
  <1>2. o \in Nat /\ o <= t.frame /\ t.frame \in Nat
    BY RetainedAssumption DEF TimelineType, Oldest, ConfirmedFrame, Lesser, Monus
  <1> HIDE DEF u, o
  <1>3. ASSUME NEW x \in Nat, NEW i \in Ports
        PROVE  /\ Entry(u.inputs, x)[i] = None \/ Entry(u.inputs, x)[i] = Entry(t.inputs, x)[i]
               /\ x >= t.frame => Entry(u.inputs, x)[i] = Entry(t.inputs, x)[i]
    <2>1. CASE x \in DOMAIN u.inputs BY <2>1, <1>1 DEF Entry
    <2>2. CASE x \notin DOMAIN u.inputs
      <3>1. Entry(u.inputs, x)[i] = None BY <2>2 DEF Entry
      <3>2. x >= t.frame => x \notin DOMAIN t.inputs BY <2>2, <1>1, <1>2
      <3>3. x >= t.frame => Entry(t.inputs, x)[i] = None BY <3>2 DEF Entry
      <3> QED BY <3>1, <3>3
    <2> QED BY <2>1, <2>2
  <1> QED BY <1>3 DEF Keeps, u

\* A session that does not move keeps its inputs.
LEMMA KeepsSame ==
    ASSUME NEW t, NEW u, u.inputs = t.inputs PROVE Keeps(t, u)
  BY DEF Keeps

\* advance drops inputs and no more.
LEMMA AdvanceKeeps ==
    ASSUME NEW t, NEW g, TimelineInv(t, g)
    PROVE  Keeps([t EXCEPT !.frame = t.frame + 1], Advance(t))
  <1> DEFINE now == PortsAt(t, t.frame)
             exec == [f \in DOMAIN t.executed \cup {t.frame} |->
                        IF f = t.frame THEN now ELSE t.executed[f]]
             next == t.frame + 1
             v == [t EXCEPT !.frame = next, !.executed = exec]
             w == [t EXCEPT !.frame = next]
  <1>1. /\ TimelineType(t) /\ t.frame \in Nat /\ next \in Nat
        /\ IsMap(t.executed, PortValues) /\ IsMap(t.inputs, Entries)
    BY DEF TimelineInv, TimelineType
  <1>2. Advance(t) = Retire(v) BY DEF Advance
  <1>3. now \in PortValues BY <1>1, PortsAtType
  <1> HIDE DEF now
  <1>4. IsMap(exec, PortValues) BY <1>1, <1>3 DEF IsMap
  <1>5. t \in [player : Ports, frame : Nat, confirmed : Nat,
               inputs : {t.inputs}, executed : {t.executed},
               base_ports : PortValues, dirty : Nat \cup {None}]
    BY <1>1 DEF TimelineType
  <1> HIDE DEF exec, next
  <1>6. /\ v \in [player : Ports, frame : Nat, confirmed : Nat,
                  inputs : {t.inputs}, executed : {exec},
                  base_ports : PortValues, dirty : Nat \cup {None}]
        /\ v.executed = exec /\ v.inputs = t.inputs /\ v.frame = next
        /\ w.inputs = t.inputs /\ w.frame = next
    BY <1>1, <1>5
  <1>7. TimelineType(v) BY <1>1, <1>4, <1>6 DEF TimelineType
  <1> HIDE DEF v, w
  <1>8. Keeps(v, Retire(v)) BY <1>7, RetireKeeps
  <1>9. Keeps(w, Retire(v)) BY <1>8, <1>6 DEF Keeps
  <1> QED BY <1>9, <1>2 DEF w, next

\* correct drops inputs and no more.
LEMMA CorrectKeeps ==
    ASSUME NEW e, NEW g, ExecutionInv(e, g)
    PROVE  Keeps(e.timeline, Correct(e).timeline)
  <1> DEFINE t == e.timeline
  <1>1. TimelineInv(t, g) /\ IsSession(e) BY DEF ExecutionInv, ExecutionType, IsSession
  <1>2. CASE t.dirty = None BY <1>2, KeepsSame DEF Correct
  <1>3. CASE t.dirty # None
    <2> DEFINE first == t.dirty
               core == e.snapshots[first]
               snap == Until(e.snapshots, first)
               outs == Until(e.outputs, first)
               r == [e EXCEPT !.core = core, !.snapshots = snap, !.outputs = outs]
               u == Corrected(t)
               plan == Correction(t)
    <2>1. Correct(e) = [Execute(r, plan) EXCEPT !.timeline = u] BY <1>3 DEF Correct
    <2>2. IsSession(r)
      <3> HIDE DEF core, snap, outs
      <3> QED BY <1>1 DEF IsSession
    <2> HIDE DEF r, u, plan
    <2>3. Correct(e).timeline = u BY <2>1, <2>2, ExecuteFields
    <2> DEFINE exec == [f \in DOMAIN t.executed |->
                            IF f \in DOMAIN plan THEN plan[f] ELSE t.executed[f]]
               v == [t EXCEPT !.dirty = None, !.executed = exec]
    <2>4. u = Retire(v) BY DEF u, Corrected, plan
    <2>5. /\ TimelineType(t) /\ t.frame \in Nat /\ t.dirty \in Nat
          /\ IsMap(t.executed, PortValues) /\ IsMap(t.inputs, Entries)
      BY <1>1, <1>3 DEF TimelineInv, TimelineType
    <2>6. \A f \in DOMAIN plan : plan[f] \in PortValues
      <3>1. plan = [f \in t.dirty .. t.frame - 1 |-> PortsAt(t, f)]
        BY <1>3 DEF plan, Correction
      <3>2. \A f \in t.dirty .. t.frame - 1 : PortsAt(t, f) \in PortValues
        BY <2>5, PortsAtType
      <3> QED BY <3>1, <3>2
    <2>7. IsMap(exec, PortValues) BY <2>5, <2>6 DEF IsMap
    <2>8. t \in [player : Ports, frame : Nat, confirmed : Nat,
                 inputs : {t.inputs}, executed : {t.executed},
                 base_ports : PortValues, dirty : Nat \cup {None}]
      BY <2>5 DEF TimelineType
    <2> HIDE DEF exec
    <2>9. /\ v \in [player : Ports, frame : Nat, confirmed : Nat,
                    inputs : {t.inputs}, executed : {exec},
                    base_ports : PortValues, dirty : Nat \cup {None}]
          /\ v.executed = exec /\ v.inputs = t.inputs /\ v.frame = t.frame
      BY <2>8
    <2>10. TimelineType(v) BY <2>5, <2>7, <2>9 DEF TimelineType
    <2> HIDE DEF v
    <2>11. Keeps(v, Retire(v)) BY <2>10, RetireKeeps
    <2>12. Keeps(t, Retire(v)) BY <2>11, <2>9 DEF Keeps
    <2> QED BY <2>12, <2>4, <2>3
  <1> QED BY <1>2, <1>3

\* receive_remote records at most the word it is given.
LEMMA ReceiveEntry ==
    ASSUME NEW t, NEW g, TimelineInv(t, g), NEW f \in Nat, NEW b \in Buttons,
           ~ReceiveErr(t, f, b), NEW x \in Nat, NEW i \in Ports
    PROVE  LET u == ReceiveRemote(t, f, b)
           IN  \/ Entry(u.inputs, x)[i] = Entry(t.inputs, x)[i]
               \/ x = f /\ i = Other(t.player)
  <1>1. CASE Ignored(t, f) BY <1>1 DEF ReceiveRemote
  <1>2. CASE ~Ignored(t, f)
    <2> DEFINE p == Other(t.player)
               u == Learn(t, f, p, b)
               d == IF ~Mispredicted(t, f, b) THEN t.dirty
                    ELSE IF t.dirty = None THEN f ELSE Lesser(t.dirty, f)
    <2>1. /\ TimelineType(t) /\ InputsRecent(t) /\ t.player \in Ports /\ p \in Ports
          /\ IsMap(t.inputs, Entries)
      BY DEF TimelineInv, TimelineType, Ports, Other
    <2>2. ReceiveRemote(t, f, b) = [u EXCEPT !.dirty = d]
      BY <1>2 DEF ReceiveRemote, Learn
    <2>3. TimelineType(u) /\ u.inputs = Put(t.inputs, f, p, b) BY <2>1, LearnFields
    <2> HIDE DEF u, d, p
    <2>4. [u EXCEPT !.dirty = d].inputs = Put(t.inputs, f, p, b)
      BY <2>3 DEF TimelineType
    <2>5. Entry(Put(t.inputs, f, p, b), x)[i] =
                IF x = f /\ i = p THEN b ELSE Entry(t.inputs, x)[i]
      BY <2>1, PutEntry
    <2> QED BY <2>2, <2>4, <2>5 DEF p
  <1> QED BY <1>1, <1>2

\* The timeline after the frame of play of fn step.
LEMMA PlayTimeline ==
    ASSUME NEW e, NEW g, ExecutionInv(e, g), e.timeline.dirty = None, NEW b \in Buttons
    PROVE  LET t == e.timeline
               u == SampleLocal(t, b)
               y == Play(e, b).timeline
           IN  /\ u.inputs = Put(t.inputs, SampleFrame(t), t.player, SampleValue(t, b))
               /\ y.frame = IF Stalled(u) THEN t.frame ELSE t.frame + 1
               /\ y.confirmed = u.confirmed
               /\ Stalled(u) => y = u
               /\ Keeps([u EXCEPT !.frame = y.frame], y)
               /\ Play(e, b).committed = e.committed
  <1> DEFINE t == e.timeline
             u == SampleLocal(t, b)
             y == Play(e, b).timeline
             f == SampleFrame(t)
             v == SampleValue(t, b)
             h == Put(g, f, t.player, v)
             plan == [x \in {u.frame} |-> PortsAt(u, u.frame)]
  <1>1. TimelineInv(t, g) /\ IsSession(e) BY DEF ExecutionInv, ExecutionType, IsSession
  <1>2. TimelineInv(u, h) BY <1>1, SampleLocalInv
  <1>3. /\ TimelineType(t) /\ InputsRecent(t) /\ t.player \in Ports /\ t.frame \in Nat
        /\ f \in Nat /\ v \in Buttons
    BY <1>1, SampleWord DEF TimelineInv, TimelineType
  <1>4. u.inputs = Put(t.inputs, f, t.player, v)
    <2>1. u = Learn(t, f, t.player, v) BY DEF SampleLocal, Learn
    <2> HIDE DEF f, v, u
    <2> QED BY <2>1, <1>3, LearnFields
  <1>5. u.frame = t.frame /\ u.dirty = None BY <1>1, SampleLocalFields
  <1> HIDE DEF u, h
  <1>6. u \in [player : Ports, frame : Nat, confirmed : Nat,
             inputs : {u.inputs}, executed : {u.executed},
             base_ports : PortValues, dirty : Nat \cup {None}]
    BY <1>2 DEF TimelineInv, TimelineType
  <1>7. CASE Stalled(u)
    <2>1. Play(e, b) = [e EXCEPT !.timeline = u] BY <1>7 DEF Play, u
    <2>2. y = u /\ Play(e, b).committed = e.committed BY <2>1, <1>1 DEF IsSession
    <2>3. [u EXCEPT !.frame = u.frame] = u BY <1>6
    <2>4. Keeps(u, u) BY KeepsSame
    <2> QED BY <2>2, <2>3, <2>4, <1>4, <1>5, <1>7 DEF u
  <1>8. CASE ~Stalled(u)
    <2>1. Play(e, b) = [Execute(e, plan) EXCEPT !.timeline = Advance(u)]
      BY <1>8 DEF Play, u
    <2> HIDE DEF plan
    <2>2. y = Advance(u) /\ Play(e, b).committed = e.committed
      BY <2>1, <1>1, ExecuteFields
    <2>3. y.frame = t.frame + 1 /\ y.confirmed = u.confirmed
      BY <2>2, <1>2, <1>5, AdvanceFields
    <2>4. Keeps([u EXCEPT !.frame = u.frame + 1], Advance(u)) BY <1>2, AdvanceKeeps
    <2> HIDE DEF y
    <2> QED BY <2>2, <2>3, <2>4, <1>4, <1>5, <1>8 DEF u, y
  <1> QED BY <1>7, <1>8

-----------------------------------------------------------------------------
(* The game both sessions play.  g is the history of the inputs of both    *)
(* players: the word each gave for each frame.                             *)

\* h says all that g says.
Grows(g, h) ==
    /\ IsMap(h, Entries)
    /\ \A f \in DOMAIN g :
            f \in DOMAIN h /\ \A i \in Ports : g[f][i] # None => h[f][i] = g[f][i]

\* A frame of g with both words is the same frame of h.
LEMMA GrowsFull ==
    ASSUME NEW g, NEW h, IsMap(g, Entries), Grows(g, h), NEW f \in DOMAIN g,
           \A i \in Ports : g[f][i] # None
    PROVE  f \in DOMAIN h /\ h[f] = g[f]
  <1>1. f \in DOMAIN h /\ \A i \in Ports : h[f][i] = g[f][i] BY DEF Grows
  <1>2. g[f] \in Entries /\ h[f] \in Entries BY <1>1 DEF Grows, IsMap
  <1> QED BY <1>1, <1>2 DEF Entries

\* What agrees with g agrees with a longer history.
LEMMA ExecutionGrows ==
    ASSUME NEW e, NEW g, NEW h, ExecutionInv(e, g), Grows(g, h)
    PROVE  ExecutionInv(e, h)
  <1> DEFINE t == e.timeline
  <1>1. /\ TimelineInv(t, g) /\ ExecutionType(e) /\ CoreHistory(e, g) /\ SnapshotsHeld(e)
        /\ OutputsHeld(e) /\ ReleasedRight(e, g) /\ IsMap(g, Entries)
    BY DEF ExecutionInv, TimelineInv
  <1>2. ASSUME NEW f \in DOMAIN g, g[f] \in PortValues PROVE f \in DOMAIN h /\ h[f] = g[f]
    <2>1. \A i \in Ports : g[f][i] # None BY <1>2, ButtonsAssumption DEF PortValues
    <2> QED BY <2>1, <1>1, GrowsFull
  <1>3. TimelineInv(t, h)
    <2>1. InputsRecorded(t, h)
      BY <1>1 DEF TimelineInv, InputsRecorded, Grows
    <2> QED BY <2>1, <1>1 DEF TimelineInv, Grows
  <1>4. CoreHistory(e, h)
    <2>1. \A f \in DOMAIN e.core : e.core[f] \in PortValues
      BY <1>1 DEF ExecutionType, IsMap
    <2> QED BY <1>1, <1>2, <2>1 DEF CoreHistory
  <1>5. ReleasedRight(e, h)
    <2>1. \A k \in DOMAIN e.released : e.released[k] \in PortValues
      BY <1>1 DEF ExecutionType, IsMap
    <2> QED BY <1>1, <1>2, <2>1 DEF ReleasedRight
  <1> QED BY <1>1, <1>3, <1>4, <1>5 DEF ExecutionInv

\* h is g with the word b of player p for the frame f.
Adds(g, h, f, p, b) ==
    /\ Grows(g, h) /\ f \in DOMAIN h /\ h[f][p] = b /\ DOMAIN h = DOMAIN g \cup {f}
    /\ \A x \in DOMAIN g, i \in Ports : x # f \/ i # p => h[x][i] = g[x][i]
    /\ \A i \in Ports : f \notin DOMAIN g /\ i # p => h[f][i] = None

\* A history grows by a word for a frame that had none.
LEMMA PutGrows ==
    ASSUME NEW g, IsMap(g, Entries), NEW f \in Nat, NEW p \in Ports, NEW b \in Buttons,
           f \in DOMAIN g => g[f][p] = None \/ g[f][p] = b
    PROVE  Adds(g, Put(g, f, p, b), f, p, b)
  <1> DEFINE h == Put(g, f, p, b)
  <1>1. IsMap(h, Entries) BY PutType
  <1>2. \A i \in Ports : h[f][i] = IF i = p THEN b ELSE Entry(g, f)[i] BY PutWord
  <1>3. /\ DOMAIN h = DOMAIN g \cup {f}
        /\ \A x \in DOMAIN g : x # f => h[x] = g[x]
    BY DEF Put
  <1> HIDE DEF h
  <1>4. \A x \in DOMAIN g, i \in Ports : x # f \/ i # p => h[x][i] = g[x][i]
    BY <1>2, <1>3 DEF Entry
  <1>5. \A i \in Ports : f \notin DOMAIN g /\ i # p => h[f][i] = None BY <1>2 DEF Entry
  <1>6. h[f][p] = b BY <1>2
  <1>7. Grows(g, h)
    <2> SUFFICES ASSUME NEW x \in DOMAIN g, NEW i \in Ports, g[x][i] # None
                 PROVE  h[x][i] = g[x][i]
      BY <1>1, <1>3 DEF Grows
    <2> QED BY <1>4, <1>6
  <1>8. Adds(g, h, f, p, b) BY <1>3, <1>4, <1>5, <1>6, <1>7 DEF Adds
  <1> QED BY <1>8 DEF h

\* A word that is there already changes nothing.
LEMMA PutSame ==
    ASSUME NEW g, IsMap(g, Entries), NEW f \in DOMAIN g, NEW p \in Ports, NEW b, g[f][p] = b
    PROVE  Put(g, f, p, b) = g
  <1>1. [g[f] EXCEPT ![p] = b] = g[f] BY DEF IsMap, Entries
  <1>2. Put(g, f, p, b) = [k \in DOMAIN g |-> g[k]] BY <1>1 DEF Put, Entry
  <1> QED BY <1>2 DEF IsMap

\* Everything grows into itself and growing is transitive.
LEMMA GrowsTrans ==
    ASSUME NEW g, NEW h, NEW k, Grows(g, h), Grows(h, k) PROVE Grows(g, k)
  BY DEF Grows

\* Where the inputs are confirmed and no correction is pending, the machine ran
\* the game.
LEMMA ConfirmedCore ==
    ASSUME NEW e, NEW g, ExecutionInv(e, g), e.timeline.dirty = None,
           NEW f \in DOMAIN e.core, f < e.timeline.confirmed
    PROVE  f \in DOMAIN g /\ e.core[f] = g[f]
  <1> DEFINE t == e.timeline
  <1>1. TimelineInv(t, g) /\ CoreHistory(e, g) /\ f \in Nat
    BY DEF ExecutionInv, ExecutionType, IsMap
  <1>2. CASE f \in DOMAIN t.executed
    <2>1. e.core[f] = t.executed[f] BY <1>1, <1>2 DEF CoreHistory
    <2>2. t.executed[f] = PortsAt(t, f) BY <1>1, <1>2 DEF TimelineInv, ExecutedCurrent, Clean
    <2>3. Full(t.inputs, f) BY <1>1, <1>2 DEF TimelineInv, ExecutedSpan
    <2> QED BY <2>1, <2>2, <2>3, <1>1, FullTrue
  <1>3. CASE f \notin DOMAIN t.executed BY <1>1, <1>3 DEF CoreHistory
  <1> QED BY <1>2, <1>3

-----------------------------------------------------------------------------
(* The order in which fn commit sends its checkpoints.                     *)

\* s lists elements of S in their order.
Lists(s, S) ==
    /\ s \in [1 .. Cardinality(S) -> S]
    /\ \A i, j \in 1 .. Cardinality(S) : i < j => s[i] < s[j]

\* A set of numbers below a bound is finite.
LEMMA RangeFinite ==
    ASSUME NEW top \in Nat, NEW S \in SUBSET (0 .. top)
    PROVE  IsFiniteSet(S) /\ Cardinality(S) \in Nat /\ S \subseteq Nat
  <1>1. 0 \in Int /\ top \in Int OBVIOUS
  <1>2. IsFiniteSet(0 .. top) BY <1>1, FS_Interval
  <1>3. IsFiniteSet(S) BY <1>2, FS_Subset
  <1> QED BY <1>3, FS_CardinalityType

\* Every finite set of numbers has such a list.
LEMMA ListExists ==
    ASSUME NEW top \in Nat, NEW S \in SUBSET (0 .. top)
    PROVE  \E s : Lists(s, S)
  <1> DEFINE Bad == {n \in Nat : \E T \in SUBSET (0 .. top) :
                                    Cardinality(T) = n /\ ~\E s : Lists(s, T)}
  <1>1. ASSUME NEW T \in SUBSET (0 .. top)
        PROVE  IsFiniteSet(T) /\ Cardinality(T) \in Nat /\ T \subseteq Nat
    BY RangeFinite
  <1>2. SUFFICES ASSUME Bad # {} PROVE FALSE BY <1>1
  <1>3. PICK n \in Bad : \A m \in Bad : n <= m BY <1>2, LeastElement
  <1>4. PICK T \in SUBSET (0 .. top) : Cardinality(T) = n /\ ~\E s : Lists(s, T) BY <1>3
  <1>5. CASE T = {}
    <2>1. n = 0 BY <1>4, <1>5, FS_EmptySet
    <2> DEFINE s == [i \in 1 .. 0 |-> 0]
    <2>2. s \in [1 .. 0 -> T] /\ \A i, j \in 1 .. 0 : i < j => s[i] < s[j] BY <1>5
    <2> QED BY <2>1, <2>2, <1>4 DEF Lists
  <1>6. CASE T # {}
    <2> DEFINE x == Latest(T)
               U == T \ {x}
    <2>1. x \in T /\ \A k \in T : k <= x
      <3>1. T \subseteq Nat /\ \A k \in T : k <= top BY <1>1
      <3> QED BY <3>1, <1>6, LatestIsGreatest
    <2>2. n \in Nat /\ n # 0 BY <1>1, <1>3, <1>4, <1>6, FS_EmptySet
    <2> HIDE DEF x
    <2>3. U \in SUBSET (0 .. top) /\ Cardinality(U) = n - 1
      BY <1>1, <1>4, <2>1, FS_RemoveElement
    <2>4. n - 1 \in Nat /\ n - 1 \notin Bad BY <1>3, <2>2
    <2>5. PICK s : Lists(s, U) BY <2>3, <2>4
    <2> DEFINE r == [i \in 1 .. n |-> IF i = n THEN x ELSE s[i]]
    <2>6. s \in [1 .. n - 1 -> U] /\ \A i, j \in 1 .. n - 1 : i < j => s[i] < s[j]
      BY <2>3, <2>5 DEF Lists
    <2> HIDE DEF U
    <2>7. r \in [1 .. n -> T] BY <2>1, <2>2, <2>6 DEF U
    <2>8. ASSUME NEW i \in 1 .. n, NEW j \in 1 .. n, i < j PROVE r[i] < r[j]
      <3>1. i \in 1 .. n - 1 /\ r[i] = s[i] BY <2>8, <2>2
      <3>2. CASE j = n
        <4>1. s[i] \in U BY <3>1, <2>6
        <4>2. s[i] \in T /\ s[i] # x BY <4>1 DEF U
        <4>3. s[i] <= x /\ s[i] \in Nat /\ x \in Nat BY <4>2, <2>1, <1>1
        <4> QED BY <4>2, <4>3, <3>1, <3>2
      <3>3. CASE j # n
        <4>1. j \in 1 .. n - 1 /\ r[j] = s[j] BY <3>3, <2>2
        <4> QED BY <4>1, <3>1, <2>6, <2>8
      <3> QED BY <3>2, <3>3
    <2> HIDE DEF r
    <2> QED BY <2>7, <2>8, <1>4 DEF Lists
  <1> QED BY <1>5, <1>6

\* Ascending is such a list, and it is complete.
LEMMA AscendingLists ==
    ASSUME NEW top \in Nat, NEW S \in SUBSET (0 .. top)
    PROVE  /\ Lists(Ascending(S), S) /\ Cardinality(S) \in Nat
           /\ \A x \in S : \E i \in 1 .. Cardinality(S) : Ascending(S)[i] = x
  <1> DEFINE n == Cardinality(S)
             s == Ascending(S)
  <1>1. IsFiniteSet(S) /\ n \in Nat /\ S \subseteq Nat BY RangeFinite
  <1>2. Lists(s, S)
    <2>1. \E r \in [1 .. n -> S] : \A i, j \in 1 .. n : i < j => r[i] < r[j]
      BY ListExists DEF Lists
    <2> QED BY <2>1 DEF Ascending, Lists
  <1> HIDE DEF s
  <1>3. s \in Injection(1 .. n, S)
    <2>1. s \in [1 .. n -> S] BY <1>2 DEF Lists
    <2>2. ASSUME NEW i \in 1 .. n, NEW j \in 1 .. n, s[i] = s[j] PROVE i = j
      <3>1. s[i] \in Nat /\ s[j] \in Nat BY <2>1, <1>1
      <3>2. ~(i < j) /\ ~(j < i) BY <3>1, <2>2, <1>2 DEF Lists
      <3> QED BY <3>2, <1>1
    <2> QED BY <2>1, <2>2 DEF Injection, IsInjective
  <1>4. Cardinality(1 .. n) = n
    <2>1. Cardinality(1 .. n) = IF 1 > n THEN 0 ELSE n - 1 + 1 BY <1>1, FS_Interval
    <2> QED BY <2>1, <1>1
  <1>5. s \in Surjection(1 .. n, S) BY <1>1, <1>3, <1>4, FS_Injection
  <1>6. \A x \in S : \E i \in 1 .. n : s[i] = x BY <1>5 DEF Surjection
  <1> QED BY <1>1, <1>2, <1>6 DEF s

-----------------------------------------------------------------------------
(* The records a call works on.                                            *)

\* The parts of a session.
Parts(s, exec, pause, hashes, sampled, progress, stalled) ==
    /\ s = [exec |-> exec, pause |-> pause, hashes |-> hashes, sampled |-> sampled,
            progress |-> progress, stalled |-> stalled]
    /\ s.exec = exec /\ s.pause = pause /\ s.hashes = hashes /\ s.sampled = sampled
    /\ s.progress = progress /\ s.stalled = stalled

IsPlayer(s) ==
    /\ Parts(s, s.exec, s.pause, s.hashes, s.sampled, s.progress, s.stalled)
    /\ s.pause \in Controls /\ s.sampled \in Nat \cup {None} /\ s.stalled \in BOOLEAN

\* A work record, and one with its parts.
Works(w, s, out, err) ==
    w = [s |-> s, out |-> out, err |-> err] /\ w.s = s /\ w.out = out /\ w.err = err
IsWork(w) ==
    /\ Works(w, w.s, w.out, w.err) /\ IsPlayer(w.s)
    /\ w.out \in Seq(Messages) /\ w.err \in {None, "protocol", "rollback", "closed"}

\* A new work record, one that sends more, and one that fails.
LEMMA WorkParts ==
    /\ \A s : Works(Begin(s), s, <<>>, None)
    /\ \A w, x : IsWork(w) => Works(Send(w, x), w.s, w.out \o x, w.err)
    /\ \A w, why : IsWork(w) => Works(Fail(w, why), w.s, w.out, why)
  <1>1. \A s : Works(Begin(s), s, <<>>, None) BY DEF Begin, Works
  <1>2. ASSUME NEW w, NEW x, IsWork(w) PROVE Works(Send(w, x), w.s, w.out \o x, w.err)
    <2> DEFINE y == w.out \o x
    <2>1. Send(w, x) = [w EXCEPT !.out = y] BY DEF Send
    <2> HIDE DEF y
    <2>2. Works([w EXCEPT !.out = y], w.s, y, w.err) BY <1>2 DEF IsWork, Works
    <2> QED BY <2>1, <2>2 DEF y
  <1>3. ASSUME NEW w, NEW why, IsWork(w) PROVE Works(Fail(w, why), w.s, w.out, why)
    BY <1>3 DEF Fail, IsWork, Works
  <1> QED BY <1>1, <1>2, <1>3

\* The work record with one part of its session changed.
LEMMA WithExec ==
    ASSUME NEW w, IsWork(w), NEW e
    PROVE  LET x == [w EXCEPT !.s.exec = e]
           IN  /\ Works(x, x.s, w.out, w.err)
               /\ Parts(x.s, e, w.s.pause, w.s.hashes, w.s.sampled, w.s.progress, w.s.stalled)
  BY DEF IsWork, Works, IsPlayer, Parts

\* Work with another pause control.
LEMMA WithPause ==
    ASSUME NEW w, IsWork(w), NEW c
    PROVE  LET x == [w EXCEPT !.s.pause = c]
           IN  /\ Works(x, x.s, w.out, w.err)
               /\ Parts(x.s, w.s.exec, c, w.s.hashes, w.s.sampled, w.s.progress, w.s.stalled)
  BY DEF IsWork, Works, IsPlayer, Parts

\* Work with other checkpoints.
LEMMA WithHashes ==
    ASSUME NEW w, IsWork(w), NEW h
    PROVE  LET x == [w EXCEPT !.s.hashes = h]
           IN  /\ Works(x, x.s, w.out, w.err)
               /\ Parts(x.s, w.s.exec, w.s.pause, h, w.s.sampled, w.s.progress, w.s.stalled)
  BY DEF IsWork, Works, IsPlayer, Parts

\* Work with another progress of the peer.
LEMMA WithProgress ==
    ASSUME NEW w, IsWork(w), NEW r
    PROVE  LET x == [w EXCEPT !.s.progress = r]
           IN  /\ Works(x, x.s, w.out, w.err)
               /\ Parts(x.s, w.s.exec, w.s.pause, w.s.hashes, w.s.sampled, r, w.s.stalled)
  BY DEF IsWork, Works, IsPlayer, Parts

\* Work with another stall flag.
LEMMA WithStalled ==
    ASSUME NEW w, IsWork(w), NEW b
    PROVE  LET x == [w EXCEPT !.s.stalled = b]
           IN  /\ Works(x, x.s, w.out, w.err)
               /\ Parts(x.s, w.s.exec, w.s.pause, w.s.hashes, w.s.sampled, w.s.progress, b)
  BY DEF IsWork, Works, IsPlayer, Parts

\* Work with another timeline.
LEMMA WithTimeline ==
    ASSUME NEW w, IsWork(w), NEW u
    PROVE  LET x == [w EXCEPT !.s.exec.timeline = u]
           IN  /\ Works(x, x.s, w.out, w.err)
               /\ Parts(x.s, [w.s.exec EXCEPT !.timeline = u], w.s.pause, w.s.hashes,
                        w.s.sampled, w.s.progress, w.s.stalled)
  <1> DEFINE d == [w.s.exec EXCEPT !.timeline = u]
             x == [w EXCEPT !.s.exec.timeline = u]
             y == [w EXCEPT !.s.exec = d]
  <1>1. x = y OBVIOUS
  <1>2. /\ Works(y, y.s, w.out, w.err)
        /\ Parts(y.s, d, w.s.pause, w.s.hashes, w.s.sampled, w.s.progress, w.s.stalled)
    <2> HIDE DEF d
    <2> QED BY WithExec
  <1> HIDE DEF y
  <1> QED BY <1>1, <1>2

\* Work after a commit: another execution and other checkpoints.
LEMMA WithCommit ==
    ASSUME NEW w, IsWork(w), NEW e, NEW h
    PROVE  LET x == [w EXCEPT !.s.exec = e, !.s.hashes = h]
           IN  /\ Works(x, x.s, w.out, w.err)
               /\ Parts(x.s, e, w.s.pause, h, w.s.sampled, w.s.progress, w.s.stalled)
  <1> DEFINE y == [w.s EXCEPT !.exec = e, !.hashes = h]
             x == [w EXCEPT !.s.exec = e, !.s.hashes = h]
  <1>1. Parts(y, e, w.s.pause, h, w.s.sampled, w.s.progress, w.s.stalled)
    <2>1. w.s = [exec |-> w.s.exec, pause |-> w.s.pause, hashes |-> w.s.hashes,
                 sampled |-> w.s.sampled, progress |-> w.s.progress,
                 stalled |-> w.s.stalled]
      BY DEF IsWork, IsPlayer, Parts
    <2> DEFINE z == [w.s EXCEPT !.exec = e]
    <2>2. z = [exec |-> e, pause |-> w.s.pause, hashes |-> w.s.hashes,
               sampled |-> w.s.sampled, progress |-> w.s.progress,
               stalled |-> w.s.stalled]
      BY <2>1
    <2>3. y = [z EXCEPT !.hashes = h] OBVIOUS
    <2> HIDE DEF z
    <2>4. y = [exec |-> e, pause |-> w.s.pause, hashes |-> h,
               sampled |-> w.s.sampled, progress |-> w.s.progress,
               stalled |-> w.s.stalled]
      BY <2>2, <2>3
    <2> HIDE DEF y
    <2> QED BY <2>4 DEF Parts
  <1>2. x = [w EXCEPT !.s = y] BY DEF IsWork, Works, IsPlayer, Parts
  <1> HIDE DEF y, x
  <1>3. Works(x, y, w.out, w.err) BY <1>2 DEF IsWork, Works
  <1>4. x.s = y BY <1>3 DEF Works
  <1> QED BY <1>1, <1>3, <1>4 DEF x

\* Work after a frame: another execution and another frame sampled.
LEMMA WithPlay ==
    ASSUME NEW w, IsWork(w), NEW e, NEW f
    PROVE  LET x == [w EXCEPT !.s.exec = e, !.s.sampled = f]
           IN  /\ Works(x, x.s, w.out, w.err)
               /\ Parts(x.s, e, w.s.pause, w.s.hashes, f, w.s.progress, w.s.stalled)
  <1> DEFINE y == [w.s EXCEPT !.exec = e, !.sampled = f]
             x == [w EXCEPT !.s.exec = e, !.s.sampled = f]
  <1>1. Parts(y, e, w.s.pause, w.s.hashes, f, w.s.progress, w.s.stalled)
    <2>1. w.s = [exec |-> w.s.exec, pause |-> w.s.pause, hashes |-> w.s.hashes,
                 sampled |-> w.s.sampled, progress |-> w.s.progress,
                 stalled |-> w.s.stalled]
      BY DEF IsWork, IsPlayer, Parts
    <2> DEFINE z == [w.s EXCEPT !.exec = e]
    <2>2. z = [exec |-> e, pause |-> w.s.pause, hashes |-> w.s.hashes,
               sampled |-> w.s.sampled, progress |-> w.s.progress,
               stalled |-> w.s.stalled]
      BY <2>1
    <2>3. y = [z EXCEPT !.sampled = f] OBVIOUS
    <2> HIDE DEF z
    <2>4. y = [exec |-> e, pause |-> w.s.pause, hashes |-> w.s.hashes,
               sampled |-> f, progress |-> w.s.progress,
               stalled |-> w.s.stalled]
      BY <2>2, <2>3
    <2> HIDE DEF y
    <2> QED BY <2>4 DEF Parts
  <1>2. x = [w EXCEPT !.s = y] BY DEF IsWork, Works, IsPlayer, Parts
  <1> HIDE DEF y, x
  <1>3. Works(x, y, w.out, w.err) BY <1>2 DEF IsWork, Works
  <1>4. x.s = y BY <1>3 DEF Works
  <1> QED BY <1>1, <1>3, <1>4 DEF x

-----------------------------------------------------------------------------
(* What every call keeps, for every delay and every capacity.              *)

\* Of its own inputs the game has none after the frame sampled last, and that
\* one is still held.
Own(t, g) ==
    \A f \in DOMAIN g : g[f][t.player] # None =>
        /\ f <= SampleFrame(t)
        /\ f = SampleFrame(t) => Entry(t.inputs, f)[t.player] = g[f][t.player]

\* Player p's session, while it plays the game g.
Sound(s, p, g) ==
    /\ IsPlayer(s) /\ ExecutionInv(s.exec, g) /\ s.exec.timeline.player = p
    /\ Sane(s.pause) /\ Below(s.pause, Frame(s))

\* The inputs in h, sent by p, are those of the game.
Fits(g, p, m) ==
    IsInput(m) => m.frame \in DOMAIN g /\ m.word \in Buttons /\ g[m.frame][p] = m.word
Speaks(g, p, h) == h \in Seq(Messages) /\ \A i \in 1 .. Len(h) : Fits(g, p, h[i])

\* What was shown before is shown still.
Longer(now, before) ==
    \A k \in DOMAIN before : k \in DOMAIN now /\ now[k] = before[k]

\* Where a call of p that began with `shown` released has got to.
Busy(w, p, g, shown) ==
    /\ IsWork(w) /\ w.err \in {None, "protocol", "closed"} /\ Sound(w.s, p, g)
    /\ Own(w.s.exec.timeline, g) /\ Speaks(g, p, w.out)
    /\ Longer(w.s.exec.released, shown)

\* The same, by parts.
LEMMA BusyParts ==
    ASSUME NEW x, NEW p, NEW g, NEW shown, NEW e, NEW c \in Controls, NEW h,
           NEW f \in Nat \cup {None}, NEW r, NEW b \in BOOLEAN, NEW out,
           NEW err \in {None, "protocol", "closed"},
           Works(x, x.s, out, err), Parts(x.s, e, c, h, f, r, b),
           ExecutionInv(e, g), e.timeline.player = p, Own(e.timeline, g),
           Sane(c), Below(c, e.timeline.frame), Speaks(g, p, out), Longer(e.released, shown)
    PROVE  Busy(x, p, g, shown)
  <1>1. /\ x.s.exec = e /\ x.s.pause = c /\ x.s.sampled = f /\ x.s.stalled = b
        /\ x.s.hashes = h /\ x.s.progress = r
    BY DEF Parts
  <1>2. IsPlayer(x.s) BY <1>1 DEF IsPlayer
  <1>3. x.out = out /\ x.err = err /\ out \in Seq(Messages) BY DEF Works, Speaks
  <1>4. IsWork(x) BY <1>2, <1>3 DEF IsWork
  <1>5. Sound(x.s, p, g) BY <1>1, <1>2 DEF Sound, Frame
  <1> QED BY <1>1, <1>3, <1>4, <1>5 DEF Busy

\* What is sent after what was sent.
LEMMA SpeaksOn ==
    ASSUME NEW g, NEW p, NEW h, NEW x, Speaks(g, p, h), Speaks(g, p, x)
    PROVE  Speaks(g, p, h \o x)
  <1>1. h \in Seq(Messages) /\ x \in Seq(Messages) BY DEF Speaks
  <1>2. /\ h \o x \in Seq(Messages) /\ Len(h) \in Nat /\ Len(x) \in Nat
        /\ \A i \in 1 .. Len(h \o x) :
                \/ i \in 1 .. Len(h)
                \/ ~(i \in 1 .. Len(h)) /\ i - Len(h) \in 1 .. Len(x)
                   /\ (h \o x)[i] = x[i - Len(h)]
        /\ \A i \in 1 .. Len(h) : (h \o x)[i] = h[i]
    BY <1>1, ConcatFacts
  <1>3. ASSUME NEW i \in 1 .. Len(h \o x) PROVE Fits(g, p, (h \o x)[i])
    <2>1. CASE i \in 1 .. Len(h) BY <2>1, <1>2 DEF Speaks
    <2>2. CASE ~(i \in 1 .. Len(h)) BY <2>2, <1>2 DEF Speaks
    <2> QED BY <2>1, <2>2
  <1> QED BY <1>2, <1>3 DEF Speaks

\* A message that is no input.
LEMMA SpeaksOne ==
    ASSUME NEW g, NEW p, NEW m \in Messages, Fits(g, p, m)
    PROVE  Speaks(g, p, <<m>>)
  <1>1. <<m>> \in Seq(Messages) /\ Len(<<m>>) = 1 /\ <<m>>[1] = m OBVIOUS
  <1> QED BY <1>1 DEF Speaks

\* To send nothing says nothing of the game.
LEMMA SpeaksNothing == \A g, p : Speaks(g, p, <<>>)
  BY DEF Speaks

\* Own inputs are kept by a session that does not play on.
LEMMA OwnKept ==
    ASSUME NEW t, NEW u, NEW g, Own(t, g), u.player = t.player, u.frame = t.frame,
           Entry(u.inputs, SampleFrame(t))[t.player] = Entry(t.inputs, SampleFrame(t))[t.player]
    PROVE  Own(u, g)
  BY DEF Own, SampleFrame

\* handle_event of Message::Input: the timeline takes the word of the game.
LEMMA InputTaken ==
    ASSUME NEW e, NEW g, ExecutionInv(e, g), NEW f \in Nat, NEW b \in Buttons,
           ~ReceiveErr(e.timeline, f, b), f \in DOMAIN g,
           g[f][Other(e.timeline.player)] = b, Own(e.timeline, g)
    PROVE  LET u == ReceiveRemote(e.timeline, f, b)
               d == [e EXCEPT !.timeline = u]
           IN  /\ ExecutionInv(d, g) /\ Own(u, g) /\ d.timeline = u
               /\ u.player = e.timeline.player /\ u.frame = e.timeline.frame
               /\ d.released = e.released /\ d.committed = e.committed
               /\ d.outputs = e.outputs
  <1> DEFINE t == e.timeline
             u == ReceiveRemote(t, f, b)
             d == [e EXCEPT !.timeline = u]
             q == Other(t.player)
  <1>1. /\ TimelineInv(t, g) /\ IsSession(e) /\ t.player \in Ports /\ t.frame \in Nat
        /\ IsMap(g, Entries)
    BY ExecutionFacts DEF ExecutionInv, ExecutionType, IsSession, TimelineInv
  <1>2. q \in Ports /\ q # t.player BY <1>1, TwoPorts
  <1>3. Put(g, f, q, b) = g BY <1>1, <1>2, PutSame
  <1>4. ExecutionInv(d, g) BY <1>3, ReceiveInv
  <1>5. u.player = t.player /\ u.frame = t.frame BY <1>1, ReceiveRemoteFields
  <1>6. SampleFrame(t) \in Nat BY <1>1, DelayAssumption DEF SampleFrame
  <1>7. Entry(u.inputs, SampleFrame(t))[t.player] = Entry(t.inputs, SampleFrame(t))[t.player]
    BY <1>1, <1>2, <1>6, ReceiveEntry
  <1>8. Own(u, g) BY <1>5, <1>7, OwnKept
  <1> HIDE DEF u
  <1>9. /\ d.timeline = u /\ d.released = e.released /\ d.committed = e.committed
        /\ d.outputs = e.outputs
    BY <1>1 DEF IsSession
  <1> QED BY <1>4, <1>5, <1>8, <1>9 DEF u

\* The messages the pause agreement answers with.
LEMMA PauseMessages ==
    /\ \A r \in Nat : /\ [type |-> "PauseAck", request |-> r] \in Messages
                      /\ [type |-> "PauseAck", request |-> r].type = "PauseAck"
                      /\ [type |-> "PauseAck", request |-> r].request = r
    /\ \A g, p : \A m \in Messages : ~IsInput(m) => Fits(g, p, m)
  BY DEF Messages, AckMessages, Fits

\* What fn observe leaves, also when the request is a repetition.
LEMMA ObserveKept ==
    ASSUME NEW c \in Controls, NEW f \in Nat, Sane(c), Below(c, f), NEW m \in Messages,
           IsChange(m), ~ObserveErr(c, f, m)
    PROVE  /\ Observe(c, m) \in Controls /\ Sane(Observe(c, m)) /\ Below(Observe(c, m), f)
           /\ Observe(c, m).reported = c.reported
  <1>1. CASE Repeated(c, m) BY <1>1 DEF Observe
  <1>2. CASE ~Repeated(c, m)
    <2>1. /\ Observe(c, m) \in Controls /\ Observed(c, Observe(c, m), m)
          /\ Observe(c, m).reported = c.reported
      BY <1>2, ObserveFields
    <2> HIDE DEF Observe
    <2> QED BY <2>1, <1>2, SaneMoves
  <1> QED BY <1>1, <1>2

\* What fn acknowledge leaves, and that its message is typed.
LEMMA AcknowledgeKept ==
    ASSUME NEW c \in Controls, NEW f \in Nat, Sane(c), Below(c, f), NEW m \in Messages,
           m.type = "PauseAck", ~AcknowledgeErr(c, m)
    PROVE  LET a == Acknowledged(c, m)
           IN  /\ a \in Controls /\ Sane(a) /\ Below(a, f) /\ a.reported = c.reported
               /\ Reconcile(a, f) \in Controls /\ Sane(Reconcile(a, f))
               /\ Below(Reconcile(a, f), f) /\ Reconcile(a, f).reported = c.reported
  <1> DEFINE a == Acknowledged(c, m)
  <1>1. a \in Controls /\ Heard(c, a, m) /\ a.reported = c.reported BY AcknowledgedFields
  <1>2. Sane(a) /\ Below(a, f) BY <1>1, SaneMoves
  <1> HIDE DEF a
  <1>3. /\ Reconcile(a, f) \in Controls /\ Reconcile(a, f).reported = a.reported
        /\ Sane(Reconcile(a, f)) /\ Below(Reconcile(a, f), f)
    <2>1. <<>> \in Seq(Messages) OBVIOUS
    <2> QED BY <2>1, <1>1, <1>2, ReconcileMoves
  <1> QED BY <1>1, <1>2, <1>3 DEF a

\* The message fn reconcile returns is a change.
LEMMA ChangeSpeaks ==
    ASSUME NEW c \in Controls, NEW f \in Nat, Sane(c), Below(c, f), NEW g, NEW p
    PROVE  Speaks(g, p, Change(c, f)) /\ Change(c, f) \in Seq(Messages)
  <1>1. CASE Deferred(c)
    <2>1. Change(c, f) = <<>> BY <1>1 DEF Change
    <2> QED BY <2>1, SpeaksNothing
  <1>2. CASE ~Deferred(c)
    <2> DEFINE n == Change(c, f)[1]
               c2 == Reconcile(c, f)
    <2>1. /\ n \in Messages /\ Change(c, f) = <<n>>
          /\ c.desired => Voted(c, c2, f, n)
          /\ ~c.desired => Withdrawn(c, c2, n)
      BY <1>2, ReconcileFields DEF Below
    <2>2. IsChange(n) BY <2>1 DEF Voted, Withdrawn, IsVote
    <2> HIDE DEF n
    <2>3. Fits(g, p, n) BY <2>2 DEF Fits, IsInput, IsChange
    <2>4. Speaks(g, p, <<n>>) BY <2>1, <2>3, SpeaksOne
    <2> QED BY <2>1, <2>4 DEF Speaks
  <1> QED BY <1>1, <1>2

\* One event of a batch.
LEMMA EventKept ==
    ASSUME NEW w, NEW p \in Ports, NEW g, NEW shown, Busy(w, p, g, shown),
           NEW m \in Messages, Fits(g, Other(p), m)
    PROVE  Busy(HandleEvent(w, m), p, g, shown)
  <1> DEFINE s == w.s
             e == s.exec
             t == e.timeline
             c == s.pause
             x == HandleEvent(w, m)
  <1>1. /\ IsWork(w) /\ w.err \in {None, "protocol", "closed"} /\ Sound(s, p, g) /\ Own(t, g)
        /\ Speaks(g, p, w.out) /\ Longer(e.released, shown)
    BY DEF Busy
  <1>2. /\ ExecutionInv(e, g) /\ t.player = p /\ Sane(c) /\ Below(c, t.frame)
        /\ c \in Controls /\ s.sampled \in Nat \cup {None} /\ s.stalled \in BOOLEAN
        /\ Parts(s, e, c, s.hashes, s.sampled, s.progress, s.stalled)
        /\ t.frame \in Nat /\ IsSession(e)
    BY <1>1, ExecutionFacts DEF Sound, IsPlayer, Frame, ExecutionInv, ExecutionType, IsSession
  <1>3. ASSUME NEW why \in {"protocol", "closed"} PROVE Busy(Fail(w, why), p, g, shown)
    <2>1. Works(Fail(w, why), s, w.out, why) BY <1>1, WorkParts
    <2>2. Fail(w, why).s = s BY <2>1 DEF Works
    <2> HIDE DEF s, e, t, c
    <2> QED BY <2>1, <2>2, <1>1, <1>2, BusyParts DEF s, e, t, c
  <1>4. CASE w.err # None BY <1>4 DEF HandleEvent
  <1>5. CASE w.err = None /\ EventErr(s, m)
    <2>1. x = Fail(w, "protocol") BY <1>5 DEF HandleEvent
    <2> QED BY <2>1, <1>3
  <1>6. CASE w.err = None /\ ~EventErr(s, m)
    <2>1. CASE m.type = "Input"
      <3>1. ~ReceiveErr(t, m.frame, m.word) BY <1>6, <2>1 DEF EventErr
      <3> DEFINE u == ReceiveRemote(t, m.frame, m.word)
                 d == [e EXCEPT !.timeline = u]
      <3>2. x = [w EXCEPT !.s.exec.timeline = u] BY <1>6, <2>1 DEF HandleEvent
      <3>3. /\ m.frame \in Nat /\ m.frame \in DOMAIN g /\ m.word \in Buttons
            /\ g[m.frame][Other(t.player)] = m.word
        BY <1>2, <2>1, MessageTypes DEF Fits, IsInput
      <3>4. /\ ExecutionInv(d, g) /\ Own(u, g) /\ d.timeline = u /\ u.player = p
            /\ u.frame = t.frame /\ d.released = e.released
        BY <1>1, <1>2, <3>1, <3>3, InputTaken
      <3> HIDE DEF u
      <3>5. /\ Works(x, x.s, w.out, w.err)
            /\ Parts(x.s, d, c, s.hashes, s.sampled, s.progress, s.stalled)
        BY <1>1, <3>2, WithTimeline
      <3> HIDE DEF s, e, t, c, d, x
      <3> QED BY <1>1, <1>2, <3>4, <3>5, BusyParts DEF x
    <2>2. CASE m.type = "Progress"
      <3> DEFINE r == [frame |-> m.frame, confirmed |-> m.confirmed]
      <3>1. x = [w EXCEPT !.s.progress = r] BY <1>6, <2>2 DEF HandleEvent
      <3> HIDE DEF r
      <3>2. /\ Works(x, x.s, w.out, w.err)
            /\ Parts(x.s, e, c, s.hashes, s.sampled, r, s.stalled)
        BY <1>1, <3>1, WithProgress
      <3> HIDE DEF s, e, t, c, x
      <3> QED BY <1>1, <1>2, <3>2, BusyParts DEF x, t
    <2>3. CASE m.type = "Checkpoint"
      <3> DEFINE h == Remote(s.hashes, m)
      <3>1. x = [w EXCEPT !.s.hashes = h] BY <1>6, <2>3 DEF HandleEvent
      <3> HIDE DEF h
      <3>2. /\ Works(x, x.s, w.out, w.err)
            /\ Parts(x.s, e, c, h, s.sampled, s.progress, s.stalled)
        BY <1>1, <3>1, WithHashes
      <3> HIDE DEF s, e, t, c, x
      <3> QED BY <1>1, <1>2, <3>2, BusyParts DEF x, t
    <2>4. CASE m.type = "PauseChange"
      <3> DEFINE d == Observe(c, m)
                 n == [type |-> "PauseAck", request |-> m.request]
                 y == [w EXCEPT !.s.pause = d]
      <3>1. x = Send(y, <<n>>) BY <1>6, <2>4 DEF HandleEvent
      <3>2. ~ObserveErr(c, t.frame, m) /\ IsChange(m) /\ m.request \in Nat
        BY <1>6, <2>4, MessageTypes DEF EventErr, IsChange
      <3>3. d \in Controls /\ Sane(d) /\ Below(d, t.frame) BY <1>2, <3>2, ObserveKept
      <3>4. n \in Messages /\ Fits(g, p, n) BY <3>2, PauseMessages DEF IsInput
      <3> HIDE DEF d, n
      <3>5. /\ Works(y, y.s, w.out, w.err)
            /\ Parts(y.s, e, d, s.hashes, s.sampled, s.progress, s.stalled)
        BY <1>1, WithPause
      <3> HIDE DEF s, e, t, c, x, y
      <3>6. Busy(y, p, g, shown) BY <1>1, <1>2, <3>3, <3>5, BusyParts DEF t
      <3>7. Works(x, y.s, y.out \o <<n>>, y.err) BY <3>1, <3>6, WorkParts DEF Busy
      <3>8. x.s = y.s /\ y.out = w.out /\ y.err = w.err BY <3>5, <3>7 DEF Works
      <3>9. Speaks(g, p, w.out \o <<n>>) BY <1>1, <3>4, SpeaksOne, SpeaksOn
      <3>10. /\ Works(x, x.s, w.out \o <<n>>, w.err)
             /\ Parts(x.s, e, d, s.hashes, s.sampled, s.progress, s.stalled)
        BY <3>5, <3>7, <3>8
      <3> QED BY <1>1, <1>2, <3>3, <3>9, <3>10, BusyParts DEF x, t
    <2>5. CASE m.type = "PauseAck"
      <3> DEFINE a == Acknowledged(c, m)
                 d == Reconcile(a, t.frame)
                 n == Change(a, t.frame)
                 y == [w EXCEPT !.s.pause = d]
      <3>1. x = Send(y, n) BY <1>6, <2>5 DEF HandleEvent, Frame
      <3>2. ~AcknowledgeErr(c, m) BY <1>6, <2>5 DEF EventErr
      <3>3. /\ a \in Controls /\ Sane(a) /\ Below(a, t.frame)
            /\ d \in Controls /\ Sane(d) /\ Below(d, t.frame)
        BY <1>2, <2>5, <3>2, AcknowledgeKept
      <3> HIDE DEF a
      <3>4. Speaks(g, p, n) BY <1>2, <3>3, ChangeSpeaks
      <3> HIDE DEF d, n
      <3>5. /\ Works(y, y.s, w.out, w.err)
            /\ Parts(y.s, e, d, s.hashes, s.sampled, s.progress, s.stalled)
        BY <1>1, WithPause
      <3> HIDE DEF s, e, t, c, x, y
      <3>6. Busy(y, p, g, shown) BY <1>1, <1>2, <3>3, <3>5, BusyParts DEF t
      <3>7. Works(x, y.s, y.out \o n, y.err) BY <3>1, <3>6, WorkParts DEF Busy
      <3>8. x.s = y.s /\ y.out = w.out /\ y.err = w.err BY <3>5, <3>7 DEF Works
      <3>9. Speaks(g, p, w.out \o n) BY <1>1, <3>4, SpeaksOn
      <3>10. /\ Works(x, x.s, w.out \o n, w.err)
             /\ Parts(x.s, e, d, s.hashes, s.sampled, s.progress, s.stalled)
        BY <3>5, <3>7, <3>8
      <3> QED BY <1>1, <1>2, <3>3, <3>9, <3>10, BusyParts DEF x, t
    <2>6. CASE m.type = "Close"
      <3>1. x = Fail(w, "closed") BY <1>6, <2>6 DEF HandleEvent
      <3> QED BY <3>1, <1>3
    <2> QED BY <2>1, <2>2, <2>3, <2>4, <2>5, <2>6, MessageTypes
  <1> QED BY <1>4, <1>5, <1>6

\* All the events of a batch.
LEMMA HandledKept ==
    ASSUME NEW s, NEW p \in Ports, NEW g, NEW shown, Busy(Begin(s), p, g, shown),
           NEW h, Speaks(g, Other(p), h)
    PROVE  Busy(Handled(s, h), p, g, shown)
  <1>1. h \in Seq(Messages) /\ Len(h) \in Nat BY DEF Speaks
  <1>2. PICK a : Steps(a, s, h) /\ Handled(s, h) = a[Len(h)] BY <1>1, HandledSteps
  <1> DEFINE Bad == {n \in 0 .. Len(h) : ~Busy(a[n], p, g, shown)}
  <1>3. SUFFICES ASSUME Bad # {} PROVE FALSE
    <2>1. Len(h) \in 0 .. Len(h) BY <1>1
    <2> QED BY <2>1, <1>2
  <1>4. Bad \subseteq Nat OBVIOUS
  <1>5. PICK n \in Bad : \A m \in Bad : n <= m BY <1>3, <1>4, LeastElement
  <1>6. n # 0 BY <1>2, <1>5 DEF Steps
  <1>7. n \in 1 .. Len(h) /\ n - 1 \in 0 .. Len(h) /\ n - 1 \notin Bad BY <1>1, <1>5, <1>6
  <1>8. Busy(a[n - 1], p, g, shown) BY <1>7
  <1>9. h[n] \in Messages /\ Fits(g, Other(p), h[n]) BY <1>1, <1>7 DEF Speaks
  <1>10. a[n] = HandleEvent(a[n - 1], h[n]) BY <1>2, <1>7 DEF Steps
  <1>11. Busy(a[n], p, g, shown) BY <1>8, <1>9, <1>10, EventKept
  <1> QED BY <1>11, <1>5

\* fn correct.
LEMMA CorrectKept ==
    ASSUME NEW w, NEW p \in Ports, NEW g, NEW shown, Busy(w, p, g, shown)
    PROVE  LET x == CorrectWork(w)
           IN  /\ Busy(x, p, g, shown)
               /\ x.err = None => x.s.exec.timeline.dirty = None
  <1> DEFINE s == w.s
             e == s.exec
             t == e.timeline
             c == s.pause
             x == CorrectWork(w)
  <1>1. /\ IsWork(w) /\ w.err \in {None, "protocol", "closed"} /\ Sound(s, p, g) /\ Own(t, g)
        /\ Speaks(g, p, w.out) /\ Longer(e.released, shown)
    BY DEF Busy
  <1>2. /\ ExecutionInv(e, g) /\ t.player = p /\ Sane(c) /\ Below(c, t.frame)
        /\ c \in Controls /\ s.sampled \in Nat \cup {None} /\ s.stalled \in BOOLEAN
        /\ t.frame \in Nat
    BY <1>1, ExecutionFacts DEF Sound, IsPlayer, Frame
  <1>3. CASE w.err # None BY <1>3 DEF CorrectWork
  <1>4. CASE w.err = None
    <2> DEFINE d == Correct(e)
               u == d.timeline
    <2>1. x = [w EXCEPT !.s.exec = d] BY <1>2, <1>4, CorrectNeverErrs DEF CorrectWork
    <2>2. /\ ExecutionInv(d, g) /\ u.dirty = None /\ u.player = p /\ u.frame = t.frame
          /\ d.released = e.released
      BY <1>2, CorrectInv
    <2>3. Keeps(t, u) BY <1>2, CorrectKeeps
    <2> HIDE DEF d
    <2>4. Entry(u.inputs, SampleFrame(t))[t.player] = Entry(t.inputs, SampleFrame(t))[t.player]
      <3>1. SampleFrame(t) \in Nat /\ SampleFrame(t) >= t.frame
        BY <1>2, DelayAssumption DEF SampleFrame
      <3> QED BY <2>3, <3>1, <1>2 DEF Keeps
    <2>5. Own(u, g) BY <1>1, <1>2, <2>2, <2>4, OwnKept
    <2>6. /\ Works(x, x.s, w.out, w.err)
          /\ Parts(x.s, d, c, s.hashes, s.sampled, s.progress, s.stalled)
      BY <1>1, <2>1, WithExec
    <2> HIDE DEF s, e, t, c, x
    <2>7. Busy(x, p, g, shown) BY <1>1, <1>2, <2>2, <2>5, <2>6, BusyParts
    <2>8. x.s.exec = d BY <2>6 DEF Parts
    <2> QED BY <2>2, <2>7, <2>8 DEF x
  <1> QED BY <1>3, <1>4

\* A released bucket is a trajectory of the machine.
LEMMA BucketType ==
    ASSUME NEW e, NEW g, ExecutionInv(e, g), NEW k \in DOMAIN e.outputs
    PROVE  k \in Nat /\ e.outputs[k] = Prefix(e.core, k) /\ Prefix(e.core, k) \in Trajectories
           /\ k <= e.timeline.frame
  <1>1. /\ DOMAIN e.outputs = e.committed + 1 .. e.timeline.frame
        /\ e.outputs[k] = Prefix(e.core, k) /\ e.committed \in Nat /\ e.timeline.frame \in Nat
    BY ExecutionFacts DEF ExecutionInv, OutputsHeld
  <1>2. k \in Nat /\ k <= e.timeline.frame BY <1>1
  <1>3. \A f \in 0 .. k - 1 : e.core[f] \in PortValues
    <2>1. /\ DOMAIN e.core = 0 .. e.timeline.frame - 1
          /\ \A f \in DOMAIN e.core : e.core[f] \in PortValues
      BY DEF ExecutionInv, ExecutionType, IsMap
    <2> QED BY <2>1, <1>1, <1>2
  <1>4. Prefix(e.core, k) \in [0 .. k - 1 -> PortValues] BY <1>3 DEF Prefix
  <1>5. Prefix(e.core, k) \in Trajectories BY <1>2, <1>4 DEF Trajectories
  <1> QED BY <1>1, <1>2, <1>5

\* The checkpoints of a commit, as messages: one for each, in frame order.
LEMMA CheckpointList ==
    ASSUME NEW e, NEW g, ExecutionInv(e, g)
    PROVE  LET made == Checkpoints(e)
               x == CheckpointMessages(made)
           IN  /\ DOMAIN made \subseteq DOMAIN e.outputs
               /\ x \in Seq(Messages)
               /\ \A i \in 1 .. Len(x) :
                    /\ x[i].type = "Checkpoint" /\ x[i].frame \in DOMAIN made
                    /\ x[i].hash = made[x[i].frame]
               /\ \A i, j \in 1 .. Len(x) : i < j => x[i].frame < x[j].frame
               /\ \A k \in DOMAIN made : \E i \in 1 .. Len(x) : x[i].frame = k
  <1> DEFINE made == Checkpoints(e)
             S == DOMAIN made
             n == Cardinality(S)
             l == Ascending(S)
             x == CheckpointMessages(made)
  <1>1. S \subseteq DOMAIN e.outputs /\ \A k \in S : made[k] = e.outputs[k]
    BY DEF Checkpoints, Released
  <1>2. \A k \in S : k \in Nat /\ made[k] \in Trajectories /\ k <= e.timeline.frame
    BY <1>1, BucketType
  <1>3. e.timeline.frame \in Nat BY ExecutionFacts
  <1>4. S \in SUBSET (0 .. e.timeline.frame) BY <1>2, <1>3
  <1> HIDE DEF made
  <1>5. Lists(l, S) /\ n \in Nat /\ \A k \in S : \E i \in 1 .. n : l[i] = k
    BY <1>3, <1>4, AscendingLists
  <1>6. l \in [1 .. n -> S] /\ \A i, j \in 1 .. n : i < j => l[i] < l[j] BY <1>5 DEF Lists
  <1>7. x = [i \in 1 .. n |-> [type |-> "Checkpoint", frame |-> l[i], hash |-> made[l[i]]]]
    BY <1>6 DEF CheckpointMessages
  <1> HIDE DEF l, n, x
  <1>8. ASSUME NEW i \in 1 .. n
        PROVE  /\ x[i] = [type |-> "Checkpoint", frame |-> l[i], hash |-> made[l[i]]]
               /\ x[i] \in Messages /\ l[i] \in S
    <2>1. x[i] = [type |-> "Checkpoint", frame |-> l[i], hash |-> made[l[i]]] BY <1>7
    <2>2. l[i] \in S BY <1>6
    <2>3. l[i] \in Nat /\ made[l[i]] \in Trajectories BY <2>2, <1>2
    <2>4. x[i] \in [type : {"Checkpoint"}, frame : Nat, hash : Trajectories] BY <2>1, <2>3
    <2> QED BY <2>1, <2>2, <2>4 DEF Messages, OtherMessages
  <1>9. x \in Seq(Messages) /\ Len(x) = n
    <2>1. x \in [1 .. n -> Messages] BY <1>7, <1>8
    <2> QED BY <2>1, <1>5
  <1>10. ASSUME NEW i \in 1 .. n
         PROVE  /\ x[i].type = "Checkpoint" /\ x[i].frame = l[i]
                /\ x[i].hash = made[l[i]] /\ l[i] \in S
    <2> DEFINE f == l[i]
               v == made[f]
    <2>1. x[i] = [type |-> "Checkpoint", frame |-> f, hash |-> v] /\ f \in S BY <1>8
    <2> HIDE DEF f, v
    <2>2. x[i].type = "Checkpoint" /\ x[i].frame = f /\ x[i].hash = v BY <2>1
    <2> QED BY <2>1, <2>2 DEF f, v
  <1> QED BY <1>1, <1>5, <1>6, <1>9, <1>10 DEF made, x

\* A call that has not failed has nothing left to correct.
Tidy(w) == w.err = None => w.s.exec.timeline.dirty = None

\* fn commit.
LEMMA CommitKept ==
    ASSUME NEW w, NEW p \in Ports, NEW g, NEW shown, Busy(w, p, g, shown), Tidy(w)
    PROVE  Busy(CommitWork(w), p, g, shown) /\ Tidy(CommitWork(w))
  <1> DEFINE s == w.s
             e == s.exec
             t == e.timeline
             c == s.pause
             made == Checkpoints(e)
             x == CommitWork(w)
  <1>1. /\ IsWork(w) /\ w.err \in {None, "protocol", "closed"} /\ Sound(s, p, g) /\ Own(t, g)
        /\ Speaks(g, p, w.out) /\ Longer(e.released, shown)
    BY DEF Busy
  <1>2. /\ ExecutionInv(e, g) /\ t.player = p /\ Sane(c) /\ Below(c, t.frame)
        /\ c \in Controls /\ s.sampled \in Nat \cup {None} /\ s.stalled \in BOOLEAN
        /\ t.frame \in Nat
        /\ Parts(s, e, c, s.hashes, s.sampled, s.progress, s.stalled)
    BY <1>1, ExecutionFacts DEF Sound, IsPlayer, Frame
  <1>3. CASE w.err # None BY <1>3 DEF CommitWork
  <1>4. CASE w.err = None
    <2> DEFINE d == Commit(e)
               h == Local(s.hashes, made)
               z == CheckpointMessages(made)
               y == [w EXCEPT !.s.exec = d, !.s.hashes = h]
    <2>1. t.dirty = None BY <1>4 DEF Tidy
    <2>2. /\ ExecutionInv(d, g) /\ d.timeline = t /\ Longer(d.released, e.released)
          /\ ~WindowErr(d)
      BY <1>2, <2>1, CommitInv DEF Longer
    <2>3. CASE LocalErr(s.hashes, made)
      <3>1. x = Fail(w, "protocol") BY <1>4, <2>3 DEF CommitWork
      <3>2. Works(x, s, w.out, "protocol") BY <1>1, <3>1, WorkParts
      <3>3. x.s = s /\ x.err = "protocol" BY <3>2 DEF Works
      <3>4. Tidy(x) BY <3>3, SessionAssumption DEF Tidy
      <3> HIDE DEF s, e, t, c, x
      <3>5. Busy(x, p, g, shown) BY <1>1, <1>2, <3>2, <3>3, BusyParts DEF t
      <3> QED BY <3>4, <3>5 DEF x
    <2>4. CASE ~LocalErr(s.hashes, made)
      <3>1. x = Send(y, z) BY <1>4, <2>2, <2>4 DEF CommitWork
      <3>2. /\ z \in Seq(Messages)
            /\ \A i \in 1 .. Len(z) : z[i].type = "Checkpoint"
        BY <1>2, CheckpointList
      <3> HIDE DEF d, h, z
      <3>3. Speaks(g, p, z) BY <3>2 DEF Speaks, Fits, IsInput
      <3>4. /\ Works(y, y.s, w.out, w.err)
            /\ Parts(y.s, d, c, h, s.sampled, s.progress, s.stalled)
        BY <1>1, WithCommit
      <3>5. Longer(d.released, shown) BY <1>1, <2>2 DEF Longer
      <3> HIDE DEF s, e, t, c, x, y
      <3>6. Busy(y, p, g, shown) BY <1>1, <1>2, <2>2, <3>4, <3>5, BusyParts
      <3>7. Works(x, y.s, y.out \o z, y.err) BY <3>1, <3>6, WorkParts DEF Busy
      <3>8. x.s = y.s /\ y.out = w.out /\ y.err = w.err BY <3>4, <3>7 DEF Works
      <3>9. Speaks(g, p, w.out \o z) BY <1>1, <3>3, SpeaksOn
      <3>10. /\ Works(x, x.s, w.out \o z, w.err)
             /\ Parts(x.s, d, c, h, s.sampled, s.progress, s.stalled)
        BY <3>4, <3>7, <3>8
      <3>11. Busy(x, p, g, shown) BY <1>1, <1>2, <2>2, <3>5, <3>9, <3>10, BusyParts
      <3>12. x.s.exec = d BY <3>10 DEF Parts
      <3> QED BY <2>1, <2>2, <3>11, <3>12 DEF x, Tidy
    <2> QED BY <2>3, <2>4
  <1> QED BY <1>3, <1>4

\* fn report_pause and the flag of a stalled session leave the game alone.
LEMMA ReportKept ==
    ASSUME NEW w, NEW p \in Ports, NEW g, NEW shown, Busy(w, p, g, shown), Tidy(w)
    PROVE  /\ Busy(ReportWork(w), p, g, shown) /\ Tidy(ReportWork(w))
           /\ ReportWork(w).err = w.err
           /\ \A b \in BOOLEAN : /\ Busy([w EXCEPT !.s.stalled = b], p, g, shown)
                                 /\ Tidy([w EXCEPT !.s.stalled = b])
                                 /\ [w EXCEPT !.s.stalled = b].err = w.err
  <1> DEFINE s == w.s
             e == s.exec
             t == e.timeline
             c == s.pause
             d == Report(c, Frame(s), Confirmed(s))
             x == ReportWork(w)
  <1>1. /\ IsWork(w) /\ w.err \in {None, "protocol", "closed"} /\ Sound(s, p, g) /\ Own(t, g)
        /\ Speaks(g, p, w.out) /\ Longer(e.released, shown)
    BY DEF Busy
  <1>2. /\ ExecutionInv(e, g) /\ t.player = p /\ Sane(c) /\ Below(c, t.frame)
        /\ c \in Controls /\ s.sampled \in Nat \cup {None} /\ s.stalled \in BOOLEAN
        /\ t.frame \in Nat
    BY <1>1, ExecutionFacts DEF Sound, IsPlayer, Frame
  <1>3. x = [w EXCEPT !.s.pause = d] BY DEF ReportWork
  <1>4. d \in Controls /\ Same(c, d) BY <1>2, ReportFields
  <1>5. Sane(d) /\ Below(d, t.frame) BY <1>2, <1>4, SaneMoves
  <1> HIDE DEF d
  <1>6. /\ Works(x, x.s, w.out, w.err)
        /\ Parts(x.s, e, d, s.hashes, s.sampled, s.progress, s.stalled)
    BY <1>1, <1>3, WithPause
  <1>7. ASSUME NEW b \in BOOLEAN
        PROVE  /\ Busy([w EXCEPT !.s.stalled = b], p, g, shown)
               /\ Tidy([w EXCEPT !.s.stalled = b])
               /\ [w EXCEPT !.s.stalled = b].err = w.err
    <2> DEFINE y == [w EXCEPT !.s.stalled = b]
    <2>1. /\ Works(y, y.s, w.out, w.err)
          /\ Parts(y.s, e, c, s.hashes, s.sampled, s.progress, b)
      BY <1>1, WithStalled
    <2> HIDE DEF s, e, t, c, x, y
    <2>2. Busy(y, p, g, shown) BY <1>1, <1>2, <2>1, BusyParts DEF t
    <2>3. y.s.exec = e /\ y.err = w.err BY <2>1 DEF Parts, Works
    <2> QED BY <2>2, <2>3 DEF y, Tidy, e, s
  <1> HIDE DEF s, e, t, c, x
  <1>8. Busy(x, p, g, shown) BY <1>1, <1>2, <1>4, <1>5, <1>6, BusyParts DEF t
  <1>9. x.s.exec = e /\ x.err = w.err BY <1>6 DEF Parts, Works
  <1> QED BY <1>7, <1>8, <1>9 DEF x, Tidy, e, s

\* fn send_progress.
LEMMA ProgressKept ==
    ASSUME NEW w, NEW p \in Ports, NEW g, NEW shown, Busy(w, p, g, shown), Tidy(w)
    PROVE  Busy(ProgressWork(w), p, g, shown) /\ Tidy(ProgressWork(w))
  <1> DEFINE s == w.s
             e == s.exec
             t == e.timeline
             m == [type |-> "Progress", frame |-> Frame(s), confirmed |-> Confirmed(s)]
             x == ProgressWork(w)
  <1>1. /\ IsWork(w) /\ w.err \in {None, "protocol", "closed"} /\ Sound(s, p, g) /\ Own(t, g)
        /\ Speaks(g, p, w.out) /\ Longer(e.released, shown)
    BY DEF Busy
  <1>2. /\ ExecutionInv(e, g) /\ t.frame \in Nat /\ t.confirmed \in Nat
    BY <1>1, ExecutionFacts DEF Sound
  <1>3. CASE w.err # None BY <1>3 DEF ProgressWork
  <1>4. CASE w.err = None
    <2>1. x = Send(w, <<m>>) BY <1>4 DEF ProgressWork
    <2>2. m \in Messages /\ ~IsInput(m)
      <3>1. Frame(s) \in Nat /\ Confirmed(s) \in Nat
        BY <1>2 DEF Frame, Confirmed, ConfirmedFrame, Lesser
      <3>2. m \in [type : {"Progress"}, frame : Nat, confirmed : Nat] BY <3>1
      <3> QED BY <3>2 DEF Messages, OtherMessages, IsInput
    <2> HIDE DEF m
    <2>3. Speaks(g, p, w.out \o <<m>>) BY <1>1, <2>2, PauseMessages, SpeaksOne, SpeaksOn
    <2>4. Works(x, s, w.out \o <<m>>, w.err) BY <1>1, <2>1, WorkParts
    <2>5. x.s = s /\ x.out = w.out \o <<m>> /\ x.err = w.err BY <2>4 DEF Works
    <2>6. IsWork(x)
      <3>1. IsPlayer(x.s) BY <1>1, <2>5 DEF Sound
      <3> HIDE DEF x
      <3> QED BY <1>1, <2>3, <2>4, <2>5, <3>1 DEF IsWork, Speaks
    <2> HIDE DEF x
    <2>7. Busy(x, p, g, shown) BY <1>1, <2>3, <2>5, <2>6 DEF Busy
    <2> QED BY <2>5, <2>7 DEF Tidy, x
  <1> QED BY <1>3, <1>4

\* fn batch.
LEMMA BatchKept ==
    ASSUME NEW s, NEW p \in Ports, NEW g, NEW shown, Busy(Begin(s), p, g, shown),
           NEW h, Speaks(g, Other(p), h), NEW heartbeat \in BOOLEAN
    PROVE  Busy(Batch(s, h, heartbeat), p, g, shown) /\ Tidy(Batch(s, h, heartbeat))
  <1> DEFINE corrected == CorrectWork(Handled(s, h))
             flag == corrected.s.stalled /\ ~Resumes(corrected.s)
             cleared == [corrected EXCEPT !.s.stalled = flag]
             committed == CommitWork(cleared)
             reported == ReportWork(committed)
  <1>1. Busy(corrected, p, g, shown) /\ Tidy(corrected)
    BY HandledKept, CorrectKept DEF Tidy
  <1>2. Batch(s, h, heartbeat) = IF heartbeat THEN ProgressWork(reported) ELSE reported
    BY DEF Batch
  <1> HIDE DEF corrected
  <1>3. flag \in BOOLEAN OBVIOUS
  <1> HIDE DEF flag
  <1>4. Busy(cleared, p, g, shown) /\ Tidy(cleared) BY <1>1, <1>3, ReportKept
  <1> HIDE DEF cleared
  <1>5. Busy(committed, p, g, shown) /\ Tidy(committed) BY <1>4, CommitKept
  <1> HIDE DEF committed
  <1>6. Busy(reported, p, g, shown) /\ Tidy(reported) BY <1>5, ReportKept
  <1> HIDE DEF reported
  <1>7. Busy(ProgressWork(reported), p, g, shown) /\ Tidy(ProgressWork(reported))
    BY <1>6, ProgressKept
  <1> QED BY <1>2, <1>6, <1>7

\* What was said of a game holds of a longer one.
LEMMA SpeaksGrows ==
    ASSUME NEW g, NEW h, NEW p \in Ports, NEW x, Grows(g, h), Speaks(g, p, x)
    PROVE  Speaks(h, p, x)
  <1>1. ASSUME NEW i \in 1 .. Len(x), IsInput(x[i])
        PROVE  x[i].frame \in DOMAIN h /\ x[i].word \in Buttons
               /\ h[x[i].frame][p] = x[i].word
    <2>1. x[i].frame \in DOMAIN g /\ x[i].word \in Buttons /\ g[x[i].frame][p] = x[i].word
      BY <1>1 DEF Speaks, Fits
    <2>2. g[x[i].frame][p] # None BY <2>1, ButtonsAssumption
    <2> QED BY <2>1, <2>2 DEF Grows
  <1> QED BY <1>1 DEF Speaks, Fits

\* The game after the frame of play of p: with the word p gives for the frame
\* InputDelay ahead.
Given(g, t, b) == Put(g, SampleFrame(t), t.player, SampleValue(t, b))

\* The word is new or the one that was given before.
LEMMA GivenGrows ==
    ASSUME NEW e, NEW g, ExecutionInv(e, g), Own(e.timeline, g), NEW b \in Buttons
    PROVE  LET t == e.timeline
           IN  /\ SampleFrame(t) \in Nat /\ SampleValue(t, b) \in Buttons
               /\ Adds(g, Given(g, t, b), SampleFrame(t), t.player, SampleValue(t, b))
  <1> DEFINE t == e.timeline
             f == SampleFrame(t)
             v == SampleValue(t, b)
             p == t.player
  <1>1. TimelineInv(t, g) /\ p \in Ports /\ IsMap(g, Entries)
    BY ExecutionFacts DEF ExecutionInv, TimelineInv
  <1>2. f \in Nat /\ v \in Buttons /\ Entry(t.inputs, f)[p] \in {None, v}
    BY <1>1, SampleWord
  <1>3. f \in DOMAIN g => g[f][p] = None \/ g[f][p] = v BY <1>2 DEF Own
  <1>4. Given(g, t, b) = Put(g, f, p, v) BY DEF Given
  <1> HIDE DEF t, f, v, p
  <1>5. Adds(g, Put(g, f, p, v), f, p, v) BY <1>1, <1>2, <1>3, PutGrows
  <1> QED BY <1>2, <1>4, <1>5 DEF t, f, v, p

\* After the frame of play the game has no own input past the sampled frame.
LEMMA PlayOwn ==
    ASSUME NEW e, NEW g, ExecutionInv(e, g), Own(e.timeline, g), e.timeline.dirty = None,
           NEW b \in Buttons
    PROVE  /\ Own(Play(e, b).timeline, Given(g, e.timeline, b))
           /\ Play(e, b).timeline.frame \in {e.timeline.frame, e.timeline.frame + 1}
  <1> DEFINE t == e.timeline
             p == t.player
             f == SampleFrame(t)
             v == SampleValue(t, b)
             h == Given(g, t, b)
             u == SampleLocal(t, b)
             y == Play(e, b).timeline
  <1>1. /\ TimelineInv(t, g) /\ p \in Ports /\ t.frame \in Nat
        /\ IsMap(t.inputs, Entries) /\ IsMap(g, Entries)
    BY ExecutionFacts DEF ExecutionInv, TimelineInv, TimelineType
  <1>2. /\ f \in Nat /\ v \in Buttons /\ h[f][p] = v /\ DOMAIN h = DOMAIN g \cup {f}
        /\ \A x \in DOMAIN g : x # f => h[x][p] = g[x][p]
    <2>1. f \in Nat /\ v \in Buttons /\ Adds(g, h, f, p, v) BY <1>1, GivenGrows
    <2> HIDE DEF f, v, h, p
    <2> QED BY <2>1, <1>1 DEF Adds
  <1>3. /\ u.inputs = Put(t.inputs, f, p, v)
        /\ y.frame = IF Stalled(u) THEN t.frame ELSE t.frame + 1
        /\ Stalled(u) => y = u
    BY PlayTimeline
  <1>4. y.player = p BY PlayExecution
  <1>5. Entry(u.inputs, f)[p] = v BY <1>1, <1>2, <1>3, PutEntry
  <1>6. f = t.frame + InputDelay /\ SampleFrame(y) = y.frame + InputDelay BY DEF SampleFrame
  <1>7. y.frame \in Nat /\ f <= SampleFrame(y) /\ SampleFrame(y) \in Nat
        /\ (~Stalled(u) => f < SampleFrame(y)) /\ (Stalled(u) => f = SampleFrame(y))
    BY <1>1, <1>3, <1>6, DelayAssumption
  <1>8. \A x \in DOMAIN g : x \in Nat /\ (g[x][p] # None => x <= f)
    BY <1>1 DEF IsMap, Own
  <1> HIDE DEF f, v, h, u, y
  <1>9. ASSUME NEW x \in DOMAIN h, h[x][p] # None
        PROVE  /\ x <= SampleFrame(y)
               /\ x = SampleFrame(y) => Entry(y.inputs, x)[p] = h[x][p]
    <2>1. x \in Nat /\ x <= f BY <1>2, <1>8, <1>9
    <2>2. x <= SampleFrame(y) BY <2>1, <1>2, <1>7
    <2>3. x = SampleFrame(y) => Stalled(u) /\ x = f BY <2>1, <1>2, <1>7
    <2>4. Stalled(u) /\ x = f => Entry(y.inputs, x)[p] = h[x][p] BY <1>2, <1>3, <1>5
    <2> QED BY <2>2, <2>3, <2>4
  <1>10. Own(y, h) BY <1>4, <1>9 DEF Own
  <1> QED BY <1>3, <1>10 DEF y, h, u

\* The frame of play of fn step.
LEMMA PlayKept ==
    ASSUME NEW w, NEW p \in Ports, NEW g, NEW shown, Busy(w, p, g, shown),
           w.s.exec.timeline.dirty = None, ~AtBarrier(w.s.pause, Frame(w.s)),
           NEW b \in Buttons
    PROVE  LET h == Given(g, w.s.exec.timeline, b)
           IN  /\ Grows(g, h) /\ Busy(PlayWork(w, p, b), p, h, shown)
               /\ Tidy(PlayWork(w, p, b)) /\ PlayWork(w, p, b).err = w.err
  <1> DEFINE s == w.s
             e == s.exec
             t == e.timeline
             c == s.pause
             d == Play(e, b)
             f == SampleFrame(t)
             v == SampleValue(t, b)
             h == Given(g, t, b)
             m == [type |-> "Input", frame |-> f, word |-> v]
             z == IF s.sampled = f THEN <<>> ELSE <<m>>
             y == [w EXCEPT !.s.exec = d, !.s.sampled = f]
             x == PlayWork(w, p, b)
  <1>1. /\ IsWork(w) /\ w.err \in {None, "protocol", "closed"} /\ Sound(s, p, g) /\ Own(t, g)
        /\ Speaks(g, p, w.out) /\ Longer(e.released, shown)
    BY DEF Busy
  <1>2. /\ ExecutionInv(e, g) /\ t.player = p /\ Sane(c) /\ Below(c, t.frame)
        /\ c \in Controls /\ s.stalled \in BOOLEAN /\ t.frame \in Nat
    BY <1>1, ExecutionFacts DEF Sound, IsPlayer, Frame
  <1>3. x = Send(y, z) BY DEF PlayWork
  <1>4. /\ Grows(g, h) /\ f \in Nat /\ f \in DOMAIN h /\ v \in Buttons /\ h[f][p] = v
    <2>1. f \in Nat /\ v \in Buttons /\ Adds(g, h, f, t.player, v) BY <1>1, <1>2, GivenGrows
    <2> HIDE DEF f, v, h
    <2> QED BY <2>1, <1>2 DEF Adds
  <1>5. /\ ExecutionInv(d, h) /\ d.timeline.dirty = None /\ d.timeline.player = p
        /\ d.released = e.released
    BY <1>2, PlayExecution DEF Given
  <1>6. Own(d.timeline, h) /\ d.timeline.frame \in {t.frame, t.frame + 1}
    BY <1>1, <1>2, PlayOwn
  <1>7. Below(c, d.timeline.frame)
    <2>1. c.episode # None => t.frame < c.episode /\ c.episode \in Nat
      BY <1>2, ControlTypes DEF AtBarrier, Barrier, Frame
    <2> QED BY <2>1, <1>2, <1>6 DEF Below
  <1> HIDE DEF f, v, h, d
  <1>8. Speaks(h, p, z)
    <2>1. m \in [type : {"Input"}, frame : Nat, word : Buttons] BY <1>4
    <2>2. m \in Messages BY <2>1 DEF Messages, InputMessages
    <2>3. Fits(h, p, m) BY <1>4 DEF Fits
    <2> HIDE DEF m
    <2> QED BY <2>2, <2>3, SpeaksOne, SpeaksNothing
  <1> HIDE DEF z
  <1>9. Speaks(h, p, w.out) BY <1>1, <1>4, SpeaksGrows
  <1>10. /\ Works(y, y.s, w.out, w.err)
         /\ Parts(y.s, d, c, s.hashes, f, s.progress, s.stalled)
    BY <1>1, WithPlay
  <1> HIDE DEF s, e, t, c, x, y
  <1>11. Busy(y, p, h, shown) BY <1>1, <1>2, <1>4, <1>5, <1>6, <1>7, <1>9, <1>10, BusyParts
  <1>12. Works(x, y.s, y.out \o z, y.err) BY <1>3, <1>11, WorkParts DEF Busy
  <1>13. x.s = y.s /\ y.out = w.out /\ y.err = w.err BY <1>10, <1>12 DEF Works
  <1>14. Speaks(h, p, w.out \o z) BY <1>8, <1>9, SpeaksOn
  <1>15. /\ Works(x, x.s, w.out \o z, w.err)
         /\ Parts(x.s, d, c, s.hashes, f, s.progress, s.stalled)
    BY <1>10, <1>12, <1>13
  <1>16. Busy(x, p, h, shown) BY <1>1, <1>2, <1>4, <1>5, <1>6, <1>7, <1>14, <1>15, BusyParts
  <1>17. x.s.exec = d /\ x.err = w.err BY <1>15 DEF Parts, Works
  <1> QED BY <1>4, <1>5, <1>16, <1>17 DEF x, h, t, e, s, Tidy

\* The words of q are the same in both games.
Quiet(g, h, q) ==
    \A f \in DOMAIN h : h[f][q] # None => f \in DOMAIN g /\ g[f][q] = h[f][q]

\* fn step after its batch.
LEMMA StepKept ==
    ASSUME NEW w, NEW p \in Ports, NEW g, NEW shown, Busy(w, p, g, shown), Tidy(w),
           w.err = None, NEW b \in Buttons
    PROVE  \E h : /\ Grows(g, h) /\ Quiet(g, h, Other(p))
                  /\ Busy(StepWork(w, p, b), p, h, shown) /\ Tidy(StepWork(w, p, b))
  <1> DEFINE frame == Frame(w.s)
             blocked == AtBarrier(w.s.pause, frame)
             played == IF blocked THEN w ELSE PlayWork(w, p, b)
             waits == /\ Frame(played.s) = frame
                      /\ ~(blocked /\ Confirmed(played.s) >= frame)
             flagged == [played EXCEPT !.s.stalled = waits]
             committed == CommitWork(flagged)
             reported == ReportWork(committed)
  <1>1. StepWork(w, p, b) = ProgressWork(reported) BY DEF StepWork
  <1>2. \E h : Grows(g, h) /\ Quiet(g, h, Other(p)) /\ Busy(played, p, h, shown)
              /\ Tidy(played)
    <2>1. CASE blocked
      <3>1. Grows(g, g) /\ Quiet(g, g, Other(p))
        BY DEF Busy, Sound, ExecutionInv, TimelineInv, Grows, Quiet
      <3> QED BY <2>1, <3>1
    <2>2. CASE ~blocked
      <3>1. w.s.exec.timeline.dirty = None BY DEF Tidy
      <3> DEFINE h == Given(g, w.s.exec.timeline, b)
      <3>2. Quiet(g, h, Other(p))
        <4>1. /\ ExecutionInv(w.s.exec, g) /\ Own(w.s.exec.timeline, g)
              /\ w.s.exec.timeline.player = p
          BY DEF Busy, Sound
        <4>2. Adds(g, h, SampleFrame(w.s.exec.timeline), p, SampleValue(w.s.exec.timeline, b))
          BY <4>1, GivenGrows
        <4>3. Other(p) \in Ports /\ Other(p) # p BY TwoPorts
        <4> HIDE DEF h
        <4> QED BY <4>2, <4>3 DEF Adds, Quiet
      <3> QED BY <2>2, <3>1, <3>2, PlayKept
    <2> QED BY <2>1, <2>2
  <1>3. PICK h : Grows(g, h) /\ Quiet(g, h, Other(p)) /\ Busy(played, p, h, shown)
                 /\ Tidy(played)
    BY <1>2
  <1>4. waits \in BOOLEAN OBVIOUS
  <1> HIDE DEF played, waits
  <1>5. Busy(flagged, p, h, shown) /\ Tidy(flagged) BY <1>3, <1>4, ReportKept
  <1> HIDE DEF flagged
  <1>6. Busy(committed, p, h, shown) /\ Tidy(committed) BY <1>5, CommitKept
  <1> HIDE DEF committed
  <1>7. Busy(reported, p, h, shown) /\ Tidy(reported) BY <1>6, ReportKept
  <1> HIDE DEF reported
  <1>8. Busy(ProgressWork(reported), p, h, shown) /\ Tidy(ProgressWork(reported))
    BY <1>7, ProgressKept
  <1> QED BY <1>1, <1>3, <1>8

-----------------------------------------------------------------------------
(* The game both players are shown, for every delay and every capacity.    *)

\* The first n messages of a channel and the rest.
LEMMA SplitFacts ==
    ASSUME NEW h \in Seq(Messages), NEW n \in 0 .. Len(h)
    PROVE  LET a == SubSeq(h, 1, n)
               b == SubSeq(h, n + 1, Len(h))
           IN  /\ Len(h) \in Nat /\ a \in Seq(Messages) /\ b \in Seq(Messages)
               /\ Len(a) = n /\ Len(b) = Len(h) - n
               /\ \A i \in 1 .. n : a[i] = h[i]
               /\ \A i \in 1 .. Len(h) - n : b[i] = h[n + i] /\ n + i \in 1 .. Len(h)
  <1>1. Len(h) \in Nat OBVIOUS
  <1>2. \A i \in 1 .. Len(h) : h[i] \in Messages OBVIOUS
  <1>3. /\ SubSeq(h, 1, n) \in Seq(Messages) /\ Len(SubSeq(h, 1, n)) = n
        /\ \A i \in 1 .. n : SubSeq(h, 1, n)[i] = h[i]
    <2>1. /\ SubSeq(h, 1, n) \in Seq(Messages)
          /\ Len(SubSeq(h, 1, n)) = IF 1 <= n THEN n - 1 + 1 ELSE 0
          /\ \A i \in 1 .. (n - 1 + 1) : SubSeq(h, 1, n)[i] = h[1 + i - 1]
      <3>1. 1 \in 1 .. Len(h) + 1 /\ n \in 1 - 1 .. Len(h) BY <1>1
      <3> QED BY <3>1, <1>1, SubSeqProperties
    <2>2. n - 1 + 1 = n BY <1>1
    <2>3. \A i \in 1 .. n : 1 + i - 1 = i BY <1>1
    <2> QED BY <2>1, <2>2, <2>3, <1>1
  <1>4. /\ SubSeq(h, n + 1, Len(h)) \in Seq(Messages)
        /\ Len(SubSeq(h, n + 1, Len(h))) = Len(h) - n
        /\ \A i \in 1 .. Len(h) - n : SubSeq(h, n + 1, Len(h))[i] = h[n + i]
    <2>1. /\ SubSeq(h, n + 1, Len(h)) \in Seq(Messages)
          /\ Len(SubSeq(h, n + 1, Len(h))) =
                IF n + 1 <= Len(h) THEN Len(h) - (n + 1) + 1 ELSE 0
          /\ \A i \in 1 .. (Len(h) - (n + 1) + 1) :
                SubSeq(h, n + 1, Len(h))[i] = h[n + 1 + i - 1]
      <3>1. \A i \in n + 1 .. Len(h) : h[i] \in Messages BY <1>1, <1>2
      <3>2. n + 1 \in Int /\ Len(h) \in Int BY <1>1
      <3> QED BY <3>1, <3>2, SubSeqProperties
    <2>2. Len(h) - (n + 1) + 1 = Len(h) - n BY <1>1
    <2>3. \A i \in 1 .. Len(h) - n : n + 1 + i - 1 = n + i BY <1>1
    <2> DEFINE b == SubSeq(h, n + 1, Len(h))
    <2> HIDE DEF b
    <2>4. Len(b) = Len(h) - n
      <3>1. n + 1 <= Len(h) \/ Len(h) - n = 0 BY <1>1
      <3> QED BY <2>1, <2>2, <3>1, <1>1 DEF b
    <2>5. \A i \in 1 .. Len(h) - n : b[i] = h[n + i] BY <2>1, <2>2, <2>3 DEF b
    <2> QED BY <2>1, <2>4, <2>5 DEF b
  <1>5. \A i \in 1 .. Len(h) - n : n + i \in 1 .. Len(h) BY <1>1
  <1> QED BY <1>1, <1>3, <1>4, <1>5

\* The messages of a channel, and those left in it, are of the game.
LEMMA SpeaksSplit ==
    ASSUME NEW g, NEW p, NEW h, Speaks(g, p, h), NEW n \in 0 .. Len(h)
    PROVE  Speaks(g, p, SubSeq(h, 1, n)) /\ Speaks(g, p, SubSeq(h, n + 1, Len(h)))
  <1> DEFINE a == SubSeq(h, 1, n)
             b == SubSeq(h, n + 1, Len(h))
  <1>1. h \in Seq(Messages) BY DEF Speaks
  <1>2. /\ Len(h) \in Nat /\ a \in Seq(Messages) /\ b \in Seq(Messages)
        /\ Len(a) = n /\ Len(b) = Len(h) - n
        /\ \A i \in 1 .. n : a[i] = h[i]
        /\ \A i \in 1 .. Len(h) - n : b[i] = h[n + i] /\ n + i \in 1 .. Len(h)
    BY <1>1, SplitFacts
  <1> HIDE DEF a, b
  <1>3. \A i \in 1 .. Len(a) : i \in 1 .. Len(h) BY <1>2
  <1>4. Speaks(g, p, a) BY <1>2, <1>3 DEF Speaks
  <1>5. Speaks(g, p, b) BY <1>2 DEF Speaks
  <1> QED BY <1>4, <1>5 DEF a, b

\* Player p's session and the messages under way to it.
GamePeer(p, g) ==
    /\ Sound(peer[p], p, g) /\ peer[p].exec.timeline.dirty = None
    /\ Speaks(g, Other(p), chan[p])
    /\ status[p] = "up" => Own(peer[p].exec.timeline, g)

GameTypes ==
    /\ peer = [p \in Ports |-> peer[p]] /\ chan = [p \in Ports |-> chan[p]]
    /\ status \in [Ports -> {"up", "stopped", "closed", "protocol"}]

\* There is one game that both sessions play.
GameInv == GameTypes /\ \E g : \A p \in Ports : GamePeer(p, g)

\* A step shows p some more of the game, and its peer nothing.
Shows(p) ==
    /\ Longer(peer'[p].exec.released, peer[p].exec.released)
    /\ peer'[Other(p)] = peer[Other(p)] /\ peer' = [r \in Ports |-> peer'[r]]

\* What is sent when a session ends.
LEMMA GoodbyeSpeaks ==
    ASSUME NEW s, NEW p, NEW g, Sound(s, p, g), NEW h, NEW r
    PROVE  Speaks(h, r, Goodbye(s))
  <1> DEFINE m == [type |-> "Close", frame |-> Frame(s)]
  <1>1. Frame(s) \in Nat BY ExecutionFacts DEF Sound, Frame
  <1>2. m \in [type : {"Close"}, frame : Nat] BY <1>1
  <1>3. m \in Messages /\ ~IsInput(m) BY <1>2 DEF Messages, OtherMessages, IsInput
  <1>4. Goodbye(s) = <<m>> BY DEF Goodbye
  <1> HIDE DEF m
  <1> QED BY <1>3, <1>4, PauseMessages, SpeaksOne

\* The outcome of a call.
LEMMA FinishKept ==
    ASSUME GameTypes, NEW g, \A r \in Ports : GamePeer(r, g), NEW p \in Ports,
           status[p] = "up", NEW w, NEW n \in 0 .. Len(chan[p]), NEW h, Grows(g, h), Quiet(g, h, Other(p)),
           Busy(w, p, h, peer[p].exec.released), Tidy(w), Finish(p, w, n)
    PROVE  GameInv' /\ Shows(p)
  <1> DEFINE q == Other(p)
             z == IF w.err = None THEN <<>> ELSE Goodbye(w.s)
  <1>1. q \in Ports /\ q # p /\ Other(q) = p /\ \A r \in Ports : r = p \/ r = q
    BY TwoPorts
  <1>2. /\ peer'[p] = (IF w.err = None THEN w.s ELSE peer[p]) /\ peer'[q] = peer[q]
        /\ peer' = [r \in Ports |-> peer'[r]]
    BY <1>1 DEF Finish, GameTypes
  <1>3. /\ status'[p] = (IF w.err = None THEN "up" ELSE w.err) /\ status'[q] = status[q]
        /\ status' \in [Ports -> {"up", "stopped", "closed", "protocol"}]
    BY <1>1 DEF Finish, GameTypes, Busy
  <1>4. /\ chan'[p] = SubSeq(chan[p], n + 1, Len(chan[p])) /\ chan'[q] = chan[q] \o w.out \o z
        /\ chan' = [r \in Ports |-> chan'[r]]
    BY <1>1 DEF Finish, GameTypes
  <1>5. /\ Sound(peer[p], p, g) /\ peer[p].exec.timeline.dirty = None
        /\ Speaks(g, q, chan[p]) /\ Own(peer[p].exec.timeline, g)
        /\ Sound(peer[q], q, g) /\ peer[q].exec.timeline.dirty = None
        /\ Speaks(g, p, chan[q])
    BY <1>1 DEF GamePeer
  <1>6. /\ Sound(w.s, p, h) /\ Own(w.s.exec.timeline, h) /\ Speaks(h, p, w.out)
        /\ Longer(w.s.exec.released, peer[p].exec.released)
    BY DEF Busy
  <1>7. ASSUME NEW s, NEW r, Sound(s, r, g) PROVE Sound(s, r, h)
    BY <1>7, ExecutionGrows DEF Sound
  <1>8. Speaks(h, q, chan'[p])
    BY <1>1, <1>4, <1>5, SpeaksSplit, SpeaksGrows
  <1>9. Speaks(h, p, chan'[q])
    <2>1. Speaks(h, p, chan[q]) BY <1>5, SpeaksGrows
    <2>2. Speaks(h, p, z) BY <1>6, GoodbyeSpeaks, SpeaksNothing
    <2> HIDE DEF z
    <2>3. Speaks(h, p, (chan[q] \o w.out) \o z) BY <1>6, <2>1, <2>2, SpeaksOn
    <2> QED BY <2>3, <1>4
  <1>10. GamePeer(p, h)'
    <2>1. CASE w.err = None
      BY <2>1, <1>2, <1>3, <1>6, <1>8 DEF GamePeer, Tidy
    <2>2. CASE w.err # None
      <3>1. w.err \in {"protocol", "closed"} BY <2>2 DEF Busy
      <3> QED BY <2>2, <3>1, <1>2, <1>3, <1>5, <1>7, <1>8 DEF GamePeer
    <2> QED BY <2>1, <2>2
  <1>11. GamePeer(q, h)'
    <2>1. status[q] = "up" => Own(peer[q].exec.timeline, h)
      <3>1. status[q] = "up" => Own(peer[q].exec.timeline, g) BY <1>1 DEF GamePeer
      <3>2. peer[q].exec.timeline.player = q BY <1>5 DEF Sound
      <3> QED BY <3>1, <3>2 DEF Own, Quiet
    <2> QED BY <2>1, <1>1, <1>2, <1>3, <1>5, <1>7, <1>9 DEF GamePeer
  <1>12. GameTypes' BY <1>2, <1>3, <1>4 DEF GameTypes
  <1>13. GameInv' BY <1>1, <1>10, <1>11, <1>12 DEF GameInv
  <1>14. Shows(p) BY <1>2, <1>6 DEF Shows, Longer
  <1> QED BY <1>13, <1>14

\* A call begins with the session as the last one left it.
LEMMA BeginBusy ==
    ASSUME NEW s, NEW p, NEW g, Sound(s, p, g), Own(s.exec.timeline, g)
    PROVE  Busy(Begin(s), p, g, s.exec.released)
  <1> DEFINE w == Begin(s)
  <1>1. Works(w, s, <<>>, None) BY WorkParts
  <1> HIDE DEF w
  <1>2. w.s = s /\ w.out = <<>> /\ w.err = None BY <1>1 DEF Works
  <1>3. Speaks(g, p, <<>>) BY SpeaksNothing
  <1>4. IsWork(w) BY <1>1, <1>2, <1>3 DEF IsWork, Sound, Speaks
  <1>5. Longer(s.exec.released, s.exec.released) BY DEF Longer
  <1>6. Busy(w, p, g, s.exec.released) BY <1>2, <1>3, <1>4, <1>5 DEF Busy
  <1> QED BY <1>6 DEF w

\* fn step.
LEMMA StepGame ==
    ASSUME GameInv, NEW p \in Ports, NEW b \in Buttons, NEW n \in Arrivals(p),
           NEW heartbeat \in BOOLEAN, Step(p, b, n, heartbeat)
    PROVE  GameInv' /\ Shows(p)
  <1>1. PICK g : \A r \in Ports : GamePeer(r, g) BY DEF GameInv
  <1> DEFINE s == peer[p]
             h == Events(p, n)
             batch == Batch(s, h, heartbeat)
             w == IF batch.err = None THEN StepWork(batch, p, b) ELSE batch
  <1>2. GameTypes /\ status[p] = "up" /\ Finish(p, w, n) /\ n \in 0 .. Len(chan[p])
    BY DEF GameInv, Step, Arrivals
  <1>3. Sound(s, p, g) /\ Own(s.exec.timeline, g) /\ Speaks(g, Other(p), chan[p])
    BY <1>1, <1>2 DEF GamePeer
  <1>4. Speaks(g, Other(p), h) BY <1>2, <1>3, SpeaksSplit DEF Events
  <1>5. Busy(batch, p, g, s.exec.released) /\ Tidy(batch)
    BY <1>3, <1>4, BeginBusy, BatchKept
  <1> HIDE DEF batch, h
  <1>6. \E z : /\ Grows(g, z) /\ Quiet(g, z, Other(p)) /\ Busy(w, p, z, s.exec.released)
               /\ Tidy(w)
    <2>1. CASE batch.err = None BY <1>5, <2>1, StepKept
    <2>2. CASE batch.err # None
      <3>1. Grows(g, g) /\ Quiet(g, g, Other(p))
        BY <1>3 DEF Sound, ExecutionInv, TimelineInv, Grows, Quiet
      <3> QED BY <1>5, <2>2, <3>1
    <2> QED BY <2>1, <2>2
  <1>7. PICK z : /\ Grows(g, z) /\ Quiet(g, z, Other(p)) /\ Busy(w, p, z, s.exec.released)
                 /\ Tidy(w)
    BY <1>6
  <1> HIDE DEF w
  <1> QED BY <1>1, <1>2, <1>7, FinishKept

\* fn poll and fn accept_event.
LEMMA PollGame ==
    ASSUME GameInv, NEW p \in Ports, NEW n \in Arrivals(p), NEW heartbeat \in BOOLEAN,
           Poll(p, n, heartbeat)
    PROVE  GameInv' /\ Shows(p)
  <1>1. PICK g : \A r \in Ports : GamePeer(r, g) BY DEF GameInv
  <1> DEFINE s == peer[p]
             h == Events(p, n)
             w == Batch(s, h, heartbeat)
  <1>2. GameTypes /\ status[p] = "up" /\ Finish(p, w, n) /\ n \in 0 .. Len(chan[p])
    BY DEF GameInv, Poll, Arrivals
  <1>3. Sound(s, p, g) /\ Own(s.exec.timeline, g) /\ Speaks(g, Other(p), chan[p])
    BY <1>1, <1>2 DEF GamePeer
  <1>4. Speaks(g, Other(p), h) BY <1>2, <1>3, SpeaksSplit DEF Events
  <1>5. Busy(w, p, g, s.exec.released) /\ Tidy(w) BY <1>3, <1>4, BeginBusy, BatchKept
  <1>6. Grows(g, g) /\ Quiet(g, g, Other(p))
    BY <1>3 DEF Sound, ExecutionInv, TimelineInv, Grows, Quiet
  <1> HIDE DEF w
  <1> QED BY <1>1, <1>2, <1>5, <1>6, FinishKept

\* fn request_pause.
LEMMA RequestGame ==
    ASSUME GameInv, NEW p \in Ports, NEW paused \in BOOLEAN, RequestPause(p, paused)
    PROVE  GameInv' /\ Shows(p)
  <1>1. PICK g : \A r \in Ports : GamePeer(r, g) BY DEF GameInv
  <1> DEFINE s == peer[p]
             e == s.exec
             f == Frame(s)
             c == Desire(s.pause, paused)
             d == Reconcile(c, f)
             y == [s EXCEPT !.pause = d]
             w == Send(Begin(y), Change(c, f))
  <1>2. GameTypes /\ status[p] = "up" /\ Finish(p, w, 0)
    BY DEF GameInv, RequestPause
  <1>3. /\ Sound(s, p, g) /\ Own(e.timeline, g) /\ Speaks(g, Other(p), chan[p])
        /\ e.timeline.dirty = None
    BY <1>1, <1>2 DEF GamePeer
  <1>4. /\ s.pause \in Controls /\ Sane(s.pause) /\ Below(s.pause, f) /\ IsPlayer(s)
        /\ ExecutionInv(e, g) /\ e.timeline.player = p /\ f = e.timeline.frame
        /\ s.sampled \in Nat \cup {None} /\ s.stalled \in BOOLEAN
    BY <1>3 DEF Sound, IsPlayer, Frame
  <1>5. f \in Nat BY <1>4, ExecutionFacts
  <1>6. c \in Controls /\ Sane(c) /\ Below(c, f) BY <1>4, <1>5, DesireSame, SaneMoves
  <1> HIDE DEF c, f
  <1>7. d \in Controls /\ Sane(d) /\ Below(d, f)
    <2>1. <<>> \in Seq(Messages) OBVIOUS
    <2> QED BY <2>1, <1>5, <1>6, ReconcileMoves
  <1>8. Speaks(g, p, Change(c, f)) BY <1>5, <1>6, ChangeSpeaks
  <1> HIDE DEF d
  <1>9. Parts(y, e, d, s.hashes, s.sampled, s.progress, s.stalled)
    BY <1>4 DEF IsPlayer, Parts
  <1>10. y.exec = e /\ y.pause = d BY <1>9 DEF Parts
  <1> HIDE DEF s, e, y
  <1>11. Sound(y, p, g) /\ Own(y.exec.timeline, g)
    <2>1. IsPlayer(y) BY <1>4, <1>7, <1>9 DEF IsPlayer, Parts
    <2> QED BY <2>1, <1>3, <1>4, <1>7, <1>10 DEF Sound, Frame
  <1>12. Busy(Begin(y), p, g, e.released) BY <1>10, <1>11, BeginBusy
  <1>13. Works(Begin(y), y, <<>>, None) BY WorkParts
  <1>14. Works(w, y, <<>> \o Change(c, f), None)
    <2>1. IsWork(Begin(y)) BY <1>12 DEF Busy
    <2>2. Works(w, Begin(y).s, Begin(y).out \o Change(c, f), Begin(y).err)
      BY <2>1, WorkParts
    <2> QED BY <2>2, <1>13 DEF Works
  <1>15. Speaks(g, p, <<>> \o Change(c, f)) BY <1>8, SpeaksNothing, SpeaksOn
  <1> HIDE DEF w
  <1>16. w.s = y /\ w.err = None BY <1>14 DEF Works
  <1>17. Busy(w, p, g, e.released)
    <2>1. /\ Works(w, w.s, <<>> \o Change(c, f), None)
          /\ Parts(w.s, e, d, s.hashes, s.sampled, s.progress, s.stalled)
      BY <1>9, <1>14, <1>16
    <2>2. Longer(e.released, e.released) BY DEF Longer
    <2> QED BY <2>1, <2>2, <1>3, <1>4, <1>7, <1>15, BusyParts
  <1>18. Tidy(w) BY <1>3, <1>10, <1>16 DEF Tidy
  <1>19. Grows(g, g) /\ Quiet(g, g, Other(p))
    BY <1>4 DEF ExecutionInv, TimelineInv, Grows, Quiet
  <1>20. 0 \in 0 .. Len(chan[p])
    <2>1. chan[p] \in Seq(Messages) BY <1>3 DEF Speaks
    <2>2. Len(chan[p]) \in Nat BY <2>1
    <2> QED BY <2>2
  <1>21. Busy(w, p, g, peer[p].exec.released) BY <1>17 DEF e, s
  <1> QED BY <1>1, <1>2, <1>18, <1>19, <1>20, <1>21, FinishKept

\* The player ends the session.
LEMMA StopGame ==
    ASSUME GameInv, NEW p \in Ports, Stop(p)
    PROVE  GameInv' /\ UNCHANGED peer
  <1>1. PICK g : \A r \in Ports : GamePeer(r, g) BY DEF GameInv
  <1> DEFINE q == Other(p)
  <1>2. q \in Ports /\ q # p /\ Other(q) = p /\ \A r \in Ports : r = p \/ r = q
    BY TwoPorts
  <1>3. /\ chan'[p] = <<>> /\ chan'[q] = chan[q] \o Goodbye(peer[p])
        /\ chan' = [r \in Ports |-> chan'[r]] /\ peer' = peer
        /\ status'[p] = "stopped" /\ status'[q] = status[q]
        /\ status' \in [Ports -> {"up", "stopped", "closed", "protocol"}]
    BY <1>2 DEF Stop, GameInv, GameTypes
  <1>4. Speaks(g, p, chan'[q])
    <2>1. Speaks(g, p, chan[q]) /\ Sound(peer[p], p, g) BY <1>1, <1>2 DEF GamePeer
    <2>2. Speaks(g, p, Goodbye(peer[p])) BY <2>1, GoodbyeSpeaks
    <2> QED BY <2>1, <2>2, <1>3, SpeaksOn
  <1>5. GamePeer(p, g)' BY <1>1, <1>3, SpeaksNothing DEF GamePeer
  <1>6. GamePeer(q, g)' BY <1>1, <1>2, <1>3, <1>4 DEF GamePeer
  <1>7. GameTypes' BY <1>3 DEF GameInv, GameTypes
  <1> QED BY <1>2, <1>3, <1>5, <1>6, <1>7 DEF GameInv

\* Session::start: both players know the neutral inputs of the first frames.
LEMMA StartGame == Init => GameInv
  <1> SUFFICES ASSUME Init PROVE GameInv OBVIOUS
  <1> DEFINE g == [f \in 0 .. InputDelay - 1 |-> [i \in Ports |-> Neutral]]
  <1>1. ASSUME NEW p \in Ports PROVE GamePeer(p, g)
    <2> DEFINE s == Start(p)
               t == WithDelay(p)
    <2>1. peer[p] = s /\ chan[p] = <<>> BY <1>1 DEF Init
    <2>2. s.exec = Fresh(p) /\ Fresh(p).timeline = t BY DEF Start, Fresh
    <2>3. /\ t.player = p /\ t.frame = 0 /\ t.dirty = None /\ t.inputs = g
      BY DEF WithDelay
    <2>4. ExecutionInv(s.exec, g) BY <1>1, <2>2, FreshInv
    <2>5. s.pause = NewPause /\ NewPause \in Controls /\ Sane(NewPause)
          /\ NewPause.episode = None
      BY NewPact DEF Start
    <2>6. IsPlayer(s) BY <2>5 DEF IsPlayer, Parts, Start
    <2>7. Below(s.pause, Frame(s)) BY <2>5 DEF Below
    <2>8. Sound(s, p, g) BY <2>2, <2>3, <2>4, <2>5, <2>6, <2>7 DEF Sound
    <2>9. Own(t, g)
      <3>1. SampleFrame(t) = InputDelay BY <2>3, DelayAssumption DEF SampleFrame
      <3>2. \A f \in DOMAIN g : f < InputDelay /\ f \in Int BY DelayAssumption
      <3> HIDE DEF g, t
      <3> QED BY <3>1, <3>2, DelayAssumption DEF Own
    <2>10. Speaks(g, Other(p), <<>>) BY SpeaksNothing
    <2> HIDE DEF s, t, g
    <2> QED BY <2>1, <2>2, <2>3, <2>8, <2>9, <2>10 DEF GamePeer
  <1>2. GameTypes BY DEF Init, GameTypes
  <1> HIDE DEF g
  <1> QED BY <1>1, <1>2 DEF GameInv

\* Every step keeps the game.
LEMMA NextGame ==
    ASSUME GameInv, [Next]_vars
    PROVE  GameInv' /\ (UNCHANGED peer \/ \E p \in Ports : Shows(p))
  <1>1. CASE UNCHANGED vars
    BY <1>1 DEF vars, GameInv, GameTypes, GamePeer
  <1>2. CASE Next
    <2>1. PICK p \in Ports :
            \/ \E n \in Arrivals(p), heartbeat \in Heartbeats :
                \/ \E b \in Buttons : Step(p, b, n, heartbeat)
                \/ Poll(p, n, heartbeat)
            \/ \E paused \in BOOLEAN : RequestPause(p, paused)
            \/ Stop(p)
      BY <1>2 DEF Next
    <2>2. Heartbeats \subseteq BOOLEAN BY SessionAssumption
    <2>3. ASSUME NEW n \in Arrivals(p), NEW heartbeat \in Heartbeats, NEW b \in Buttons,
                 Step(p, b, n, heartbeat)
          PROVE  GameInv' /\ Shows(p)
      BY <2>2, <2>3, StepGame
    <2>4. ASSUME NEW n \in Arrivals(p), NEW heartbeat \in Heartbeats, Poll(p, n, heartbeat)
          PROVE  GameInv' /\ Shows(p)
      BY <2>2, <2>4, PollGame
    <2>5. ASSUME NEW paused \in BOOLEAN, RequestPause(p, paused)
          PROVE  GameInv' /\ Shows(p)
      BY <2>5, RequestGame
    <2>6. ASSUME Stop(p) PROVE GameInv' /\ UNCHANGED peer BY <2>6, StopGame
    <2> QED BY <2>1, <2>3, <2>4, <2>5, <2>6
  <1> QED BY <1>1, <1>2

\* The two sessions play one game for as long as they run: every input a session
\* holds, simulates, releases or sends is the one its player gave for that frame.
THEOREM GameInvariant == Spec => []GameInv
  <1>1. GameInv /\ [Next]_vars => GameInv' BY NextGame
  <1> QED BY <1>1, StartGame, PTL DEF Spec

\* The sessions keep the types of the Rust structs, and neither session ever
\* fails one of its own checks (fn correct, the window check of fn commit).
THEOREM SessionTypes == Spec => [](TypeOK /\ \A p \in Ports : status[p] # "rollback")
  <1>1. GameInv => TypeOK /\ \A p \in Ports : status[p] # "rollback"
    <2> SUFFICES ASSUME GameInv, NEW p \in Ports
                 PROVE  /\ status[p] \in {"up", "stopped", "closed", "protocol"}
                        /\ TimelineType(peer[p].exec.timeline) /\ ExecutionType(peer[p].exec)
                        /\ peer[p].stalled \in BOOLEAN
                        /\ peer[p].pause.local_acked <= peer[p].pause.local_request
      BY DEF TypeOK
    <2>1. PICK g : Sound(peer[p], p, g) BY DEF GameInv, GamePeer
    <2>2. status[p] \in {"up", "stopped", "closed", "protocol"} BY DEF GameInv, GameTypes
    <2> QED BY <2>1, <2>2 DEF Sound, ExecutionInv, TimelineInv, IsPlayer, Sane
  <1> QED BY <1>1, GameInvariant, PTL

\* Wherever both sessions have confirmed all they have simulated, their machines
\* are in the same state.
THEOREM OneMachine == Spec => []SameMachine
  <1>1. GameInv => SameMachine
    <2> SUFFICES ASSUME GameInv, \A p \in Ports : Confirmed(peer[p]) = Frame(peer[p]),
                        NEW f \in DOMAIN peer[0].exec.core \cap DOMAIN peer[1].exec.core
                 PROVE  peer[0].exec.core[f] = peer[1].exec.core[f]
      BY DEF SameMachine
    <2>1. PICK g : \A p \in Ports : GamePeer(p, g) BY DEF GameInv
    <2>2. ASSUME NEW p \in Ports, f \in DOMAIN peer[p].exec.core
          PROVE  peer[p].exec.core[f] = g[f]
      <3> DEFINE e == peer[p].exec
                 t == e.timeline
      <3>1. ExecutionInv(e, g) /\ t.dirty = None BY <2>1 DEF GamePeer, Sound
      <3>2. t.frame \in Nat /\ t.confirmed \in Nat /\ DOMAIN e.core = 0 .. t.frame - 1
        BY <3>1, ExecutionFacts DEF ExecutionInv, ExecutionType
      <3>3. ConfirmedFrame(t) = t.frame BY DEF Confirmed, Frame
      <3>4. f \in Nat /\ f < t.frame /\ f < t.confirmed
        BY <2>2, <3>2, <3>3 DEF ConfirmedFrame, Lesser
      <3> HIDE DEF e, t
      <3>5. e.core[f] = g[f] BY <3>1, <3>2, <3>4, ConfirmedCore DEF t
      <3> QED BY <3>5 DEF e
    <2> QED BY <2>2 DEF Ports
  <1> QED BY <1>1, GameInvariant, PTL

\* What player p has been shown is the beginning of the game.
LEMMA ShownGame ==
    ASSUME NEW p \in Ports, NEW g, GamePeer(p, g)
    PROVE  LET r == peer[p].exec.released
           IN  /\ IsMap(r, PortValues)
               /\ \E c \in Nat : DOMAIN r = 1 .. c
               /\ \A k \in DOMAIN r : r[k] = g[k - 1]
  <1>1. ExecutionInv(peer[p].exec, g) BY DEF GamePeer, Sound
  <1> QED BY <1>1 DEF ExecutionInv, ExecutionType, ReleasedRight

\* The initial states are initial states of the abstract game.
LEMMA StartShows == Init => Game!Init
  <1> SUFFICES ASSUME Init PROVE Game!Init OBVIOUS
  <1>1. \A p \in Ports : peer[p].exec.released = [k \in {} |-> 0]
    <2>1. \A p \in Ports : peer[p].exec.released = [k \in {} |-> [i \in Ports |-> Neutral]]
      BY DEF Init, Start, Fresh
    <2>2. [k \in {} |-> [i \in Ports |-> Neutral]] = [k \in {} |-> 0] OBVIOUS
    <2> QED BY <2>1, <2>2
  <1> QED BY <1>1 DEF Game!Init, Game!Players, Ports

\* A step of a session shows its player more of the game, or nothing new.
LEMMA NextShows ==
    ASSUME GameInv, GameInv', UNCHANGED peer \/ \E p \in Ports : Shows(p)
    PROVE  [Game!Next]_[p \in Ports |-> peer[p].exec.released]
  <1> DEFINE shown == [p \in Ports |-> peer[p].exec.released]
  <1>1. CASE UNCHANGED peer BY <1>1
  <1>2. ASSUME NEW p \in Ports, Shows(p) PROVE [Game!Next]_shown
    <2> DEFINE q == 1 - p
               r == peer[p].exec.released
               x == peer'[p].exec.released
               o == peer[q].exec.released
    <2>1. q \in Ports /\ q # p /\ \A i \in Ports : i = p \/ i = q BY DEF Ports
    <2>2. /\ peer'[q] = peer[q]
          /\ \A k \in DOMAIN r : k \in DOMAIN x /\ x[k] = r[k]
      BY <1>2 DEF Shows, Longer, Other
    <2>3. /\ shown[p] = r /\ shown[q] = o /\ shown'[p] = x /\ shown'[q] = o
          /\ shown' = [i \in Ports |-> shown'[i]] /\ shown = [i \in Ports |-> shown[i]]
      BY <2>1, <2>2
    <2>4. IsMap(r, PortValues) /\ \E c \in Nat : DOMAIN r = 1 .. c
      BY ShownGame DEF GameInv
    <2>5. PICK h : \A i \in Ports : GamePeer(i, h)' BY DEF GameInv
    <2>6. /\ IsMap(x, PortValues) /\ \E c \in Nat : DOMAIN x = 1 .. c
          /\ \A k \in DOMAIN x : x[k] = h[k - 1]
          /\ \A k \in DOMAIN o : o[k] = h[k - 1]
      <3>1. ASSUME NEW i \in Ports
            PROVE  /\ IsMap(peer'[i].exec.released, PortValues)
                   /\ \E c \in Nat : DOMAIN peer'[i].exec.released = 1 .. c
                   /\ \A k \in DOMAIN peer'[i].exec.released :
                            peer'[i].exec.released[k] = h[k - 1]
        <4>1. ExecutionInv(peer'[i].exec, h) BY <2>5 DEF GamePeer, Sound
        <4> QED BY <4>1 DEF ExecutionInv, ExecutionType, ReleasedRight
      <3> QED BY <3>1, <2>1, <2>2
    <2> HIDE DEF shown, q, r, x, o
    <2>7. CASE DOMAIN x = DOMAIN r
      <3>1. x = r BY <2>2, <2>4, <2>6, <2>7 DEF IsMap
      <3> QED BY <3>1, <2>1, <2>3
    <2>8. CASE DOMAIN x # DOMAIN r
      <3>1. \E n \in DOMAIN x : DOMAIN x = 1 .. n
        <4>1. PICK c \in Nat : DOMAIN x = 1 .. c BY <2>6
        <4>2. c # 0
          <5>1. DOMAIN r \subseteq DOMAIN x BY <2>2
          <5>2. c = 0 => DOMAIN x = {} BY <4>1
          <5> QED BY <5>1, <5>2, <2>8
        <4>3. c \in 1 .. c BY <4>2
        <4> QED BY <4>1, <4>3
      <3>2. shown' = [shown EXCEPT ![p] = x] BY <2>1, <2>3
      <3>3. \A k \in DOMAIN x : x[k] \in PortValues BY <2>6 DEF IsMap
      <3>4. \A k \in DOMAIN x : k \in DOMAIN o => x[k] = o[k] BY <2>6
      <3>5. Game!Show(p) BY ZenonT(30), <3>1, <3>2, <3>3, <3>4, <2>2, <2>3, <2>8 DEF Game!Show, q, shown
      <3> QED BY <3>5 DEF Game!Next, Game!Players, Ports
    <2> QED BY <2>7, <2>8
  <1> QED BY <1>1, <1>2

\* Two sessions implement the one game they promise their players: each is shown
\* its frames in order, a frame once shown is final, and a frame shown to both was
\* made from the same inputs, whatever the network does and however either ends.
THEOREM SessionImplementsGame == Spec => OneGame
  <1>1. GameInv /\ [Next]_vars /\ GameInv' => [Game!Next]_[p \in Ports |-> peer[p].exec.released]
    BY NextGame, NextShows
  <1> QED BY <1>1, StartShows, GameInvariant, PTL DEF Spec, OneGame, Game!Spec

-----------------------------------------------------------------------------
(* What is under way between two sessions that run.  The sender has        *)
(* sampled n frames, released c, and its frame and confirmed frame are b;  *)
(* the receiver knows the sender's inputs before k, has compared its       *)
(* checkpoints up to r, and the last progress it was told of is a.  A      *)
(* channel leads from what the receiver knows to where the sender is, and  *)
(* so does each part of it; g is the game.                                 *)

\* A frame with a checkpoint; the inputs a session may be ahead of what it has
\* released.
Multiple(x) == x \in Nat /\ x > 0 /\ x % HASH_INTERVAL = 0
Span == PREDICTION_WINDOW + InputDelay + 1

\* The checkpoints that are held reach as far.
Roomy == CAPACITY * HASH_INTERVAL >= Span

IsCheck(m) == m.type = "Checkpoint"
IsProgress(m) == m.type = "Progress"

\* y is the state of the machine after the first x frames of the game, which are
\* all known.
Right(g, x, y) ==
    /\ y = Prefix(g, x)
    /\ \A f \in 0 .. x - 1 : f \in DOMAIN g /\ \A i \in Ports : g[f][i] # None

\* The inputs of the frames from k to n.
PathInputs(h, k, n) ==
    /\ k <= n
    /\ \A i \in 1 .. Len(h) : IsInput(h[i]) => k <= h[i].frame /\ h[i].frame < n
    /\ \A i, j \in 1 .. Len(h) :
            i < j /\ IsInput(h[i]) /\ IsInput(h[j]) => h[i].frame < h[j].frame

\* The checkpoints of the frames after r up to c, each of them, and right.
PathChecks(h, g, r, c) ==
    /\ r <= c
    /\ \A i \in 1 .. Len(h) : IsCheck(h[i]) =>
            /\ Multiple(h[i].frame) /\ r < h[i].frame /\ h[i].frame <= c
            /\ Right(g, h[i].frame, h[i].hash)
    /\ \A i, j \in 1 .. Len(h) :
            i < j /\ IsCheck(h[i]) /\ IsCheck(h[j]) => h[i].frame < h[j].frame
    /\ \A x \in Nat : Multiple(x) /\ r < x /\ x <= c =>
            \E i \in 1 .. Len(h) : IsCheck(h[i]) /\ h[i].frame = x

\* A checkpoint that comes after an input is of a frame not long before it.
PathOrder(h) ==
    \A i, j \in 1 .. Len(h) :
        i < j /\ IsInput(h[i]) /\ IsCheck(h[j]) => h[i].frame + 1 < h[j].frame + Span

\* Progress from a to b.
IsPoint(a) == a.frame \in Nat /\ a.confirmed \in Nat
Upto(a, b) == a.frame <= b.frame /\ a.confirmed <= b.confirmed
PathProgress(h, a, b) ==
    /\ Upto(a, b)
    /\ \A i \in 1 .. Len(h) : IsProgress(h[i]) =>
            Upto(a, h[i]) /\ Upto(h[i], b) /\ h[i].confirmed <= h[i].frame
    /\ \A i, j \in 1 .. Len(h) :
            i < j /\ IsProgress(h[i]) /\ IsProgress(h[j]) => Upto(h[i], h[j])

Path(h, g, k, r, a, n, c, b) ==
    /\ h \in Seq(Messages) /\ \A i \in 1 .. Len(h) : h[i].type # "Close"
    /\ PathInputs(h, k, n) /\ PathChecks(h, g, r, c) /\ PathOrder(h)
    /\ PathProgress(h, a, b)

\* Counters of a path.
Counts(k, r, a, n, c, b) ==
    k \in Nat /\ r \in Nat /\ IsPoint(a) /\ n \in Nat /\ c \in Nat /\ IsPoint(b)

\* The fields of the messages between sessions.
LEMMA FrameTypes ==
    ASSUME NEW m \in Messages
    PROVE  /\ IsInput(m) \/ IsCheck(m) => m.frame \in Nat
           /\ IsProgress(m) => IsPoint(m)
  <1>1. CASE m \in InputMessages BY <1>1 DEF InputMessages, IsInput, IsCheck, IsProgress
  <1>2. CASE m \in ChangeMessages BY <1>2 DEF ChangeMessages, IsInput, IsCheck, IsProgress
  <1>3. CASE m \in AckMessages BY <1>3 DEF AckMessages, IsInput, IsCheck, IsProgress
  <1>4. CASE m \in OtherMessages
    BY <1>4 DEF OtherMessages, IsInput, IsCheck, IsProgress, IsPoint
  <1> QED BY <1>1, <1>2, <1>3, <1>4 DEF Messages

\* Where the messages of two queues, one after the other, come from.
Joins(y, h, x) ==
    /\ y \in Seq(Messages) /\ Len(h) \in Nat /\ Len(x) \in Nat /\ Len(y) = Len(h) + Len(x)
    /\ \A i \in 1 .. Len(h) : h[i] \in Messages /\ i \in 1 .. Len(y) /\ y[i] = h[i]
    /\ \A i \in 1 .. Len(x) :
            x[i] \in Messages /\ Len(h) + i \in 1 .. Len(y) /\ y[Len(h) + i] = x[i]
    /\ \A i \in 1 .. Len(y) :
            \/ i \in 1 .. Len(h) /\ y[i] = h[i]
            \/ i > Len(h) /\ i - Len(h) \in 1 .. Len(x) /\ y[i] = x[i - Len(h)]
    /\ \A i, j \in 1 .. Len(y) : i < j =>
            \/ i \in 1 .. Len(h) /\ j \in 1 .. Len(h) /\ y[i] = h[i] /\ y[j] = h[j]
            \/ /\ i \in 1 .. Len(h) /\ j - Len(h) \in 1 .. Len(x)
               /\ y[i] = h[i] /\ y[j] = x[j - Len(h)]
            \/ /\ i - Len(h) \in 1 .. Len(x) /\ j - Len(h) \in 1 .. Len(x)
               /\ y[i] = x[i - Len(h)] /\ y[j] = x[j - Len(h)] /\ i - Len(h) < j - Len(h)

\* They are joined so.
LEMMA ConcatJoins ==
    ASSUME NEW h \in Seq(Messages), NEW x \in Seq(Messages)
    PROVE  Joins(h \o x, h, x)
  <1> DEFINE y == h \o x
  <1>1. /\ y \in Seq(Messages) /\ Len(h) \in Nat /\ Len(x) \in Nat
        /\ Len(y) = Len(h) + Len(x)
        /\ \A i \in 1 .. Len(h) : y[i] = h[i] /\ i \in 1 .. Len(y)
        /\ \A i \in 1 .. Len(x) : y[Len(h) + i] = x[i] /\ Len(h) + i \in 1 .. Len(y)
        /\ \A i \in 1 .. Len(y) :
                \/ i \in 1 .. Len(h)
                \/ ~(i \in 1 .. Len(h)) /\ i - Len(h) \in 1 .. Len(x)
                   /\ y[i] = x[i - Len(h)]
    BY ConcatFacts
  <1>2. /\ \A i \in 1 .. Len(h) : h[i] \in Messages
        /\ \A i \in 1 .. Len(x) : x[i] \in Messages
    OBVIOUS
  <1> HIDE DEF y
  <1>3. \A i \in 1 .. Len(y) :
            \/ i \in 1 .. Len(h) /\ y[i] = h[i]
            \/ i > Len(h) /\ i - Len(h) \in 1 .. Len(x) /\ y[i] = x[i - Len(h)]
    BY <1>1
  <1>4. ASSUME NEW i \in 1 .. Len(y), NEW j \in 1 .. Len(y), i < j
        PROVE  \/ i \in 1 .. Len(h) /\ j \in 1 .. Len(h)
               \/ i \in 1 .. Len(h) /\ j > Len(h)
               \/ i > Len(h) /\ j > Len(h) /\ i - Len(h) < j - Len(h)
    BY <1>1, <1>4
  <1>5. \A i \in 1 .. Len(y) : i > Len(h) => ~(i \in 1 .. Len(h)) BY <1>1
  <1>6. \A i, j \in 1 .. Len(y) : i < j =>
            \/ i \in 1 .. Len(h) /\ j \in 1 .. Len(h) /\ y[i] = h[i] /\ y[j] = h[j]
            \/ /\ i \in 1 .. Len(h) /\ j - Len(h) \in 1 .. Len(x)
               /\ y[i] = h[i] /\ y[j] = x[j - Len(h)]
            \/ /\ i - Len(h) \in 1 .. Len(x) /\ j - Len(h) \in 1 .. Len(x)
               /\ y[i] = x[i - Len(h)] /\ y[j] = x[j - Len(h)] /\ i - Len(h) < j - Len(h)
    BY <1>3, <1>4, <1>5
  <1>7. Joins(y, h, x) BY <1>1, <1>2, <1>3, <1>6 DEF Joins
  <1> QED BY <1>7 DEF y

\* A path can be gone on from where it ends.
LEMMA PathOn ==
    ASSUME NEW h, NEW x, NEW g, NEW k, NEW r, NEW a, NEW n, NEW c, NEW b, NEW n2, NEW c2,
           NEW b2, Counts(k, r, a, n, c, b), Counts(n, c, b, n2, c2, b2),
           Path(h, g, k, r, a, n, c, b), Path(x, g, n, c, b, n2, c2, b2), n <= c + Span
    PROVE  Path(h \o x, g, k, r, a, n2, c2, b2)
  <1> DEFINE y == h \o x
             N == Len(h)
  <1>1. h \in Seq(Messages) /\ x \in Seq(Messages) BY DEF Path
  <1>2. Joins(y, h, x) BY <1>1, ConcatJoins
  <1> HIDE DEF y
  <1>3. /\ k \in Nat /\ r \in Nat /\ n \in Nat /\ c \in Nat /\ n2 \in Nat /\ c2 \in Nat
        /\ Span \in Nat
    BY Numbers DEF Counts, Span
  <1>4. PathInputs(y, k, n2)
    <2>1. /\ PathInputs(h, k, n) /\ PathInputs(x, n, n2) /\ k <= n /\ n <= n2
      BY DEF Path, PathInputs
    <2>2. ASSUME NEW i \in 1 .. Len(h), IsInput(h[i])
          PROVE  h[i].frame \in Nat /\ k <= h[i].frame /\ h[i].frame < n
      BY <1>2, <2>1, <2>2, FrameTypes DEF PathInputs, Joins
    <2>3. ASSUME NEW i \in 1 .. Len(x), IsInput(x[i])
          PROVE  x[i].frame \in Nat /\ n <= x[i].frame /\ x[i].frame < n2
      BY <1>2, <2>1, <2>3, FrameTypes DEF PathInputs, Joins
    <2>4. ASSUME NEW i \in 1 .. Len(y), IsInput(y[i])
          PROVE  k <= y[i].frame /\ y[i].frame < n2
      <3>1. CASE i \in 1 .. Len(h) /\ y[i] = h[i] BY <2>1, <2>2, <2>4, <3>1, <1>3
      <3>2. CASE i - N \in 1 .. Len(x) /\ y[i] = x[i - N] BY <2>1, <2>3, <2>4, <3>2, <1>3
      <3> QED BY <1>2, <3>1, <3>2 DEF Joins
    <2>5. ASSUME NEW i \in 1 .. Len(y), NEW j \in 1 .. Len(y), i < j,
                 IsInput(y[i]), IsInput(y[j])
          PROVE  y[i].frame < y[j].frame
      <3>1. CASE i \in 1 .. N /\ j \in 1 .. N /\ y[i] = h[i] /\ y[j] = h[j]
        BY <2>1, <2>5, <3>1 DEF PathInputs
      <3>2. CASE i \in 1 .. N /\ j - N \in 1 .. Len(x) /\ y[i] = h[i] /\ y[j] = x[j - N]
        <4> DEFINE m == j - N
        <4>1. h[i].frame \in Nat /\ h[i].frame < n BY <2>2, <2>5, <3>2
        <4>2. m \in 1 .. Len(x) /\ y[j] = x[m] BY <3>2
        <4> HIDE DEF m
        <4>3. x[m].frame \in Nat /\ n <= x[m].frame BY <2>3, <2>5, <4>2
        <4>4. h[i].frame < x[m].frame BY <4>1, <4>3, <1>3
        <4> QED BY <3>2, <4>2, <4>4
      <3>3. CASE /\ i - N \in 1 .. Len(x) /\ j - N \in 1 .. Len(x)
                 /\ y[i] = x[i - N] /\ y[j] = x[j - N] /\ i - N < j - N
        BY <2>1, <2>5, <3>3 DEF PathInputs
      <3> QED BY <1>2, <2>5, <3>1, <3>2, <3>3 DEF Joins
    <2>6. k <= n2 BY <2>1, <1>3
    <2> QED BY <2>4, <2>5, <2>6 DEF PathInputs
  <1>5. PathChecks(y, g, r, c2)
    <2>1. /\ PathChecks(h, g, r, c) /\ PathChecks(x, g, c, c2) /\ r <= c /\ c <= c2
      BY DEF Path, PathChecks
    <2>2. ASSUME NEW i \in 1 .. Len(h), IsCheck(h[i])
          PROVE  /\ h[i].frame \in Nat /\ Multiple(h[i].frame) /\ r < h[i].frame
                 /\ h[i].frame <= c /\ Right(g, h[i].frame, h[i].hash)
      BY <1>2, <2>1, <2>2, FrameTypes DEF PathChecks, Joins
    <2>3. ASSUME NEW i \in 1 .. Len(x), IsCheck(x[i])
          PROVE  /\ x[i].frame \in Nat /\ Multiple(x[i].frame) /\ c < x[i].frame
                 /\ x[i].frame <= c2 /\ Right(g, x[i].frame, x[i].hash)
      BY <1>2, <2>1, <2>3, FrameTypes DEF PathChecks, Joins
    <2>4. ASSUME NEW i \in 1 .. Len(y), IsCheck(y[i])
          PROVE  /\ Multiple(y[i].frame) /\ r < y[i].frame /\ y[i].frame <= c2
                 /\ Right(g, y[i].frame, y[i].hash)
      <3>1. CASE i \in 1 .. Len(h) /\ y[i] = h[i] BY SMTT(30), <2>1, <2>2, <2>4, <3>1, <1>3
      <3>2. CASE i - N \in 1 .. Len(x) /\ y[i] = x[i - N] BY <2>1, <2>3, <2>4, <3>2, <1>3
      <3> QED BY <1>2, <3>1, <3>2 DEF Joins
    <2>5. ASSUME NEW i \in 1 .. Len(y), NEW j \in 1 .. Len(y), i < j,
                 IsCheck(y[i]), IsCheck(y[j])
          PROVE  y[i].frame < y[j].frame
      <3>1. CASE i \in 1 .. N /\ j \in 1 .. N /\ y[i] = h[i] /\ y[j] = h[j]
        BY <2>1, <2>5, <3>1 DEF PathChecks
      <3>2. CASE i \in 1 .. N /\ j - N \in 1 .. Len(x) /\ y[i] = h[i] /\ y[j] = x[j - N]
        <4> DEFINE m == j - N
        <4>1. h[i].frame \in Nat /\ h[i].frame <= c BY <2>2, <2>5, <3>2
        <4>2. m \in 1 .. Len(x) /\ y[j] = x[m] BY <3>2
        <4> HIDE DEF m
        <4>3. x[m].frame \in Nat /\ c < x[m].frame BY <2>3, <2>5, <4>2
        <4>4. h[i].frame < x[m].frame BY <4>1, <4>3, <1>3
        <4> QED BY <3>2, <4>2, <4>4
      <3>3. CASE /\ i - N \in 1 .. Len(x) /\ j - N \in 1 .. Len(x)
                 /\ y[i] = x[i - N] /\ y[j] = x[j - N] /\ i - N < j - N
        BY <2>1, <2>5, <3>3 DEF PathChecks
      <3> QED BY <1>2, <2>5, <3>1, <3>2, <3>3 DEF Joins
    <2>6. ASSUME NEW f \in Nat, Multiple(f), r < f, f <= c2
          PROVE  \E i \in 1 .. Len(y) : IsCheck(y[i]) /\ y[i].frame = f
      <3>1. CASE f <= c
        <4>1. PICK i \in 1 .. Len(h) : IsCheck(h[i]) /\ h[i].frame = f
          BY <2>1, <2>6, <3>1 DEF PathChecks
        <4> QED BY <4>1, <1>2 DEF Joins
      <3>2. CASE c < f
        <4>1. PICK i \in 1 .. Len(x) : IsCheck(x[i]) /\ x[i].frame = f
          BY <2>1, <2>6, <3>2 DEF PathChecks
        <4> QED BY <4>1, <1>2 DEF Joins
      <3> QED BY <3>1, <3>2, <1>3
    <2>7. r <= c2 BY <2>1, <1>3
    <2> QED BY <2>4, <2>5, <2>6, <2>7 DEF PathChecks
  <1>6. PathOrder(y)
    <2>1. ASSUME NEW i \in 1 .. Len(y), NEW j \in 1 .. Len(y), i < j,
                 IsInput(y[i]), IsCheck(y[j])
          PROVE  y[i].frame + 1 < y[j].frame + Span
      <3>1. CASE i \in 1 .. N /\ j \in 1 .. N /\ y[i] = h[i] /\ y[j] = h[j]
        BY <2>1, <3>1 DEF Path, PathOrder
      <3>2. CASE i \in 1 .. N /\ j - N \in 1 .. Len(x) /\ y[i] = h[i] /\ y[j] = x[j - N]
        <4>1. h[i].frame < n /\ c < x[j - N].frame BY <2>1, <3>2 DEF Path, PathInputs, PathChecks
        <4>2. h[i].frame \in Nat /\ x[j - N].frame \in Nat
          BY <2>1, <3>2, <1>2, FrameTypes DEF Joins
        <4> DEFINE u == h[i].frame
                   w == x[j - N].frame
        <4>3. y[i].frame = u /\ y[j].frame = w BY <3>2
        <4>4. u < n /\ c < w /\ u \in Nat /\ w \in Nat BY <4>1, <4>2
        <4>5. n <= c + Span OBVIOUS
        <4> HIDE DEF u, w
        <4>6. u + 1 < w + Span BY <4>4, <4>5, <1>3
        <4> QED BY <4>3, <4>6
      <3>3. CASE /\ i - N \in 1 .. Len(x) /\ j - N \in 1 .. Len(x)
                 /\ y[i] = x[i - N] /\ y[j] = x[j - N] /\ i - N < j - N
        BY <2>1, <3>3 DEF Path, PathOrder
      <3> QED BY <1>2, <2>1, <3>1, <3>2, <3>3 DEF Joins
    <2> QED BY <2>1 DEF PathOrder
  <1>7. PathProgress(y, a, b2)
    <2>1. PathProgress(h, a, b) /\ PathProgress(x, b, b2) /\ Upto(a, b) /\ Upto(b, b2)
      BY DEF Path, PathProgress
    <2>2. \A u, v, w : IsPoint(u) /\ IsPoint(v) /\ IsPoint(w) /\ Upto(u, v) /\ Upto(v, w)
                            => Upto(u, w)
      BY DEF IsPoint, Upto
    <2>3. IsPoint(a) /\ IsPoint(b) /\ IsPoint(b2) BY DEF Counts
    <2>4. ASSUME NEW i \in 1 .. Len(h), IsProgress(h[i])
          PROVE  IsPoint(h[i]) /\ Upto(a, h[i]) /\ Upto(h[i], b) /\ h[i].confirmed <= h[i].frame
      BY <1>2, <2>1, <2>4, FrameTypes DEF PathProgress, Joins
    <2>5. ASSUME NEW i \in 1 .. Len(x), IsProgress(x[i])
          PROVE  IsPoint(x[i]) /\ Upto(b, x[i]) /\ Upto(x[i], b2) /\ x[i].confirmed <= x[i].frame
      BY <1>2, <2>1, <2>5, FrameTypes DEF PathProgress, Joins
    <2>6. ASSUME NEW i \in 1 .. Len(y), IsProgress(y[i])
          PROVE  Upto(a, y[i]) /\ Upto(y[i], b2) /\ y[i].confirmed <= y[i].frame
      <3>1. CASE i \in 1 .. Len(h) /\ y[i] = h[i] BY <2>1, <2>2, <2>3, <2>4, <2>6, <3>1
      <3>2. CASE i - N \in 1 .. Len(x) /\ y[i] = x[i - N]
        BY <2>1, <2>2, <2>3, <2>5, <2>6, <3>2
      <3> QED BY <1>2, <3>1, <3>2 DEF Joins
    <2>7. ASSUME NEW i \in 1 .. Len(y), NEW j \in 1 .. Len(y), i < j,
                 IsProgress(y[i]), IsProgress(y[j])
          PROVE  Upto(y[i], y[j])
      <3>1. CASE i \in 1 .. N /\ j \in 1 .. N /\ y[i] = h[i] /\ y[j] = h[j]
        BY <2>1, <2>7, <3>1 DEF PathProgress
      <3>2. CASE i \in 1 .. N /\ j - N \in 1 .. Len(x) /\ y[i] = h[i] /\ y[j] = x[j - N]
        BY <2>2, <2>3, <2>4, <2>5, <2>7, <3>2
      <3>3. CASE /\ i - N \in 1 .. Len(x) /\ j - N \in 1 .. Len(x)
                 /\ y[i] = x[i - N] /\ y[j] = x[j - N] /\ i - N < j - N
        BY <2>1, <2>7, <3>3 DEF PathProgress
      <3> QED BY <1>2, <2>7, <3>1, <3>2, <3>3 DEF Joins
    <2>8. Upto(a, b2) BY <2>1, <2>2, <2>3
    <2> QED BY <2>6, <2>7, <2>8 DEF PathProgress
  <1>8. y \in Seq(Messages) /\ \A i \in 1 .. Len(y) : y[i].type # "Close"
    <2>1. /\ \A i \in 1 .. Len(h) : h[i].type # "Close"
          /\ \A i \in 1 .. Len(x) : x[i].type # "Close"
      BY DEF Path
    <2>2. y \in Seq(Messages) BY <1>2 DEF Joins
    <2>3. ASSUME NEW i \in 1 .. Len(y) PROVE y[i].type # "Close"
      <3>1. \/ i \in 1 .. Len(h) /\ y[i] = h[i]
            \/ i - N \in 1 .. Len(x) /\ y[i] = x[i - N]
        BY <1>2 DEF Joins
      <3> QED BY <2>1, <3>1
    <2> QED BY <2>2, <2>3
  <1>9. Path(y, g, k, r, a, n2, c2, b2) BY <1>4, <1>5, <1>6, <1>7, <1>8 DEF Path
  <1> QED BY <1>9 DEF y

\* What the receiver knows after the message m.
NextInput(k, m) == IF IsInput(m) THEN m.frame + 1 ELSE k
NextCheck(r, m) == IF IsCheck(m) THEN m.frame ELSE r
NextPoint(a, m) ==
    IF IsProgress(m) THEN [frame |-> m.frame, confirmed |-> m.confirmed] ELSE a

\* The message at the head of a path.
LEMMA PathHead ==
    ASSUME NEW h, NEW g, NEW k, NEW r, NEW a, NEW n, NEW c, NEW b,
           Counts(k, r, a, n, c, b), Path(h, g, k, r, a, n, c, b), h # <<>>
    PROVE  LET m == Head(h)
           IN  /\ m \in Messages /\ m.type # "Close"
               /\ IsInput(m) => m.frame \in Nat /\ k <= m.frame /\ m.frame < n
               /\ IsCheck(m) => /\ Multiple(m.frame) /\ r < m.frame /\ m.frame <= c
                                /\ Right(g, m.frame, m.hash)
               /\ IsProgress(m) => /\ IsPoint(m) /\ Upto(a, m) /\ Upto(m, b)
                                   /\ m.confirmed <= m.frame
               /\ NextInput(k, m) \in Nat /\ NextCheck(r, m) \in Nat
               /\ IsPoint(NextPoint(a, m))
  <1> DEFINE m == Head(h)
  <1>1. h \in Seq(Messages) BY DEF Path
  <1>2. m = h[1] /\ 1 \in 1 .. Len(h) /\ m \in Messages BY <1>1, TailFacts
  <1> HIDE DEF m
  <1>3. /\ IsInput(m) \/ IsCheck(m) => m.frame \in Nat
        /\ IsProgress(m) => IsPoint(m)
    BY <1>2, FrameTypes
  <1>4. /\ m.type # "Close"
        /\ IsInput(m) => k <= m.frame /\ m.frame < n
        /\ IsCheck(m) => /\ Multiple(m.frame) /\ r < m.frame /\ m.frame <= c
                         /\ Right(g, m.frame, m.hash)
        /\ IsProgress(m) => Upto(a, m) /\ Upto(m, b) /\ m.confirmed <= m.frame
    BY <1>2 DEF Path, PathInputs, PathChecks, PathProgress
  <1>5. NextInput(k, m) \in Nat /\ NextCheck(r, m) \in Nat
    BY <1>3 DEF NextInput, NextCheck, Counts
  <1>6. IsPoint(NextPoint(a, m)) BY <1>3 DEF NextPoint, IsPoint, Counts
  <1> QED BY <1>2, <1>3, <1>4, <1>5, <1>6 DEF m

\* The rest of a path leads on from the message at its head.
LEMMA PathTail ==
    ASSUME NEW h, NEW g, NEW k, NEW r, NEW a, NEW n, NEW c, NEW b,
           Counts(k, r, a, n, c, b), Path(h, g, k, r, a, n, c, b), h # <<>>
    PROVE  LET m == Head(h)
           IN  Path(Tail(h), g, NextInput(k, m), NextCheck(r, m), NextPoint(a, m), n, c, b)
  <1> DEFINE m == Head(h)
             u == Tail(h)
             k2 == NextInput(k, m)
             r2 == NextCheck(r, m)
             a2 == NextPoint(a, m)
  <1>1. h \in Seq(Messages) BY DEF Path
  <1>2. /\ u \in Seq(Messages) /\ Len(h) \in Nat \ {0} /\ m = h[1] /\ 1 \in 1 .. Len(h)
        /\ Len(u) = Len(h) - 1
        /\ \A i \in 1 .. Len(h) - 1 : u[i] = h[i + 1] /\ i + 1 \in 1 .. Len(h)
        /\ \A i \in 1 .. Len(h) : h[i] \in Messages
        /\ \A i \in 2 .. Len(h) : h[i] = u[i - 1] /\ i - 1 \in 1 .. Len(h) - 1
    BY <1>1, TailFacts
  <1>3. \A i \in 1 .. Len(u) :
            u[i] = h[i + 1] /\ i + 1 \in 1 .. Len(h) /\ 1 < i + 1 /\ u[i] \in Messages
    BY <1>2
  <1>4. \A i, j \in 1 .. Len(u) : i < j => i + 1 < j + 1 BY <1>2
  <1>5. /\ k \in Nat /\ r \in Nat /\ n \in Nat /\ c \in Nat /\ m \in Messages
        /\ k2 \in Nat /\ r2 \in Nat
    BY <1>2, PathHead DEF Counts
  <1>6. /\ IsInput(m) => m.frame \in Nat /\ k <= m.frame /\ m.frame < n /\ k2 = m.frame + 1
        /\ ~IsInput(m) => k2 = k
        /\ IsCheck(m) => m.frame \in Nat /\ r < m.frame /\ m.frame <= c /\ r2 = m.frame
        /\ ~IsCheck(m) => r2 = r
        /\ IsProgress(m) => /\ IsPoint(m) /\ Upto(a, m) /\ Upto(m, b)
                            /\ a2.frame = m.frame /\ a2.confirmed = m.confirmed
        /\ ~IsProgress(m) => a2 = a
    BY <1>5, PathHead DEF NextInput, NextCheck, NextPoint, Multiple
  <1> HIDE DEF m, u, k2, r2, a2
  <1>7. PathInputs(u, k2, n)
    <2>1. PathInputs(h, k, n) /\ k <= n BY DEF Path, PathInputs
    <2>2. ASSUME NEW i \in 1 .. Len(u), IsInput(u[i]) PROVE k2 <= u[i].frame /\ u[i].frame < n
      <3>1. u[i].frame \in Nat BY <1>3, <2>2, FrameTypes
      <3>2. k <= u[i].frame /\ u[i].frame < n BY <1>3, <2>1, <2>2 DEF PathInputs
      <3>3. IsInput(m) => m.frame < u[i].frame BY <1>2, <1>3, <2>1, <2>2 DEF PathInputs
      <3> QED BY <3>1, <3>2, <3>3, <1>5, <1>6
    <2>3. ASSUME NEW i \in 1 .. Len(u), NEW j \in 1 .. Len(u), i < j,
                 IsInput(u[i]), IsInput(u[j])
          PROVE  u[i].frame < u[j].frame
      BY <1>3, <1>4, <2>1, <2>3 DEF PathInputs
    <2>4. k2 <= n BY <2>1, <1>5, <1>6
    <2> QED BY <2>2, <2>3, <2>4 DEF PathInputs
  <1>8. PathChecks(u, g, r2, c)
    <2>1. PathChecks(h, g, r, c) /\ r <= c BY DEF Path, PathChecks
    <2>2. ASSUME NEW i \in 1 .. Len(u), IsCheck(u[i])
          PROVE  /\ Multiple(u[i].frame) /\ r2 < u[i].frame /\ u[i].frame <= c
                 /\ Right(g, u[i].frame, u[i].hash)
      <3>1. u[i].frame \in Nat BY <1>3, <2>2, FrameTypes
      <3>2. /\ Multiple(u[i].frame) /\ r < u[i].frame /\ u[i].frame <= c
            /\ Right(g, u[i].frame, u[i].hash)
        BY <1>3, <2>1, <2>2 DEF PathChecks
      <3>3. IsCheck(m) => m.frame < u[i].frame BY <1>2, <1>3, <2>1, <2>2 DEF PathChecks
      <3>4. r2 < u[i].frame BY <3>2, <3>3, <1>6
      <3> QED BY <3>2, <3>4
    <2>3. ASSUME NEW i \in 1 .. Len(u), NEW j \in 1 .. Len(u), i < j,
                 IsCheck(u[i]), IsCheck(u[j])
          PROVE  u[i].frame < u[j].frame
      BY <1>3, <1>4, <2>1, <2>3 DEF PathChecks
    <2>4. ASSUME NEW f \in Nat, Multiple(f), r2 < f, f <= c
          PROVE  \E i \in 1 .. Len(u) : IsCheck(u[i]) /\ u[i].frame = f
      <3>1. r < f BY <2>4, <1>5, <1>6
      <3>2. PICK i \in 1 .. Len(h) : IsCheck(h[i]) /\ h[i].frame = f
        BY <2>1, <2>4, <3>1 DEF PathChecks
      <3>3. i # 1
        <4>1. i = 1 => f = r2 BY <3>2, <1>2, <1>6
        <4> QED BY <4>1, <2>4, <1>5
      <3>4. i \in 2 .. Len(h) BY <3>3, <1>2
      <3>5. h[i] = u[i - 1] /\ i - 1 \in 1 .. Len(u) BY <3>4, <1>2
      <3> QED BY <3>2, <3>5
    <2>5. r2 <= c BY <2>1, <1>5, <1>6
    <2> QED BY <2>2, <2>3, <2>4, <2>5 DEF PathChecks
  <1>9. PathOrder(u)
    <2>1. ASSUME NEW i \in 1 .. Len(u), NEW j \in 1 .. Len(u), i < j,
                 IsInput(u[i]), IsCheck(u[j])
          PROVE  u[i].frame + 1 < u[j].frame + Span
      BY <1>3, <1>4, <2>1 DEF Path, PathOrder
    <2> QED BY <2>1 DEF PathOrder
  <1>10. PathProgress(u, a2, b)
    <2>1. PathProgress(h, a, b) /\ Upto(a, b) BY DEF Path, PathProgress
    <2>2. ASSUME NEW i \in 1 .. Len(u), IsProgress(u[i])
          PROVE  Upto(a2, u[i]) /\ Upto(u[i], b) /\ u[i].confirmed <= u[i].frame
      <3>1. Upto(a, u[i]) /\ Upto(u[i], b) /\ u[i].confirmed <= u[i].frame
        BY <1>3, <2>1, <2>2 DEF PathProgress
      <3>2. IsProgress(m) => Upto(m, u[i]) BY <1>2, <1>3, <2>1, <2>2 DEF PathProgress
      <3>3. Upto(a2, u[i]) BY <3>1, <3>2, <1>6 DEF Upto
      <3> QED BY <3>1, <3>3
    <2>3. ASSUME NEW i \in 1 .. Len(u), NEW j \in 1 .. Len(u), i < j,
                 IsProgress(u[i]), IsProgress(u[j])
          PROVE  Upto(u[i], u[j])
      BY <1>3, <1>4, <2>1, <2>3 DEF PathProgress
    <2>4. Upto(a2, b) BY <2>1, <1>6 DEF Upto
    <2> QED BY <2>2, <2>3, <2>4 DEF PathProgress
  <1>11. u \in Seq(Messages) /\ \A i \in 1 .. Len(u) : u[i].type # "Close"
    BY <1>2, <1>3 DEF Path
  <1>12. Path(u, g, k2, r2, a2, n, c, b) BY <1>7, <1>8, <1>9, <1>10, <1>11 DEF Path
  <1> QED BY <1>12 DEF m, u, k2, r2, a2

\* What was right stays right in a longer game.
LEMMA RightGrows ==
    ASSUME NEW g, NEW h, IsMap(g, Entries), Grows(g, h), NEW x, NEW y, Right(g, x, y)
    PROVE  Right(h, x, y)
  <1>1. ASSUME NEW f \in 0 .. x - 1
        PROVE  f \in DOMAIN h /\ h[f] = g[f] /\ \A i \in Ports : h[f][i] # None
    <2>1. f \in DOMAIN g /\ \A i \in Ports : g[f][i] # None BY <1>1 DEF Right
    <2> QED BY <2>1, GrowsFull
  <1>2. Prefix(h, x) = Prefix(g, x) BY <1>1 DEF Prefix
  <1> QED BY <1>1, <1>2 DEF Right

\* The sender gets further, and the game longer.
LEMMA PathGrows ==
    ASSUME NEW h, NEW g, NEW k, NEW r, NEW a, NEW n, NEW c, NEW b, NEW n2, NEW b2,
           Counts(k, r, a, n, c, b), Counts(k, r, a, n2, c, b2),
           Path(h, g, k, r, a, n, c, b), n <= n2, Upto(b, b2),
           IsMap(g, Entries), NEW y, Grows(g, y)
    PROVE  Path(h, y, k, r, a, n2, c, b2)
  <1>1. /\ k \in Nat /\ n \in Nat /\ n2 \in Nat /\ IsPoint(a) /\ IsPoint(b) /\ IsPoint(b2)
    BY DEF Counts
  <1>2. \A i \in 1 .. Len(h) : h[i] \in Messages
    <2>1. h \in Seq(Messages) BY DEF Path
    <2> QED BY <2>1
  <1>3. PathInputs(h, k, n2)
    <2>1. PathInputs(h, k, n) BY DEF Path
    <2>2. ASSUME NEW i \in 1 .. Len(h), IsInput(h[i]) PROVE h[i].frame < n2
      <3>1. h[i].frame \in Nat /\ h[i].frame < n
        BY <2>1, <2>2, <1>2, FrameTypes DEF PathInputs
      <3> QED BY <3>1, <1>1
    <2>3. k <= n2
      <3>1. k <= n BY <2>1 DEF PathInputs
      <3> QED BY <3>1, <1>1
    <2> QED BY <2>1, <2>2, <2>3 DEF PathInputs
  <1>4. PathChecks(h, y, r, c) BY RightGrows DEF Path, PathChecks
  <1>5. PathProgress(h, a, b2)
    <2>1. PathProgress(h, a, b) BY DEF Path
    <2>2. \A u, v, w : IsPoint(u) /\ IsPoint(v) /\ IsPoint(w) /\ Upto(u, v) /\ Upto(v, w)
                            => Upto(u, w)
      BY DEF IsPoint, Upto
    <2>3. ASSUME NEW i \in 1 .. Len(h), IsProgress(h[i]) PROVE Upto(h[i], b2)
      <3>1. IsPoint(h[i]) /\ Upto(h[i], b) BY <2>1, <2>3, <1>2, FrameTypes DEF PathProgress
      <3> QED BY <3>1, <2>2, <1>1
    <2>4. Upto(a, b2)
      <3>1. Upto(a, b) BY <2>1 DEF PathProgress
      <3> QED BY <3>1, <2>2, <1>1
    <2> QED BY <2>1, <2>3, <2>4 DEF PathProgress
  <1> QED BY <1>3, <1>4, <1>5 DEF Path

\* One message, or none, as a path: an input that was just sampled, the progress
\* made, or a change or acknowledgment of a vote.
LEMMA PathOne ==
    ASSUME NEW g, NEW n \in Nat, NEW c \in Nat, NEW b, IsPoint(b), b.confirmed <= b.frame
    PROVE  /\ Path(<<>>, g, n, c, b, n, c, b)
           /\ \A m \in Messages : IsInput(m) /\ m.frame = n => Path(<<m>>, g, n, c, b, n + 1, c, b)
           /\ \A m \in Messages : IsProgress(m) /\ m.frame = b.frame /\ m.confirmed = b.confirmed
                    => Path(<<m>>, g, n, c, b, n, c, b)
           /\ \A m \in Messages : IsChange(m) \/ m.type = "PauseAck"
                    => Path(<<m>>, g, n, c, b, n, c, b)
  <1>1. \A x \in Nat : ~(c < x /\ x <= c) OBVIOUS
  <1>2. Upto(b, b) BY DEF Upto, IsPoint
  <1>3. Path(<<>>, g, n, c, b, n, c, b)
    <2> DEFINE h == <<>>
    <2>1. h \in Seq(Messages) /\ \A i \in 1 .. Len(h) : FALSE OBVIOUS
    <2> HIDE DEF h
    <2>2. Path(h, g, n, c, b, n, c, b)
      BY <2>1, <1>1, <1>2 DEF Path, PathInputs, PathChecks, PathOrder, PathProgress
    <2> QED BY <2>2 DEF h
  <1>4. ASSUME NEW m \in Messages, NEW n2 \in {n, n + 1}, IsInput(m) => m.frame = n /\ n2 = n + 1,
               m.type # "Close", ~IsCheck(m),
               IsProgress(m) => m.frame = b.frame /\ m.confirmed = b.confirmed
        PROVE  Path(<<m>>, g, n, c, b, n2, c, b)
    <2> DEFINE h == <<m>>
    <2>1. h \in Seq(Messages) /\ Len(h) = 1 /\ h[1] = m OBVIOUS
    <2>2. \A i \in 1 .. Len(h) : i = 1 /\ h[i] = m BY <2>1
    <2> HIDE DEF h
    <2>3. \A i, j \in 1 .. Len(h) : ~(i < j) BY <2>2
    <2>4. PathInputs(h, n, n2)
      <3>1. n <= n2 /\ (IsInput(m) => n <= m.frame /\ m.frame < n2) BY <1>4
      <3> QED BY <2>2, <2>3, <3>1 DEF PathInputs
    <2>5. PathChecks(h, g, c, c) BY <1>1, <1>4, <2>2, <2>3 DEF PathChecks
    <2>6. PathProgress(h, b, b) BY <1>2, <1>4, <2>2, <2>3 DEF PathProgress, Upto
    <2>7. PathOrder(h) BY <2>3 DEF PathOrder
    <2>8. Path(h, g, n, c, b, n2, c, b) BY <1>4, <2>1, <2>2, <2>4, <2>5, <2>6, <2>7 DEF Path
    <2> QED BY <2>8 DEF h
  <1>5. ASSUME NEW m \in Messages, IsInput(m), m.frame = n
        PROVE  Path(<<m>>, g, n, c, b, n + 1, c, b)
    BY <1>4, <1>5 DEF IsInput, IsCheck, IsProgress
  <1>6. ASSUME NEW m \in Messages, IsProgress(m), m.frame = b.frame, m.confirmed = b.confirmed
        PROVE  Path(<<m>>, g, n, c, b, n, c, b)
    BY <1>4, <1>6 DEF IsInput, IsCheck, IsProgress
  <1>7. ASSUME NEW m \in Messages, IsChange(m) \/ m.type = "PauseAck"
        PROVE  Path(<<m>>, g, n, c, b, n, c, b)
    BY <1>4, <1>7 DEF IsInput, IsCheck, IsProgress, IsChange
  <1> QED BY <1>3, <1>5, <1>6, <1>7

-----------------------------------------------------------------------------
(* How many checkpoints a session has to hold.                             *)

\* Numbers that are multiples of the interval.
LEMMA Multiples ==
    /\ \A a, b \in Nat : a <= b => HASH_INTERVAL * a <= HASH_INTERVAL * b
    /\ \A x \in Nat : /\ x \div HASH_INTERVAL \in Nat
                      /\ HASH_INTERVAL * (x \div HASH_INTERVAL) <= x
                      /\ x < HASH_INTERVAL * (x \div HASH_INTERVAL) + HASH_INTERVAL
    /\ \A x : Multiple(x) => x \in Nat /\ x = HASH_INTERVAL * (x \div HASH_INTERVAL)
  <1> DEFINE H == HASH_INTERVAL
  <1>1. H \in Nat /\ H > 0 BY SessionAssumption
  <1> HIDE DEF H
  <1>2. ASSUME NEW a \in Nat, NEW b \in Nat, a <= b PROVE H * a <= H * b
    <2>1. H * (b - a) >= 0 /\ b - a \in Nat BY <1>1, <1>2
    <2>2. H * b = H * a + H * (b - a) BY <1>1
    <2> QED BY <2>1, <2>2, <1>1
  <1>3. ASSUME NEW x \in Nat
        PROVE  x \div H \in Nat /\ H * (x \div H) <= x /\ x < H * (x \div H) + H
               /\ (x % H = 0 => x = H * (x \div H))
    BY <1>1
  <1> QED BY <1>2, <1>3 DEF H, Multiple

\* No more than CAPACITY checkpoints are of the frames of one span.
LEMMA SpanCount ==
    ASSUME Roomy, NEW a \in Nat, NEW X,
           \A x \in X : Multiple(x) /\ a < x /\ x <= a + Span
    PROVE  IsFiniteSet(X) /\ Cardinality(X) \in Nat /\ Cardinality(X) <= CAPACITY
  <1> DEFINE H == HASH_INTERVAL
             n == CAPACITY
             q == a \div H
             T == q + 1 .. q + n
             f == [x \in X |-> x \div H]
  <1>1. H \in Nat /\ H > 0 /\ n \in Nat /\ Span \in Nat BY SessionAssumption, Numbers DEF Span
  <1>2. q \in Nat /\ H * q <= a /\ a < H * q + H BY Multiples
  <1>3. ASSUME NEW x \in X PROVE x \div H \in T
    <2> DEFINE y == x \div H
    <2>1. Multiple(x) /\ x \in Nat /\ a < x /\ x <= a + Span BY DEF Multiple
    <2>2. y \in Nat /\ x = H * y BY <2>1, Multiples
    <2> HIDE DEF y, q, H, n
    <2>3. q < y
      <3>1. y <= q => H * y <= H * q BY <1>2, <2>2, Multiples DEF H
      <3>2. H * y \in Nat /\ H * q \in Nat BY <1>1, <1>2, <2>2
      <3> QED BY <3>1, <3>2, <2>1, <2>2, <1>2
    <2>4. y <= q + n
      <3>1. H * y <= a + n * H
        <4>1. n * H \in Nat BY <1>1
        <4>2. Span <= n * H BY DEF n, H, Roomy
        <4> QED BY <4>1, <4>2, <2>1, <2>2, <1>1
      <3>2. H * (q + n + 1) = H * q + H + n * H BY <1>1, <1>2
      <3>3. H * y < H * (q + n + 1)
        <4>1. H * y \in Nat /\ H * q \in Nat /\ n * H \in Nat BY <1>1, <1>2, <2>2
        <4> QED BY <3>1, <3>2, <4>1, <1>1, <1>2
      <3>4. q + n + 1 <= y => H * (q + n + 1) <= H * y
        <4>1. q + n + 1 \in Nat BY <1>1, <1>2
        <4> QED BY <4>1, <2>2, Multiples DEF H
      <3>5. H * (q + n + 1) \in Nat /\ H * y \in Nat BY <1>1, <1>2, <2>2
      <3> QED BY <3>3, <3>4, <3>5, <1>1, <1>2, <2>2
    <2> QED BY <2>2, <2>3, <2>4, <1>1, <1>2 DEF y
  <1>4. f \in Injection(X, T)
    <2>1. f \in [X -> T] BY <1>3
    <2>2. ASSUME NEW x \in X, NEW y \in X, f[x] = f[y] PROVE x = y
      <3>1. x = H * (x \div H) /\ y = H * (y \div H) BY Multiples
      <3> QED BY <2>2, <3>1
    <2> HIDE DEF f, T
    <2> QED BY <2>1, <2>2 DEF Injection, IsInjective
  <1>5. IsFiniteSet(T) /\ Cardinality(T) <= n
    <2>1. q + 1 \in Nat /\ q + n \in Nat BY <1>1, <1>2
    <2> DEFINE low == q + 1
               high == q + n
    <2>2. T = low .. high /\ low \in Int /\ high \in Int BY <2>1
    <2>3. low = q + 1 /\ high = q + n OBVIOUS
    <2> HIDE DEF q, n, T, low, high
    <2>4. IsFiniteSet(low .. high)
          /\ Cardinality(low .. high) = IF low > high THEN 0 ELSE high - low + 1
      BY <2>2, FS_Interval
    <2>5. (IF low > high THEN 0 ELSE high - low + 1) <= n BY <2>3, <1>1, <1>2
    <2> QED BY <2>2, <2>4, <2>5
  <1> HIDE DEF f, T
  <1>6. IsFiniteSet(X) /\ Cardinality(X) <= Cardinality(T) BY <1>4, <1>5, FS_Injection
  <1>7. Cardinality(X) \in Nat /\ Cardinality(T) \in Nat BY <1>5, <1>6, FS_CardinalityType
  <1> QED BY <1>1, <1>5, <1>6, <1>7

\* What a session that has released c frames and compared up to r holds: its own
\* checkpoints the peer has not answered, the peer's it has not reached.
Compared(hs, c, g, r) ==
    /\ hs = [expected |-> hs.expected, pending |-> hs.pending, matched |-> hs.matched]
    /\ hs.matched.frame \in Nat /\ hs.matched.frame <= r
    /\ \A x : x \in DOMAIN hs.expected <=> Multiple(x) /\ r < x /\ x <= c
    /\ \A x : x \in DOMAIN hs.pending <=> Multiple(x) /\ c < x /\ x <= r
    /\ \A x \in DOMAIN hs.expected : Right(g, x, hs.expected[x])
    /\ \A x \in DOMAIN hs.pending : Right(g, x, hs.pending[x])

\* The same in a longer game.
LEMMA ComparedGrows ==
    ASSUME NEW hs, NEW c, NEW g, NEW r, Compared(hs, c, g, r), IsMap(g, Entries),
           NEW y, Grows(g, y)
    PROVE  Compared(hs, c, y, r)
  BY RightGrows DEF Compared

\* What fn remote leaves, by cases.
LEMMA RemoteFields ==
    ASSUME NEW hs, NEW m,
           hs = [expected |-> hs.expected, pending |-> hs.pending, matched |-> hs.matched],
           ~(m.frame <= hs.matched.frame), m.frame \notin DOMAIN hs.pending
    PROVE  LET x == Remote(hs, m)
           IN  /\ x = [expected |-> x.expected, pending |-> x.pending, matched |-> x.matched]
               /\ m.frame \in DOMAIN hs.expected =>
                    /\ x.expected = Without(hs.expected, {m.frame})
                    /\ x.pending = hs.pending /\ x.matched.frame = m.frame
               /\ m.frame \notin DOMAIN hs.expected =>
                    /\ x.expected = hs.expected /\ x.matched = hs.matched
                    /\ DOMAIN x.pending = DOMAIN hs.pending \cup {m.frame}
                    /\ \A k \in DOMAIN x.pending :
                            x.pending[k] = IF k = m.frame THEN m.hash ELSE hs.pending[k]
  <1> DEFINE x == Remote(hs, m)
  <1>1. CASE m.frame \in DOMAIN hs.expected
    <2> DEFINE e == Without(hs.expected, {m.frame})
               d == [frame |-> m.frame, hash |-> m.hash]
    <2>1. x = [[hs EXCEPT !.expected = e] EXCEPT !.matched = d]
      BY <1>1 DEF Remote
    <2> HIDE DEF e, d
    <2>2. x = [expected |-> e, pending |-> hs.pending, matched |-> d] BY <2>1
    <2> HIDE DEF x
    <2>3. d.frame = m.frame BY DEF d
    <2> QED BY <1>1, <2>2, <2>3 DEF x, e
  <1>2. CASE m.frame \notin DOMAIN hs.expected
    <2> DEFINE d == [k \in DOMAIN hs.pending \cup {m.frame} |->
                        IF k = m.frame THEN m.hash ELSE hs.pending[k]]
    <2>1. x = [hs EXCEPT !.pending = d] BY <1>2 DEF Remote
    <2>2. /\ DOMAIN d = DOMAIN hs.pending \cup {m.frame}
          /\ \A k \in DOMAIN d : d[k] = IF k = m.frame THEN m.hash ELSE hs.pending[k]
      OBVIOUS
    <2> HIDE DEF d
    <2>3. x = [expected |-> hs.expected, pending |-> d, matched |-> hs.matched] BY <2>1
    <2> HIDE DEF x
    <2> QED BY <1>2, <2>2, <2>3 DEF x
  <1> QED BY <1>1, <1>2

\* fn remote accepts the peer's next checkpoint, if it is right and of a frame less
\* than a span ahead of what is released.
LEMMA RemoteAccepts ==
    ASSUME Roomy,
           NEW hs, NEW c \in Nat, NEW g, NEW r \in Nat, Compared(hs, c, g, r), NEW m,
           NEW f \in Nat, Multiple(m.frame), r < m.frame, Right(g, m.frame, m.hash),
           m.frame <= c + Span, m.frame <= f + Lookahead,
           \A x \in Nat : Multiple(x) /\ r < x => m.frame <= x
    PROVE  ~RemoteErr(hs, m, f) /\ Compared(Remote(hs, m), c, g, m.frame)
  <1> DEFINE e == hs.expected
             d == hs.pending
             k == m.frame
             y == Remote(hs, m)
  <1>1. /\ hs = [expected |-> e, pending |-> d, matched |-> hs.matched]
        /\ hs.matched.frame \in Nat /\ hs.matched.frame <= r
        /\ \A x : x \in DOMAIN e <=> Multiple(x) /\ r < x /\ x <= c
        /\ \A x : x \in DOMAIN d <=> Multiple(x) /\ c < x /\ x <= r
        /\ \A x \in DOMAIN e : Right(g, x, e[x])
        /\ \A x \in DOMAIN d : Right(g, x, d[x])
    BY DEF Compared
  <1>2. k \in Nat /\ k # 0 /\ k % HASH_INTERVAL = 0 BY DEF Multiple
  <1>3. ~(k <= hs.matched.frame) /\ k \notin DOMAIN d
    <2>1. ~(k <= hs.matched.frame) BY <1>1, <1>2
    <2>2. ~(k <= r) BY <1>2
    <2> QED BY <2>1, <2>2, <1>1
  <1>4. ~(k > f + Lookahead)
    <2>1. Lookahead \in Nat BY Numbers DEF Lookahead
    <2> QED BY <2>1, <1>2
  <1>5. k \in DOMAIN e => e[k] = m.hash
    BY <1>1 DEF Right
  <1>6. k \notin DOMAIN e => c < k /\ ~(Cardinality(DOMAIN d) >= CAPACITY)
    <2> SUFFICES ASSUME k \notin DOMAIN e PROVE c < k /\ ~(Cardinality(DOMAIN d) >= CAPACITY)
      OBVIOUS
    <2>1. ~(k <= c) BY <1>1
    <2>2. c < k BY <2>1, <1>2
    <2> DEFINE X == DOMAIN d \cup {k}
    <2>3. Span \in Nat BY Numbers DEF Span
    <2>4. \A x \in X : Multiple(x) /\ c < x /\ x <= c + Span
      <3>1. \A x \in DOMAIN d : Multiple(x) /\ x \in Nat /\ c < x /\ x <= r
        BY <1>1 DEF Multiple
      <3>2. \A x \in DOMAIN d : x <= c + Span BY <3>1, <1>2, <2>3
      <3> QED BY <3>1, <3>2, <2>2
    <2>5. IsFiniteSet(X) /\ Cardinality(X) \in Nat /\ Cardinality(X) <= CAPACITY
      BY <2>4, SpanCount
    <2>6. DOMAIN d \in SUBSET X OBVIOUS
    <2>7. IsFiniteSet(DOMAIN d) BY <2>5, <2>6, FS_Subset
    <2>8. Cardinality(X) = Cardinality(DOMAIN d) + 1 BY <2>7, <1>3, FS_AddElement
    <2>9. Cardinality(DOMAIN d) \in Nat BY <2>7, FS_CardinalityType
    <2> HIDE DEF X
    <2> QED BY <2>2, <2>5, <2>8, <2>9, SessionAssumption
  <1>7. ~RemoteErr(hs, m, f)
    <2> HIDE DEF e, d
    <2>1. k \in DOMAIN hs.expected => hs.expected[k] = m.hash BY <1>5 DEF e
    <2>2. k \notin DOMAIN hs.expected => ~(Cardinality(DOMAIN hs.pending) >= CAPACITY)
      BY <1>6 DEF e, d
    <2>3. k \notin DOMAIN hs.pending BY <1>3 DEF d
    <2> QED BY <2>1, <2>2, <2>3, <1>2, <1>3, <1>4 DEF RemoteErr
  <1>8. /\ y = [expected |-> y.expected, pending |-> y.pending, matched |-> y.matched]
        /\ k \in DOMAIN e =>
            /\ y.expected = Without(e, {k})
            /\ y.pending = d /\ y.matched.frame = k
        /\ k \notin DOMAIN e =>
            /\ y.expected = e /\ y.matched = hs.matched
            /\ DOMAIN y.pending = DOMAIN d \cup {k}
            /\ \A j \in DOMAIN y.pending : y.pending[j] = IF j = k THEN m.hash ELSE d[j]
    BY <1>1, <1>3, RemoteFields
  <1>9. \A x : Multiple(x) /\ r < x => x \in Nat /\ k <= x BY DEF Multiple
  <1> HIDE DEF y, e, d
  <1>10. CASE k \in DOMAIN e
    <2>1. /\ DOMAIN y.expected = DOMAIN e \ {k}
          /\ \A x \in DOMAIN y.expected : y.expected[x] = e[x]
      BY <1>8, <1>10 DEF Without
    <2>2. k <= c BY <1>1, <1>10
    <2>3. \A x : x \in DOMAIN y.expected <=> Multiple(x) /\ k < x /\ x <= c
      <3>1. ASSUME NEW x, x \in DOMAIN y.expected PROVE Multiple(x) /\ k < x /\ x <= c
        <4>1. Multiple(x) /\ r < x /\ x <= c /\ x # k BY <2>1, <3>1, <1>1
        <4> QED BY <4>1, <1>2, <1>9
      <3>2. ASSUME NEW x, Multiple(x), k < x, x <= c PROVE x \in DOMAIN y.expected
        <4>1. x \in Nat /\ r < x /\ x # k BY <3>2, <1>2 DEF Multiple
        <4> QED BY <4>1, <2>1, <3>2, <1>1
      <3> QED BY <3>1, <3>2
    <2>4. \A x : x \in DOMAIN y.pending <=> Multiple(x) /\ c < x /\ x <= k
      <3>1. \A x : ~(x \in Nat /\ c < x /\ x <= k) BY <2>2, <1>2
      <3>2. \A x : ~(x \in Nat /\ c < x /\ x <= r) BY <2>2, <1>2
      <3> QED BY <3>1, <3>2, <1>1, <1>8, <1>10 DEF Multiple
    <2>5. y.matched.frame = k /\ k <= k BY <1>2, <1>8, <1>10
    <2>6. \A x \in DOMAIN y.expected : Right(g, x, y.expected[x]) BY <2>1, <1>1
    <2>7. \A x \in DOMAIN y.pending : Right(g, x, y.pending[x]) BY <1>1, <1>8, <1>10
    <2>8. Compared(y, c, g, k) BY <1>2, <1>8, <2>3, <2>4, <2>5, <2>6, <2>7 DEF Compared
    <2> QED BY <2>8, <1>7 DEF y
  <1>11. CASE k \notin DOMAIN e
    <2>1. c < k BY <1>6, <1>11
    <2>2. \A x : ~(x \in Nat /\ r < x /\ x <= c /\ k <= x) BY <2>1, <1>2
    <2>3. \A x : x \in DOMAIN y.expected <=> Multiple(x) /\ k < x /\ x <= c
      <3>1. \A x : ~(x \in Nat /\ k < x /\ x <= c) BY <2>1, <1>2
      <3>2. \A x : x \notin DOMAIN e BY <1>1, <1>9, <2>2
      <3> QED BY <3>1, <3>2, <1>8, <1>11 DEF Multiple
    <2>4. \A x : x \in DOMAIN y.pending <=> Multiple(x) /\ c < x /\ x <= k
      <3>1. ASSUME NEW x, x \in DOMAIN y.pending PROVE Multiple(x) /\ c < x /\ x <= k
        <4>1. CASE x = k BY <4>1, <2>1, <1>2
        <4>2. CASE x # k
          <5>1. Multiple(x) /\ c < x /\ x <= r /\ x \in Nat
            BY <4>2, <3>1, <1>1, <1>8, <1>11 DEF Multiple
          <5> QED BY <5>1, <1>2
        <4> QED BY <4>1, <4>2
      <3>2. ASSUME NEW x, Multiple(x), c < x, x <= k PROVE x \in DOMAIN y.pending
        <4>1. x \in Nat BY <3>2 DEF Multiple
        <4>2. CASE x <= r BY <4>2, <3>2, <1>1, <1>8, <1>11
        <4>3. CASE ~(x <= r)
          <5>1. k <= x BY <4>1, <4>3, <3>2, <1>9
          <5>2. x = k BY <4>1, <5>1, <3>2, <1>2
          <5> QED BY <5>2, <1>8, <1>11
        <4> QED BY <4>2, <4>3
      <3> QED BY <3>1, <3>2
    <2>5. y.matched.frame \in Nat /\ y.matched.frame <= k BY <1>1, <1>2, <1>8, <1>11
    <2>6. \A x \in DOMAIN y.expected : Right(g, x, y.expected[x]) BY <1>1, <1>8, <1>11
    <2>7. \A x \in DOMAIN y.pending : Right(g, x, y.pending[x])
      BY <1>1, <1>8, <1>11
    <2>8. Compared(y, c, g, k) BY <1>2, <1>8, <2>3, <2>4, <2>5, <2>6, <2>7 DEF Compared
    <2> QED BY <2>8, <1>7 DEF y
  <1> QED BY <1>10, <1>11

-----------------------------------------------------------------------------
(* Two sessions that run.  s is one of them, h is under way to it, it knows *)
(* the inputs of the peer before k and has compared the peer's checkpoints *)
(* up to r; o, z, l and u are the same of the other.                       *)

\* The frames a session has sampled, and those it has played and confirmed.
Sampled(s) == IF s.sampled = None THEN InputDelay ELSE s.sampled + 1
Point(s) == [frame |-> Frame(s), confirmed |-> Confirmed(s)]

\* Of the peer's inputs a timeline holds those of frames before k.
Holds(t, k) == \A x \in Nat : Entry(t.inputs, x)[Other(t.player)] # None => x < k

\* A session samples a frame ahead of what it plays, and not more than a span
\* ahead of what it has released.
Reach(s, k) ==
    /\ Sampled(s) \in {Frame(s) + InputDelay, Frame(s) + InputDelay + 1}
    /\ Sampled(s) <= s.exec.committed + Span
    /\ Holds(s.exec.timeline, k)

\* A checkpoint comes no later than the inputs of a span later.
Behind(k, r) == \A x : Multiple(x) /\ x + Span <= k => x <= r

\* What one session knows, what it is told, and both.
Side(s, k, r, g) ==
    /\ k \in Nat /\ r \in Nat /\ IsPoint(s.progress) /\ Reach(s, k)
    /\ Compared(s.hashes, s.exec.committed, g, r) /\ Behind(k, r)
Hears(s, k, r, h, o, g) ==
    Path(h, g, k, r, s.progress, Sampled(o), o.exec.committed, Point(o))
Duet(s, k, r, h, o, l, u, z, g) ==
    /\ Side(s, k, r, g) /\ Side(o, l, u, g)
    /\ Hears(s, k, r, h, o, g) /\ Hears(o, l, u, z, s, g)
    /\ Pact(s.pause, Frame(s), k, h, o.pause, Frame(o), l, z)

\* The counters of a session.
LEMMA SessionNumbers ==
    ASSUME NEW s, NEW p, NEW g, Sound(s, p, g)
    PROVE  /\ Frame(s) \in Nat /\ Confirmed(s) \in Nat /\ s.exec.committed \in Nat
           /\ Sampled(s) \in Nat /\ s.exec.timeline.confirmed \in Nat
           /\ Confirmed(s) = Lesser(Frame(s), s.exec.timeline.confirmed)
           /\ Confirmed(s) <= Frame(s) /\ Confirmed(s) <= s.exec.timeline.confirmed
           /\ Frame(s) <= Confirmed(s) + PREDICTION_WINDOW
           /\ s.exec.committed <= Confirmed(s)
           /\ IsPoint(Point(s)) /\ Point(s).frame = Frame(s)
           /\ Point(s).confirmed = Confirmed(s)
           /\ s.pause \in Controls /\ Sane(s.pause) /\ Below(s.pause, Frame(s))
           /\ IsMap(g, Entries)
  <1> DEFINE t == s.exec.timeline
  <1>1. ExecutionInv(s.exec, g) /\ IsPlayer(s) /\ Sane(s.pause) /\ Below(s.pause, Frame(s))
    BY DEF Sound
  <1>2. /\ t.frame \in Nat /\ t.confirmed \in Nat /\ s.exec.committed \in Nat
        /\ t.frame <= t.confirmed + PREDICTION_WINDOW
    BY <1>1, ExecutionFacts
  <1>3. s.exec.committed <= ConfirmedFrame(t) /\ IsMap(g, Entries)
    BY <1>1 DEF ExecutionInv, OutputsHeld, TimelineInv
  <1>4. s.pause \in Controls /\ s.sampled \in Nat \cup {None} BY <1>1 DEF IsPlayer
  <1>5. Frame(s) = t.frame /\ Confirmed(s) = Lesser(t.confirmed, t.frame)
        /\ Confirmed(s) = ConfirmedFrame(t)
    BY DEF Frame, Confirmed, ConfirmedFrame
  <1> HIDE DEF t
  <1>6. PREDICTION_WINDOW \in Nat /\ InputDelay \in Nat BY Numbers
  <1>7. /\ Confirmed(s) \in Nat /\ Confirmed(s) <= t.frame /\ Confirmed(s) <= t.confirmed
        /\ Confirmed(s) = Lesser(t.frame, t.confirmed)
        /\ t.frame <= Confirmed(s) + PREDICTION_WINDOW
    BY <1>2, <1>5, <1>6 DEF Lesser
  <1>8. Sampled(s) \in Nat BY <1>4, <1>6 DEF Sampled
  <1>9. /\ Point(s).frame = Frame(s) /\ Point(s).confirmed = Confirmed(s) BY DEF Point
  <1>10. IsPoint(Point(s)) BY <1>2, <1>5, <1>7, <1>9 DEF IsPoint
  <1> QED BY <1>1, <1>2, <1>3, <1>4, <1>5, <1>7, <1>8, <1>9, <1>10 DEF t

\* No frame is confirmed without the peer's input.
LEMMA ConfirmedBelow ==
    ASSUME NEW t, NEW g, TimelineInv(t, g), NEW k \in Nat, Holds(t, k)
    PROVE  t.confirmed <= k
  <1>1. /\ t.confirmed \in Nat /\ t.player \in Ports /\ ConfirmedFull(t)
        /\ IsMap(t.inputs, Entries)
    BY DEF TimelineInv, TimelineType
  <1>2. CASE t.confirmed = 0 BY <1>2
  <1>3. CASE t.confirmed # 0
    <2> DEFINE x == t.confirmed - 1
    <2>1. x \in 0 .. t.confirmed - 1 /\ x \in Nat BY <1>1, <1>3
    <2>2. PICK j \in DOMAIN t.inputs : j < t.confirmed BY <1>1, <1>3 DEF ConfirmedFull
    <2>3. j \in Nat BY <1>1 DEF IsMap
    <2>4. j <= x BY <1>1, <2>2, <2>3
    <2>5. Full(t.inputs, x) BY <1>1, <2>1, <2>4 DEF ConfirmedFull
    <2>6. Other(t.player) \in Ports BY <1>1, TwoPorts
    <2>7. Entry(t.inputs, x)[Other(t.player)] # None BY <2>5, <2>6 DEF Full, Entry
    <2>8. x < k BY <2>1, <2>7 DEF Holds
    <2> QED BY <2>8, <1>1
  <1> QED BY <1>2, <1>3

\* What a session and its peer say of each other's counters.
LEMMA SideNumbers ==
    ASSUME NEW s, NEW p, NEW g, Sound(s, p, g), NEW k, NEW r, Side(s, k, r, g)
    PROVE  /\ k \in Nat /\ r \in Nat /\ IsPoint(s.progress)
           /\ s.exec.timeline.confirmed <= k /\ Confirmed(s) <= k
           /\ s.exec.committed <= k /\ Frame(s) <= k + PREDICTION_WINDOW
           /\ Sampled(s) <= Frame(s) + InputDelay + 1
           /\ Frame(s) + InputDelay <= Sampled(s)
           /\ Sampled(s) <= s.exec.committed + Span
  <1>1. /\ k \in Nat /\ r \in Nat /\ IsPoint(s.progress) /\ Holds(s.exec.timeline, k)
        /\ Sampled(s) \in {Frame(s) + InputDelay, Frame(s) + InputDelay + 1}
        /\ Sampled(s) <= s.exec.committed + Span
    BY DEF Side, Reach
  <1>2. s.exec.timeline.confirmed <= k
    <2>1. TimelineInv(s.exec.timeline, g) BY DEF Sound, ExecutionInv
    <2> QED BY <2>1, <1>1, ConfirmedBelow
  <1>3. /\ Frame(s) \in Nat /\ Confirmed(s) \in Nat /\ s.exec.committed \in Nat
        /\ Sampled(s) \in Nat /\ s.exec.timeline.confirmed \in Nat
        /\ Confirmed(s) <= s.exec.timeline.confirmed
        /\ Frame(s) <= Confirmed(s) + PREDICTION_WINDOW
        /\ s.exec.committed <= Confirmed(s)
    BY SessionNumbers
  <1>4. PREDICTION_WINDOW \in Nat /\ InputDelay \in Nat BY Numbers
  <1>5. /\ Confirmed(s) <= k /\ s.exec.committed <= k /\ Frame(s) <= k + PREDICTION_WINDOW
    BY <1>1, <1>2, <1>3, <1>4
  <1>6. Sampled(s) <= Frame(s) + InputDelay + 1 /\ Frame(s) + InputDelay <= Sampled(s)
    BY <1>1, <1>3, <1>4
  <1> QED BY <1>1, <1>2, <1>5, <1>6

\* How far apart two sessions can be: fs and fo are their frames, ss and so the
\* samples they took, cs and co the frames they released, l the samples of the
\* first that the second has, w the prediction window and d the input delay.
LEMMA Distances ==
    ASSUME NEW fs \in Nat, NEW ss \in Nat, NEW cs \in Nat, NEW fo \in Nat, NEW so \in Nat,
           NEW co \in Nat, NEW l \in Nat, NEW w \in Nat, NEW d \in Nat,
           ss <= fs + d + 1, ss <= cs + (w + d + 1), co <= l, fo <= l + w, so <= fo + d + 1,
           l <= ss
    PROVE  /\ fo <= fs + d + 1 + w
           /\ so <= fs + (w + 2 * d + 1) + 1
           /\ co <= fs + (w + 2 * d + 1)
           /\ fo <= fs + (w + 2 * d + 1)
           /\ co <= cs + (w + d + 1)
  OBVIOUS

\* The two are never further apart than the windows and the delays allow.
LEMMA DuetNumbers ==
    ASSUME NEW s, NEW p, NEW o, NEW q, NEW g, Sound(s, p, g), Sound(o, q, g),
           NEW k, NEW r, NEW h, NEW l, NEW u, NEW z, Duet(s, k, r, h, o, l, u, z, g)
    PROVE  /\ Counts(k, r, s.progress, Sampled(o), o.exec.committed, Point(o))
           /\ Counts(l, u, o.progress, Sampled(s), s.exec.committed, Point(s))
           /\ k <= Sampled(o) /\ l <= Sampled(s)
           /\ Frame(o) <= Frame(s) + InputDelay + 1 + PREDICTION_WINDOW
           /\ Sampled(o) <= Frame(s) + Lookahead + 1
           /\ o.exec.committed <= Frame(s) + Lookahead
           /\ Frame(o) <= Frame(s) + Lookahead
           /\ o.exec.committed <= s.exec.committed + Span
           /\ h \in Seq(Messages) /\ z \in Seq(Messages)
           /\ Near(Frame(o), Sampled(o), Frame(s), k, h)
  <1>1. /\ Side(s, k, r, g) /\ Side(o, l, u, g)
        /\ Path(h, g, k, r, s.progress, Sampled(o), o.exec.committed, Point(o))
        /\ Path(z, g, l, u, o.progress, Sampled(s), s.exec.committed, Point(s))
    BY DEF Duet, Hears
  <1>2. /\ k \in Nat /\ r \in Nat /\ IsPoint(s.progress)
        /\ s.exec.committed <= k /\ Frame(s) <= k + PREDICTION_WINDOW
        /\ Sampled(s) <= Frame(s) + InputDelay + 1
        /\ Sampled(s) <= s.exec.committed + Span
    BY <1>1, SideNumbers
  <1>3. /\ l \in Nat /\ u \in Nat /\ IsPoint(o.progress)
        /\ o.exec.committed <= l /\ Frame(o) <= l + PREDICTION_WINDOW
        /\ Sampled(o) <= Frame(o) + InputDelay + 1
    BY <1>1, SideNumbers
  <1>4. /\ Frame(s) \in Nat /\ s.exec.committed \in Nat /\ Sampled(s) \in Nat
        /\ Frame(o) \in Nat /\ o.exec.committed \in Nat /\ Sampled(o) \in Nat
        /\ IsPoint(Point(s)) /\ IsPoint(Point(o))
    BY SessionNumbers
  <1>5. k <= Sampled(o) /\ l <= Sampled(s) /\ h \in Seq(Messages) /\ z \in Seq(Messages)
        /\ \A i \in 1 .. Len(h) : IsInput(h[i]) => h[i].frame < Sampled(o)
    BY <1>1 DEF Path, PathInputs
  <1>6. /\ PREDICTION_WINDOW \in Nat /\ InputDelay \in Nat /\ Span \in Nat
        /\ Lookahead = PREDICTION_WINDOW + 2 * InputDelay + 1
    BY Numbers DEF Span, Lookahead
  <1>7. /\ Frame(o) <= Frame(s) + InputDelay + 1 + PREDICTION_WINDOW
        /\ Sampled(o) <= Frame(s) + Lookahead + 1
        /\ o.exec.committed <= Frame(s) + Lookahead
        /\ Frame(o) <= Frame(s) + Lookahead
        /\ o.exec.committed <= s.exec.committed + Span
    <2> DEFINE fs == Frame(s)
               ss == Sampled(s)
               cs == s.exec.committed
               fo == Frame(o)
               so == Sampled(o)
               co == o.exec.committed
               w == PREDICTION_WINDOW
               d == InputDelay
    <2>1. /\ fs \in Nat /\ ss \in Nat /\ cs \in Nat /\ fo \in Nat /\ so \in Nat /\ co \in Nat
          /\ l \in Nat /\ w \in Nat /\ d \in Nat
      BY <1>3, <1>4, <1>6
    <2>2. Span = w + d + 1 /\ Lookahead = w + 2 * d + 1 BY <1>6 DEF Span
    <2>3. /\ ss <= fs + d + 1 /\ ss <= cs + (w + d + 1) /\ co <= l /\ fo <= l + w
          /\ so <= fo + d + 1 /\ l <= ss
      BY <1>2, <1>3, <1>5, <2>2
    <2> HIDE DEF fs, ss, cs, fo, so, co, w, d
    <2>4. /\ fo <= fs + d + 1 + w /\ so <= fs + (w + 2 * d + 1) + 1
          /\ co <= fs + (w + 2 * d + 1) /\ fo <= fs + (w + 2 * d + 1) /\ co <= cs + (w + d + 1)
      BY <2>1, <2>3, Distances
    <2> QED BY <2>2, <2>4 DEF fs, ss, cs, fo, so, co, w, d
  <1>10. Counts(k, r, s.progress, Sampled(o), o.exec.committed, Point(o))
         /\ Counts(l, u, o.progress, Sampled(s), s.exec.committed, Point(s))
    BY <1>2, <1>3, <1>4 DEF Counts
  <1>11. Near(Frame(o), Sampled(o), Frame(s), k, h) BY <1>3, <1>5, <1>7 DEF Near
  <1> QED BY <1>5, <1>7, <1>10, <1>11

\* The agreement of the two is the same seen from the other.
LEMMA DuetSymmetric ==
    ASSUME NEW s, NEW o, NEW g, NEW k, NEW r, NEW h, NEW l, NEW u, NEW z,
           Duet(s, k, r, h, o, l, u, z, g)
    PROVE  Duet(o, l, u, z, s, k, r, h, g)
  BY PactSymmetric DEF Duet

\* The first checkpoint of a path is the next one.
LEMMA PathFirst ==
    ASSUME NEW h, NEW g, NEW k, NEW r, NEW a, NEW n, NEW c, NEW b,
           Counts(k, r, a, n, c, b), Path(h, g, k, r, a, n, c, b), h # <<>>, IsCheck(Head(h))
    PROVE  \A x \in Nat : Multiple(x) /\ r < x => Head(h).frame <= x
  <1> DEFINE m == Head(h)
  <1>1. h \in Seq(Messages) /\ PathChecks(h, g, r, c) BY DEF Path
  <1>2. /\ m = h[1] /\ 1 \in 1 .. Len(h) /\ Len(h) \in Nat
        /\ \A i \in 1 .. Len(h) : h[i] \in Messages
    BY <1>1, TailFacts
  <1> HIDE DEF m
  <1>3. m.frame \in Nat /\ m.frame <= c /\ c \in Nat
    BY <1>1, <1>2, FrameTypes DEF PathChecks, Counts, m
  <1>4. ASSUME NEW x \in Nat, Multiple(x), r < x PROVE m.frame <= x
    <2>1. CASE x <= c
      <3>1. PICK i \in 1 .. Len(h) : IsCheck(h[i]) /\ h[i].frame = x
        BY <1>1, <1>4, <2>1 DEF PathChecks
      <3>2. CASE i = 1 BY <3>1, <3>2, <1>2
      <3>3. CASE i # 1
        <4>1. 1 < i BY <3>3, <1>2
        <4>2. h[1].frame < h[i].frame BY <4>1, <3>1, <1>1, <1>2 DEF PathChecks, m
        <4> QED BY <4>2, <3>1, <1>2, <1>3
      <3> QED BY <3>2, <3>3
    <2>2. CASE ~(x <= c) BY <2>2, <1>3
    <2> QED BY <2>1, <2>2
  <1> QED BY <1>4 DEF m

\* When the input at the head has been taken, no checkpoint is overdue.
LEMMA PathBehind ==
    ASSUME NEW h, NEW g, NEW k, NEW r, NEW a, NEW n, NEW c, NEW b,
           Counts(k, r, a, n, c, b), Path(h, g, k, r, a, n, c, b), h # <<>>, IsInput(Head(h)),
           n <= c + Span
    PROVE  Behind(Head(h).frame + 1, r)
  <1> DEFINE m == Head(h)
  <1>1. h \in Seq(Messages) /\ PathChecks(h, g, r, c) /\ PathInputs(h, k, n) /\ PathOrder(h)
    BY DEF Path
  <1>2. /\ m = h[1] /\ 1 \in 1 .. Len(h) /\ Len(h) \in Nat
        /\ \A i \in 1 .. Len(h) : h[i] \in Messages
    BY <1>1, TailFacts
  <1> HIDE DEF m
  <1>3. m.frame \in Nat /\ m.frame < n /\ n \in Nat /\ c \in Nat /\ r \in Nat /\ Span \in Nat
    BY <1>1, <1>2, FrameTypes, Numbers DEF PathInputs, Counts, m, Span
  <1>4. SUFFICES ASSUME NEW x, Multiple(x), x + Span <= m.frame + 1, ~(x <= r) PROVE FALSE
    BY DEF Behind, m
  <1>5. x \in Nat BY <1>4 DEF Multiple
  <1>6. r < x /\ x <= c BY <1>3, <1>4, <1>5
  <1>7. PICK i \in 1 .. Len(h) : IsCheck(h[i]) /\ h[i].frame = x
    BY <1>1, <1>4, <1>5, <1>6 DEF PathChecks
  <1>8. i # 1 BY <1>2, <1>7 DEF m, IsInput, IsCheck
  <1>9. 1 < i BY <1>2, <1>8
  <1>10. h[1].frame + 1 < h[i].frame + Span BY <1>1, <1>2, <1>7, <1>9 DEF PathOrder, m
  <1> QED BY <1>10, <1>2, <1>3, <1>4, <1>5, <1>7

\* One session moves and sends x.
LEMMA DuetMoves ==
    ASSUME NEW s, NEW p, NEW s2, NEW o, NEW q, NEW g, Sound(s, p, g), Sound(s2, p, g),
           Sound(o, q, g), NEW k, NEW r, NEW h, NEW l, NEW u, NEW z,
           Duet(s, k, r, h, o, l, u, z, g),
           NEW k2, NEW r2, NEW h2, NEW x, Side(s2, k2, r2, g), Hears(s2, k2, r2, h2, o, g),
           Path(x, g, Sampled(s), s.exec.committed, Point(s),
                Sampled(s2), s2.exec.committed, Point(s2)),
           Pact(s2.pause, Frame(s2), k2, h2, o.pause, Frame(o), l, z \o x)
    PROVE  Duet(s2, k2, r2, h2, o, l, u, z \o x, g)
  <1>1. /\ Side(o, l, u, g)
        /\ Path(z, g, l, u, o.progress, Sampled(s), s.exec.committed, Point(s))
    BY DEF Duet, Hears
  <1>2. /\ Counts(l, u, o.progress, Sampled(s), s.exec.committed, Point(s)) BY DuetNumbers
  <1>3. Counts(Sampled(s), s.exec.committed, Point(s), Sampled(s2), s2.exec.committed, Point(s2))
    BY SessionNumbers DEF Counts
  <1>4. Sampled(s) <= s.exec.committed + Span
    <2>1. Side(s, k, r, g) BY DEF Duet
    <2> QED BY <2>1, SideNumbers
  <1>5. Path(z \o x, g, l, u, o.progress, Sampled(s2), s2.exec.committed, Point(s2))
    BY <1>1, <1>2, <1>3, <1>4, PathOn
  <1> QED BY <1>1, <1>5 DEF Duet, Hears

\* Nothing is sent, and the session confirms as much as before or more; or one message
\* about a pause is sent.
LEMMA QuietPath ==
    ASSUME NEW s, NEW p, NEW s2, NEW g, Sound(s, p, g), Sound(s2, p, g),
           Sampled(s2) = Sampled(s), s2.exec.committed = s.exec.committed,
           Frame(s2) = Frame(s), Confirmed(s) <= Confirmed(s2)
    PROVE  /\ Path(<<>>, g, Sampled(s), s.exec.committed, Point(s),
                   Sampled(s2), s2.exec.committed, Point(s2))
           /\ \A m \in Messages : IsChange(m) \/ m.type = "PauseAck" =>
                Path(<<m>>, g, Sampled(s), s.exec.committed, Point(s),
                     Sampled(s2), s2.exec.committed, Point(s2))
  <1> DEFINE n == Sampled(s)
             c == s.exec.committed
             b == Point(s)
             b2 == Point(s2)
  <1>1. /\ n \in Nat /\ c \in Nat /\ IsPoint(b) /\ b.confirmed <= b.frame /\ IsPoint(b2)
        /\ IsMap(g, Entries) /\ n <= n
    BY SessionNumbers
  <1>2. Upto(b, b2)
    <2>1. Frame(s) <= Frame(s2) BY SessionNumbers
    <2> QED BY <2>1, SessionNumbers DEF Upto
  <1>3. Counts(n, c, b, n, c, b) /\ Counts(n, c, b, n, c, b2) BY <1>1 DEF Counts
  <1>4. Grows(g, g) BY <1>1 DEF Grows
  <1> HIDE DEF n, c, b, b2
  <1>5. ASSUME NEW x, Path(x, g, n, c, b, n, c, b) PROVE Path(x, g, n, c, b, n, c, b2)
    BY <1>1, <1>2, <1>3, <1>4, <1>5, PathGrows
  <1>6. Path(<<>>, g, n, c, b, n, c, b2) BY <1>1, <1>5, PathOne
  <1>7. ASSUME NEW m \in Messages, IsChange(m) \/ m.type = "PauseAck"
        PROVE  Path(<<m>>, g, n, c, b, n, c, b2)
    BY <1>1, <1>5, <1>7, PathOne
  <1> QED BY <1>6, <1>7 DEF n, c, b, b2

\* A call of p has got to w, with h left under way to it; z was under way to the
\* other session before the call.
Turn(w, p, g, shown, k, r, h, o, l, u, z) ==
    /\ p \in Ports /\ Busy(w, p, g, shown) /\ w.err = None /\ Sound(o, Other(p), g)
    /\ z \in Seq(Messages) /\ Duet(w.s, k, r, h, o, l, u, z \o w.out, g)

\* What the player has been told: b before the call reports.
Informed(s, b) == Told(s.pause, Frame(s), s.exec.timeline.confirmed, b)

\* The call has not failed, and the two sessions still agree.
Fine(w, p, g, shown, h, o, l, u, z, b) ==
    Informed(w.s, b) /\ \E k, r : Turn(w, p, g, shown, k, r, h, o, l, u, z)

\* The parts of a call.
LEMMA TurnFacts ==
    ASSUME NEW w, NEW p, NEW g, NEW shown, NEW k, NEW r, NEW h, NEW o, NEW l, NEW u, NEW z,
           Turn(w, p, g, shown, k, r, h, o, l, u, z)
    PROVE  /\ IsWork(w) /\ Sound(w.s, p, g) /\ Own(w.s.exec.timeline, g)
           /\ ExecutionInv(w.s.exec, g) /\ TimelineInv(w.s.exec.timeline, g)
           /\ w.s.exec.timeline.player = p /\ w.s.pause \in Controls
           /\ w.out \in Seq(Messages) /\ z \o w.out \in Seq(Messages) /\ h \in Seq(Messages)
           /\ Frame(w.s) \in Nat /\ w.s.exec.timeline.confirmed \in Nat
           /\ k \in Nat /\ r \in Nat /\ l \in Nat /\ u \in Nat
           /\ Frame(o) \in Nat /\ o.pause \in Controls
           /\ Side(w.s, k, r, g) /\ Hears(w.s, k, r, h, o, g)
           /\ Pact(w.s.pause, Frame(w.s), k, h, o.pause, Frame(o), l, z \o w.out)
           /\ Counts(k, r, w.s.progress, Sampled(o), o.exec.committed, Point(o))
           /\ Frame(w.s) <= k + PREDICTION_WINDOW
  <1>1. /\ IsWork(w) /\ Sound(w.s, p, g) /\ Own(w.s.exec.timeline, g) /\ Sound(o, Other(p), g)
        /\ Duet(w.s, k, r, h, o, l, u, z \o w.out, g) /\ z \in Seq(Messages)
        /\ w.out \in Seq(Messages)
    BY DEF Turn, Busy, IsWork
  <1>2. /\ ExecutionInv(w.s.exec, g) /\ w.s.exec.timeline.player = p
        /\ TimelineInv(w.s.exec.timeline, g)
    BY <1>1 DEF Sound, ExecutionInv
  <1>3. /\ Frame(w.s) \in Nat /\ w.s.exec.timeline.confirmed \in Nat /\ w.s.pause \in Controls
        /\ Frame(o) \in Nat /\ o.pause \in Controls
    BY <1>1, SessionNumbers
  <1>4. /\ Side(w.s, k, r, g) /\ Side(o, l, u, g) /\ Hears(w.s, k, r, h, o, g)
        /\ Pact(w.s.pause, Frame(w.s), k, h, o.pause, Frame(o), l, z \o w.out)
    BY <1>1 DEF Duet
  <1>5. k \in Nat /\ r \in Nat /\ l \in Nat /\ u \in Nat BY <1>4 DEF Side
  <1>6. Frame(w.s) <= k + PREDICTION_WINDOW BY <1>1, <1>4, SideNumbers
  <1>7. /\ Counts(k, r, w.s.progress, Sampled(o), o.exec.committed, Point(o))
        /\ h \in Seq(Messages) /\ z \o w.out \in Seq(Messages)
    BY <1>1, DuetNumbers
  <1> QED BY <1>1, <1>2, <1>3, <1>4, <1>5, <1>6, <1>7

\* A part of a call that sends y.
LEMMA TalkMoves ==
    ASSUME NEW w, NEW p, NEW g, NEW shown, NEW k, NEW r, NEW h, NEW o, NEW l, NEW u, NEW z,
           Turn(w, p, g, shown, k, r, h, o, l, u, z),
           NEW x, Busy(x, p, g, shown), x.err = None, NEW y, y \in Seq(Messages),
           x.out = w.out \o y, NEW k2, NEW r2, NEW h2, Side(x.s, k2, r2, g),
           Hears(x.s, k2, r2, h2, o, g),
           Path(y, g, Sampled(w.s), w.s.exec.committed, Point(w.s),
                Sampled(x.s), x.s.exec.committed, Point(x.s)),
           Pact(x.s.pause, Frame(x.s), k2, h2, o.pause, Frame(o), l, (z \o w.out) \o y)
    PROVE  Turn(x, p, g, shown, k2, r2, h2, o, l, u, z)
  <1>1. /\ Sound(w.s, p, g) /\ Sound(x.s, p, g) /\ Sound(o, Other(p), g) /\ p \in Ports
        /\ Duet(w.s, k, r, h, o, l, u, z \o w.out, g) /\ z \in Seq(Messages)
        /\ w.out \in Seq(Messages)
    BY DEF Turn, Busy, IsWork
  <1>2. Duet(x.s, k2, r2, h2, o, l, u, (z \o w.out) \o y, g) BY SMTT(30), <1>1, DuetMoves
  <1>3. (z \o w.out) \o y = z \o x.out
    <2> DEFINE v == w.out
    <2>1. z \in Seq(Messages) /\ v \in Seq(Messages) /\ y \in Seq(Messages) BY <1>1
    <2>2. x.out = v \o y OBVIOUS
    <2> HIDE DEF v
    <2>3. (z \o v) \o y = z \o (v \o y) BY <2>1, ConcatAssociative
    <2> QED BY <2>2, <2>3 DEF v
  <1>4. Duet(x.s, k2, r2, h2, o, l, u, z \o x.out, g) BY <1>2, <1>3
  <1> QED BY <1>1, <1>4 DEF Turn

\* What does not touch the machine leaves the counters.
LEMMA SameCounters ==
    ASSUME NEW s, NEW s2, s2.exec = s.exec, s2.sampled = s.sampled
    PROVE  /\ Sampled(s2) = Sampled(s) /\ Frame(s2) = Frame(s) /\ Confirmed(s2) = Confirmed(s)
           /\ Point(s2) = Point(s) /\ (\A k : Reach(s, k) => Reach(s2, k))
  BY DEF Sampled, Frame, Confirmed, Point, Reach

\* handle_event of an input.
LEMMA InputTalk ==
    ASSUME NEW w, NEW p, NEW g, NEW shown, NEW k, NEW r, NEW h, NEW o, NEW l, NEW u, NEW z,
           Turn(w, p, g, shown, k, r, h, o, l, u, z), Informed(w.s, TRUE), h # <<>>,
           Fits(g, Other(p), Head(h)), Head(h).type = "Input"
    PROVE  Fine(HandleEvent(w, Head(h)), p, g, shown, Tail(h), o, l, u, z, TRUE)
  <1> DEFINE m == Head(h)
             s == w.s
             e == s.exec
             t == e.timeline
             v == ReceiveRemote(t, m.frame, m.word)
             d == [e EXCEPT !.timeline = v]
             x == HandleEvent(w, m)
             k2 == m.frame + 1
  <1>1. /\ IsWork(w) /\ Sound(s, p, g) /\ Own(t, g) /\ ExecutionInv(e, g) /\ TimelineInv(t, g)
        /\ t.player = p /\ Side(s, k, r, g) /\ Hears(s, k, r, h, o, g)
        /\ Pact(s.pause, Frame(s), k, h, o.pause, Frame(o), l, z \o w.out)
        /\ Counts(k, r, s.progress, Sampled(o), o.exec.committed, Point(o))
        /\ k \in Nat /\ r \in Nat /\ Frame(s) \in Nat /\ h \in Seq(Messages)
        /\ w.out \in Seq(Messages) /\ z \o w.out \in Seq(Messages) /\ l \in Nat
        /\ s.pause \in Controls /\ o.pause \in Controls /\ Frame(o) \in Nat
        /\ t.confirmed \in Nat
    BY TurnFacts
  <1>2. p \in Ports /\ Busy(w, p, g, shown) /\ w.err = None /\ Sound(o, Other(p), g)
    BY DEF Turn
  <1>3. /\ m \in Messages /\ IsInput(m) /\ m.frame \in Nat /\ k <= m.frame
        /\ m.frame < Sampled(o)
    BY <1>1, PathHead DEF Hears, IsInput
  <1>4. /\ m.frame \in DOMAIN g /\ m.word \in Buttons /\ g[m.frame][Other(p)] = m.word
    BY <1>3 DEF Fits
  <1>5. Other(p) \in Ports BY <1>2, TwoPorts
  <1>6. ~ReceiveErr(t, m.frame, m.word)
    <2>1. ~TooFar(t, m.frame)
      <3>1. Sampled(o) <= Frame(s) + Lookahead + 1 /\ Sampled(o) \in Nat
        BY <1>1, <1>2, DuetNumbers, SessionNumbers DEF Turn
      <3>2. Lookahead \in Nat BY Numbers DEF Lookahead
      <3>3. Frame(s) = t.frame BY DEF Frame
      <3> DEFINE f == m.frame
                 n == Sampled(o)
                 c == t.frame
      <3>4. f \in Nat /\ n \in Nat /\ c \in Nat /\ f < n /\ n <= c + Lookahead + 1
        BY <3>1, <3>3, <1>1, <1>3
      <3> HIDE DEF f, n, c
      <3>5. ~(f > c + Lookahead) BY <3>2, <3>4
      <3> QED BY <3>5 DEF TooFar, f, c
    <2>2. ~Rewritten(t, m.frame, m.word)
      <3>1. InputsRecorded(t, g) BY <1>1 DEF TimelineInv
      <3>2. CASE m.frame \in DOMAIN t.inputs
        BY <3>1, <3>2, <1>1, <1>4, <1>5 DEF InputsRecorded, Rewritten, Held, Entry
      <3>3. CASE m.frame \notin DOMAIN t.inputs
        BY <3>3, <1>1, <1>5 DEF Rewritten, Held, Entry
      <3> QED BY <3>2, <3>3
    <2> QED BY <2>1, <2>2 DEF ReceiveErr
  <1>7. ~EventErr(s, m) BY <1>3, <1>6 DEF EventErr, IsInput
  <1>8. x = [w EXCEPT !.s.exec.timeline = v] BY <1>2, <1>3, <1>7 DEF HandleEvent, IsInput
  <1>9. Busy(x, p, g, shown) BY <1>2, <1>3, EventKept
  <1>10. /\ d.timeline = v /\ v.player = p /\ v.frame = t.frame /\ d.committed = e.committed
    <2>1. v.player = p /\ v.frame = t.frame
      BY <1>1, <1>3, <1>4, <1>6, ReceiveRemoteFields
    <2>2. IsSession(e) BY <1>1 DEF ExecutionInv, ExecutionType, IsSession
    <2> HIDE DEF v, e
    <2>3. d.timeline = v /\ d.committed = e.committed BY <2>2 DEF IsSession
    <2> QED BY <2>1, <2>3
  <1>11. v.confirmed >= t.confirmed BY <1>1, <1>3, <1>4, <1>6, ReceiveRemoteFields
  <1>12. Holds(v, k2)
    <2>1. Holds(t, k) BY <1>1 DEF Side, Reach
    <2>2. ASSUME NEW y \in Nat, Entry(v.inputs, y)[Other(p)] # None PROVE y < k2
      <3>1. \/ Entry(v.inputs, y)[Other(p)] = Entry(t.inputs, y)[Other(p)]
            \/ y = m.frame
        BY SMTT(30), <1>1, <1>3, <1>4, <1>5, <1>6, ReceiveEntry
      <3>2. CASE Entry(v.inputs, y)[Other(p)] = Entry(t.inputs, y)[Other(p)]
        <4>1. y < k BY <3>2, <2>1, <2>2, <1>1 DEF Holds
        <4> QED BY <4>1, <1>1, <1>3
      <3>3. CASE y = m.frame BY <3>3, <1>3
      <3> QED BY <3>1, <3>2, <3>3
    <2> HIDE DEF v
    <2> QED BY <2>2, <1>10 DEF Holds
  <1> HIDE DEF v
  <1>13. /\ Works(x, x.s, w.out, w.err)
         /\ Parts(x.s, d, s.pause, s.hashes, s.sampled, s.progress, s.stalled)
    BY <1>1, <1>8, WithTimeline
  <1> HIDE DEF d, x
  <1>14. /\ x.s.exec = d /\ x.s.pause = s.pause /\ x.s.hashes = s.hashes
         /\ x.s.sampled = s.sampled /\ x.s.progress = s.progress
         /\ x.out = w.out /\ x.err = None
    BY <1>2, <1>13 DEF Parts, Works
  <1>15. /\ Sampled(x.s) = Sampled(s) /\ x.s.exec.committed = e.committed /\ Frame(x.s) = Frame(s)
         /\ x.s.exec.timeline = v
    BY <1>10, <1>14 DEF Sampled, Frame
  <1>16. Confirmed(s) <= Confirmed(x.s)
    <2>1. v.confirmed \in Nat /\ Sound(x.s, p, g)
      BY <1>9, <1>15, SessionNumbers DEF Busy
    <2>2. Confirmed(s) = Lesser(t.confirmed, t.frame) /\ Confirmed(x.s) = Lesser(v.confirmed, t.frame)
      BY <1>10, <1>15 DEF Confirmed, ConfirmedFrame
    <2>3. t.frame \in Nat BY <1>1 DEF Frame
    <2> QED BY <2>1, <2>2, <2>3, <1>1, <1>11 DEF Lesser
  <1>17. Side(x.s, k2, r, g)
    <2>1. Behind(k2, r)
      <3>1. Sampled(o) <= o.exec.committed + Span BY <1>2, SideNumbers DEF Turn, Duet
      <3> QED BY <3>1, <1>1, <1>3, PathBehind DEF Hears
    <2>2. Reach(x.s, k2) BY <1>1, <1>12, <1>15 DEF Side, Reach
    <2>3. k2 \in Nat BY <1>3
    <2> QED BY <2>1, <2>2, <2>3, <1>1, <1>14, <1>15 DEF Side
  <1>18. Hears(x.s, k2, r, Tail(h), o, g)
    <2>1. NextInput(k, m) = k2 /\ NextCheck(r, m) = r /\ NextPoint(s.progress, m) = s.progress
      BY <1>3 DEF NextInput, NextCheck, NextPoint, IsInput, IsCheck, IsProgress
    <2>2. Path(Tail(h), g, NextInput(k, m), NextCheck(r, m), NextPoint(s.progress, m),
               Sampled(o), o.exec.committed, Point(o))
      BY <1>1, PathTail DEF Hears
    <2> QED BY <2>1, <2>2, <1>14 DEF Hears
  <1>19. Pact(x.s.pause, Frame(x.s), k2, Tail(h), o.pause, Frame(o), l, (z \o w.out) \o <<>>)
    <2>1. Pact(s.pause, Frame(s), k2, Tail(h), o.pause, Frame(o), l, z \o w.out)
      BY <1>1, <1>3, TakeInput
    <2>2. (z \o w.out) \o <<>> = z \o w.out BY <1>1, ConcatEmptySeq
    <2> QED BY <2>1, <2>2, <1>14, <1>15
  <1>20. Path(<<>>, g, Sampled(s), e.committed, Point(s),
              Sampled(x.s), x.s.exec.committed, Point(x.s))
    BY <1>1, <1>9, <1>15, <1>16, QuietPath DEF Busy
  <1>21. Informed(x.s, TRUE)
    <2>1. v.confirmed \in Nat BY <1>9, <1>15, SessionNumbers DEF Busy
    <2>2. Frame(s) <= t.confirmed => Frame(s) <= v.confirmed BY <2>1, <1>1, <1>11
    <2>3. Told(s.pause, Frame(s), t.confirmed, TRUE) BY DEF Informed
    <2>4. Told(s.pause, Frame(s), v.confirmed, TRUE) BY <2>2, <2>3 DEF Told
    <2> QED BY <2>4, <1>14, <1>15 DEF Informed
  <1>22. x.out = w.out \o <<>> /\ <<>> \in Seq(Messages) BY <1>1, <1>14, ConcatEmptySeq
  <1>23. /\ Informed(x.s, TRUE)
         /\ Turn(x, p, g, shown, k2, r, Tail(h), o, l, u, z)
    <2> HIDE DEF s, e, t, m, k2
    <2> QED BY <1>9, <1>14, <1>17, <1>18, <1>19, <1>20, <1>21, <1>22, TalkMoves DEF s, e
  <1> QED BY <1>23 DEF x, m, Fine

\* A part of a call that changes neither the machine nor the votes.
LEMMA StillTalk ==
    ASSUME NEW w, NEW p, NEW g, NEW shown, NEW k, NEW r, NEW h, NEW o, NEW l, NEW u, NEW z,
           Turn(w, p, g, shown, k, r, h, o, l, u, z), NEW b, Informed(w.s, b),
           NEW x, Busy(x, p, g, shown), x.err = None, x.out = w.out, x.s.exec = w.s.exec,
           x.s.pause = w.s.pause, x.s.sampled = w.s.sampled, NEW r2, NEW h2,
           Side(x.s, k, r2, g), Hears(x.s, k, r2, h2, o, g),
           Pact(w.s.pause, Frame(w.s), k, h2, o.pause, Frame(o), l, z \o w.out)
    PROVE  Informed(x.s, b) /\ Turn(x, p, g, shown, k, r2, h2, o, l, u, z)
  <1>1. /\ Sound(w.s, p, g) /\ w.out \in Seq(Messages) /\ z \o w.out \in Seq(Messages)
    BY TurnFacts
  <1>2. Sound(x.s, p, g) BY DEF Busy
  <1>3. /\ Sampled(x.s) = Sampled(w.s) /\ Frame(x.s) = Frame(w.s)
        /\ Confirmed(x.s) = Confirmed(w.s)
    BY SameCounters
  <1>4. Confirmed(w.s) <= Confirmed(x.s) BY <1>1, <1>3, SessionNumbers
  <1>5. Path(<<>>, g, Sampled(w.s), w.s.exec.committed, Point(w.s),
             Sampled(x.s), x.s.exec.committed, Point(x.s))
    BY <1>1, <1>2, <1>3, <1>4, QuietPath
  <1>6. /\ x.out = w.out \o <<>> /\ <<>> \in Seq(Messages)
        /\ (z \o w.out) \o <<>> = z \o w.out
    BY <1>1, ConcatEmptySeq
  <1>7. Informed(x.s, b) BY <1>3 DEF Informed
  <1>8. Pact(x.s.pause, Frame(x.s), k, h2, o.pause, Frame(o), l, (z \o w.out) \o <<>>)
    BY <1>3, <1>6
  <1> QED BY <1>5, <1>6, <1>7, <1>8, TalkMoves

\* A part of a call that changes the votes and sends nothing or one message about it.
LEMMA VoteTalk ==
    ASSUME NEW w, NEW p, NEW g, NEW shown, NEW k, NEW r, NEW h, NEW o, NEW l, NEW u, NEW z,
           Turn(w, p, g, shown, k, r, h, o, l, u, z), NEW y,
           \/ y = <<>>
           \/ \E m \in Messages : y = <<m>> /\ (IsChange(m) \/ m.type = "PauseAck"),
           NEW x, Busy(x, p, g, shown), x.err = None, x.out = w.out \o y,
           x.s.exec = w.s.exec, x.s.hashes = w.s.hashes, x.s.sampled = w.s.sampled,
           x.s.progress = w.s.progress, NEW h2, Hears(w.s, k, r, h2, o, g),
           Pact(x.s.pause, Frame(w.s), k, h2, o.pause, Frame(o), l, (z \o w.out) \o y)
    PROVE  Turn(x, p, g, shown, k, r, h2, o, l, u, z)
  <1>1. /\ Sound(w.s, p, g) /\ Side(w.s, k, r, g) BY TurnFacts
  <1>2. Sound(x.s, p, g) BY DEF Busy
  <1>3. /\ Sampled(x.s) = Sampled(w.s) /\ Frame(x.s) = Frame(w.s)
        /\ Confirmed(x.s) = Confirmed(w.s) /\ (Reach(w.s, k) => Reach(x.s, k))
    BY SameCounters
  <1>4. Confirmed(w.s) <= Confirmed(x.s) BY <1>1, <1>3, SessionNumbers
  <1>5. Path(y, g, Sampled(w.s), w.s.exec.committed, Point(w.s),
             Sampled(x.s), x.s.exec.committed, Point(x.s))
    <2>1. /\ Path(<<>>, g, Sampled(w.s), w.s.exec.committed, Point(w.s),
                  Sampled(x.s), x.s.exec.committed, Point(x.s))
          /\ \A m \in Messages : IsChange(m) \/ m.type = "PauseAck" =>
                Path(<<m>>, g, Sampled(w.s), w.s.exec.committed, Point(w.s),
                     Sampled(x.s), x.s.exec.committed, Point(x.s))
      BY <1>1, <1>2, <1>3, <1>4, QuietPath
    <2> QED BY <2>1
  <1>6. y \in Seq(Messages) BY <1>5 DEF Path
  <1>7. Side(x.s, k, r, g) BY <1>1, <1>3 DEF Side
  <1>8. Hears(x.s, k, r, h2, o, g) BY DEF Hears
  <1>9. Pact(x.s.pause, Frame(x.s), k, h2, o.pause, Frame(o), l, (z \o w.out) \o y) BY <1>3
  <1> QED BY <1>5, <1>6, <1>7, <1>8, <1>9, TalkMoves

\* handle_event of a progress report.
LEMMA ProgressTalk ==
    ASSUME NEW w, NEW p, NEW g, NEW shown, NEW k, NEW r, NEW h, NEW o, NEW l, NEW u, NEW z,
           Turn(w, p, g, shown, k, r, h, o, l, u, z), Informed(w.s, TRUE), h # <<>>,
           Fits(g, Other(p), Head(h)), Head(h).type = "Progress"
    PROVE  Fine(HandleEvent(w, Head(h)), p, g, shown, Tail(h), o, l, u, z, TRUE)
  <1> DEFINE m == Head(h)
             s == w.s
             a == [frame |-> m.frame, confirmed |-> m.confirmed]
             x == HandleEvent(w, m)
  <1>1. /\ IsWork(w) /\ Sound(s, p, g) /\ Side(s, k, r, g) /\ Hears(s, k, r, h, o, g)
        /\ Pact(s.pause, Frame(s), k, h, o.pause, Frame(o), l, z \o w.out)
        /\ Counts(k, r, s.progress, Sampled(o), o.exec.committed, Point(o))
        /\ k \in Nat /\ r \in Nat /\ Frame(s) \in Nat /\ h \in Seq(Messages)
        /\ z \o w.out \in Seq(Messages) /\ l \in Nat
        /\ s.pause \in Controls /\ o.pause \in Controls /\ Frame(o) \in Nat
    BY TurnFacts
  <1>2. p \in Ports /\ Busy(w, p, g, shown) /\ w.err = None /\ Sound(o, Other(p), g)
        /\ Duet(s, k, r, h, o, l, u, z \o w.out, g)
    BY DEF Turn
  <1>3. /\ m \in Messages /\ IsProgress(m) /\ IsPoint(m) /\ Upto(s.progress, m)
        /\ Upto(m, Point(o)) /\ m.confirmed <= m.frame
    BY <1>1, PathHead DEF Hears, IsProgress
  <1>4. ~EventErr(s, m)
    <2>1. IsPoint(s.progress) /\ Frame(o) <= Frame(s) + Lookahead /\ Lookahead \in Nat
      BY <1>1, <1>2, DuetNumbers, Numbers DEF Lookahead, Counts
    <2>2. m.frame <= Frame(o) BY <1>3 DEF Upto, Point
    <2>3. /\ m.frame \in Nat /\ m.confirmed \in Nat /\ s.progress.frame \in Nat
          /\ s.progress.confirmed \in Nat /\ s.progress.frame <= m.frame
          /\ s.progress.confirmed <= m.confirmed
      BY <1>3, <2>1 DEF IsPoint, Upto
    <2> DEFINE t == s.exec.timeline
    <2>4. t.frame = Frame(s) BY DEF Frame
    <2>5. ~(m.confirmed > m.frame) /\ ~(m.frame < s.progress.frame)
          /\ ~(m.confirmed < s.progress.confirmed) /\ ~(m.frame > Frame(s) + Lookahead)
      <3> DEFINE b == m.confirmed
                 f == m.frame
                 d == s.progress.confirmed
                 i == s.progress.frame
                 n == Frame(s)
                 j == Frame(o)
      <3>1. /\ b \in Nat /\ f \in Nat /\ d \in Nat /\ i \in Nat /\ n \in Nat /\ j \in Nat
            /\ b <= f /\ i <= f /\ d <= b /\ f <= j /\ j <= n + Lookahead /\ Lookahead \in Nat
        BY <1>1, <1>3, <2>1, <2>2, <2>3
      <3> HIDE DEF b, f, d, i, n, j
      <3>2. ~(b > f) /\ ~(f < i) /\ ~(b < d) /\ ~(f > n + Lookahead) BY <3>1
      <3> QED BY <3>2 DEF b, f, d, i, n
    <2> QED BY <1>3, <2>4, <2>5 DEF EventErr, IsProgress
  <1>5. x = [w EXCEPT !.s.progress = a] BY <1>2, <1>3, <1>4 DEF HandleEvent, IsProgress
  <1>6. Busy(x, p, g, shown) BY <1>2, <1>3, EventKept
  <1>7. IsPoint(a) BY <1>3 DEF IsPoint
  <1>8. NextInput(k, m) = k /\ NextCheck(r, m) = r /\ NextPoint(s.progress, m) = a
    BY <1>3 DEF NextInput, NextCheck, NextPoint, IsInput, IsCheck, IsProgress
  <1>9. Path(Tail(h), g, k, r, a, Sampled(o), o.exec.committed, Point(o))
    BY <1>1, <1>8, PathTail DEF Hears
  <1> HIDE DEF a
  <1>10. /\ Works(x, x.s, w.out, w.err)
         /\ Parts(x.s, s.exec, s.pause, s.hashes, s.sampled, a, s.stalled)
    BY <1>1, <1>5, WithProgress
  <1> HIDE DEF x
  <1>11. /\ x.s.exec = s.exec /\ x.s.pause = s.pause /\ x.s.hashes = s.hashes
         /\ x.s.sampled = s.sampled /\ x.s.progress = a /\ x.out = w.out /\ x.err = None
    BY <1>2, <1>10 DEF Parts, Works
  <1>12. Side(x.s, k, r, g) BY <1>1, <1>7, <1>11, SameCounters DEF Side
  <1>13. Hears(x.s, k, r, Tail(h), o, g) BY <1>9, <1>11 DEF Hears
  <1>14. Pact(s.pause, Frame(s), k, Tail(h), o.pause, Frame(o), l, z \o w.out)
    BY <1>1, <1>3, TakeOther DEF IsProgress, IsChange
  <1>15. /\ Informed(x.s, TRUE)
         /\ Turn(x, p, g, shown, k, r, Tail(h), o, l, u, z)
    <2> HIDE DEF m
    <2> QED BY <1>6, <1>11, <1>12, <1>13, <1>14, StillTalk
  <1> QED BY <1>15 DEF x, m, Fine

\* handle_event of a checkpoint.
LEMMA CheckTalk ==
    ASSUME Roomy,
           NEW w, NEW p, NEW g, NEW shown, NEW k, NEW r, NEW h, NEW o, NEW l, NEW u, NEW z,
           Turn(w, p, g, shown, k, r, h, o, l, u, z), Informed(w.s, TRUE), h # <<>>,
           Fits(g, Other(p), Head(h)), Head(h).type = "Checkpoint"
    PROVE  Fine(HandleEvent(w, Head(h)), p, g, shown, Tail(h), o, l, u, z, TRUE)
  <1> DEFINE m == Head(h)
             s == w.s
             c == s.exec.committed
             y == Remote(s.hashes, m)
             x == HandleEvent(w, m)
  <1>1. /\ IsWork(w) /\ Sound(s, p, g) /\ Side(s, k, r, g) /\ Hears(s, k, r, h, o, g)
        /\ Pact(s.pause, Frame(s), k, h, o.pause, Frame(o), l, z \o w.out)
        /\ Counts(k, r, s.progress, Sampled(o), o.exec.committed, Point(o))
        /\ k \in Nat /\ r \in Nat /\ Frame(s) \in Nat /\ h \in Seq(Messages)
        /\ z \o w.out \in Seq(Messages) /\ l \in Nat
        /\ s.pause \in Controls /\ o.pause \in Controls /\ Frame(o) \in Nat
    BY TurnFacts
  <1>2. p \in Ports /\ Busy(w, p, g, shown) /\ w.err = None /\ Sound(o, Other(p), g)
        /\ Duet(s, k, r, h, o, l, u, z \o w.out, g)
    BY DEF Turn
  <1>3. /\ m \in Messages /\ IsCheck(m) /\ Multiple(m.frame) /\ r < m.frame
        /\ m.frame <= o.exec.committed /\ Right(g, m.frame, m.hash) /\ m.frame \in Nat
    BY <1>1, PathHead DEF Hears, IsCheck, Multiple
  <1>4. \A i \in Nat : Multiple(i) /\ r < i => m.frame <= i
    BY <1>1, <1>3, PathFirst DEF Hears
  <1>5. ~RemoteErr(s.hashes, m, Frame(s)) /\ Compared(y, c, g, m.frame)
    <2>1. /\ c \in Nat /\ o.exec.committed \in Nat /\ Lookahead \in Nat /\ Span \in Nat
      BY SMTT(30), <1>1, <1>2, SessionNumbers, Numbers DEF Lookahead, Span
    <2>2. o.exec.committed <= Frame(s) + Lookahead /\ o.exec.committed <= c + Span
      BY <1>1, <1>2, DuetNumbers
    <2>3. m.frame <= Frame(s) + Lookahead /\ m.frame <= c + Span
      <3> DEFINE f == m.frame
                 n == Frame(s)
                 b == o.exec.committed
      <3>1. /\ f \in Nat /\ n \in Nat /\ b \in Nat /\ c \in Nat /\ Lookahead \in Nat
            /\ Span \in Nat /\ f <= b /\ b <= n + Lookahead /\ b <= c + Span
        BY <1>1, <1>3, <2>1, <2>2
      <3> HIDE DEF f, n, b, c
      <3>2. f <= n + Lookahead /\ f <= c + Span BY <3>1
      <3> QED BY <3>2 DEF f, n
    <2>4. Compared(s.hashes, c, g, r) BY <1>1 DEF Side
    <2> HIDE DEF m, c
    <2> QED BY <1>1, <1>3, <1>4, <2>1, <2>3, <2>4, RemoteAccepts
  <1>6. ~EventErr(s, m) BY <1>3, <1>5 DEF EventErr, IsCheck, Frame
  <1>7. x = [w EXCEPT !.s.hashes = y] BY <1>2, <1>3, <1>6 DEF HandleEvent, IsCheck
  <1>8. Busy(x, p, g, shown) BY <1>2, <1>3, EventKept
  <1>9. NextInput(k, m) = k /\ NextCheck(r, m) = m.frame /\ NextPoint(s.progress, m) = s.progress
    BY <1>3 DEF NextInput, NextCheck, NextPoint, IsInput, IsCheck, IsProgress
  <1>10. Path(Tail(h), g, k, m.frame, s.progress, Sampled(o), o.exec.committed, Point(o))
    BY <1>1, <1>9, PathTail DEF Hears
  <1> HIDE DEF y
  <1>11. /\ Works(x, x.s, w.out, w.err)
         /\ Parts(x.s, s.exec, s.pause, y, s.sampled, s.progress, s.stalled)
    BY <1>1, <1>7, WithHashes
  <1> HIDE DEF x
  <1>12. /\ x.s.exec = s.exec /\ x.s.pause = s.pause /\ x.s.hashes = y
         /\ x.s.sampled = s.sampled /\ x.s.progress = s.progress /\ x.out = w.out
         /\ x.err = None
    BY <1>2, <1>11 DEF Parts, Works
  <1>13. Behind(k, m.frame)
    <2>1. Behind(k, r) BY <1>1 DEF Side
    <2> HIDE DEF m
    <2>2. ASSUME NEW i, Multiple(i), i + Span <= k PROVE i <= m.frame
      <3>1. i <= r /\ i \in Nat BY <2>1, <2>2 DEF Behind, Multiple
      <3> QED BY <3>1, <1>1, <1>3
    <2> QED BY <2>2 DEF Behind
  <1>14. Side(x.s, k, m.frame, g) BY <1>1, <1>3, <1>5, <1>12, <1>13, SameCounters DEF Side
  <1>15. Hears(x.s, k, m.frame, Tail(h), o, g) BY <1>10, <1>12 DEF Hears
  <1>16. Pact(s.pause, Frame(s), k, Tail(h), o.pause, Frame(o), l, z \o w.out)
    BY <1>1, <1>3, TakeOther DEF IsCheck, IsChange
  <1>17. /\ Informed(x.s, TRUE)
         /\ Turn(x, p, g, shown, k, m.frame, Tail(h), o, l, u, z)
    <2> HIDE DEF m
    <2> QED BY <1>8, <1>12, <1>14, <1>15, <1>16, StillTalk
  <1> QED BY <1>17 DEF x, m, Fine

\* handle_event of a change of the peer's vote.
LEMMA ChangeTalk ==
    ASSUME NEW w, NEW p, NEW g, NEW shown, NEW k, NEW r, NEW h, NEW o, NEW l, NEW u, NEW z,
           Turn(w, p, g, shown, k, r, h, o, l, u, z), Informed(w.s, TRUE), h # <<>>,
           Fits(g, Other(p), Head(h)), Head(h).type = "PauseChange"
    PROVE  Fine(HandleEvent(w, Head(h)), p, g, shown, Tail(h), o, l, u, z, TRUE)
  <1> DEFINE m == Head(h)
             s == w.s
             c == s.pause
             c2 == Observe(c, m)
             n == [type |-> "PauseAck", request |-> m.request]
             v == [w EXCEPT !.s.pause = c2]
             x == HandleEvent(w, m)
  <1>1. /\ IsWork(w) /\ Sound(s, p, g) /\ Side(s, k, r, g) /\ Hears(s, k, r, h, o, g)
        /\ Pact(c, Frame(s), k, h, o.pause, Frame(o), l, z \o w.out)
        /\ Counts(k, r, s.progress, Sampled(o), o.exec.committed, Point(o))
        /\ k \in Nat /\ r \in Nat /\ Frame(s) \in Nat /\ h \in Seq(Messages)
        /\ z \o w.out \in Seq(Messages) /\ l \in Nat /\ Frame(s) <= k + PREDICTION_WINDOW
        /\ c \in Controls /\ o.pause \in Controls /\ Frame(o) \in Nat
    BY TurnFacts
  <1>2. p \in Ports /\ Busy(w, p, g, shown) /\ w.err = None BY DEF Turn
  <1>3. m \in Messages /\ IsChange(m) BY <1>1, PathHead DEF Hears, IsChange
  <1>4. ~ObserveErr(c, Frame(s), m) BY <1>1, <1>3, ChangeAccepted
  <1>5. ~EventErr(s, m) BY <1>3, <1>4 DEF EventErr, IsChange, Frame
  <1>6. x = Send(v, <<n>>) BY <1>2, <1>3, <1>5 DEF HandleEvent, IsChange
  <1>7. Busy(x, p, g, shown) BY <1>2, <1>3, EventKept
  <1>8. m.request \in Nat /\ ~Repeated(c, m)
    <2>1. m.request \in Nat BY <1>3, MessageTypes
    <2>2. Follows(c, m) BY <1>1, <1>3, HeadChange
    <2>3. c.peer_request \in Nat BY <1>1, Counters
    <2>4. m.request # c.peer_request BY <2>1, <2>2, <2>3 DEF Follows
    <2> QED BY <2>1, <2>4 DEF Repeated
  <1>9. c2 \in Controls /\ Observed(c, c2, m) /\ c2.reported = c.reported
    BY <1>1, <1>3, <1>8, ObserveFields
  <1>10. n \in Messages /\ n.type = "PauseAck" /\ IsAck(n, m.request)
    BY <1>8, PauseMessages DEF IsAck
  <1> HIDE DEF c2, n
  <1>11. /\ Works(v, v.s, w.out, w.err)
         /\ Parts(v.s, s.exec, c2, s.hashes, s.sampled, s.progress, s.stalled)
    BY <1>1, WithPause
  <1> HIDE DEF v
  <1>12. Works(x, v.s, w.out \o <<n>>, w.err)
    <2>1. IsPlayer(v.s) BY <1>1, <1>9, <1>11 DEF IsPlayer, Parts, IsWork
    <2>2. IsWork(v) BY <2>1, <1>1, <1>11 DEF IsWork, Works
    <2>3. Works(Send(v, <<n>>), v.s, v.out \o <<n>>, v.err) BY <2>2, WorkParts
    <2> QED BY <2>3, <1>6, <1>11 DEF Works
  <1> HIDE DEF x
  <1>13. /\ x.s.exec = s.exec /\ x.s.pause = c2 /\ x.s.hashes = s.hashes
         /\ x.s.sampled = s.sampled /\ x.s.progress = s.progress /\ x.out = w.out \o <<n>>
         /\ x.err = None
    BY <1>2, <1>11, <1>12 DEF Parts, Works
  <1>14. Pact(x.s.pause, Frame(s), k, Tail(h), o.pause, Frame(o), l, (z \o w.out) \o <<n>>)
    <2>1. Pact(c2, Frame(s), k, Tail(h), o.pause, Frame(o), l, Append(z \o w.out, n))
      BY <1>1, <1>3, <1>9, <1>10, TakeChange
    <2>2. Append(z \o w.out, n) = (z \o w.out) \o <<n>>
      BY <1>1, <1>10, AppendIsConcat
    <2> QED BY <2>1, <2>2, <1>13
  <1>15. NextInput(k, m) = k /\ NextCheck(r, m) = r /\ NextPoint(s.progress, m) = s.progress
    BY <1>3 DEF NextInput, NextCheck, NextPoint, IsInput, IsCheck, IsProgress, IsChange
  <1>16. Hears(s, k, r, Tail(h), o, g) BY <1>1, <1>15, PathTail DEF Hears
  <1>17. Informed(x.s, TRUE) BY <1>9, <1>13 DEF Informed, Told, Frame
  <1>18. /\ Informed(x.s, TRUE)
         /\ Turn(x, p, g, shown, k, r, Tail(h), o, l, u, z)
    <2> DEFINE y == <<n>>
    <2>1. \E i \in Messages : y = <<i>> /\ (IsChange(i) \/ i.type = "PauseAck") BY <1>10
    <2> HIDE DEF m, y
    <2> QED BY <2>1, <1>7, <1>13, <1>14, <1>16, <1>17, VoteTalk DEF y
  <1> QED BY <1>18 DEF x, m, Fine

\* fn reconcile sends nothing or a change.
LEMMA ChangeSent ==
    ASSUME NEW c \in Controls, NEW f \in Nat, Sane(c), Below(c, f)
    PROVE  \/ Change(c, f) = <<>>
           \/ \E m \in Messages : Change(c, f) = <<m>> /\ (IsChange(m) \/ m.type = "PauseAck")
  <1>1. CASE Deferred(c) BY <1>1 DEF Change
  <1>2. CASE ~Deferred(c)
    <2> DEFINE n == Change(c, f)[1]
    <2>1. n \in Messages /\ Change(c, f) = <<n>> BY <1>2, ReconcileFields DEF Below
    <2>2. Change(c, f) = <<[type |-> "PauseChange", request |-> c.local_request + 1,
                            frame |-> Target(c, f), paused |-> c.desired]>>
      BY <1>2 DEF Change
    <2>3. IsChange(n) BY <2>2 DEF IsChange
    <2> HIDE DEF n
    <2> QED BY <2>1, <2>3
  <1> QED BY <1>1, <1>2

\* handle_event of an acknowledgment.
LEMMA AckTalk ==
    ASSUME InputDelay >= 1,
           NEW w, NEW p, NEW g, NEW shown, NEW k, NEW r, NEW h, NEW o, NEW l, NEW u, NEW z,
           Turn(w, p, g, shown, k, r, h, o, l, u, z), Informed(w.s, TRUE), h # <<>>,
           Fits(g, Other(p), Head(h)), Head(h).type = "PauseAck"
    PROVE  Fine(HandleEvent(w, Head(h)), p, g, shown, Tail(h), o, l, u, z, TRUE)
  <1> DEFINE m == Head(h)
             s == w.s
             c == s.pause
             f == Frame(s)
             a == Acknowledged(c, m)
             c2 == Reconcile(a, f)
             y == Change(a, f)
             v == [w EXCEPT !.s.pause = c2]
             x == HandleEvent(w, m)
  <1>1. /\ IsWork(w) /\ Sound(s, p, g) /\ Side(s, k, r, g) /\ Hears(s, k, r, h, o, g)
        /\ Pact(c, f, k, h, o.pause, Frame(o), l, z \o w.out)
        /\ Counts(k, r, s.progress, Sampled(o), o.exec.committed, Point(o))
        /\ k \in Nat /\ r \in Nat /\ f \in Nat /\ h \in Seq(Messages)
        /\ z \o w.out \in Seq(Messages) /\ l \in Nat
        /\ c \in Controls /\ o.pause \in Controls /\ Frame(o) \in Nat
    BY TurnFacts
  <1>2. p \in Ports /\ Busy(w, p, g, shown) /\ w.err = None /\ Sound(o, Other(p), g)
        /\ Duet(s, k, r, h, o, l, u, z \o w.out, g)
    BY DEF Turn
  <1>3. m \in Messages /\ m.type = "PauseAck" BY <1>1, PathHead DEF Hears
  <1>4. ~AcknowledgeErr(c, m) BY <1>1, <1>3, AckAccepted
  <1>5. ~EventErr(s, m) BY <1>3, <1>4 DEF EventErr
  <1>6. x = Send(v, y) BY <1>2, <1>3, <1>5 DEF HandleEvent
  <1>7. Busy(x, p, g, shown) BY <1>2, <1>3, EventKept
  <1>8. Sane(c) /\ Below(c, f) BY <1>1 DEF Sound
  <1>9. /\ a \in Controls /\ Sane(a) /\ Below(a, f) /\ c2 \in Controls
        /\ c2.reported = c.reported
    BY <1>1, <1>3, <1>4, <1>8, AcknowledgeKept
  <1>10. Heard(c, a, m) BY <1>1, <1>3, AcknowledgedFields
  <1>11. \/ y = <<>>
         \/ \E i \in Messages : y = <<i>> /\ (IsChange(i) \/ i.type = "PauseAck")
    BY <1>1, <1>9, ChangeSent
  <1>12. Pact(c2, f, k, Tail(h), o.pause, Frame(o), l, (z \o w.out) \o y)
    <2>1. Pact(a, f, k, Tail(h), o.pause, Frame(o), l, z \o w.out)
      BY <1>1, <1>3, <1>9, <1>10, TakeAck
    <2>2. Near(f, Sampled(s), Frame(o), l, z \o w.out)
      <3>1. Duet(o, l, u, z \o w.out, s, k, r, h, g) BY <1>2, DuetSymmetric
      <3> HIDE DEF m
      <3> QED BY <3>1, <1>1, <1>2, DuetNumbers
    <2>3. Sampled(s) \in Nat BY <1>1, SessionNumbers
    <2>4. Tail(h) \in Seq(Messages) BY <1>1, TailFacts
    <2> HIDE DEF a, f, m
    <2> QED BY <2>1, <2>2, <2>3, <2>4, <1>1, <1>9, PactReconciles
  <1> HIDE DEF c2, y
  <1>13. /\ Works(v, v.s, w.out, w.err)
         /\ Parts(v.s, s.exec, c2, s.hashes, s.sampled, s.progress, s.stalled)
    BY <1>1, WithPause
  <1> HIDE DEF v
  <1>14. Works(x, v.s, w.out \o y, w.err)
    <2>1. IsPlayer(v.s) BY <1>1, <1>9, <1>13 DEF IsPlayer, Parts, IsWork
    <2>2. IsWork(v) BY <2>1, <1>1, <1>13 DEF IsWork, Works
    <2>3. Works(Send(v, y), v.s, v.out \o y, v.err) BY <2>2, WorkParts
    <2> QED BY <2>3, <1>6, <1>13 DEF Works
  <1> HIDE DEF x
  <1>15. /\ x.s.exec = s.exec /\ x.s.pause = c2 /\ x.s.hashes = s.hashes
         /\ x.s.sampled = s.sampled /\ x.s.progress = s.progress /\ x.out = w.out \o y
         /\ x.err = None
    BY <1>2, <1>13, <1>14 DEF Parts, Works
  <1>16. Pact(x.s.pause, Frame(s), k, Tail(h), o.pause, Frame(o), l, (z \o w.out) \o y)
    BY <1>12, <1>15
  <1>17. NextInput(k, m) = k /\ NextCheck(r, m) = r /\ NextPoint(s.progress, m) = s.progress
    BY <1>3 DEF NextInput, NextCheck, NextPoint, IsInput, IsCheck, IsProgress
  <1>18. Hears(s, k, r, Tail(h), o, g) BY <1>1, <1>17, PathTail DEF Hears
  <1>19. Informed(x.s, TRUE) BY <1>9, <1>15 DEF Informed, Told, Frame
  <1>20. /\ Informed(x.s, TRUE)
         /\ Turn(x, p, g, shown, k, r, Tail(h), o, l, u, z)
    <2> HIDE DEF m
    <2> QED BY <1>7, <1>11, <1>15, <1>16, <1>18, <1>19, VoteTalk
  <1> QED BY <1>20 DEF x, m, Fine

\* handle_event of any message that is due.
LEMMA EventTalk ==
    ASSUME InputDelay >= 1, Roomy,
           NEW w, NEW p, NEW g, NEW shown, NEW k, NEW r, NEW h, NEW o, NEW l, NEW u, NEW z,
           Turn(w, p, g, shown, k, r, h, o, l, u, z), Informed(w.s, TRUE), h # <<>>,
           Fits(g, Other(p), Head(h))
    PROVE  Fine(HandleEvent(w, Head(h)), p, g, shown, Tail(h), o, l, u, z, TRUE)
  <1> DEFINE m == Head(h)
  <1>1. m \in Messages /\ m.type # "Close" BY TurnFacts, PathHead DEF Hears
  <1>2. m.type \in {"Input", "Progress", "PauseChange", "PauseAck", "Checkpoint"}
    BY <1>1 DEF Messages, InputMessages, ChangeMessages, AckMessages, OtherMessages
  <1> QED BY <1>2, InputTalk, ProgressTalk, ChangeTalk, AckTalk, CheckTalk

\* The first n messages of a queue, and what is left of it after them.
First(h, n) == SubSeq(h, 1, n)
Rest(h, n) == SubSeq(h, n + 1, Len(h))

\* The messages before and after the first n of a queue.
LEMMA RestFacts ==
    ASSUME NEW h \in Seq(Messages)
    PROVE  /\ Len(h) \in Nat /\ Rest(h, 0) = h /\ Rest(h, Len(h)) = <<>>
           /\ \A n \in 0 .. Len(h) : n # Len(h) =>
                /\ n + 1 \in 0 .. Len(h) /\ Rest(h, n) # <<>>
                /\ Head(Rest(h, n)) = h[n + 1] /\ Tail(Rest(h, n)) = Rest(h, n + 1)
  <1>1. Len(h) \in Nat OBVIOUS
  <1>2. Rest(h, 0) = h BY <1>1, SubSeqFull DEF Rest
  <1>3. Rest(h, Len(h)) = <<>> BY <1>1, SubSeqEmpty DEF Rest
  <1>4. ASSUME NEW n \in 0 .. Len(h), n # Len(h)
        PROVE  /\ n + 1 \in 0 .. Len(h) /\ Rest(h, n) # <<>>
               /\ Head(Rest(h, n)) = h[n + 1] /\ Tail(Rest(h, n)) = Rest(h, n + 1)
    <2>1. n + 1 \in 1 .. Len(h) /\ Len(h) \in n + 1 .. Len(h) /\ n + 1 \in 0 .. Len(h)
      BY <1>1, <1>4
    <2>2. Head(Rest(h, n)) = h[n + 1] /\ Tail(Rest(h, n)) = Rest(h, n + 1)
      BY <2>1, HeadTailOfSubSeq DEF Rest
    <2>3. Len(Rest(h, n)) = Len(h) - n BY <1>1, <1>4, SplitFacts DEF Rest
    <2>4. Rest(h, n) # <<>>
      <3>1. Len(Rest(h, n)) # 0 BY <2>3, <1>1, <1>4
      <3> QED BY <3>1
    <2> QED BY <2>1, <2>2, <2>4
  <1> QED BY <1>1, <1>2, <1>3, <1>4

\* The loop of batch, as far as the messages of h go.
LEMMA LoopTalk ==
    ASSUME InputDelay >= 1, Roomy,
           NEW s, NEW p, NEW g, NEW shown, NEW h, NEW o, NEW l, NEW u, NEW z,
           Fine(Begin(s), p, g, shown, h, o, l, u, z, TRUE), Speaks(g, Other(p), h),
           NEW events, Len(events) \in Nat, NEW a, Steps(a, s, events),
           NEW N \in 0 .. Len(h), N <= Len(events), \A i \in 1 .. N : events[i] = h[i]
    PROVE  Fine(a[N], p, g, shown, Rest(h, N), o, l, u, z, TRUE)
  <1> DEFINE F(n) == Fine(a[n], p, g, shown, Rest(h, n), o, l, u, z, TRUE)
             Bad == {n \in 0 .. N : ~F(n)}
  <1>1. h \in Seq(Messages) BY DEF Speaks
  <1>2. Len(h) \in Nat /\ N \in Nat BY <1>1
  <1>3. SUFFICES ASSUME Bad # {} PROVE FALSE
    <2>1. N \in 0 .. N BY <1>2
    <2> QED BY <2>1
  <1>4. Bad \subseteq Nat
    <2> HIDE DEF F
    <2> QED BY <1>2
  <1>5. PICK n \in Bad : \A m \in Bad : n <= m BY <1>3, <1>4, LeastElement
  <1>6. F(0) BY <1>1, RestFacts DEF Steps
  <1>7. n \in 0 .. N /\ ~F(n) /\ n # 0 BY <1>5, <1>6
  <1>8. /\ n - 1 \in 0 .. N /\ n - 1 \notin Bad /\ n - 1 \in 0 .. Len(h)
        /\ n - 1 # Len(h) /\ n \in 1 .. Len(events) /\ n \in 1 .. Len(h) /\ (n - 1) + 1 = n
    <2> HIDE DEF F
    <2>1. /\ n - 1 \in 0 .. N /\ ~(n <= n - 1) /\ n \in 1 .. N /\ (n - 1) + 1 = n
          /\ n - 1 \in Nat
      BY <1>2, <1>7
    <2>2. n - 1 \notin Bad
      <3> HIDE DEF Bad
      <3> QED BY <1>5, <2>1
    <2>3. n - 1 \in 0 .. Len(h) /\ n - 1 # Len(h) /\ n \in 1 .. Len(h) BY <1>2, <2>1
    <2>4. n \in 1 .. Len(events) BY <1>2, <2>1
    <2> QED BY <2>1, <2>2, <2>3, <2>4
  <1>9. F(n - 1) BY <1>8
  <1>10. /\ Rest(h, n - 1) # <<>> /\ Head(Rest(h, n - 1)) = h[n]
         /\ Tail(Rest(h, n - 1)) = Rest(h, n)
    BY <1>1, <1>8, RestFacts
  <1>11. a[n] = HandleEvent(a[n - 1], h[n]) BY <1>8 DEF Steps
  <1>12. Fits(g, Other(p), h[n]) BY <1>8 DEF Speaks
  <1>13. F(n)
    <2> DEFINE w == a[n - 1]
               y == Rest(h, n - 1)
    <2>1. PICK k, r : Turn(w, p, g, shown, k, r, y, o, l, u, z) BY <1>9 DEF Fine
    <2>2. Informed(w.s, TRUE) BY <1>9 DEF Fine
    <2>3. y # <<>> /\ Fits(g, Other(p), Head(y)) BY <1>10, <1>12
    <2> HIDE DEF w, y
    <2>4. Fine(HandleEvent(w, Head(y)), p, g, shown, Tail(y), o, l, u, z, TRUE)
      BY <2>1, <2>2, <2>3, EventTalk
    <2> QED BY <2>4, <1>10, <1>11 DEF w, y
  <1> QED BY <1>7, <1>13

\* The first n messages under way, when no session has ended.
LEMMA HandledTalk ==
    ASSUME InputDelay >= 1, Roomy,
           NEW s, NEW p, NEW g, NEW shown, NEW h, NEW o, NEW l, NEW u, NEW z,
           Fine(Begin(s), p, g, shown, h, o, l, u, z, TRUE), Speaks(g, Other(p), h),
           NEW n \in 0 .. Len(h)
    PROVE  Fine(Handled(s, SubSeq(h, 1, n)), p, g, shown, Rest(h, n), o, l, u, z, TRUE)
  <1> DEFINE events == SubSeq(h, 1, n)
  <1>1. h \in Seq(Messages) BY DEF Speaks
  <1>2. Len(events) = n /\ (\A i \in 1 .. n : events[i] = h[i]) /\ n \in Nat BY <1>1, SplitFacts
  <1> HIDE DEF events
  <1>3. PICK a : Steps(a, s, events) /\ Handled(s, events) = a[Len(events)]
    BY <1>2, HandledSteps
  <1>4. Len(events) \in Nat /\ n <= Len(events) BY <1>2
  <1>5. Fine(a[n], p, g, shown, Rest(h, n), o, l, u, z, TRUE) BY <1>2, <1>3, <1>4, LoopTalk
  <1> QED BY <1>2, <1>3, <1>5 DEF events

\* All of them and the goodbye of the peer.
LEMMA HandledClosed ==
    ASSUME InputDelay >= 1, Roomy,
           NEW s, NEW p, NEW g, NEW shown, NEW h, NEW o, NEW l, NEW u, NEW z,
           Fine(Begin(s), p, g, shown, h, o, l, u, z, TRUE), Speaks(g, Other(p), h),
           NEW m \in Messages, m.type = "Close"
    PROVE  Handled(s, h \o <<m>>).err = "closed"
  <1> DEFINE events == h \o <<m>>
             N == Len(h)
  <1>1. h \in Seq(Messages) /\ <<m>> \in Seq(Messages) BY DEF Speaks
  <1>2. N \in Nat /\ Len(<<m>>) = 1 /\ <<m>>[1] = m BY <1>1
  <1>3. /\ Len(events) = N + 1 /\ (\A i \in 1 .. N : events[i] = h[i]) /\ events[N + 1] = m
    <2>1. /\ Len(events) = N + Len(<<m>>) /\ (\A i \in 1 .. N : events[i] = h[i])
          /\ \A i \in 1 .. Len(<<m>>) : events[N + i] = <<m>>[i]
      BY <1>1, ConcatFacts
    <2> HIDE DEF events, N
    <2>2. 1 \in 1 .. Len(<<m>>) BY <1>2
    <2> QED BY <1>2, <2>1, <2>2
  <1> HIDE DEF events
  <1>4. PICK a : Steps(a, s, events) /\ Handled(s, events) = a[Len(events)]
    <2>1. Len(events) \in Nat BY <1>2, <1>3
    <2> QED BY <2>1, HandledSteps
  <1>5. Fine(a[N], p, g, shown, Rest(h, N), o, l, u, z, TRUE)
    <2>1. N \in 0 .. Len(h) /\ Len(events) \in Nat /\ N <= Len(events) BY <1>2, <1>3
    <2> HIDE DEF N
    <2> QED BY <2>1, <1>3, <1>4, LoopTalk
  <1>6. IsWork(a[N]) /\ a[N].err = None
    <2>1. PICK k, r : Turn(a[N], p, g, shown, k, r, Rest(h, N), o, l, u, z)
      BY <1>5 DEF Fine
    <2> QED BY <2>1 DEF Turn, Busy
  <1>7. a[N + 1] = HandleEvent(a[N], m)
    <2>1. N + 1 \in 1 .. Len(events) /\ (N + 1) - 1 = N BY <1>2, <1>3
    <2> HIDE DEF N
    <2> QED BY <2>1, <1>3, <1>4 DEF Steps
  <1>8. HandleEvent(a[N], m) = Fail(a[N], "closed")
    <2>1. ~EventErr(a[N].s, m) BY DEF EventErr
    <2> QED BY <2>1, <1>6 DEF HandleEvent
  <1>9. Fail(a[N], "closed").err = "closed" BY <1>6, WorkParts DEF Works
  <1> QED BY <1>3, <1>4, <1>7, <1>8, <1>9 DEF events

\* fn correct.
LEMMA CorrectTalk ==
    ASSUME NEW w, NEW p, NEW g, NEW shown, NEW h, NEW o, NEW l, NEW u, NEW z, NEW b,
           Fine(w, p, g, shown, h, o, l, u, z, b)
    PROVE  /\ Fine(CorrectWork(w), p, g, shown, h, o, l, u, z, b)
           /\ CorrectWork(w).s.exec.timeline.dirty = None
  <1> DEFINE s == w.s
             e == s.exec
             t == e.timeline
             d == Correct(e)
             v == d.timeline
             x == CorrectWork(w)
  <1>1. PICK k, r : Turn(w, p, g, shown, k, r, h, o, l, u, z) BY DEF Fine
  <1>2. Informed(s, b) BY DEF Fine
  <1>3. /\ IsWork(w) /\ Sound(s, p, g) /\ ExecutionInv(e, g) /\ TimelineInv(t, g)
        /\ t.player = p /\ Side(s, k, r, g) /\ Hears(s, k, r, h, o, g)
        /\ Pact(s.pause, Frame(s), k, h, o.pause, Frame(o), l, z \o w.out)
        /\ w.out \in Seq(Messages) /\ z \o w.out \in Seq(Messages)
    BY <1>1, TurnFacts
  <1>4. p \in Ports /\ Busy(w, p, g, shown) /\ w.err = None BY <1>1 DEF Turn
  <1>5. x = [w EXCEPT !.s.exec = d] BY <1>3, <1>4, CorrectNeverErrs DEF CorrectWork
  <1>6. /\ ExecutionInv(d, g) /\ v.dirty = None /\ v.player = p /\ v.frame = t.frame
        /\ v.confirmed = t.confirmed /\ d.released = e.released
    BY <1>3, CorrectInv
  <1>7. d.committed = e.committed
    <2>1. /\ DOMAIN d.released = 1 .. d.committed /\ DOMAIN e.released = 1 .. e.committed
      BY <1>3, <1>6 DEF ExecutionInv, ReleasedRight
    <2>2. d.committed \in Nat /\ e.committed \in Nat BY <1>3, <1>6, ExecutionFacts
    <2>3. 1 .. d.committed = 1 .. e.committed BY <1>6, <2>1
    <2> HIDE DEF d
    <2> QED BY <2>2, <2>3
  <1>8. Keeps(t, v) BY <1>3, CorrectKeeps
  <1> HIDE DEF d
  <1>9. /\ Works(x, x.s, w.out, w.err)
        /\ Parts(x.s, d, s.pause, s.hashes, s.sampled, s.progress, s.stalled)
    BY <1>3, <1>5, WithExec
  <1>10. Busy(x, p, g, shown) BY <1>4, CorrectKept
  <1> HIDE DEF x
  <1>11. /\ x.s.exec = d /\ x.s.pause = s.pause /\ x.s.hashes = s.hashes
         /\ x.s.sampled = s.sampled /\ x.s.progress = s.progress /\ x.out = w.out
         /\ x.err = None
    BY <1>4, <1>9 DEF Parts, Works
  <1>12. /\ Sampled(x.s) = Sampled(s) /\ x.s.exec.committed = e.committed
         /\ Frame(x.s) = Frame(s) /\ Confirmed(x.s) = Confirmed(s)
    BY <1>6, <1>7, <1>11 DEF Sampled, Frame, Confirmed, ConfirmedFrame
  <1>13. Holds(v, k)
    <2>1. Holds(t, k) BY <1>3 DEF Side, Reach
    <2>2. Other(p) \in Ports BY <1>4, TwoPorts
    <2>3. ASSUME NEW i \in Nat, Entry(v.inputs, i)[Other(p)] # None PROVE i < k
      <3>1. Entry(t.inputs, i)[Other(p)] # None BY <2>2, <2>3, <1>8 DEF Keeps
      <3> QED BY <3>1, <2>1, <1>3 DEF Holds
    <2> HIDE DEF v
    <2> QED BY <2>3, <1>6 DEF Holds
  <1>14. Side(x.s, k, r, g) BY <1>3, <1>11, <1>12, <1>13 DEF Side, Reach
  <1>15. Hears(x.s, k, r, h, o, g) BY <1>3, <1>11 DEF Hears
  <1>16. Path(<<>>, g, Sampled(s), e.committed, Point(s),
              Sampled(x.s), x.s.exec.committed, Point(x.s))
    <2>1. Sound(x.s, p, g) BY <1>10 DEF Busy
    <2>2. Confirmed(s) <= Confirmed(x.s) BY <1>3, <1>12, SessionNumbers
    <2> QED BY <2>1, <2>2, <1>3, <1>12, QuietPath
  <1>17. /\ x.out = w.out \o <<>> /\ <<>> \in Seq(Messages)
         /\ (z \o w.out) \o <<>> = z \o w.out
    BY <1>3, <1>11, ConcatEmptySeq
  <1>18. Pact(x.s.pause, Frame(x.s), k, h, o.pause, Frame(o), l, (z \o w.out) \o <<>>)
    BY <1>3, <1>11, <1>12, <1>17
  <1>19. Turn(x, p, g, shown, k, r, h, o, l, u, z)
    <2> HIDE DEF s, e
    <2> QED BY <1>1, <1>10, <1>11, <1>14, <1>15, <1>16, <1>17, <1>18, TalkMoves DEF s, e
  <1>20. Informed(x.s, b) BY <1>2, <1>6, <1>11, <1>12 DEF Informed
  <1> QED BY <1>6, <1>11, <1>19, <1>20 DEF x, Fine

-----------------------------------------------------------------------------
(* fn commit: the checkpoints it makes, compares and sends.                *)

\* It makes one for each of its frames that is due, and it is right.
LEMMA MadeFacts ==
    ASSUME NEW e, NEW g, ExecutionInv(e, g), e.timeline.dirty = None
    PROVE  LET made == Checkpoints(e)
               d == ConfirmedFrame(e.timeline)
           IN  /\ d \in Nat /\ e.committed \in Nat /\ e.committed <= d
               /\ \A x : x \in DOMAIN made <=> Multiple(x) /\ e.committed < x /\ x <= d
               /\ \A x \in DOMAIN made : Right(g, x, made[x])
               /\ Commit(e).committed = d
  <1> DEFINE t == e.timeline
             c == e.committed
             d == ConfirmedFrame(t)
             out == Released(e)
             made == Checkpoints(e)
  <1>1. /\ t.frame \in Nat /\ t.confirmed \in Nat /\ c \in Nat /\ OutputsHeld(e)
        /\ ExecutionType(e) /\ IsMap(g, Entries)
    BY ExecutionFacts DEF ExecutionInv, TimelineInv
  <1>2. d \in Nat /\ d <= t.frame /\ d <= t.confirmed BY <1>1 DEF ConfirmedFrame, Lesser
  <1>3. DOMAIN e.outputs = c + 1 .. t.frame /\ c <= d BY <1>1 DEF OutputsHeld
  <1>4. out = {k \in DOMAIN e.outputs : k <= d} BY DEF Released
  <1>5. DOMAIN made = {j \in out : j % HASH_INTERVAL = 0} BY DEF Checkpoints
  <1>6. \A x \in DOMAIN made : made[x] = e.outputs[x] /\ x \in DOMAIN e.outputs
    BY <1>4 DEF Checkpoints
  <1>7. Commit(e).committed = IF out = {} THEN c ELSE Latest(out)
    BY <1>1 DEF Commit, ExecutionType
  <1> HIDE DEF d, out, made, c
  <1>8. out = c + 1 .. d BY <1>1, <1>2, <1>3, <1>4 DEF c
  <1>9. \A x : x \in DOMAIN made <=> Multiple(x) /\ c < x /\ x <= d
    <2>1. ASSUME NEW x, x \in DOMAIN made PROVE Multiple(x) /\ c < x /\ x <= d
      <3>1. x \in c + 1 .. d /\ x % HASH_INTERVAL = 0 BY <1>5, <1>8, <2>1
      <3>2. x \in Nat /\ x > 0 /\ c < x /\ x <= d BY <3>1, <1>1, <1>2 DEF c
      <3> QED BY <3>1, <3>2 DEF Multiple
    <2>2. ASSUME NEW x, Multiple(x), c < x, x <= d PROVE x \in DOMAIN made
      <3>1. x \in Nat /\ x % HASH_INTERVAL = 0 BY <2>2 DEF Multiple
      <3>2. x \in c + 1 .. d BY <2>2, <3>1, <1>1, <1>2 DEF c
      <3> QED BY <3>1, <3>2, <1>5, <1>8
    <2> QED BY <2>1, <2>2
  <1>10. ASSUME NEW x \in DOMAIN made PROVE Right(g, x, made[x])
    <2>1. made[x] = Prefix(e.core, x) /\ x \in Nat BY <1>6, BucketType
    <2>2. x <= d BY <1>9
    <2>3. ASSUME NEW f \in 0 .. x - 1
          PROVE  /\ f \in DOMAIN g /\ e.core[f] = g[f]
                 /\ \A i \in Ports : g[f][i] # None
      <3>1. f \in 0 .. t.frame - 1 /\ f < t.confirmed BY <2>1, <2>2, <2>3, <1>1, <1>2
      <3>2. f \in DOMAIN e.core BY <3>1, <1>1 DEF ExecutionType
      <3>3. f \in DOMAIN g /\ e.core[f] = g[f] BY <3>1, <3>2, ConfirmedCore
      <3>4. e.core[f] \in PortValues BY <3>2, <1>1 DEF ExecutionType, IsMap
      <3> QED BY <3>3, <3>4, ButtonsAssumption DEF PortValues
    <2>4. Prefix(e.core, x) = Prefix(g, x) BY <2>3 DEF Prefix
    <2> QED BY <2>1, <2>3, <2>4 DEF Right
  <1>11. Commit(e).committed = d
    <2>1. CASE out = {} BY <1>1, <1>2, <1>3, <1>7, <1>8, <2>1 DEF c
    <2>2. CASE out # {}
      <3>1. out \subseteq Nat /\ d \in out /\ \A k \in out : k <= d
        BY <1>1, <1>2, <1>8, <2>2 DEF c
      <3>2. Latest(out) \in out /\ \A k \in out : k <= Latest(out)
        BY <1>2, <2>2, <3>1, LatestIsGreatest
      <3> DEFINE m == Latest(out)
      <3>3. m \in Nat /\ m <= d /\ d <= m BY <3>1, <3>2
      <3> HIDE DEF m
      <3>4. m = d BY <1>2, <3>3
      <3> QED BY <2>2, <3>4, <1>7 DEF m
    <2> QED BY <2>1, <2>2
  <1> QED BY <1>1, <1>2, <1>3, <1>9, <1>10, <1>11 DEF d, made, c

\* fn local accepts them, if the peer's are not long overdue.
LEMMA LocalAccepts ==
    ASSUME Roomy,
           NEW hs, NEW c \in Nat, NEW g, NEW r \in Nat, Compared(hs, c, g, r), NEW made,
           NEW d \in Nat, c <= d,
           \A x : x \in DOMAIN made <=> Multiple(x) /\ c < x /\ x <= d,
           \A x \in DOMAIN made : Right(g, x, made[x]),
           NEW k \in Nat, d <= k, Behind(k, r)
    PROVE  ~LocalErr(hs, made) /\ Compared(Local(hs, made), d, g, r)
  <1> DEFINE e == hs.expected
             q == hs.pending
             met == Answered(hs, made)
             asked == DOMAIN made \ met
             y == Local(hs, made)
  <1>1. /\ hs.matched.frame \in Nat /\ hs.matched.frame <= r
        /\ \A x : x \in DOMAIN e <=> Multiple(x) /\ r < x /\ x <= c
        /\ \A x : x \in DOMAIN q <=> Multiple(x) /\ c < x /\ x <= r
        /\ \A x \in DOMAIN e : Right(g, x, e[x])
        /\ \A x \in DOMAIN q : Right(g, x, q[x])
    BY DEF Compared
  <1>2. \A x : Multiple(x) => x \in Nat BY DEF Multiple
  <1>3. met = DOMAIN made \cap DOMAIN q BY DEF Answered
  <1>4. DOMAIN made \cap DOMAIN e = {}
    <2>1. ASSUME NEW x \in DOMAIN made, x \in DOMAIN e PROVE FALSE
      <3>1. x \in Nat /\ c < x /\ x <= c BY <2>1, <1>1, <1>2
      <3> QED BY <3>1
    <2> QED BY <2>1
  <1>5. \A x \in met : q[x] = made[x] BY <1>1, <1>3 DEF Right
  <1>6. \A x : x \in DOMAIN e \cup asked <=> Multiple(x) /\ r < x /\ x <= d
    <2>1. ASSUME NEW x, x \in DOMAIN e \cup asked PROVE Multiple(x) /\ r < x /\ x <= d
      <3>1. CASE x \in DOMAIN e
        <4>1. Multiple(x) /\ x \in Nat /\ r < x /\ x <= c BY <3>1, <1>1, <1>2
        <4> QED BY <4>1
      <3>2. CASE x \in asked
        <4>1. Multiple(x) /\ x \in Nat /\ c < x /\ x <= d /\ x \notin DOMAIN q
          BY <3>2, <1>2, <1>3
        <4>2. ~(x <= r) BY <4>1, <1>1
        <4> QED BY <4>1, <4>2
      <3> QED BY <2>1, <3>1, <3>2
    <2>2. ASSUME NEW x, Multiple(x), r < x, x <= d PROVE x \in DOMAIN e \cup asked
      <3>1. x \in Nat BY <2>2, <1>2
      <3>2. CASE x <= c BY <2>2, <3>2, <1>1
      <3>3. CASE c < x
        <4>1. ~(x <= r) BY <3>1, <2>2
        <4>2. x \notin DOMAIN q BY <4>1, <1>1
        <4> QED BY <4>2, <2>2, <3>3, <1>3
      <3> QED BY <3>1, <3>2, <3>3
    <2> QED BY <2>1, <2>2
  <1>7. Cardinality(DOMAIN e \cup asked) \in Nat /\ Cardinality(DOMAIN e \cup asked) <= CAPACITY
    <2> DEFINE a == IF d >= Span THEN d - Span ELSE 0
    <2>1. Span \in Nat /\ a \in Nat /\ d <= a + Span BY Numbers DEF Span
    <2>2. ASSUME NEW x \in DOMAIN e \cup asked PROVE Multiple(x) /\ a < x /\ x <= a + Span
      <3>1. Multiple(x) /\ r < x /\ x <= d /\ x \in Nat /\ x > 0 BY <1>2, <1>6 DEF Multiple
      <3>2. ~(x <= r) BY <3>1
      <3>3. ~(x + Span <= k) BY <3>1, <3>2 DEF Behind
      <3>4. a < x /\ x <= a + Span BY <2>1, <3>1, <3>3
      <3> QED BY <3>1, <3>4
    <2> HIDE DEF a, e, asked
    <2> QED BY <2>1, <2>2, SpanCount
  <1>8. ~LocalErr(hs, made)
    <2>1. DOMAIN made \ DOMAIN q = asked BY <1>3
    <2>2. ~(Cardinality(DOMAIN e \cup (DOMAIN made \ DOMAIN q)) > CAPACITY)
      BY SMTT(30), <1>7, <2>1, SessionAssumption
    <2>3. ~(\E x \in Answered(hs, made) : q[x] # made[x]) BY <1>5
    <2> QED BY <1>4, <2>2, <2>3 DEF LocalErr
  <1>9. /\ y = [expected |-> y.expected, pending |-> y.pending, matched |-> y.matched]
        /\ y.expected = [x \in DOMAIN e \cup asked |-> IF x \in asked THEN made[x] ELSE e[x]]
        /\ y.pending = Without(q, met)
        /\ y.matched = IF met = {} THEN hs.matched
                       ELSE [frame |-> Latest(met), hash |-> made[Latest(met)]]
    BY DEF Local
  <1> HIDE DEF y, met, asked
  <1>10. DOMAIN y.expected = DOMAIN e \cup asked
         /\ \A x \in DOMAIN y.expected : y.expected[x] = IF x \in asked THEN made[x] ELSE e[x]
    BY <1>9
  <1>11. \A x \in DOMAIN y.expected : Right(g, x, y.expected[x]) BY <1>1, <1>10 DEF asked
  <1>12. DOMAIN y.pending = DOMAIN q \ met /\ \A x \in DOMAIN y.pending : y.pending[x] = q[x]
    BY <1>9 DEF Without
  <1>13. \A x : x \in DOMAIN y.pending <=> Multiple(x) /\ d < x /\ x <= r
    <2>1. ASSUME NEW x, x \in DOMAIN y.pending PROVE Multiple(x) /\ d < x /\ x <= r
      <3>1. Multiple(x) /\ x \in Nat /\ c < x /\ x <= r /\ x \notin DOMAIN made
        BY <2>1, <1>1, <1>2, <1>3, <1>12
      <3>2. ~(x <= d) BY <3>1
      <3> QED BY <3>1, <3>2
    <2>2. ASSUME NEW x, Multiple(x), d < x, x <= r PROVE x \in DOMAIN y.pending
      <3>1. x \in Nat BY <2>2, <1>2
      <3>2. c < x /\ ~(x <= d) BY <2>2, <3>1
      <3> QED BY <3>2, <2>2, <1>1, <1>3, <1>12
    <2> QED BY <2>1, <2>2
  <1>14. \A x \in DOMAIN y.pending : Right(g, x, y.pending[x]) BY <1>1, <1>12
  <1>15. y.matched.frame \in Nat /\ y.matched.frame <= r
    <2>1. CASE met = {} BY <2>1, <1>1, <1>9
    <2>2. CASE met # {}
      <3>1. met \subseteq Nat /\ \A x \in met : x <= r BY <1>1, <1>2, <1>3
      <3>2. Latest(met) \in met BY <2>2, <3>1, LatestIsGreatest
      <3>3. y.matched.frame = Latest(met) BY <2>2, <1>9
      <3> QED BY <3>1, <3>2, <3>3
    <2> QED BY <2>1, <2>2
  <1>16. Compared(y, d, g, r)
    <2> HIDE DEF e, q
    <2> QED BY <1>6, <1>9, <1>10, <1>11, <1>13, <1>14, <1>15 DEF Compared
  <1> QED BY <1>8, <1>16 DEF y

\* The messages lead from what was released before to what is released now.
LEMMA PathOfChecks ==
    ASSUME NEW e, NEW g, ExecutionInv(e, g), e.timeline.dirty = None,
           NEW n \in Nat, NEW b, IsPoint(b)
    PROVE  Path(CheckpointMessages(Checkpoints(e)), g, n, e.committed, b,
                n, ConfirmedFrame(e.timeline), b)
  <1> DEFINE made == Checkpoints(e)
             x == CheckpointMessages(made)
             c == e.committed
             d == ConfirmedFrame(e.timeline)
  <1>1. /\ d \in Nat /\ c \in Nat /\ c <= d
        /\ \A f : f \in DOMAIN made <=> Multiple(f) /\ c < f /\ f <= d
        /\ \A f \in DOMAIN made : Right(g, f, made[f])
    BY MadeFacts
  <1>2. /\ x \in Seq(Messages)
        /\ \A i \in 1 .. Len(x) :
              x[i].type = "Checkpoint" /\ x[i].frame \in DOMAIN made
              /\ x[i].hash = made[x[i].frame]
        /\ \A i, j \in 1 .. Len(x) : i < j => x[i].frame < x[j].frame
        /\ \A k \in DOMAIN made : \E i \in 1 .. Len(x) : x[i].frame = k
    BY CheckpointList
  <1> HIDE DEF made, x, c, d
  <1>3. \A i \in 1 .. Len(x) : x[i].type # "Close" /\ ~IsInput(x[i]) /\ ~IsProgress(x[i])
    BY <1>2 DEF IsInput, IsProgress
  <1>4. PathInputs(x, n, n) BY <1>3 DEF PathInputs
  <1>5. PathOrder(x) BY <1>3 DEF PathOrder
  <1>6. PathProgress(x, b, b)
    <2>1. Upto(b, b) BY DEF Upto, IsPoint
    <2> QED BY <2>1, <1>3 DEF PathProgress
  <1>7. PathChecks(x, g, c, d)
    <2>1. \A i \in 1 .. Len(x) : IsCheck(x[i]) =>
            /\ Multiple(x[i].frame) /\ c < x[i].frame /\ x[i].frame <= d
            /\ Right(g, x[i].frame, x[i].hash)
      BY <1>1, <1>2
    <2>2. \A f \in Nat : Multiple(f) /\ c < f /\ f <= d =>
            \E i \in 1 .. Len(x) : IsCheck(x[i]) /\ x[i].frame = f
      BY <1>1, <1>2 DEF IsCheck
    <2> QED BY <2>1, <2>2, <1>1, <1>2 DEF PathChecks
  <1>8. Path(x, g, n, c, b, n, d, b) BY <1>2, <1>3, <1>4, <1>5, <1>6, <1>7 DEF Path
  <1> QED BY <1>8 DEF made, x, c, d

\* All that is confirmed has been released.
Settled(w) == w.s.exec.timeline.dirty = None /\ w.s.exec.committed = Confirmed(w.s)

\* fn commit.
LEMMA CommitTalk ==
    ASSUME Roomy,
           NEW w, NEW p, NEW g, NEW shown, NEW h, NEW o, NEW l, NEW u, NEW z, NEW b,
           Fine(w, p, g, shown, h, o, l, u, z, b), w.s.exec.timeline.dirty = None
    PROVE  Fine(CommitWork(w), p, g, shown, h, o, l, u, z, b) /\ Settled(CommitWork(w))
  <1> DEFINE s == w.s
             e == s.exec
             t == e.timeline
             d == Commit(e)
             made == Checkpoints(e)
             hs == Local(s.hashes, made)
             y == CheckpointMessages(made)
             v == [w EXCEPT !.s.exec = d, !.s.hashes = hs]
             x == CommitWork(w)
             cf == ConfirmedFrame(t)
  <1>1. PICK k, r : Turn(w, p, g, shown, k, r, h, o, l, u, z) BY DEF Fine
  <1>2. Informed(s, b) BY DEF Fine
  <1>3. /\ IsWork(w) /\ Sound(s, p, g) /\ ExecutionInv(e, g) /\ Side(s, k, r, g)
        /\ Hears(s, k, r, h, o, g) /\ t.dirty = None /\ k \in Nat /\ r \in Nat
        /\ Pact(s.pause, Frame(s), k, h, o.pause, Frame(o), l, z \o w.out)
        /\ w.out \in Seq(Messages) /\ z \o w.out \in Seq(Messages)
        /\ s.pause \in Controls /\ o.pause \in Controls /\ Frame(s) \in Nat
        /\ Frame(o) \in Nat /\ l \in Nat /\ h \in Seq(Messages)
    BY <1>1, TurnFacts
  <1>4. p \in Ports /\ Busy(w, p, g, shown) /\ w.err = None BY <1>1 DEF Turn
  <1>5. Busy(x, p, g, shown) BY <1>3, <1>4, CommitKept DEF Tidy
  <1>6. ExecutionInv(d, g) /\ d.timeline = t /\ ~WindowErr(d) BY <1>3, CommitInv
  <1>7. /\ cf \in Nat /\ e.committed \in Nat /\ e.committed <= cf
        /\ \A f : f \in DOMAIN made <=> Multiple(f) /\ e.committed < f /\ f <= cf
        /\ \A f \in DOMAIN made : Right(g, f, made[f])
        /\ d.committed = cf
    BY <1>3, MadeFacts
  <1>8. cf = Confirmed(s) BY DEF Confirmed
  <1>9. ~LocalErr(s.hashes, made) /\ Compared(hs, cf, g, r)
    <2>1. Compared(s.hashes, e.committed, g, r) /\ Behind(k, r) BY <1>3 DEF Side
    <2>2. cf <= k BY <1>3, <1>8, SideNumbers
    <2> HIDE DEF made, cf, e, s
    <2> QED BY <1>3, <1>7, <2>1, <2>2, LocalAccepts
  <1>10. x = Send(v, y) BY <1>4, <1>6, <1>9 DEF CommitWork
  <1>11. /\ y \in Seq(Messages) /\ Neutrals(y)
    <2>1. y \in Seq(Messages) /\ \A i \in 1 .. Len(y) : y[i].type = "Checkpoint"
      BY <1>3, CheckpointList
    <2> QED BY <2>1 DEF Neutrals, IsChange
  <1>12. Path(y, g, Sampled(s), e.committed, Point(s), Sampled(s), cf, Point(s))
    BY <1>3, SessionNumbers, PathOfChecks
  <1> HIDE DEF d, hs, y, cf
  <1>13. /\ Works(v, v.s, w.out, w.err)
         /\ Parts(v.s, d, s.pause, hs, s.sampled, s.progress, s.stalled)
    BY <1>3, WithCommit
  <1> HIDE DEF v
  <1>14. Works(x, v.s, w.out \o y, w.err)
    <2>1. IsPlayer(v.s) BY <1>3, <1>13 DEF IsPlayer, Parts, IsWork
    <2>2. IsWork(v) BY <2>1, <1>3, <1>13 DEF IsWork, Works
    <2>3. Works(Send(v, y), v.s, v.out \o y, v.err) BY <2>2, WorkParts
    <2> QED BY <2>3, <1>10, <1>13 DEF Works
  <1> HIDE DEF x
  <1>15. /\ x.s.exec = d /\ x.s.pause = s.pause /\ x.s.hashes = hs
         /\ x.s.sampled = s.sampled /\ x.s.progress = s.progress /\ x.out = w.out \o y
         /\ x.err = None
    BY <1>4, <1>13, <1>14 DEF Parts, Works
  <1>16. /\ Sampled(x.s) = Sampled(s) /\ x.s.exec.committed = cf /\ x.s.exec.timeline = t
         /\ Frame(x.s) = Frame(s) /\ Confirmed(x.s) = cf /\ Point(x.s) = Point(s)
    BY <1>6, <1>7, <1>8, <1>15 DEF Sampled, Frame, Confirmed, Point
  <1>17. Side(x.s, k, r, g)
    <2>1. Reach(x.s, k)
      <3>1. Reach(s, k) BY <1>3 DEF Side
      <3>2. Sampled(s) <= cf + Span
        <4>1. Sampled(s) <= e.committed + Span BY <3>1 DEF Reach
        <4>2. Sampled(s) \in Nat /\ Span \in Nat BY <1>3, SessionNumbers, Numbers DEF Span
        <4> QED BY <4>1, <4>2, <1>7
      <3> QED BY <3>1, <3>2, <1>16 DEF Reach
    <2> QED BY <2>1, <1>3, <1>9, <1>15, <1>16 DEF Side
  <1>18. Hears(x.s, k, r, h, o, g) BY <1>3, <1>15 DEF Hears
  <1>19. Pact(x.s.pause, Frame(x.s), k, h, o.pause, Frame(o), l, (z \o w.out) \o y)
    BY <1>3, <1>11, <1>15, <1>16, PutNeutrals
  <1>20. Path(y, g, Sampled(s), e.committed, Point(s),
              Sampled(x.s), x.s.exec.committed, Point(x.s))
    BY <1>12, <1>16
  <1>21. Turn(x, p, g, shown, k, r, h, o, l, u, z)
    <2> HIDE DEF s, e
    <2> QED BY <1>1, <1>5, <1>11, <1>15, <1>17, <1>18, <1>19, <1>20, TalkMoves DEF s, e
  <1>22. Informed(x.s, b) BY <1>2, <1>15, <1>16 DEF Informed
  <1>23. Settled(x) BY <1>3, <1>16 DEF Settled
  <1> QED BY <1>21, <1>22, <1>23 DEF x, Fine

\* The mark that the session waits.
LEMMA StalledTalk ==
    ASSUME NEW w, NEW p, NEW g, NEW shown, NEW h, NEW o, NEW l, NEW u, NEW z, NEW b,
           Fine(w, p, g, shown, h, o, l, u, z, b), NEW v \in BOOLEAN
    PROVE  LET x == [w EXCEPT !.s.stalled = v]
           IN  /\ Fine(x, p, g, shown, h, o, l, u, z, b) /\ x.s.exec = w.s.exec
               /\ x.s.pause = w.s.pause
  <1> DEFINE s == w.s
             x == [w EXCEPT !.s.stalled = v]
  <1>1. PICK k, r : Turn(w, p, g, shown, k, r, h, o, l, u, z) BY DEF Fine
  <1>2. Informed(s, b) BY DEF Fine
  <1>3. /\ IsWork(w) /\ Side(s, k, r, g) /\ Hears(s, k, r, h, o, g)
        /\ Pact(s.pause, Frame(s), k, h, o.pause, Frame(o), l, z \o w.out)
    BY <1>1, TurnFacts
  <1>4. p \in Ports /\ Busy(w, p, g, shown) /\ w.err = None BY <1>1 DEF Turn
  <1>5. /\ Works(x, x.s, w.out, w.err)
        /\ Parts(x.s, s.exec, s.pause, s.hashes, s.sampled, s.progress, v)
    BY <1>3, WithStalled
  <1> HIDE DEF x
  <1>6. /\ x.s.exec = s.exec /\ x.s.pause = s.pause /\ x.s.hashes = s.hashes
        /\ x.s.sampled = s.sampled /\ x.s.progress = s.progress /\ x.out = w.out
        /\ x.err = None
    BY <1>4, <1>5 DEF Parts, Works
  <1>7. Busy(x, p, g, shown)
    <2>1. /\ w.err \in {None, "protocol", "closed"} /\ Sound(s, p, g) /\ Own(s.exec.timeline, g)
          /\ Speaks(g, p, w.out) /\ Longer(s.exec.released, shown)
      BY <1>4 DEF Busy
    <2>2. /\ s.pause \in Controls /\ s.sampled \in Nat \cup {None} /\ ExecutionInv(s.exec, g)
          /\ s.exec.timeline.player = p /\ Sane(s.pause) /\ Below(s.pause, s.exec.timeline.frame)
      BY <2>1 DEF Sound, IsPlayer, Frame
    <2> HIDE DEF s
    <2> QED BY <2>1, <2>2, <1>5, BusyParts
  <1>8. Side(x.s, k, r, g) BY <1>3, <1>6, SameCounters DEF Side
  <1>9. Hears(x.s, k, r, h, o, g) BY <1>3, <1>6 DEF Hears
  <1>10. Informed(x.s, b) /\ Turn(x, p, g, shown, k, r, h, o, l, u, z)
    BY <1>1, <1>2, <1>3, <1>6, <1>7, <1>8, <1>9, StillTalk
  <1> QED BY <1>6, <1>10 DEF x, Fine

\* fn report_pause.
LEMMA ReportTalk ==
    ASSUME NEW w, NEW p, NEW g, NEW shown, NEW h, NEW o, NEW l, NEW u, NEW z,
           Fine(w, p, g, shown, h, o, l, u, z, TRUE), Tidy(w)
    PROVE  /\ Fine(ReportWork(w), p, g, shown, h, o, l, u, z, FALSE)
           /\ ReportWork(w).s.exec = w.s.exec
  <1> DEFINE s == w.s
             c == s.pause
             t == s.exec.timeline
             f == Frame(s)
             c2 == Report(c, f, Confirmed(s))
             x == ReportWork(w)
  <1>1. PICK k, r : Turn(w, p, g, shown, k, r, h, o, l, u, z) BY DEF Fine
  <1>2. Informed(s, TRUE) BY DEF Fine
  <1>3. /\ IsWork(w) /\ Sound(s, p, g) /\ Side(s, k, r, g) /\ Hears(s, k, r, h, o, g)
        /\ Pact(c, f, k, h, o.pause, Frame(o), l, z \o w.out)
        /\ c \in Controls /\ o.pause \in Controls /\ f \in Nat /\ t.confirmed \in Nat
        /\ w.out \in Seq(Messages) /\ z \o w.out \in Seq(Messages)
    BY <1>1, TurnFacts
  <1>4. p \in Ports /\ Busy(w, p, g, shown) /\ w.err = None BY <1>1 DEF Turn
  <1>5. Busy(x, p, g, shown) BY <1>4, ReportKept
  <1>6. x = [w EXCEPT !.s.pause = c2] BY DEF ReportWork
  <1>7. c2 \in Controls /\ Same(c, c2) BY <1>3, ReportFields
  <1>8. /\ c2.reported # Running
        /\ c2.reported # None => f <= t.confirmed /\ c.episode # None /\ f >= c.episode
    <2>1. Halts(c, f) BY <1>3 DEF Pact, Half
    <2>2. c.reported # Running /\ (c.reported # None => f <= t.confirmed)
      BY <1>2 DEF Informed, Told
    <2>3. Confirmed(s) = Lesser(f, t.confirmed) BY <1>3, SessionNumbers
    <2> HIDE DEF c, f, t
    <2> QED BY <1>3, <2>1, <2>2, <2>3, ReportTold
  <1>9. Pact(c2, f, k, h, o.pause, Frame(o), l, z \o w.out) BY <1>3, <1>7, PactSame DEF Same
  <1> HIDE DEF c2
  <1>10. /\ Works(x, x.s, w.out, w.err)
         /\ Parts(x.s, s.exec, c2, s.hashes, s.sampled, s.progress, s.stalled)
    BY <1>3, <1>6, WithPause
  <1> HIDE DEF x
  <1>11. /\ x.s.exec = s.exec /\ x.s.pause = c2 /\ x.s.hashes = s.hashes
         /\ x.s.sampled = s.sampled /\ x.s.progress = s.progress /\ x.out = w.out
         /\ x.err = None
    BY <1>4, <1>10 DEF Parts, Works
  <1>12. /\ x.out = w.out \o <<>> /\ (z \o w.out) \o <<>> = z \o w.out
    BY <1>3, <1>11, ConcatEmptySeq
  <1>13. Pact(x.s.pause, Frame(s), k, h, o.pause, Frame(o), l, (z \o w.out) \o <<>>)
    BY <1>9, <1>11, <1>12
  <1>14. Turn(x, p, g, shown, k, r, h, o, l, u, z)
    BY <1>1, <1>3, <1>5, <1>11, <1>12, <1>13, VoteTalk
  <1>15. Informed(x.s, FALSE)
    <2>1. Told(c2, f, t.confirmed, FALSE) BY <1>7, <1>8 DEF Told, Same
    <2> QED BY <2>1, <1>11 DEF Informed, Frame
  <1> QED BY <1>11, <1>14, <1>15 DEF x, Fine

\* fn send_progress.
LEMMA ProgressWorkTalk ==
    ASSUME NEW w, NEW p, NEW g, NEW shown, NEW h, NEW o, NEW l, NEW u, NEW z, NEW b,
           Fine(w, p, g, shown, h, o, l, u, z, b), Tidy(w)
    PROVE  /\ Fine(ProgressWork(w), p, g, shown, h, o, l, u, z, b)
           /\ ProgressWork(w).s = w.s
  <1> DEFINE s == w.s
             m == [type |-> "Progress", frame |-> Frame(s), confirmed |-> Confirmed(s)]
             y == <<m>>
             x == ProgressWork(w)
  <1>1. PICK k, r : Turn(w, p, g, shown, k, r, h, o, l, u, z) BY DEF Fine
  <1>2. Informed(s, b) BY DEF Fine
  <1>3. /\ IsWork(w) /\ Sound(s, p, g) /\ Side(s, k, r, g) /\ Hears(s, k, r, h, o, g)
        /\ Pact(s.pause, Frame(s), k, h, o.pause, Frame(o), l, z \o w.out)
        /\ s.pause \in Controls /\ o.pause \in Controls /\ Frame(s) \in Nat
        /\ w.out \in Seq(Messages) /\ z \o w.out \in Seq(Messages) /\ k \in Nat /\ l \in Nat
        /\ Frame(o) \in Nat /\ h \in Seq(Messages)
    BY <1>1, TurnFacts
  <1>4. p \in Ports /\ Busy(w, p, g, shown) /\ w.err = None BY <1>1 DEF Turn
  <1>5. Busy(x, p, g, shown) BY <1>4, ProgressKept
  <1>6. x = Send(w, y) BY <1>4 DEF ProgressWork
  <1>7. /\ Sampled(s) \in Nat /\ s.exec.committed \in Nat /\ IsPoint(Point(s))
        /\ Point(s).confirmed <= Point(s).frame /\ Confirmed(s) \in Nat
        /\ Point(s).frame = Frame(s) /\ Point(s).confirmed = Confirmed(s)
    BY <1>3, SessionNumbers
  <1>8. m \in Messages /\ IsProgress(m) /\ m.frame = Frame(s) /\ m.confirmed = Confirmed(s)
    BY <1>3, <1>7 DEF Messages, OtherMessages, IsProgress
  <1> HIDE DEF m
  <1>9. y \in Seq(Messages) /\ Neutrals(y)
    <2>1. y \in Seq(Messages) /\ Len(y) = 1 /\ y[1] = m BY <1>8
    <2>2. \A i \in 1 .. 1 : i = 1 OBVIOUS
    <2> QED BY <2>1, <2>2, <1>8 DEF Neutrals, IsChange, IsProgress
  <1>10. Path(y, g, Sampled(s), s.exec.committed, Point(s),
              Sampled(s), s.exec.committed, Point(s))
    BY <1>7, <1>8, PathOne
  <1> HIDE DEF y
  <1>11. Works(x, s, w.out \o y, w.err) BY <1>3, <1>6, WorkParts
  <1> HIDE DEF x
  <1>12. x.s = s /\ x.out = w.out \o y /\ x.err = None BY <1>4, <1>11 DEF Works
  <1>13. Pact(x.s.pause, Frame(x.s), k, h, o.pause, Frame(o), l, (z \o w.out) \o y)
    BY <1>3, <1>9, <1>12, PutNeutrals
  <1>14. /\ Side(x.s, k, r, g) /\ Hears(x.s, k, r, h, o, g)
         /\ Path(y, g, Sampled(s), s.exec.committed, Point(s),
                 Sampled(x.s), x.s.exec.committed, Point(x.s))
    BY <1>3, <1>10, <1>12
  <1>15. Turn(x, p, g, shown, k, r, h, o, l, u, z)
    <2> HIDE DEF s
    <2> QED BY <1>1, <1>5, <1>9, <1>12, <1>13, <1>14, TalkMoves DEF s
  <1> QED BY <1>2, <1>12, <1>15 DEF x, Fine

\* fn batch.
LEMMA BatchTalk ==
    ASSUME InputDelay >= 1, Roomy,
           NEW s, NEW p, NEW g, NEW shown, NEW h, NEW o, NEW l, NEW u, NEW z,
           Fine(Begin(s), p, g, shown, h, o, l, u, z, TRUE), Speaks(g, Other(p), h),
           NEW n \in 0 .. Len(h), NEW heartbeat \in BOOLEAN
    PROVE  LET x == Batch(s, SubSeq(h, 1, n), heartbeat)
           IN  Fine(x, p, g, shown, Rest(h, n), o, l, u, z, FALSE) /\ Settled(x)
  <1> DEFINE q == Rest(h, n)
             w == Handled(s, SubSeq(h, 1, n))
             a == CorrectWork(w)
             v == a.s.stalled /\ ~Resumes(a.s)
             c == [a EXCEPT !.s.stalled = v]
             d == CommitWork(c)
             e == ReportWork(d)
             x == Batch(s, SubSeq(h, 1, n), heartbeat)
  <1>1. Fine(w, p, g, shown, q, o, l, u, z, TRUE) BY HandledTalk
  <1> HIDE DEF w, q
  <1>2. Fine(a, p, g, shown, q, o, l, u, z, TRUE) /\ a.s.exec.timeline.dirty = None
    BY <1>1, CorrectTalk
  <1>3. v \in BOOLEAN OBVIOUS
  <1> HIDE DEF a, v
  <1>4. Fine(c, p, g, shown, q, o, l, u, z, TRUE) /\ c.s.exec.timeline.dirty = None
    BY <1>2, <1>3, StalledTalk
  <1> HIDE DEF c
  <1>5. Fine(d, p, g, shown, q, o, l, u, z, TRUE) /\ Settled(d) BY <1>4, CommitTalk
  <1> HIDE DEF d
  <1>6. Fine(e, p, g, shown, q, o, l, u, z, FALSE) /\ e.s.exec = d.s.exec
    BY <1>5, ReportTalk DEF Settled, Tidy
  <1>7. Settled(e) BY <1>5, <1>6 DEF Settled, Confirmed
  <1> HIDE DEF e
  <1>8. x = IF heartbeat THEN ProgressWork(e) ELSE e BY DEF Batch, e, d, c, v, a, w
  <1>9. CASE heartbeat
    <2>1. Fine(ProgressWork(e), p, g, shown, q, o, l, u, z, FALSE) /\ ProgressWork(e).s = e.s
      BY <1>6, <1>7, ProgressWorkTalk DEF Settled, Tidy
    <2>2. Settled(ProgressWork(e)) BY <2>1, <1>7 DEF Settled
    <2> QED BY <2>1, <2>2, <1>8, <1>9 DEF q
  <1>10. CASE ~heartbeat BY <1>6, <1>7, <1>8, <1>10 DEF q
  <1> QED BY <1>9, <1>10

-----------------------------------------------------------------------------
(* fn step: a frame is played, and the game gets longer.                   *)

\* What the sessions say of the game they say of a longer one.
LEMMA SoundGrows ==
    ASSUME NEW s, NEW p, NEW g, NEW y, Sound(s, p, g), Grows(g, y)
    PROVE  Sound(s, p, y)
  BY ExecutionGrows DEF Sound

\* Two sessions that fit together do so still when the game grows.
LEMMA DuetGrows ==
    ASSUME NEW s, NEW p, NEW o, NEW q, NEW g, Sound(s, p, g), Sound(o, q, g),
           NEW k, NEW r, NEW h, NEW l, NEW u, NEW z, Duet(s, k, r, h, o, l, u, z, g),
           NEW y, Grows(g, y)
    PROVE  Duet(s, k, r, h, o, l, u, z, y)
  <1>1. /\ Counts(k, r, s.progress, Sampled(o), o.exec.committed, Point(o))
        /\ Counts(l, u, o.progress, Sampled(s), s.exec.committed, Point(s))
    BY DuetNumbers
  <1>2. /\ IsMap(g, Entries) /\ Sampled(o) <= Sampled(o) /\ Sampled(s) <= Sampled(s)
        /\ Upto(Point(o), Point(o)) /\ Upto(Point(s), Point(s))
    BY SessionNumbers DEF Upto, IsPoint
  <1>3. Side(s, k, r, y) /\ Side(o, l, u, y)
    BY <1>2, ComparedGrows DEF Duet, Side
  <1>4. Hears(s, k, r, h, o, y)
    <2>1. Path(h, g, k, r, s.progress, Sampled(o), o.exec.committed, Point(o))
      BY DEF Duet, Hears
    <2> QED BY <2>1, <1>1, <1>2, PathGrows DEF Hears
  <1>5. Hears(o, l, u, z, s, y)
    <2>1. Path(z, g, l, u, o.progress, Sampled(s), s.exec.committed, Point(s))
      BY DEF Duet, Hears
    <2> QED BY <2>1, <1>1, <1>2, PathGrows DEF Hears
  <1> QED BY <1>3, <1>4, <1>5 DEF Duet

\* The machine after the frame, or after the frame it could not play.
LEMMA PlayNumbers ==
    ASSUME NEW e, NEW g, ExecutionInv(e, g), e.timeline.dirty = None, NEW b \in Buttons,
           NEW k, Holds(e.timeline, k)
    PROVE  LET t == e.timeline
               d == Play(e, b)
               y == d.timeline
           IN  /\ y.frame \in {t.frame, t.frame + 1} /\ d.committed = e.committed
               /\ y.confirmed >= t.confirmed /\ y.player = t.player /\ Holds(y, k)
  <1> DEFINE t == e.timeline
             d == Play(e, b)
             y == d.timeline
             v == SampleLocal(t, b)
             q == Other(t.player)
  <1>1. /\ TimelineInv(t, g) /\ IsMap(t.inputs, Entries) /\ t.player \in Ports
    BY ExecutionFacts DEF ExecutionInv, TimelineInv, TimelineType
  <1>2. /\ v.inputs = Put(t.inputs, SampleFrame(t), t.player, SampleValue(t, b))
        /\ y.frame = IF Stalled(v) THEN t.frame ELSE t.frame + 1
        /\ y.confirmed = v.confirmed /\ d.committed = e.committed
        /\ Keeps([v EXCEPT !.frame = y.frame], y)
    BY PlayTimeline
  <1>3. v.confirmed >= t.confirmed BY <1>1, SampleLocalFields
  <1>4. y.player = t.player BY PlayExecution
  <1>5. SampleFrame(t) \in Nat /\ SampleValue(t, b) \in Buttons BY <1>1, SampleWord
  <1>6. [v EXCEPT !.frame = y.frame].inputs = v.inputs
    <2>1. TimelineType(v) BY <1>1, SampleLocalInv DEF TimelineInv
    <2> HIDE DEF v, y
    <2> QED BY <2>1 DEF TimelineType
  <1>7. q \in Ports /\ q # t.player BY <1>1, TwoPorts
  <1> HIDE DEF y, v, d
  <1>8. Holds(y, k)
    <2>1. ASSUME NEW x \in Nat, Entry(y.inputs, x)[q] # None PROVE x < k
      <3>1. Entry(v.inputs, x)[q] # None BY <1>2, <1>6, <1>7, <2>1 DEF Keeps
      <3>2. Entry(v.inputs, x)[q] = Entry(t.inputs, x)[q]
        BY <1>1, <1>2, <1>5, <1>7, PutEntry
      <3> QED BY <3>1, <3>2 DEF Holds
    <2> QED BY <2>1, <1>4 DEF Holds
  <1> QED BY <1>2, <1>3, <1>4, <1>8 DEF y, d

\* What a session has sampled before it plays its next frame.
LEMMA SampledNext ==
    ASSUME NEW s, NEW p, NEW g, Sound(s, p, g), NEW k, Reach(s, k)
    PROVE  LET f == SampleFrame(s.exec.timeline)
           IN  /\ f \in Nat /\ f = Frame(s) + InputDelay
               /\ s.sampled = f => Sampled(s) = f + 1
               /\ s.sampled # f => Sampled(s) = f
  <1>1. /\ Frame(s) \in Nat /\ InputDelay \in Nat /\ s.sampled \in Nat \cup {None}
        /\ None \notin Nat
    BY SessionNumbers, Numbers DEF Sound, IsPlayer
  <1>2. SampleFrame(s.exec.timeline) = Frame(s) + InputDelay BY DEF SampleFrame, Frame
  <1>3. Sampled(s) = IF s.sampled = None THEN InputDelay ELSE s.sampled + 1 BY DEF Sampled
  <1>4. Sampled(s) \in {Frame(s) + InputDelay, Frame(s) + InputDelay + 1} BY DEF Reach
  <1> DEFINE f == Frame(s) + InputDelay
  <1>5. f \in Nat BY <1>1
  <1>6. CASE s.sampled = None
    <2>1. s.sampled # f BY <1>1, <1>5, <1>6
    <2>2. Sampled(s) = f BY <1>1, <1>3, <1>4, <1>6
    <2> QED BY <2>1, <2>2, <1>2, <1>5
  <1>7. CASE s.sampled # None
    <2>1. s.sampled \in Nat /\ Sampled(s) = s.sampled + 1 BY <1>1, <1>3, <1>7
    <2>2. s.sampled = f \/ s.sampled + 1 = f BY <2>1, <1>1, <1>4
    <2>3. s.sampled = f => Sampled(s) = f + 1 BY <2>1
    <2>4. s.sampled # f => Sampled(s) = f BY <2>1, <2>2
    <2> QED BY <2>3, <2>4, <1>2, <1>5
  <1> QED BY <1>6, <1>7

\* The frame of fn step.
LEMMA PlayTalk ==
    ASSUME NEW w, NEW p, NEW g, NEW shown, NEW h, NEW o, NEW l, NEW u, NEW z,
           Fine(w, p, g, shown, h, o, l, u, z, FALSE), Settled(w),
           ~AtBarrier(w.s.pause, Frame(w.s)), NEW b \in Buttons
    PROVE  LET y == Given(g, w.s.exec.timeline, b)
           IN  /\ Fine(PlayWork(w, p, b), p, y, shown, h, o, l, u, z, FALSE)
               /\ PlayWork(w, p, b).s.exec.timeline.dirty = None
  <1> DEFINE s == w.s
             e == s.exec
             t == e.timeline
             c == s.pause
             d == Play(e, b)
             f == SampleFrame(t)
             y == Given(g, t, b)
             m == [type |-> "Input", frame |-> f, word |-> SampleValue(t, b)]
             a == IF s.sampled = f THEN <<>> ELSE <<m>>
             v == [w EXCEPT !.s.exec = d, !.s.sampled = f]
             x == PlayWork(w, p, b)
             F == Frame(s)
             F2 == d.timeline.frame
  <1>1. PICK k, r : Turn(w, p, g, shown, k, r, h, o, l, u, z) BY DEF Fine
  <1>2. Informed(s, FALSE) BY DEF Fine
  <1>3. /\ IsWork(w) /\ Sound(s, p, g) /\ ExecutionInv(e, g) /\ Side(s, k, r, g)
        /\ TimelineInv(t, g) /\ Hears(s, k, r, h, o, g) /\ k \in Nat /\ r \in Nat
        /\ Pact(c, F, k, h, o.pause, Frame(o), l, z \o w.out)
        /\ w.out \in Seq(Messages) /\ z \o w.out \in Seq(Messages)
        /\ c \in Controls /\ o.pause \in Controls /\ F \in Nat
        /\ Frame(o) \in Nat /\ l \in Nat /\ h \in Seq(Messages)
    BY <1>1, TurnFacts
  <1>4. p \in Ports /\ Busy(w, p, g, shown) /\ w.err = None /\ Sound(o, Other(p), g)
        /\ Duet(s, k, r, h, o, l, u, z \o w.out, g) /\ z \in Seq(Messages)
    BY <1>1 DEF Turn
  <1>5. t.dirty = None /\ e.committed = Confirmed(s) BY DEF Settled
  <1>6. Grows(g, y) /\ Busy(x, p, y, shown) /\ Tidy(x) BY <1>4, <1>5, PlayKept
  <1>7. /\ Sound(s, p, y) /\ Sound(o, Other(p), y)
        /\ Duet(s, k, r, h, o, l, u, z \o w.out, y)
    BY <1>3, <1>4, <1>6, SoundGrows, DuetGrows
  <1>8. Holds(t, k) /\ Reach(s, k) BY <1>3 DEF Side, Reach
  <1>9. /\ F2 \in {t.frame, t.frame + 1} /\ d.committed = e.committed
        /\ d.timeline.confirmed >= t.confirmed /\ Holds(d.timeline, k)
    BY <1>3, <1>5, <1>8, PlayNumbers
  <1>10. /\ f \in Nat /\ f = F + InputDelay /\ (s.sampled = f => Sampled(s) = f + 1)
         /\ (s.sampled # f => Sampled(s) = f)
    BY <1>3, <1>8, SampledNext
  <1>11. m \in Messages /\ IsInput(m) /\ m.frame = f
    <2>1. SampleValue(t, b) \in Buttons BY <1>3, SampleWord
    <2>2. m \in [type : {"Input"}, frame : Nat, word : Buttons] BY <2>1, <1>10
    <2> QED BY <2>2 DEF Messages, InputMessages, IsInput
  <1>12. x = Send(v, a) BY DEF PlayWork
  <1> HIDE DEF m
  <1>13. a \in Seq(Messages) /\ Neutrals(a)
    <2>1. CASE s.sampled = f BY <2>1 DEF Neutrals
    <2>2. CASE s.sampled # f
      <3>1. a = <<m>> /\ a \in Seq(Messages) /\ Len(a) = 1 /\ a[1] = m BY <2>2, <1>11
      <3>2. \A i \in 1 .. 1 : i = 1 OBVIOUS
      <3> QED BY <3>1, <3>2, <1>11 DEF Neutrals, IsChange, IsInput
    <2> QED BY <2>1, <2>2
  <1> HIDE DEF d, y
  <1>14. /\ Works(v, v.s, w.out, w.err)
         /\ Parts(v.s, d, c, s.hashes, f, s.progress, s.stalled)
    BY <1>3, WithPlay
  <1> HIDE DEF v
  <1>15. Works(x, v.s, w.out \o a, w.err)
    <2>1. IsPlayer(v.s)
      BY <1>3, <1>10, <1>14 DEF IsPlayer, Parts, IsWork
    <2>2. IsWork(v) BY <2>1, <1>3, <1>14 DEF IsWork, Works
    <2> HIDE DEF a
    <2>3. Works(Send(v, a), v.s, v.out \o a, v.err) BY <2>2, WorkParts
    <2> QED BY <2>3, <1>12, <1>14 DEF Works
  <1> HIDE DEF x
  <1>16. /\ x.s.exec = d /\ x.s.pause = c /\ x.s.hashes = s.hashes
         /\ x.s.sampled = f /\ x.s.progress = s.progress /\ x.out = w.out \o a
         /\ x.err = None
    BY <1>4, <1>14, <1>15 DEF Parts, Works
  <1>17. /\ Sampled(x.s) = f + 1 /\ x.s.exec.committed = e.committed /\ Frame(x.s) = F2
         /\ F2 \in {F, F + 1}
    <2>1. f # None BY <1>10, Numbers
    <2> QED BY <2>1, <1>9, <1>16 DEF Sampled, Frame
  <1>18. Sound(x.s, p, y) BY <1>6 DEF Busy
  <1>19. Upto(Point(s), Point(x.s))
    <2>1. /\ Confirmed(s) = Lesser(F, t.confirmed) /\ t.confirmed \in Nat
          /\ Point(s).frame = F /\ Point(s).confirmed = Confirmed(s)
      BY <1>3, SessionNumbers
    <2>2. /\ Confirmed(x.s) = Lesser(F2, d.timeline.confirmed) /\ d.timeline.confirmed \in Nat
          /\ Point(x.s).frame = F2 /\ Point(x.s).confirmed = Confirmed(x.s)
      BY <1>16, <1>17, <1>18, SessionNumbers
    <2>3. F <= F2 BY <1>3, <1>17
    <2>4. Lesser(F, t.confirmed) <= Lesser(F2, d.timeline.confirmed)
      BY <1>3, <1>9, <1>17, <2>1, <2>2 DEF Lesser
    <2> QED BY <2>1, <2>2, <2>3, <2>4 DEF Upto
  <1>20. Path(a, y, Sampled(s), e.committed, Point(s), Sampled(x.s), x.s.exec.committed, Point(x.s))
    <2>1. /\ Sampled(s) \in Nat /\ e.committed \in Nat /\ IsPoint(Point(s))
          /\ Point(s).confirmed <= Point(s).frame /\ IsMap(y, Entries)
      BY <1>7, SessionNumbers
    <2>2. IsPoint(Point(x.s)) /\ Sampled(x.s) \in Nat BY <1>18, SessionNumbers
    <2>3. Path(a, y, Sampled(s), e.committed, Point(s), f + 1, e.committed, Point(s))
      <3>1. CASE s.sampled = f BY <3>1, <2>1, <1>10, PathOne
      <3>2. CASE s.sampled # f BY <3>2, <2>1, <1>10, <1>11, PathOne
      <3> QED BY <3>1, <3>2
    <2>4. Grows(y, y) BY <2>1 DEF Grows
    <2>5. f + 1 \in Nat /\ f + 1 <= f + 1 BY <1>10
    <2>6. /\ Counts(Sampled(s), e.committed, Point(s), f + 1, e.committed, Point(s))
          /\ Counts(Sampled(s), e.committed, Point(s), f + 1, e.committed, Point(x.s))
      BY <2>1, <2>2, <2>5 DEF Counts
    <2> HIDE DEF a, e, s, f
    <2>7. Path(a, y, Sampled(s), e.committed, Point(s), f + 1, e.committed, Point(x.s))
      BY <2>1, <2>3, <2>4, <2>5, <2>6, <1>19, PathGrows
    <2> QED BY <2>7, <1>17
  <1> HIDE DEF a
  <1>21. Side(x.s, k, r, y)
    <2>1. Reach(x.s, k)
      <3>1. F <= Confirmed(s) + PREDICTION_WINDOW /\ Confirmed(s) \in Nat
        BY <1>3, SessionNumbers
      <3>2. PREDICTION_WINDOW \in Nat /\ InputDelay \in Nat BY Numbers
      <3>3. f + 1 <= e.committed + Span BY <3>1, <3>2, <1>3, <1>5, <1>10 DEF Span
      <3>4. f + 1 \in {F2 + InputDelay, F2 + InputDelay + 1} BY <3>2, <1>3, <1>10, <1>17
      <3> QED BY <3>3, <3>4, <1>9, <1>16, <1>17 DEF Reach
    <2>2. Side(s, k, r, y) BY <1>7 DEF Duet
    <2> QED BY <2>1, <2>2, <1>16, <1>17 DEF Side
  <1>22. Hears(x.s, k, r, h, o, y)
    <2>1. Hears(s, k, r, h, o, y) BY <1>7 DEF Duet
    <2> QED BY <2>1, <1>16 DEF Hears
  <1>23. c.reported = None /\ (c.episode # None => F < c.episode)
    <2>1. c.episode # None => c.episode \in Nat BY <1>3, ControlTypes
    <2>2. c.episode # None => ~(F >= c.episode) BY DEF AtBarrier, Barrier
    <2>3. c.reported # None => c.episode # None /\ F >= c.episode
      BY <1>2 DEF Informed, Told
    <2>4. c.episode # None => F < c.episode BY <2>1, <2>2, <1>3
    <2> QED BY <2>2, <2>3, <2>4
  <1>24. Pact(x.s.pause, Frame(x.s), k, h, o.pause, Frame(o), l, (z \o w.out) \o a)
    <2>1. Pact(c, F + 1, k, h, o.pause, Frame(o), l, z \o w.out) BY <1>3, <1>23, RunFrame
    <2>2. Pact(c, F2, k, h, o.pause, Frame(o), l, z \o w.out) BY <2>1, <1>3, <1>17
    <2>3. F2 \in Nat BY <1>3, <1>17
    <2>4. Pact(c, F2, k, h, o.pause, Frame(o), l, (z \o w.out) \o a)
      BY <2>2, <2>3, <1>3, <1>13, PutNeutrals
    <2> QED BY <2>4, <1>16, <1>17
  <1>25. Duet(x.s, k, r, h, o, l, u, (z \o w.out) \o a, y)
    <2> HIDE DEF s, e
    <2> QED BY <1>7, <1>18, <1>20, <1>21, <1>22, <1>24, DuetMoves DEF s, e
  <1>26. (z \o w.out) \o a = z \o x.out
    <2> DEFINE i == w.out
    <2>1. z \in Seq(Messages) /\ i \in Seq(Messages) /\ a \in Seq(Messages)
      BY <1>3, <1>4, <1>13
    <2>2. x.out = i \o a BY <1>16
    <2> HIDE DEF i, a, x
    <2>3. (z \o i) \o a = z \o (i \o a) BY <2>1, ConcatAssociative
    <2> QED BY <2>2, <2>3 DEF i
  <1>27. Turn(x, p, y, shown, k, r, h, o, l, u, z)
    BY <1>4, <1>6, <1>7, <1>16, <1>25, <1>26 DEF Turn
  <1>28. Informed(x.s, FALSE)
    <2>1. c.reported # Running BY <1>2 DEF Informed, Told
    <2> QED BY <2>1, <1>16, <1>23 DEF Informed, Told
  <1> QED BY <1>6, <1>16, <1>27, <1>28 DEF x, y, Fine, Tidy

\* What holds after the report holds before the next.
LEMMA FineWeakens ==
    ASSUME NEW w, NEW p, NEW g, NEW shown, NEW h, NEW o, NEW l, NEW u, NEW z,
           Fine(w, p, g, shown, h, o, l, u, z, FALSE)
    PROVE  Fine(w, p, g, shown, h, o, l, u, z, TRUE)
  BY DEF Fine, Informed, Told

\* fn step after its batch.
LEMMA StepTalk ==
    ASSUME Roomy,
           NEW w, NEW p, NEW g, NEW shown, NEW h, NEW o, NEW l, NEW u, NEW z,
           Fine(w, p, g, shown, h, o, l, u, z, FALSE), Settled(w), NEW b \in Buttons
    PROVE  \E y : /\ Grows(g, y) /\ Quiet(g, y, Other(p))
                  /\ Fine(StepWork(w, p, b), p, y, shown, h, o, l, u, z, FALSE)
                  /\ StepWork(w, p, b).s.exec.timeline.dirty = None
  <1> DEFINE frame == Frame(w.s)
             blocked == AtBarrier(w.s.pause, frame)
             played == IF blocked THEN w ELSE PlayWork(w, p, b)
             waits == /\ Frame(played.s) = frame
                      /\ ~(blocked /\ Confirmed(played.s) >= frame)
             flagged == [played EXCEPT !.s.stalled = waits]
             committed == CommitWork(flagged)
             reported == ReportWork(committed)
             x == StepWork(w, p, b)
  <1>1. x = ProgressWork(reported) BY DEF StepWork
  <1>2. PICK k, r : Turn(w, p, g, shown, k, r, h, o, l, u, z) BY DEF Fine
  <1>3. /\ p \in Ports /\ ExecutionInv(w.s.exec, g) /\ Own(w.s.exec.timeline, g)
        /\ w.s.exec.timeline.player = p
    BY <1>2, TurnFacts DEF Turn
  <1>4. \E y : /\ Grows(g, y) /\ Quiet(g, y, Other(p)) /\ played.s.exec.timeline.dirty = None
               /\ Fine(played, p, y, shown, h, o, l, u, z, FALSE)
    <2>1. CASE blocked
      <3>1. Grows(g, g) /\ Quiet(g, g, Other(p))
        BY <1>3 DEF ExecutionInv, TimelineInv, Grows, Quiet
      <3> QED BY <2>1, <3>1 DEF Settled
    <2>2. CASE ~blocked
      <3> DEFINE y == Given(g, w.s.exec.timeline, b)
      <3>1. Fine(played, p, y, shown, h, o, l, u, z, FALSE) /\ played.s.exec.timeline.dirty = None
        BY <2>2, PlayTalk
      <3>2. Grows(g, y) /\ Quiet(g, y, Other(p))
        <4>1. Adds(g, y, SampleFrame(w.s.exec.timeline), p, SampleValue(w.s.exec.timeline, b))
          BY <1>3, GivenGrows
        <4>2. Other(p) \in Ports /\ Other(p) # p BY <1>3, TwoPorts
        <4> HIDE DEF y
        <4> QED BY <4>1, <4>2 DEF Adds, Quiet
      <3> HIDE DEF y, played
      <3> QED BY <3>1, <3>2
    <2> QED BY <2>1, <2>2
  <1>5. PICK y : /\ Grows(g, y) /\ Quiet(g, y, Other(p)) /\ played.s.exec.timeline.dirty = None
                 /\ Fine(played, p, y, shown, h, o, l, u, z, FALSE)
    BY <1>4
  <1>6. waits \in BOOLEAN OBVIOUS
  <1> HIDE DEF played, waits
  <1>7. Fine(played, p, y, shown, h, o, l, u, z, TRUE) BY <1>5, FineWeakens
  <1>8. Fine(flagged, p, y, shown, h, o, l, u, z, TRUE) /\ flagged.s.exec.timeline.dirty = None
    BY <1>5, <1>6, <1>7, StalledTalk
  <1> HIDE DEF flagged
  <1>9. Fine(committed, p, y, shown, h, o, l, u, z, TRUE) /\ Settled(committed)
    BY <1>8, CommitTalk
  <1> HIDE DEF committed
  <1>10. /\ Fine(reported, p, y, shown, h, o, l, u, z, FALSE)
         /\ reported.s.exec.timeline.dirty = None
    BY <1>9, ReportTalk DEF Settled, Tidy
  <1> HIDE DEF reported
  <1>11. Fine(x, p, y, shown, h, o, l, u, z, FALSE) /\ x.s.exec.timeline.dirty = None
    BY <1>1, <1>10, ProgressWorkTalk DEF Tidy
  <1> QED BY <1>5, <1>11

\* fn request_pause.
LEMMA RequestTalk ==
    ASSUME InputDelay >= 1,
           NEW s, NEW p, NEW g, NEW shown, NEW h, NEW o, NEW l, NEW u, NEW z,
           Fine(Begin(s), p, g, shown, h, o, l, u, z, FALSE), NEW paused \in BOOLEAN
    PROVE  LET c == Desire(s.pause, paused)
               f == Frame(s)
               x == Send(Begin([s EXCEPT !.pause = Reconcile(c, f)]), Change(c, f))
           IN  Fine(x, p, g, shown, h, o, l, u, z, FALSE) /\ x.s.exec = s.exec
  <1> DEFINE w == Begin(s)
             f == Frame(s)
             c == Desire(s.pause, paused)
             d == Reconcile(c, f)
             a == Change(c, f)
             v == [s EXCEPT !.pause = d]
             x == Send(Begin(v), a)
  <1>1. PICK k, r : Turn(w, p, g, shown, k, r, h, o, l, u, z) BY DEF Fine
  <1>2. w.s = s /\ w.out = <<>> /\ w.err = None /\ Begin(v).s = v /\ Begin(v).out = <<>>
        /\ Begin(v).err = None
    BY DEF Begin
  <1>3. Informed(s, FALSE) BY <1>2 DEF Fine
  <1> HIDE DEF w
  <1>4. /\ IsWork(w) /\ Sound(s, p, g) /\ Side(s, k, r, g) /\ Hears(s, k, r, h, o, g)
        /\ Pact(s.pause, f, k, h, o.pause, Frame(o), l, z \o w.out)
        /\ s.pause \in Controls /\ o.pause \in Controls /\ f \in Nat /\ z \o w.out \in Seq(Messages)
        /\ k \in Nat /\ l \in Nat /\ Frame(o) \in Nat /\ h \in Seq(Messages)
    BY <1>1, <1>2, TurnFacts
  <1>5. p \in Ports /\ Busy(w, p, g, shown) /\ Sound(o, Other(p), g)
        /\ Duet(s, k, r, h, o, l, u, z \o w.out, g)
    BY <1>1, <1>2 DEF Turn
  <1>6. c \in Controls /\ Same(s.pause, c) /\ c.reported = s.pause.reported
    BY <1>4, DesireSame
  <1>7. Sane(c) /\ Below(c, f) BY <1>4, <1>6 DEF Sound, Sane, Below, Same
  <1>8. Pact(c, f, k, h, o.pause, Frame(o), l, z \o w.out) BY <1>4, <1>6, PactSame DEF Same
  <1>9. Near(f, Sampled(s), Frame(o), l, z \o w.out) /\ Sampled(s) \in Nat
    <2>1. Duet(o, l, u, z \o w.out, s, k, r, h, g) BY <1>5, DuetSymmetric
    <2>2. Near(Frame(s), Sampled(s), Frame(o), l, z \o w.out) BY <2>1, <1>4, <1>5, DuetNumbers
    <2> QED BY <2>2, <1>4, SessionNumbers
  <1> HIDE DEF c, f
  <1>10. Pact(d, f, k, h, o.pause, Frame(o), l, (z \o w.out) \o a)
    BY <1>4, <1>6, <1>7, <1>8, <1>9, PactReconciles
  <1>11. /\ d \in Controls /\ d.reported = c.reported /\ Sane(d) /\ Below(d, f)
         /\ d = c \/ \E n \in Messages : Moves(c, d, f, n)
    <2>1. <<>> \in Seq(Messages) OBVIOUS
    <2> QED BY <2>1, <1>4, <1>6, <1>7, ReconcileMoves
  <1>12. \/ a = <<>>
         \/ \E m \in Messages : a = <<m>> /\ (IsChange(m) \/ m.type = "PauseAck")
    BY <1>4, <1>6, <1>7, ChangeSent
  <1>13. Speaks(g, p, a) BY <1>4, <1>6, <1>7, ChangeSpeaks
  <1> HIDE DEF d, a
  <1>14. c.episode # None => d.episode = c.episode BY <1>11 DEF Moves, Voted, Withdrawn
  <1>15. Parts(v, s.exec, d, s.hashes, s.sampled, s.progress, s.stalled)
    BY <1>4 DEF Sound, IsPlayer, Parts
  <1> HIDE DEF v
  <1>16. /\ v.exec = s.exec /\ v.pause = d /\ v.hashes = s.hashes /\ v.sampled = s.sampled
         /\ v.progress = s.progress /\ v.stalled = s.stalled
    BY <1>15 DEF Parts
  <1>17. Works(x, v, <<>> \o a, None)
    <2>1. Works(Begin(v), v, <<>>, None) BY WorkParts
    <2>2. IsPlayer(v) BY <1>4, <1>11, <1>15 DEF Sound, IsPlayer, Parts
    <2>3. IsWork(Begin(v)) BY <2>1, <2>2, <1>2 DEF IsWork
    <2>4. Works(Send(Begin(v), a), Begin(v).s, Begin(v).out \o a, Begin(v).err)
      BY <2>3, WorkParts
    <2> QED BY <2>4, <1>2
  <1> HIDE DEF x
  <1>18. x.s = v /\ x.out = w.out \o a /\ x.err = None BY <1>2, <1>17 DEF Works
  <1>19. Busy(x, p, g, shown)
    <2>1. Own(s.exec.timeline, g) /\ Longer(s.exec.released, shown) BY <1>2, <1>5 DEF Busy
    <2>2. Speaks(g, p, <<>> \o a) BY <1>13, SpeaksNothing, SpeaksOn
    <2>3. /\ s.sampled \in Nat \cup {None} /\ s.stalled \in BOOLEAN /\ ExecutionInv(s.exec, g)
          /\ s.exec.timeline.player = p
      BY <1>4 DEF Sound, IsPlayer
    <2>4. Below(d, s.exec.timeline.frame) BY <1>11 DEF f, Frame
    <2>5. Works(x, x.s, <<>> \o a, None) BY <1>17, <1>18
    <2>6. Parts(x.s, s.exec, d, s.hashes, s.sampled, s.progress, s.stalled) BY <1>15, <1>18
    <2> QED BY <2>1, <2>2, <2>3, <2>4, <2>5, <2>6, <1>11, BusyParts
  <1>20. Turn(x, p, g, shown, k, r, h, o, l, u, z)
    <2>1. /\ x.s.exec = w.s.exec /\ x.s.hashes = w.s.hashes /\ x.s.sampled = w.s.sampled
          /\ x.s.progress = w.s.progress /\ Hears(w.s, k, r, h, o, g)
          /\ Pact(x.s.pause, Frame(w.s), k, h, o.pause, Frame(o), l, (z \o w.out) \o a)
      BY <1>2, <1>4, <1>10, <1>16, <1>18 DEF f
    <2> QED BY <2>1, <1>1, <1>12, <1>18, <1>19, VoteTalk
  <1>21. Informed(x.s, FALSE)
    <2>1. c.episode = s.pause.episode BY <1>6 DEF Same
    <2>2. Told(s.pause, f, s.exec.timeline.confirmed, FALSE) BY <1>3 DEF Informed, f
    <2>3. Told(d, f, s.exec.timeline.confirmed, FALSE)
      BY <2>1, <2>2, <1>6, <1>11, <1>14 DEF Told
    <2> QED BY <2>3, <1>16, <1>18 DEF Informed, f, Frame
  <1> QED BY <1>16, <1>18, <1>20, <1>21 DEF x, v, c, d, f, a, Fine

\* The batch that finds the goodbye of the peer.
LEMMA BatchClosed ==
    ASSUME InputDelay >= 1, Roomy,
           NEW s, NEW p, NEW g, NEW shown, NEW h, NEW o, NEW l, NEW u, NEW z,
           Fine(Begin(s), p, g, shown, h, o, l, u, z, TRUE), Speaks(g, Other(p), h),
           NEW m \in Messages, m.type = "Close", NEW heartbeat \in BOOLEAN
    PROVE  Batch(s, h \o <<m>>, heartbeat).err = "closed"
  <1> DEFINE events == h \o <<m>>
             w == Handled(s, events)
             v == w.s.stalled /\ ~Resumes(w.s)
             c == [w EXCEPT !.s.stalled = v]
  <1>1. w.err = "closed" BY HandledClosed
  <1>2. "closed" # None BY SessionAssumption
  <1>3. p \in Ports /\ Busy(Begin(s), p, g, shown) BY DEF Fine, Turn
  <1>4. Speaks(g, Other(p), events)
    <2>1. Fits(g, Other(p), m) BY DEF Fits, IsInput
    <2> QED BY <2>1, SpeaksOne, SpeaksOn
  <1> HIDE DEF events
  <1>5. Busy(w, p, g, shown) BY <1>3, <1>4, HandledKept
  <1> HIDE DEF w
  <1>6. Tidy(w) BY <1>1, <1>2 DEF Tidy
  <1>7. v \in BOOLEAN OBVIOUS
  <1> HIDE DEF v
  <1>8. Busy(c, p, g, shown) /\ Tidy(c) /\ c.err = w.err BY <1>3, <1>5, <1>6, <1>7, ReportKept
  <1>9. CorrectWork(w) = w BY <1>1, <1>2 DEF CorrectWork
  <1> HIDE DEF c
  <1>10. CommitWork(c) = c BY <1>1, <1>2, <1>8 DEF CommitWork
  <1>11. ReportWork(c).err = "closed" BY <1>1, <1>3, <1>8, ReportKept
  <1>12. ProgressWork(ReportWork(c)) = ReportWork(c) BY <1>2, <1>11 DEF ProgressWork
  <1>13. Batch(s, events, heartbeat) =
            IF heartbeat THEN ProgressWork(ReportWork(CommitWork(c)))
            ELSE ReportWork(CommitWork(c))
    BY <1>9 DEF Batch, c, v, w
  <1> QED BY <1>10, <1>11, <1>12, <1>13 DEF events

-----------------------------------------------------------------------------
(* The two sessions and what is under way between them.                    *)

\* What a session that has ended has said last.
Bye(p) == IF status[p] = "up" THEN <<>> ELSE Goodbye(peer[p])

\* Player p's session, with h still to be heard from its peer.
Runs(p, g, h) ==
    /\ Sound(peer[p], p, g) /\ peer[p].exec.timeline.dirty = None
    /\ Own(peer[p].exec.timeline, g) /\ Informed(peer[p], FALSE)
    /\ Speaks(g, Other(p), h) /\ status[p] \in {"up", "stopped", "closed"}
    /\ status[p] = "up" => chan[p] = h \o Bye(Other(p))

Pair(p, g, k, r, h, l, u, z) ==
    /\ Runs(p, g, h) /\ Runs(Other(p), g, z)
    /\ Duet(peer[p], k, r, h, peer[Other(p)], l, u, z, g)

\* The inductive invariant: neither session has failed, and the two agree.
TalkInv ==
    GameTypes /\ \E p \in Ports : \E g, k, r, h, l, u, z : Pair(p, g, k, r, h, l, u, z)

\* It may be seen from either side.
LEMMA PairOf ==
    ASSUME TalkInv, NEW p \in Ports
    PROVE  \E g, k, r, h, l, u, z : Pair(p, g, k, r, h, l, u, z)
  <1>1. PICK q \in Ports : \E g, k, r, h, l, u, z : Pair(q, g, k, r, h, l, u, z) BY DEF TalkInv
  <1>2. PICK g, k, r, h, l, u, z : Pair(q, g, k, r, h, l, u, z) BY <1>1
  <1>3. CASE p = q BY <1>2, <1>3
  <1>4. CASE p # q
    <2>1. p = Other(q) /\ Other(p) = q BY <1>4, TwoPorts
    <2>2. Duet(peer[p], l, u, z, peer[q], k, r, h, g)
      BY <1>2, <2>1, DuetSymmetric DEF Pair
    <2>3. Pair(p, g, l, u, z, k, r, h) BY <1>2, <2>1, <2>2 DEF Pair
    <2> QED BY <2>3
  <1> QED BY <1>3, <1>4

\* A call begins with the session as the last one left it.
LEMMA BeginFine ==
    ASSUME NEW p \in Ports, NEW g, NEW k, NEW r, NEW h, NEW l, NEW u, NEW z,
           Pair(p, g, k, r, h, l, u, z)
    PROVE  Fine(Begin(peer[p]), p, g, peer[p].exec.released, h, peer[Other(p)], l, u, z, FALSE)
  <1> DEFINE s == peer[p]
             o == peer[Other(p)]
             w == Begin(s)
  <1>1. /\ Sound(s, p, g) /\ Own(s.exec.timeline, g) /\ Informed(s, FALSE)
        /\ Sound(o, Other(p), g) /\ Duet(s, k, r, h, o, l, u, z, g)
    BY DEF Pair, Runs
  <1>2. Busy(w, p, g, s.exec.released) BY <1>1, BeginBusy
  <1>3. Works(w, s, <<>>, None) BY WorkParts
  <1> HIDE DEF w, s, o
  <1>4. w.s = s /\ w.out = <<>> /\ w.err = None BY <1>3 DEF Works
  <1>5. z \in Seq(Messages) BY <1>1, DuetNumbers
  <1>6. z \o w.out = z BY <1>4, <1>5, ConcatEmptySeq
  <1>7. Turn(w, p, g, s.exec.released, k, r, h, o, l, u, z)
    BY <1>1, <1>2, <1>4, <1>5, <1>6 DEF Turn
  <1>8. Fine(w, p, g, s.exec.released, h, o, l, u, z, FALSE) BY <1>1, <1>4, <1>7 DEF Fine
  <1> QED BY <1>8 DEF w, s, o

\* y is h and then x; e is h and the farewell.
Followed(y, h, x) == y = h \o x
Farewell(e, h) == \E m \in Messages : m.type = "Close" /\ e = h \o <<m>>

\* A call hears the first messages of what is under way, or the farewell too.
LEMMA HeardSplit ==
    ASSUME NEW h \in Seq(Messages), NEW x \in Seq(Messages), NEW n \in 0 .. Len(h),
           NEW y, Followed(y, h, x)
    PROVE  /\ First(y, n) = First(h, n)
           /\ Followed(Rest(y, n), Rest(h, n), x)
  <1> DEFINE a == First(h, n)
             b == Rest(h, n)
             c == First(y, n)
             d == Rest(y, n)
             e == b \o x
  <1>1. /\ y \in Seq(Messages) /\ Len(y) = Len(h) + Len(x) /\ Len(h) \in Nat /\ Len(x) \in Nat
        /\ \A i \in 1 .. Len(h) : y[i] = h[i]
        /\ \A i \in 1 .. Len(x) : y[Len(h) + i] = x[i]
    BY DEF Followed
  <1>2. n \in 0 .. Len(y) /\ n \in Nat /\ n <= Len(h) BY <1>1
  <1>3. /\ a \in Seq(Messages) /\ b \in Seq(Messages) /\ Len(a) = n /\ Len(b) = Len(h) - n
        /\ \A i \in 1 .. n : a[i] = h[i]
        /\ \A i \in 1 .. Len(h) - n : b[i] = h[n + i] /\ n + i \in 1 .. Len(h)
    BY SplitFacts DEF First, Rest
  <1>4. /\ c \in Seq(Messages) /\ d \in Seq(Messages) /\ Len(c) = n /\ Len(d) = Len(y) - n
        /\ \A i \in 1 .. n : c[i] = y[i]
        /\ \A i \in 1 .. Len(y) - n : d[i] = y[n + i] /\ n + i \in 1 .. Len(y)
    BY <1>1, <1>2, SplitFacts DEF First, Rest
  <1> HIDE DEF a, b, c, d
  <1>5. /\ e \in Seq(Messages) /\ Len(e) = Len(b) + Len(x)
        /\ \A i \in 1 .. Len(b) : e[i] = b[i]
        /\ \A i \in 1 .. Len(x) : e[Len(b) + i] = x[i]
    <2>1. b \in Seq(Messages) BY <1>3
    <2> QED BY <2>1, ConcatFacts
  <1> HIDE DEF e
  <1>6. c = a
    <2>1. ASSUME NEW i \in 1 .. n PROVE c[i] = a[i]
      <3>1. i \in 1 .. Len(h) BY <1>1, <1>2
      <3> QED BY <3>1, <1>1, <1>3, <1>4
    <2> QED BY <2>1, <1>3, <1>4, SeqEqual
  <1>7. d = e
    <2>1. Len(d) = Len(e) BY <1>1, <1>2, <1>3, <1>4, <1>5
    <2>2. ASSUME NEW i \in 1 .. Len(d) PROVE d[i] = e[i]
      <3>1. i \in 1 .. Len(y) - n BY <1>4
      <3>2. d[i] = y[n + i] BY <3>1, <1>4
      <3>3. CASE i <= Len(h) - n
        <4>1. i \in 1 .. Len(h) - n /\ i \in 1 .. Len(b) BY <3>1, <3>3, <1>1, <1>2, <1>3
        <4> QED BY <4>1, <3>2, <1>1, <1>3, <1>5
      <3>4. CASE ~(i <= Len(h) - n)
        <4> DEFINE j == i - (Len(h) - n)
        <4>1. /\ j \in 1 .. Len(x) /\ n + i = Len(h) + j /\ i = Len(b) + j
          BY <3>1, <3>4, <1>1, <1>2, <1>3
        <4> HIDE DEF j
        <4>2. d[i] = x[j] BY <4>1, <3>2, <1>1
        <4>3. e[i] = x[j] BY <4>1, <1>5
        <4> QED BY <4>2, <4>3
      <3> QED BY <3>3, <3>4
    <2> QED BY <2>1, <2>2, <1>4, <1>5, SeqEqual
  <1>8. Followed(d, b, x) BY <1>7 DEF e, Followed
  <1> QED BY <1>6, <1>8 DEF a, b, c, d

\* What a session that has ended says is one message.
LEMMA ByeFacts ==
    ASSUME NEW q, NEW g, Sound(peer[q], q, g)
    PROVE  /\ Bye(q) \in Seq(Messages)
           /\ status[q] # "up" =>
                \E m \in Messages : m.type = "Close" /\ Bye(q) = <<m>> /\ Len(Bye(q)) = 1
  <1> DEFINE m == [type |-> "Close", frame |-> Frame(peer[q])]
  <1>1. Frame(peer[q]) \in Nat BY SessionNumbers
  <1>2. m \in [type : {"Close"}, frame : Nat] /\ m.type = "Close" BY <1>1
  <1>3. m \in Messages BY <1>2 DEF Messages, OtherMessages
  <1>4. status[q] # "up" => Bye(q) = <<m>> BY DEF Bye, Goodbye
  <1>5. status[q] = "up" => Bye(q) = <<>> BY DEF Bye
  <1> HIDE DEF m
  <1>6. <<m>> \in Seq(Messages) /\ <<>> \in Seq(Messages) /\ Len(<<m>>) = 1 BY <1>3
  <1> QED BY <1>2, <1>3, <1>4, <1>5, <1>6

\* The outcome of a call that has not failed and has heard n messages.
LEMMA FinishTalk ==
    ASSUME GameTypes, NEW p \in Ports, NEW g, NEW k, NEW r, NEW h, NEW l, NEW u, NEW z,
           Pair(p, g, k, r, h, l, u, z), status[p] = "up", NEW n \in 0 .. Len(h),
           NEW y, Grows(g, y), Quiet(g, y, Other(p)), NEW w, NEW shown,
           Fine(w, p, y, shown, Rest(h, n), peer[Other(p)], l, u, z, FALSE),
           w.s.exec.timeline.dirty = None, Finish(p, w, n)
    PROVE  TalkInv'
  <1> DEFINE q == Other(p)
             h2 == Rest(h, n)
             z2 == z \o w.out
  <1>1. q \in Ports /\ q # p /\ Other(q) = p BY TwoPorts
  <1>2. PICK k2, r2 : Turn(w, p, y, shown, k2, r2, h2, peer[q], l, u, z)
    BY DEF Fine
  <1>3. /\ w.err = None /\ Sound(w.s, p, y) /\ Own(w.s.exec.timeline, y) /\ Speaks(y, p, w.out)
        /\ Duet(w.s, k2, r2, h2, peer[q], l, u, z2, y) /\ Informed(w.s, FALSE)
    BY <1>2 DEF Turn, Busy, Fine
  <1>4. /\ peer'[p] = w.s /\ peer'[q] = peer[q] /\ peer' = [i \in Ports |-> peer'[i]]
    BY <1>1, <1>3 DEF Finish, GameTypes
  <1>5. /\ status'[p] = "up" /\ status'[q] = status[q]
        /\ status' \in [Ports -> {"up", "stopped", "closed", "protocol"}]
    BY <1>1, <1>3 DEF Finish, GameTypes
  <1>6. /\ chan'[p] = Rest(chan[p], n) /\ chan'[q] = chan[q] \o w.out \o <<>>
        /\ chan' = [i \in Ports |-> chan'[i]]
    BY <1>1, <1>3 DEF Finish, GameTypes, Rest
  <1>7. GameTypes' BY <1>4, <1>5, <1>6 DEF GameTypes
  <1>8. /\ Sound(peer[q], q, g) /\ peer[q].exec.timeline.dirty = None
        /\ Own(peer[q].exec.timeline, g) /\ Informed(peer[q], FALSE)
        /\ Speaks(g, p, z) /\ status[q] \in {"up", "stopped", "closed"}
        /\ Speaks(g, q, h) /\ chan[p] = h \o Bye(q)
        /\ status[q] = "up" => chan[q] = z \o Bye(p)
    BY <1>1 DEF Pair, Runs
  <1>9. h \in Seq(Messages) /\ z \in Seq(Messages) /\ w.out \in Seq(Messages)
    BY <1>3, <1>8 DEF Speaks
  <1>10. Bye(q) \in Seq(Messages) BY <1>8, ByeFacts
  <1>11. Speaks(y, q, h2)
    <2>1. Speaks(g, q, h2) BY <1>8, SpeaksSplit DEF Rest
    <2> QED BY <2>1, <1>1, SpeaksGrows
  <1>12. Speaks(y, p, z2) BY <1>3, <1>8, SpeaksGrows, SpeaksOn
  <1>13. chan'[p] = h2 \o Bye(q)' 
    <2>1. Bye(q)' = Bye(q) BY <1>4, <1>5 DEF Bye
    <2>2. Followed(chan[p], h, Bye(q)) BY <1>8 DEF Followed
    <2> HIDE DEF q
    <2>3. Followed(Rest(chan[p], n), h2, Bye(q)) BY <1>9, <1>10, <2>2, HeardSplit
    <2>4. Followed(chan'[p], h2, Bye(q)) BY <2>3, <1>6
    <2> HIDE DEF h2
    <2> QED BY <2>1, <2>4 DEF Followed
  <1>14. Runs(p, y, h2)' BY <1>3, <1>4, <1>5, <1>11, <1>13 DEF Runs
  <1>15. status[q] = "up" => chan'[q] = z2 \o Bye(p)'
    <2>1. Bye(p) = <<>> /\ Bye(p)' = <<>> BY <1>5 DEF Bye
    <2>2. z \o <<>> = z BY <1>9, ConcatEmptySeq
    <2> QED BY <2>1, <2>2, <1>6, <1>8
  <1>16. Runs(q, y, z2)'
    <2>1. Sound(peer[q], q, y) BY <1>8, SoundGrows
    <2>2. Own(peer[q].exec.timeline, y)
      <3>1. peer[q].exec.timeline.player = q BY <1>8 DEF Sound
      <3> QED BY <3>1, <1>8 DEF Own, Quiet
    <2> QED BY <2>1, <2>2, <1>1, <1>4, <1>5, <1>8, <1>12, <1>15 DEF Runs
  <1> HIDE DEF h2, z2
  <1>17. Pair(p, y, k2, r2, h2, l, u, z2)' BY <1>3, <1>4, <1>14, <1>16 DEF Pair
  <1> QED BY <1>7, <1>17 DEF TalkInv

\* A call that hears that the other session has ended.
LEMMA FinishClosed ==
    ASSUME GameTypes, NEW p \in Ports, NEW g, NEW k, NEW r, NEW h, NEW l, NEW u, NEW z,
           Pair(p, g, k, r, h, l, u, z), status[Other(p)] # "up", NEW w, w.err = "closed",
           NEW n, Finish(p, w, n)
    PROVE  TalkInv'
  <1> DEFINE q == Other(p)
  <1>1. q \in Ports /\ q # p /\ Other(q) = p /\ \A i \in Ports : i = p \/ i = q BY TwoPorts
  <1>2. w.err # None BY SessionAssumption
  <1>3. peer' = peer
    <2>1. peer' = [peer EXCEPT ![p] = peer[p]] BY <1>2 DEF Finish
    <2> QED BY <2>1 DEF GameTypes
  <1>4. /\ status'[p] = "closed" /\ status'[q] = status[q]
        /\ status' \in [Ports -> {"up", "stopped", "closed", "protocol"}]
    BY <1>1, <1>2 DEF Finish, GameTypes
  <1>5. chan' = [i \in Ports |-> chan'[i]] BY DEF Finish, GameTypes
  <1>6. GameTypes' BY <1>3, <1>4, <1>5 DEF GameTypes
  <1>7. Runs(p, g, h)' BY <1>3, <1>4 DEF Pair, Runs
  <1>8. Runs(q, g, z)' BY <1>3, <1>4 DEF Pair, Runs
  <1>9. Pair(p, g, k, r, h, l, u, z)' BY <1>3, <1>7, <1>8 DEF Pair
  <1> QED BY <1>6, <1>9 DEF TalkInv

\* What a batch finds.
LEMMA ArrivalCases ==
    ASSUME NEW p \in Ports, NEW g, NEW k, NEW r, NEW h, NEW l, NEW u, NEW z,
           Pair(p, g, k, r, h, l, u, z), status[p] = "up", NEW n \in Arrivals(p)
    PROVE  \/ n \in 0 .. Len(h) /\ Events(p, n) = First(h, n)
           \/ /\ status[Other(p)] # "up"
              /\ Farewell(Events(p, n), h)
  <1> DEFINE q == Other(p)
             x == Bye(q)
  <1>1. h \in Seq(Messages) /\ chan[p] = h \o x /\ Sound(peer[q], q, g)
        /\ Followed(chan[p], h, x)
    BY DEF Pair, Runs, Speaks, Followed
  <1>2. /\ x \in Seq(Messages)
        /\ status[q] # "up" => \E m \in Messages : m.type = "Close" /\ x = <<m>> /\ Len(x) = 1
    BY <1>1, ByeFacts
  <1>3. n \in 0 .. Len(chan[p]) BY DEF Arrivals
  <1>4. status[q] = "up" => x = <<>> BY DEF Bye
  <1> HIDE DEF x
  <1>5. Len(h \o x) = Len(h) + Len(x) /\ Len(h) \in Nat /\ Len(x) \in Nat
        /\ h \o x \in Seq(Messages)
    BY <1>1, <1>2
  <1>6. CASE n \in 0 .. Len(h)
    <2>1. First(chan[p], n) = First(h, n) BY <1>1, <1>2, <1>6, HeardSplit
    <2>2. Events(p, n) = First(chan[p], n) BY DEF Events, First
    <2> QED BY <1>6, <2>1, <2>2
  <1>7. CASE n \notin 0 .. Len(h)
    <2>1. n \in Nat /\ n > Len(h) /\ n <= Len(h) + Len(x) BY <1>1, <1>3, <1>5, <1>7
    <2>2. status[q] # "up"
      <3>1. x = <<>> => Len(x) = 0 OBVIOUS
      <3> QED BY <3>1, <2>1, <1>4, <1>5
    <2>3. PICK m \in Messages : m.type = "Close" /\ x = <<m>> /\ Len(x) = 1 BY <2>2, <1>2
    <2>4. n = Len(h \o x) BY <2>1, <2>3, <1>5
    <2>5. chan[p] \in Seq(Messages) /\ n = Len(chan[p]) BY <1>1, <1>5, <2>4
    <2>6. Events(p, n) = chan[p] BY <2>5, SubSeqFull DEF Events
    <2>7. Farewell(Events(p, n), h) BY <2>3, <2>6, <1>1 DEF Farewell
    <2> QED BY <2>2, <2>7
  <1> QED BY <1>6, <1>7

\* fn poll and the first half of fn step: what the batch leaves.
LEMMA BatchCases ==
    ASSUME InputDelay >= 1, Roomy,
           NEW p \in Ports, NEW g, NEW k, NEW r, NEW h, NEW l, NEW u, NEW z,
           Pair(p, g, k, r, h, l, u, z), status[p] = "up", NEW n \in Arrivals(p),
           NEW heartbeat \in BOOLEAN
    PROVE  LET x == Batch(peer[p], Events(p, n), heartbeat)
           IN  \/ /\ n \in 0 .. Len(h)
                  /\ Fine(x, p, g, peer[p].exec.released, Rest(h, n), peer[Other(p)], l, u, z, FALSE)
                  /\ Settled(x)
               \/ status[Other(p)] # "up" /\ x.err = "closed"
  <1> DEFINE s == peer[p]
             o == peer[Other(p)]
             shown == s.exec.released
  <1>1. Fine(Begin(s), p, g, shown, h, o, l, u, z, TRUE) BY BeginFine, FineWeakens
  <1>2. Speaks(g, Other(p), h) BY DEF Pair, Runs
  <1> HIDE DEF s, o, shown
  <1>3. ASSUME n \in 0 .. Len(h)
        PROVE  LET x == Batch(s, First(h, n), heartbeat)
               IN  Fine(x, p, g, shown, Rest(h, n), o, l, u, z, FALSE) /\ Settled(x)
    BY <1>1, <1>2, <1>3, BatchTalk DEF First
  <1>4. ASSUME NEW m \in Messages, m.type = "Close"
        PROVE  Batch(s, h \o <<m>>, heartbeat).err = "closed"
    BY <1>1, <1>2, <1>4, BatchClosed
  <1>5. CASE n \in 0 .. Len(h) /\ Events(p, n) = First(h, n)
    BY <1>3, <1>5 DEF s, o, shown
  <1>6. CASE status[Other(p)] # "up" /\ Farewell(Events(p, n), h)
    <2>1. PICK m \in Messages : m.type = "Close" /\ Events(p, n) = h \o <<m>>
      BY <1>6 DEF Farewell
    <2>2. Batch(s, Events(p, n), heartbeat).err = "closed" BY <1>4, <2>1
    <2> QED BY <2>2, <1>6 DEF s
  <1>7. \/ n \in 0 .. Len(h) /\ Events(p, n) = First(h, n)
        \/ status[Other(p)] # "up" /\ Farewell(Events(p, n), h)
    BY ArrivalCases
  <1> QED BY <1>5, <1>6, <1>7

\* fn step.
LEMMA StepAgrees ==
    ASSUME InputDelay >= 1, Roomy, TalkInv,
           NEW p \in Ports, NEW b \in Buttons, NEW n \in Arrivals(p), NEW heartbeat \in BOOLEAN,
           Step(p, b, n, heartbeat)
    PROVE  TalkInv'
  <1>1. PICK g, k, r, h, l, u, z : Pair(p, g, k, r, h, l, u, z) BY PairOf
  <1> DEFINE x == Batch(peer[p], Events(p, n), heartbeat)
             w == IF x.err = None THEN StepWork(x, p, b) ELSE x
             shown == peer[p].exec.released
             o == peer[Other(p)]
  <1>2. GameTypes /\ status[p] = "up" /\ Finish(p, w, n) BY DEF TalkInv, Step
  <1>3. \/ /\ n \in 0 .. Len(h) /\ Fine(x, p, g, shown, Rest(h, n), o, l, u, z, FALSE)
           /\ Settled(x)
        \/ status[Other(p)] # "up" /\ x.err = "closed"
    BY ZenonT(30), <1>1, <1>2, BatchCases
  <1> HIDE DEF x, shown
  <1>4. CASE /\ n \in 0 .. Len(h) /\ Fine(x, p, g, shown, Rest(h, n), o, l, u, z, FALSE)
             /\ Settled(x)
    <2>1. w = StepWork(x, p, b) BY <1>4 DEF Fine, Turn
    <2> HIDE DEF w, o
    <2>2. PICK y : /\ Grows(g, y) /\ Quiet(g, y, Other(p))
                   /\ Fine(w, p, y, shown, Rest(h, n), o, l, u, z, FALSE)
                   /\ w.s.exec.timeline.dirty = None
      BY <1>4, <2>1, StepTalk
    <2> QED BY <2>2, <1>1, <1>2, <1>4, FinishTalk DEF o
  <1>5. CASE status[Other(p)] # "up" /\ x.err = "closed"
    <2>1. w.err = "closed" BY <1>5, SessionAssumption
    <2> HIDE DEF w
    <2> QED BY <2>1, <1>1, <1>2, <1>5, FinishClosed
  <1> QED BY <1>3, <1>4, <1>5

\* A game is as long as itself.
LEMMA SameGame ==
    ASSUME NEW s, NEW p, NEW g, Sound(s, p, g), NEW q
    PROVE  Grows(g, g) /\ Quiet(g, g, q)
  <1>1. IsMap(g, Entries) BY SessionNumbers
  <1> QED BY <1>1 DEF Grows, Quiet

\* fn poll and fn accept_event.
LEMMA PollAgrees ==
    ASSUME InputDelay >= 1, Roomy, TalkInv,
           NEW p \in Ports, NEW n \in Arrivals(p), NEW heartbeat \in BOOLEAN,
           Poll(p, n, heartbeat)
    PROVE  TalkInv'
  <1>1. PICK g, k, r, h, l, u, z : Pair(p, g, k, r, h, l, u, z) BY PairOf
  <1> DEFINE w == Batch(peer[p], Events(p, n), heartbeat)
             shown == peer[p].exec.released
             o == peer[Other(p)]
  <1>2. GameTypes /\ status[p] = "up" /\ Finish(p, w, n) BY DEF TalkInv, Poll
  <1>3. \/ /\ n \in 0 .. Len(h) /\ Fine(w, p, g, shown, Rest(h, n), o, l, u, z, FALSE)
           /\ Settled(w)
        \/ status[Other(p)] # "up" /\ w.err = "closed"
    BY ZenonT(30), <1>1, <1>2, BatchCases
  <1>4. Grows(g, g) /\ Quiet(g, g, Other(p))
    <2>1. Sound(peer[p], p, g) BY <1>1 DEF Pair, Runs
    <2> QED BY <2>1, SameGame
  <1> HIDE DEF w, shown, o
  <1>5. CASE /\ n \in 0 .. Len(h) /\ Fine(w, p, g, shown, Rest(h, n), o, l, u, z, FALSE)
             /\ Settled(w)
    <2>1. w.s.exec.timeline.dirty = None BY <1>5 DEF Settled
    <2> QED BY <2>1, <1>1, <1>2, <1>4, <1>5, FinishTalk DEF o
  <1>6. CASE status[Other(p)] # "up" /\ w.err = "closed"
    BY <1>1, <1>2, <1>6, FinishClosed
  <1> QED BY <1>3, <1>5, <1>6

\* fn request_pause.
LEMMA RequestAgrees ==
    ASSUME InputDelay >= 1, TalkInv, NEW p \in Ports, NEW paused \in BOOLEAN,
           RequestPause(p, paused)
    PROVE  TalkInv'
  <1>1. PICK g, k, r, h, l, u, z : Pair(p, g, k, r, h, l, u, z) BY PairOf
  <1> DEFINE s == peer[p]
             c == Desire(s.pause, paused)
             f == Frame(s)
             w == Send(Begin([s EXCEPT !.pause = Reconcile(c, f)]), Change(c, f))
             shown == s.exec.released
             o == peer[Other(p)]
  <1>2. GameTypes /\ status[p] = "up" /\ Finish(p, w, 0) BY DEF TalkInv, RequestPause
  <1>3. Fine(Begin(s), p, g, shown, h, o, l, u, z, FALSE) BY <1>1, BeginFine
  <1>4. /\ Sound(s, p, g) /\ h \in Seq(Messages) /\ s.exec.timeline.dirty = None
    BY <1>1 DEF Pair, Runs, Speaks
  <1> HIDE DEF s, shown, o
  <1>5. Fine(w, p, g, shown, h, o, l, u, z, FALSE) /\ w.s.exec = s.exec BY <1>3, RequestTalk
  <1> HIDE DEF w
  <1>6. Grows(g, g) /\ Quiet(g, g, Other(p)) BY <1>4, SameGame
  <1>7. Rest(h, 0) = h /\ 0 \in 0 .. Len(h) 
    <2>1. Rest(h, 0) = h /\ Len(h) \in Nat BY <1>4, RestFacts
    <2> QED BY <2>1
  <1>8. Fine(w, p, g, shown, Rest(h, 0), o, l, u, z, FALSE) BY <1>5, <1>7
  <1>9. w.s.exec.timeline.dirty = None BY <1>4, <1>5
  <1> QED BY <1>1, <1>2, <1>6, <1>7, <1>8, <1>9, FinishTalk DEF o

\* The player ends the session.
LEMMA StopAgrees ==
    ASSUME TalkInv, NEW p \in Ports, Stop(p)
    PROVE  TalkInv'
  <1>1. PICK g, k, r, h, l, u, z : Pair(p, g, k, r, h, l, u, z) BY PairOf
  <1> DEFINE q == Other(p)
  <1>2. q \in Ports /\ q # p /\ Other(q) = p BY TwoPorts
  <1>3. /\ chan'[p] = <<>> /\ chan'[q] = chan[q] \o Goodbye(peer[p])
        /\ chan' = [i \in Ports |-> chan'[i]] /\ peer' = peer /\ status[p] = "up"
        /\ status'[p] = "stopped" /\ status'[q] = status[q]
        /\ status' \in [Ports -> {"up", "stopped", "closed", "protocol"}]
    BY <1>2 DEF Stop, TalkInv, GameTypes
  <1>4. GameTypes' BY <1>3 DEF TalkInv, GameTypes
  <1>5. Runs(p, g, h) /\ Runs(q, g, z) BY <1>1 DEF Pair
  <1>6. Runs(p, g, h)' BY <1>3, <1>5 DEF Runs
  <1>7. status[q] = "up" => chan'[q] = z \o Bye(p)'
    <2>1. Bye(p) = <<>> /\ Bye(p)' = Goodbye(peer[p]) BY <1>3 DEF Bye
    <2>2. z \in Seq(Messages) BY <1>5 DEF Runs, Speaks
    <2>3. z \o <<>> = z BY <2>2, ConcatEmptySeq
    <2>4. status[q] = "up" => chan[q] = z \o Bye(p) BY <1>2, <1>5 DEF Runs
    <2> QED BY <2>1, <2>3, <2>4, <1>3
  <1>8. Runs(q, g, z)' BY <1>2, <1>3, <1>5, <1>7 DEF Runs
  <1>9. Pair(p, g, k, r, h, l, u, z)' BY <1>1, <1>3, <1>6, <1>8 DEF Pair
  <1> QED BY <1>4, <1>9 DEF TalkInv

\* Session::start, as each session sees it.
LEMMA StartSide ==
    ASSUME NEW p \in Ports, NEW g
    PROVE  LET s == Start(p)
           IN  /\ Side(s, InputDelay, 0, g) /\ Informed(s, FALSE)
               /\ Sampled(s) = InputDelay /\ s.exec.committed = 0
               /\ s.progress = [frame |-> 0, confirmed |-> 0]
               /\ Point(s) = [frame |-> 0, confirmed |-> 0]
               /\ s.pause = NewPause /\ Frame(s) = 0
  <1> DEFINE s == Start(p)
             t == WithDelay(p)
             a == [frame |-> 0, confirmed |-> 0]
  <1>1. /\ s.exec = Fresh(p) /\ s.pause = NewPause /\ s.hashes = NoHashes /\ s.sampled = None
        /\ s.progress = a
    BY DEF Start
  <1>2. Fresh(p).timeline = t /\ Fresh(p).committed = 0 BY DEF Fresh
  <1>3. /\ t.player = p /\ t.frame = 0 /\ t.confirmed = InputDelay
        /\ t.inputs = [f \in 0 .. InputDelay - 1 |-> [i \in Ports |-> Neutral]]
    BY DEF WithDelay
  <1>4. PREDICTION_WINDOW \in Nat /\ InputDelay \in Nat BY Numbers
  <1>5. Holds(t, InputDelay)
    <2> SUFFICES ASSUME NEW x \in Nat, ~(x < InputDelay)
                 PROVE  Entry(t.inputs, x)[Other(t.player)] = None
      BY DEF Holds
    <2>1. x \notin DOMAIN t.inputs BY <1>3, <1>4
    <2>2. Other(t.player) \in Ports BY <1>3, TwoPorts
    <2> QED BY <2>1, <2>2 DEF Entry
  <1> HIDE DEF s, t
  <1>6. Frame(s) = 0 /\ Confirmed(s) = 0 /\ Sampled(s) = InputDelay /\ s.exec.committed = 0
    BY <1>1, <1>2, <1>3, <1>4 DEF Frame, Confirmed, ConfirmedFrame, Lesser, Sampled
  <1>7. Reach(s, InputDelay)
    <2>1. InputDelay = 0 + InputDelay /\ InputDelay <= 0 + Span BY <1>4 DEF Span
    <2> QED BY <2>1, <1>1, <1>2, <1>5, <1>6 DEF Reach
  <1>8. Compared(s.hashes, s.exec.committed, g, 0)
    <2>1. \A x : ~(Multiple(x) /\ 0 < x /\ x <= 0) BY DEF Multiple
    <2>2. /\ NoHashes.expected = [k \in {} |-> 0] /\ NoHashes.pending = [k \in {} |-> 0]
          /\ NoHashes.matched = [frame |-> 0, hash |-> None]
          /\ NoHashes = [expected |-> NoHashes.expected, pending |-> NoHashes.pending,
                         matched |-> NoHashes.matched]
      BY DEF NoHashes
    <2>3. DOMAIN NoHashes.expected = {} /\ DOMAIN NoHashes.pending = {}
          /\ NoHashes.matched.frame = 0
      BY <2>2
    <2>4. 0 \in Nat /\ 0 <= 0 OBVIOUS
    <2> QED BY <2>1, <2>2, <2>3, <2>4, <1>1, <1>6 DEF Compared
  <1>9. Behind(InputDelay, 0)
    <2>1. \A x \in Nat : x > 0 => ~(x + Span <= InputDelay) BY <1>4 DEF Span
    <2> QED BY <2>1 DEF Behind, Multiple
  <1>10. IsPoint(a) BY DEF IsPoint
  <1>11. Informed(s, FALSE)
    <2>1. NewPause.reported = None /\ Running # None BY NewPact
    <2> QED BY <2>1, <1>1 DEF Informed, Told
  <1>12. Point(s) = a BY <1>6 DEF Point
  <1>13. Side(s, InputDelay, 0, g) BY <1>1, <1>4, <1>7, <1>8, <1>9, <1>10 DEF Side
  <1> QED BY <1>1, <1>6, <1>11, <1>12, <1>13 DEF s

\* Session::start, of both.
LEMMA StartTalk == Init => TalkInv
  <1> SUFFICES ASSUME Init PROVE TalkInv OBVIOUS
  <1>1. GameTypes /\ \E g : \A p \in Ports : GamePeer(p, g) BY StartGame DEF GameInv
  <1>2. PICK g : \A p \in Ports : GamePeer(p, g) BY <1>1
  <1>3. \A p \in Ports : peer[p] = Start(p) /\ chan[p] = <<>> /\ status[p] = "up" BY DEF Init
  <1>4. 0 \in Ports /\ Other(0) \in Ports /\ Other(Other(0)) = 0
    <2>1. 0 \in Ports BY DEF Ports
    <2> QED BY <2>1, TwoPorts
  <1>5. ASSUME NEW p \in Ports PROVE Runs(p, g, <<>>)
    <2>1. Informed(peer[p], FALSE) BY <1>3, StartSide
    <2>2. Speaks(g, Other(p), <<>>) BY SpeaksNothing
    <2>3. Other(p) \in Ports BY TwoPorts
    <2>4. Bye(Other(p)) = <<>> /\ chan[p] = <<>> BY <2>3, <1>3 DEF Bye
    <2>5. <<>> \o <<>> = <<>> OBVIOUS
    <2>6. chan[p] = <<>> \o Bye(Other(p)) BY <2>4, <2>5
    <2> QED BY <2>1, <2>2, <2>6, <1>2, <1>3 DEF Runs, GamePeer
  <1> DEFINE s == peer[0]
             o == peer[Other(0)]
             a == [frame |-> 0, confirmed |-> 0]
  <1>6. /\ Side(s, InputDelay, 0, g) /\ Sampled(s) = InputDelay /\ s.exec.committed = 0
        /\ s.progress = a /\ Point(s) = a /\ s.pause = NewPause /\ Frame(s) = 0
    BY <1>3, <1>4, StartSide
  <1>7. /\ Side(o, InputDelay, 0, g) /\ Sampled(o) = InputDelay /\ o.exec.committed = 0
        /\ o.progress = a /\ Point(o) = a /\ o.pause = NewPause /\ Frame(o) = 0
    BY <1>3, <1>4, StartSide
  <1>8. Path(<<>>, g, InputDelay, 0, a, InputDelay, 0, a)
    <2>1. IsPoint(a) /\ a.confirmed <= a.frame /\ 0 \in Nat BY DEF IsPoint
    <2>2. InputDelay \in Nat BY Numbers
    <2> HIDE DEF a
    <2> QED BY <2>1, <2>2, PathOne
  <1>9. Pact(NewPause, 0, InputDelay, <<>>, NewPause, 0, InputDelay, <<>>)
    <2>1. 0 \in Nat OBVIOUS
    <2> QED BY <2>1, NewPact
  <1> HIDE DEF s, o, a
  <1>10. Duet(s, InputDelay, 0, <<>>, o, InputDelay, 0, <<>>, g)
    BY <1>6, <1>7, <1>8, <1>9 DEF Duet, Hears
  <1>11. Pair(0, g, InputDelay, 0, <<>>, InputDelay, 0, <<>>)
    BY <1>4, <1>5, <1>10 DEF Pair, s, o
  <1> QED BY <1>1, <1>4, <1>11 DEF TalkInv

\* Every step keeps the agreement.
LEMMA NextTalk ==
    ASSUME InputDelay >= 1, Roomy, TalkInv, [Next]_vars
    PROVE  TalkInv'
  <1>1. CASE UNCHANGED vars
    <2>1. peer' = peer /\ chan' = chan /\ status' = status BY <1>1 DEF vars
    <2>2. GameTypes' BY <2>1 DEF TalkInv, GameTypes
    <2>3. PICK p \in Ports : \E g, k, r, h, l, u, z : Pair(p, g, k, r, h, l, u, z)
      BY DEF TalkInv
    <2>4. PICK g, k, r, h, l, u, z : Pair(p, g, k, r, h, l, u, z) BY <2>3
    <2>5. \A i : Bye(i)' = Bye(i) BY <2>1 DEF Bye
    <2>6. \A i, x : Runs(i, g, x)' <=> Runs(i, g, x) BY <2>1, <2>5 DEF Runs
    <2>7. Pair(p, g, k, r, h, l, u, z)' BY <2>1, <2>4, <2>6 DEF Pair
    <2> QED BY <2>2, <2>7 DEF TalkInv
  <1>2. CASE Next
    <2>1. PICK p \in Ports :
            \/ \E n \in Arrivals(p), heartbeat \in Heartbeats :
                \/ \E b \in Buttons : Step(p, b, n, heartbeat)
                \/ Poll(p, n, heartbeat)
            \/ \E paused \in BOOLEAN : RequestPause(p, paused)
            \/ Stop(p)
      BY <1>2 DEF Next
    <2>2. Heartbeats \subseteq BOOLEAN BY SessionAssumption
    <2>3. ASSUME NEW n \in Arrivals(p), NEW heartbeat \in Heartbeats, NEW b \in Buttons,
                 Step(p, b, n, heartbeat)
          PROVE  TalkInv'
      BY <2>2, <2>3, StepAgrees
    <2>4. ASSUME NEW n \in Arrivals(p), NEW heartbeat \in Heartbeats, Poll(p, n, heartbeat)
          PROVE  TalkInv'
      BY <2>2, <2>4, PollAgrees
    <2>5. ASSUME NEW paused \in BOOLEAN, RequestPause(p, paused) PROVE TalkInv'
      BY <2>5, RequestAgrees
    <2>6. ASSUME Stop(p) PROVE TalkInv' BY <2>6, StopAgrees
    <2> QED BY <2>1, <2>3, <2>4, <2>5, <2>6
  <1> QED BY <1>1, <1>2

\* A player who has been told of the votes as they stand has stopped, with every
\* frame confirmed.
LEMMA ToldStopped ==
    ASSUME NEW p \in Ports, NEW g, NEW k, NEW r, NEW h, NEW l, NEW u, NEW z,
           Pair(p, g, k, r, h, l, u, z), peer[p].pause.reported = Flags(peer[p].pause)
    PROVE  /\ Lasting(peer[p].pause, h) /\ peer[p].pause.episode = Frame(peer[p])
           /\ Confirmed(peer[p]) = Frame(peer[p])
           /\ Frame(peer[p]) <= peer[p].exec.timeline.confirmed
  <1> DEFINE s == peer[p]
             o == peer[Other(p)]
             y == s.exec.timeline.confirmed
  <1>1. /\ Sound(s, p, g) /\ Sound(o, Other(p), g) /\ Duet(s, k, r, h, o, l, u, z, g)
        /\ Told(s.pause, Frame(s), y, FALSE)
    BY DEF Pair, Runs, Informed
  <1>2. Pact(s.pause, Frame(s), k, h, o.pause, Frame(o), l, z) BY <1>1 DEF Duet
  <1>3. /\ s.pause \in Controls /\ Frame(s) \in Nat /\ y \in Nat
        /\ Confirmed(s) = Lesser(Frame(s), y)
    BY <1>1, SessionNumbers
  <1>4. o.pause \in Controls /\ Frame(o) \in Nat BY <1>1, SessionNumbers
  <1>5. k \in Nat /\ l \in Nat /\ h \in Seq(Messages) /\ z \in Seq(Messages)
    BY <1>1, DuetNumbers DEF Counts
  <1>6. s.pause.reported = Flags(s.pause) OBVIOUS
  <1> HIDE DEF s, o, y
  <1>7. Lasting(s.pause, h) /\ s.pause.episode = Frame(s) /\ Frame(s) <= y
    BY <1>1, <1>2, <1>3, <1>4, <1>5, <1>6, ToldStops
  <1>8. Confirmed(s) = Frame(s) BY <1>3, <1>7 DEF Lesser
  <1> QED BY <1>7, <1>8 DEF s, y

\* And the other, if told as well, has stopped no later.
LEMMA ToldNoLater ==
    ASSUME TalkInv, NEW p \in Ports, \A i \in Ports : peer[i].pause.reported = Flags(peer[i].pause)
    PROVE  Frame(peer[Other(p)]) <= Frame(peer[p])
  <1>1. PICK g, k, r, h, l, u, z : Pair(p, g, k, r, h, l, u, z) BY PairOf
  <1> DEFINE q == Other(p)
             s == peer[p]
             o == peer[q]
  <1>2. q \in Ports /\ Other(q) = p BY TwoPorts
  <1>3. PICK g2, k2, r2, h2, l2, u2, z2 : Pair(q, g2, k2, r2, h2, l2, u2, z2) BY <1>2, PairOf
  <1>4. Lasting(s.pause, h) /\ s.pause.episode = Frame(s) BY <1>1, ToldStopped
  <1>5. o.pause.episode = Frame(o) BY <1>2, <1>3, ToldStopped
  <1>6. /\ Sound(s, p, g) /\ Sound(o, q, g) /\ Duet(s, k, r, h, o, l, u, z, g)
        /\ Side(o, l, u, g) /\ Pact(s.pause, Frame(s), k, h, o.pause, Frame(o), l, z)
    BY <1>1 DEF Pair, Runs, Duet
  <1> HIDE DEF s, o, q
  <1>7. s.pause \in Controls /\ Frame(s) \in Nat BY <1>6, SessionNumbers
  <1>8. o.pause \in Controls /\ Frame(o) \in Nat BY <1>6, SessionNumbers
  <1>9. k \in Nat /\ l \in Nat /\ h \in Seq(Messages) /\ z \in Seq(Messages)
    BY <1>6, DuetNumbers DEF Counts
  <1>10. Frame(o) <= l + PREDICTION_WINDOW BY <1>6, SideNumbers
  <1>11. Frame(o) <= Frame(s)
    BY <1>4, <1>5, <1>6, <1>7, <1>8, <1>9, <1>10, StopsNoLater
  <1> QED BY <1>11 DEF s, o, q

\* Two machines that have simulated the same frames, all confirmed, are in the same
\* state.
LEMMA SameCore ==
    ASSUME NEW e, NEW d, NEW g, ExecutionInv(e, g), ExecutionInv(d, g),
           e.timeline.dirty = None, d.timeline.dirty = None,
           e.timeline.frame = d.timeline.frame,
           e.timeline.frame <= e.timeline.confirmed, d.timeline.frame <= d.timeline.confirmed
    PROVE  e.core = d.core
  <1>1. /\ e.timeline.frame \in Nat /\ e.timeline.confirmed \in Nat
        /\ d.timeline.frame \in Nat /\ d.timeline.confirmed \in Nat
    BY ExecutionFacts
  <1>2. /\ DOMAIN e.core = 0 .. e.timeline.frame - 1 /\ DOMAIN d.core = 0 .. d.timeline.frame - 1
        /\ e.core = [f \in DOMAIN e.core |-> e.core[f]]
        /\ d.core = [f \in DOMAIN d.core |-> d.core[f]]
    BY DEF ExecutionInv, ExecutionType, IsMap
  <1>3. ASSUME NEW f \in DOMAIN e.core PROVE e.core[f] = d.core[f]
    <2>1. f < e.timeline.confirmed /\ f < d.timeline.confirmed /\ f \in DOMAIN d.core
      BY <1>1, <1>2
    <2>2. e.core[f] = g[f] BY <2>1, ConfirmedCore
    <2>3. d.core[f] = g[f] BY <2>1, ConfirmedCore
    <2> QED BY <2>2, <2>3
  <1> QED BY <1>2, <1>3

\* The invariant says what a pause must be.
LEMMA TalkPaused ==
    ASSUME TalkInv
    PROVE  PausedTogether
  <1> SUFFICES ASSUME \A p \in Ports : peer[p].pause.reported = Flags(peer[p].pause)
               PROVE  /\ Frame(peer[0]) = Frame(peer[1])
                      /\ peer[0].exec.core = peer[1].exec.core
                      /\ \A p \in Ports : Confirmed(peer[p]) = Frame(peer[p])
    BY DEF PausedTogether
  <1>1. 0 \in Ports /\ 1 \in Ports /\ Other(0) = 1 /\ Other(1) = 0 BY DEF Ports, Other
  <1>2. ASSUME NEW p \in Ports
        PROVE  /\ Confirmed(peer[p]) = Frame(peer[p]) /\ Frame(peer[p]) \in Nat
               /\ Frame(peer[p]) <= peer[p].exec.timeline.confirmed
    <2>1. PICK g, k, r, h, l, u, z : Pair(p, g, k, r, h, l, u, z) BY PairOf
    <2>2. Sound(peer[p], p, g) BY <2>1 DEF Pair, Runs
    <2> QED BY <2>1, <2>2, ToldStopped, SessionNumbers
  <1>3. Frame(peer[0]) <= Frame(peer[1]) /\ Frame(peer[1]) <= Frame(peer[0])
    BY <1>1, ToldNoLater
  <1>4. Frame(peer[0]) = Frame(peer[1])
    <2>1. Frame(peer[0]) \in Nat /\ Frame(peer[1]) \in Nat BY <1>1, <1>2
    <2> QED BY <2>1, <1>3
  <1>5. PICK g, k, r, h, l, u, z : Pair(0, g, k, r, h, l, u, z) BY <1>1, PairOf
  <1>6. /\ ExecutionInv(peer[0].exec, g) /\ peer[0].exec.timeline.dirty = None
        /\ ExecutionInv(peer[1].exec, g) /\ peer[1].exec.timeline.dirty = None
    BY <1>1, <1>5 DEF Pair, Runs, Sound
  <1>7. peer[0].exec.core = peer[1].exec.core
    BY <1>1, <1>2, <1>4, <1>6, SameCore DEF Frame
  <1> QED BY <1>2, <1>4, <1>7

\* The two sessions stay in agreement for as long as they run: what each knows, what
\* is under way to it and where the other is fit together, whatever the order of the
\* calls.  The delay is at least one frame, and the checkpoints that Hashes may hold
\* reach as far as a player may be ahead (8 * 60 frames against 8 + 8 + 1 in the code).
THEOREM SessionsAgree ==
    ASSUME InputDelay >= 1, CAPACITY * HASH_INTERVAL >= PREDICTION_WINDOW + InputDelay + 1
    PROVE  Spec => []TalkInv
  <1>1. Roomy BY DEF Roomy, Span
  <1>2. TalkInv /\ [Next]_vars => TalkInv' BY <1>1, NextTalk
  <1> QED BY <1>2, StartTalk, PTL DEF Spec

\* NoFalseAlarm holds then: two honest sessions never end each other.  No input, vote,
\* acknowledgement, progress or checkpoint is refused by handle_event, the checkpoints
\* of the two are equal and never too many, and no rollback fails.
THEOREM SessionsNeverFail ==
    ASSUME InputDelay >= 1, CAPACITY * HASH_INTERVAL >= PREDICTION_WINDOW + InputDelay + 1
    PROVE  Spec => []NoFalseAlarm
  <1>1. TalkInv => NoFalseAlarm
    <2> SUFFICES ASSUME TalkInv, NEW p \in Ports PROVE status[p] \notin {"protocol", "rollback"}
      BY DEF NoFalseAlarm
    <2>1. PICK g, k, r, h, l, u, z : Pair(p, g, k, r, h, l, u, z) BY PairOf
    <2> QED BY <2>1 DEF Pair, Runs
  <1> QED BY <1>1, SessionsAgree, PTL

\* PausedTogether holds then: when report_pause has told both players of the votes as
\* they stand, both machines have stopped in the same state after the same frame, and
\* every frame of it is confirmed.
THEOREM PauseIsShared ==
    ASSUME InputDelay >= 1, CAPACITY * HASH_INTERVAL >= PREDICTION_WINDOW + InputDelay + 1
    PROVE  Spec => []PausedTogether
  <1>1. TalkInv => PausedTogether BY TalkPaused
  <1> QED BY <1>1, SessionsAgree, PTL
=============================================================================
