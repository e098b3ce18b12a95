--------------------------- MODULE SessionLemmas ----------------------------
(***************************************************************************)
(* What the methods of the values a session is made of preserve: of its    *)
(* timeline, of the execution driven along it, and of its PauseControl.    *)
(* The lemmas are of constant level, for every prediction window, input    *)
(* delay and retention, and are the library of the proofs about one peer   *)
(* (RollbackProofs), about the pause agreement (PausePlayProofs) and about *)
(* two sessions that play each other (SessionProofs).                      *)
(***************************************************************************)
EXTENDS Execution, PauseControl, SequenceTheorems, WellFoundedInduction,
        FiniteSetTheorems, TLAPS

-----------------------------------------------------------------------------
(* The timeline.                                                           *)

\* Every non-empty set of natural numbers has a least element.
LEMMA LeastElement ==
    ASSUME NEW S, S \subseteq Nat, S # {}
    PROVE  \E m \in S : \A n \in S : m <= n
<1>1. PICK m \in S : \A n \in S : ~(<<n, m>> \in OpToRel(<, Nat))
    BY WFMin, NatLessThanWellFounded
<1>2. \A n \in S : ~(n < m)
    BY <1>1 DEF OpToRel
<1> QED
    BY <1>2, SMT

\* A non-empty set of natural numbers with an upper bound has a greatest
\* element, and Latest is that element.
LEMMA LatestIsGreatest ==
    ASSUME NEW S, S \subseteq Nat, S # {}, NEW top \in Nat,
           \A k \in S : k <= top
    PROVE  Latest(S) \in S /\ \A k \in S : k <= Latest(S)
<1> DEFINE Gap == {top - k : k \in S}
<1>0. \A k \in S : k \in Nat /\ top - k \in Nat
    OBVIOUS
<1>1. Gap \subseteq Nat /\ Gap # {}
    BY <1>0, Zenon
<1>2. PICK d \in Gap : \A n \in Gap : d <= n
    BY <1>1, LeastElement
<1>3. PICK m \in S : d = top - m
    OBVIOUS
<1>4. \A k \in S : k <= m
    BY <1>2, <1>3
<1> QED
    BY <1>4 DEF Latest
\* update_confirmation stops at the first frame that is not full.
LEMMA ConfirmationStops ==
    ASSUME NEW inputs, IsMap(inputs, Entries), NEW from \in Nat,
           NEW top \in Nat, \A k \in DOMAIN inputs : k <= top
    PROVE  /\ Confirmation(inputs, from) \in Nat
           /\ Confirmation(inputs, from) >= from
           /\ ~Full(inputs, Confirmation(inputs, from))
           /\ \A k \in from .. Confirmation(inputs, from) - 1 : Full(inputs, k)
<1> DEFINE Gaps == {k \in Nat : k >= from /\ ~Full(inputs, k)}
           Candidates == {from} \cup {k + 1 : k \in DOMAIN inputs}
           Stop(c) == /\ c >= from
                      /\ ~Full(inputs, c)
                      /\ \A k \in from .. c - 1 : Full(inputs, k)
<1>0. DOMAIN inputs \subseteq Nat
    BY DEF IsMap
<1>1. Gaps # {}
    <2>1. ~Full(inputs, from + top + 1)
        BY <1>0 DEF Full
    <2> QED
        BY <2>1
<1>2. PICK m \in Gaps : \A n \in Gaps : m <= n
    BY <1>1, LeastElement
<1>3. Stop(m)
    BY <1>2
<1>4. m \in Candidates
    <2>1. CASE m = from
        BY <2>1
    <2>2. CASE m # from
        <3>1. m - 1 \in from .. m - 1
            BY <2>2, <1>3
        <3>2. m - 1 \in DOMAIN inputs
            BY <3>1, <1>3 DEF Full
        <3> QED
            BY <3>2
    <2> QED
        BY <2>1, <2>2
<1>5. Confirmation(inputs, from) \in Candidates /\ Stop(Confirmation(inputs, from))
    BY <1>3, <1>4 DEF Confirmation
<1>6. Candidates \subseteq Nat
    BY <1>0
<1> QED
    BY <1>5, <1>6

-----------------------------------------------------------------------------
(* The inputs a frame is simulated with.                                   *)

\* The latest known input of a port is one of the known ones.
LEMMA LatestKnown ==
    ASSUME NEW t, TimelineType(t), NEW i \in Ports, NEW f \in Nat,
           Known(t, i, f) # {}
    PROVE  /\ Latest(Known(t, i, f)) \in Known(t, i, f)
           /\ \A k \in Known(t, i, f) : k <= Latest(Known(t, i, f))
<1>1. Known(t, i, f) \subseteq Nat /\ \A k \in Known(t, i, f) : k <= f
    BY DEF Known, TimelineType, IsMap
<1> QED
    BY <1>1, LatestIsGreatest

\* Every port gets a button word.
LEMMA PortsAtType ==
    ASSUME NEW t, TimelineType(t), NEW f \in Nat
    PROVE  PortsAt(t, f) \in PortValues
<1> SUFFICES ASSUME NEW i \in Ports
             PROVE  PortsAt(t, f)[i] \in Buttons
    BY DEF PortsAt, PortValues
<1>1. CASE Known(t, i, f) = {}
    BY <1>1 DEF PortsAt, TimelineType, PortValues
<1>2. CASE Known(t, i, f) # {}
    <2>1. Latest(Known(t, i, f)) \in Known(t, i, f)
        BY <1>2, LatestKnown
    <2>2. t.inputs[Latest(Known(t, i, f))][i] \in Buttons
        BY <2>1 DEF Known, TimelineType, IsMap, Entries
    <2> QED
        BY <1>2, <2>2 DEF PortsAt
<1> QED
    BY <1>1, <1>2

\* A full frame is simulated with its own inputs.
LEMMA PortsAtFull ==
    ASSUME NEW t, TimelineType(t), NEW f \in Nat, Full(t.inputs, f)
    PROVE  PortsAt(t, f) = t.inputs[f]
<1>1. \A i \in Ports : f \in Known(t, i, f)
    BY DEF Full, Known
<1>2. \A i \in Ports : Latest(Known(t, i, f)) = f
    <2> TAKE i \in Ports
    <2>1. /\ Latest(Known(t, i, f)) \in Known(t, i, f)
          /\ f <= Latest(Known(t, i, f))
        BY <1>1, LatestKnown
    <2>2. \A k \in Known(t, i, f) : k \in Nat /\ k <= f
        BY DEF Known, TimelineType, IsMap
    <2> QED
        BY <2>1, <2>2
<1>3. PortsAt(t, f) = [i \in Ports |-> t.inputs[f][i]]
    BY <1>1, <1>2 DEF PortsAt
<1>4. t.inputs[f] \in Entries
    BY DEF Full, TimelineType, IsMap
<1> QED
    BY <1>3, <1>4 DEF Entries

\* Two timelines with the same known inputs up to a frame agree on it.
LEMMA PortsAtSame ==
    ASSUME NEW t, TimelineType(t), NEW u, NEW i \in Ports, NEW f \in Nat,
           u.base_ports[i] = t.base_ports[i],
           Known(u, i, f) = Known(t, i, f),
           \A k \in Known(t, i, f) : u.inputs[k][i] = t.inputs[k][i]
    PROVE  PortsAt(u, f)[i] = PortsAt(t, f)[i]
<1>1. CASE Known(t, i, f) = {}
    BY <1>1 DEF PortsAt
<1>2. CASE Known(t, i, f) # {}
    <2>1. Latest(Known(t, i, f)) \in Known(t, i, f)
        BY <1>2, LatestKnown
    <2> QED
        BY <1>2, <2>1 DEF PortsAt
<1> QED
    BY <1>1, <1>2

\* What Put does to the map of inputs.
LEMMA PutType ==
    ASSUME NEW inputs, IsMap(inputs, Entries), NEW f \in Nat,
           NEW p \in Ports, NEW b \in Buttons
    PROVE  IsMap(Put(inputs, f, p, b), Entries)
<1>1. Entry(inputs, f) \in Entries
    BY DEF Entry, IsMap, Entries
<1>2. [Entry(inputs, f) EXCEPT ![p] = b] \in Entries
    BY <1>1 DEF Entries
<1> QED
    BY <1>2 DEF IsMap, Put

\* The word put is there, and the other port's word is as it was.
LEMMA PutWord ==
    ASSUME NEW inputs, IsMap(inputs, Entries), NEW f \in Nat,
           NEW p \in Ports, NEW b \in Buttons, NEW i \in Ports
    PROVE  Put(inputs, f, p, b)[f][i] = IF i = p THEN b ELSE Entry(inputs, f)[i]
<1>1. Entry(inputs, f) \in Entries
    BY DEF Entry, IsMap, Entries
<1>2. Put(inputs, f, p, b)[f] = [Entry(inputs, f) EXCEPT ![p] = b]
    BY DEF Put
<1> QED
    BY <1>1, <1>2 DEF Entries

\* A full frame stays full when a word becomes known.
LEMMA PutKeepsFull ==
    ASSUME NEW inputs, IsMap(inputs, Entries), NEW f \in Nat,
           NEW p \in Ports, NEW b \in Buttons, NEW k, Full(inputs, k)
    PROVE  Full(Put(inputs, f, p, b), k)
<1>1. CASE k = f
    <2>1. \A i \in Ports : Put(inputs, f, p, b)[f][i] # None
        BY <1>1, PutWord, ButtonsAssumption DEF Full, Entry
    <2> QED
        BY <1>1, <2>1 DEF Full, Put
<1>2. CASE k # f
    BY <1>2 DEF Full, Put
<1> QED
    BY <1>1, <1>2

\* What learning port p's word for frame f changes in the inputs of a frame:
\* only port p, only from f on, and only as far as f's prediction reached.
LEMMA PortsAtPut ==
    ASSUME NEW t, TimelineType(t), NEW u, NEW f \in Nat, NEW p \in Ports,
           NEW b \in Buttons, Entry(t.inputs, f)[p] = None,
           u.inputs = Put(t.inputs, f, p, b), u.base_ports = t.base_ports,
           NEW h \in Nat
    PROVE  /\ PortsAt(u, h)[Other(p)] = PortsAt(t, h)[Other(p)]
           /\ h < f => PortsAt(u, h)[p] = PortsAt(t, h)[p]
           /\ \/ PortsAt(u, h)[p] = PortsAt(t, h)[p]
              \/ /\ PortsAt(u, h)[p] = b
                 /\ PortsAt(t, h)[p] = PortsAt(t, f)[p]
<1> DEFINE q == Other(p)
<1>0. q \in Ports /\ q # p /\ IsMap(t.inputs, Entries) /\ None \notin Buttons
    BY ButtonsAssumption DEF Other, Ports, TimelineType
<1>1. /\ DOMAIN u.inputs = DOMAIN t.inputs \cup {f}
      /\ u.inputs[f][p] = b
      /\ u.inputs[f][q] = Entry(t.inputs, f)[q]
      /\ \A k \in DOMAIN t.inputs : k # f => u.inputs[k] = t.inputs[k]
    <2>1. \A i \in Ports :
            u.inputs[f][i] = IF i = p THEN b ELSE Entry(t.inputs, f)[i]
        BY <1>0, PutWord
    <2> QED
        BY <1>0, <2>1 DEF Put
<1>2. PortsAt(u, h)[q] = PortsAt(t, h)[q]
    <2>1. \A k : k \in Known(u, q, h) <=> k \in Known(t, q, h)
        BY <1>0, <1>1 DEF Known, Entry
    <2>2. \A k \in Known(t, q, h) : u.inputs[k][q] = t.inputs[k][q]
        BY <1>0, <1>1 DEF Known, Entry
    <2>3. Known(u, q, h) = Known(t, q, h)
        BY <2>1
    <2> QED
        BY <1>0, <2>2, <2>3, PortsAtSame
<1>3. Known(u, p, h) = IF f <= h THEN Known(t, p, h) \cup {f} ELSE Known(t, p, h)
    BY <1>0, <1>1 DEF Known
<1>4. \A k \in Known(t, p, h) : k # f /\ u.inputs[k][p] = t.inputs[k][p]
    BY <1>0, <1>1 DEF Known, Entry
<1>5. CASE h < f
    <2>1. Known(u, p, h) = Known(t, p, h)
        BY <1>3, <1>5
    <2> QED
        BY <1>2, <1>4, <2>1, PortsAtSame
<1>6. CASE h >= f
    <2>1. Known(t, p, h) \subseteq Nat /\ \A k \in Known(t, p, h) : k <= h
        BY <1>0 DEF Known, IsMap
    <2>2. /\ Latest(Known(u, p, h)) \in Known(u, p, h)
          /\ \A k \in Known(u, p, h) : k <= Latest(Known(u, p, h))
        BY <1>3, <1>6, <2>1, LatestIsGreatest
    <2>3. Known(u, p, h) = Known(t, p, h) \cup {f}
        BY <1>3, <1>6
    <2>4. PortsAt(u, h)[p] = u.inputs[Latest(Known(u, p, h))][p]
        BY <2>2 DEF PortsAt
    <2>5. CASE Latest(Known(u, p, h)) = f
        <3>1. \A k \in Known(t, p, h) : k <= f
            BY <2>2, <2>3, <2>5
        <3>2. Known(t, p, h) = Known(t, p, f)
            BY <1>0, <1>6, <3>1 DEF Known, IsMap
        <3>3. PortsAt(t, h)[p] = PortsAt(t, f)[p]
            BY <3>2 DEF PortsAt
        <3> QED
            BY <1>1, <1>2, <1>6, <2>4, <2>5, <3>3
    <2>6. CASE Latest(Known(u, p, h)) # f
        <3>1. Latest(Known(u, p, h)) \in Known(t, p, h)
            BY <2>2, <2>3, <2>6
        <3>2. /\ Latest(Known(t, p, h)) \in Known(t, p, h)
              /\ \A k \in Known(t, p, h) : k <= Latest(Known(t, p, h))
            BY <3>1, LatestKnown
        <3>3. Latest(Known(u, p, h)) = Latest(Known(t, p, h))
            BY <2>1, <2>2, <2>3, <3>1, <3>2
        <3>4. PortsAt(t, h)[p] = t.inputs[Latest(Known(t, p, h))][p]
            BY <3>1 DEF PortsAt
        <3> QED
            BY <1>2, <1>4, <1>6, <2>4, <3>1, <3>3, <3>4
    <2> QED
        BY <2>5, <2>6
<1> QED
    BY <1>5, <1>6

-----------------------------------------------------------------------------
(* Retiring.                                                               *)

\* The fields of a retired timeline.
LEMMA RetireFields ==
    ASSUME NEW t, TimelineType(t)
    PROVE  /\ TimelineType(Retire(t))
           /\ Retire(t).player = t.player
           /\ Retire(t).frame = t.frame
           /\ Retire(t).confirmed = t.confirmed
           /\ Retire(t).dirty = t.dirty
           /\ Retire(t).base_ports = PortsAt(t, Oldest(t))
           /\ DOMAIN Retire(t).executed
                = {f \in DOMAIN t.executed : f >= ConfirmedFrame(t)}
           /\ \A f \in DOMAIN Retire(t).executed :
                Retire(t).executed[f] = t.executed[f]
           /\ DOMAIN Retire(t).inputs = {f \in DOMAIN t.inputs : f >= Oldest(t)}
           /\ \A f \in DOMAIN Retire(t).inputs :
                Retire(t).inputs[f] = t.inputs[f]
<1>1. /\ ConfirmedFrame(t) \in Nat
      /\ Oldest(t) \in Nat
    BY RetainedAssumption
    DEF TimelineType, ConfirmedFrame, Lesser, Oldest, Monus
<1>2. PortsAt(t, Oldest(t)) \in PortValues
    BY <1>1, PortsAtType
<1> DEFINE kept   == {f \in DOMAIN t.executed : f >= ConfirmedFrame(t)}
           recent == {f \in DOMAIN t.inputs : f >= Oldest(t)}
           executed == [f \in kept |-> t.executed[f]]
           inputs   == [f \in recent |-> t.inputs[f]]
<1>3. IsMap(executed, PortValues) /\ IsMap(inputs, Entries)
    BY DEF TimelineType, IsMap
<1> DEFINE base == PortsAt(t, Oldest(t))
<1>4. Retire(t) = [t EXCEPT !.executed = executed, !.base_ports = base,
                            !.inputs = inputs]
    BY DEF Retire
<1>5. t \in [player : Ports, frame : Nat, confirmed : Nat,
             inputs : {t.inputs}, executed : {t.executed},
             base_ports : PortValues, dirty : Nat \cup {None}]
    BY DEF TimelineType
<1> HIDE DEF executed, inputs, base
<1>6. /\ Retire(t) \in [player : Ports, frame : Nat, confirmed : Nat,
                        inputs : {inputs}, executed : {executed},
                        base_ports : {base}, dirty : Nat \cup {None}]
      /\ Retire(t).player = t.player
      /\ Retire(t).frame = t.frame
      /\ Retire(t).confirmed = t.confirmed
      /\ Retire(t).dirty = t.dirty
      /\ Retire(t).base_ports = base
      /\ Retire(t).executed = executed
      /\ Retire(t).inputs = inputs
    BY <1>4, <1>5
<1>7. TimelineType(Retire(t))
    BY <1>2, <1>3, <1>6 DEF TimelineType, base
<1> QED
    BY <1>6, <1>7 DEF executed, inputs, base

\* Retiring changes no frame that may still be simulated.
LEMMA PortsAtRetire ==
    ASSUME NEW t, TimelineType(t), NEW h \in Nat, h >= Oldest(t)
    PROVE  PortsAt(Retire(t), h) = PortsAt(t, h)
<1> DEFINE u == Retire(t)
<1>1. Oldest(t) \in Nat
    BY RetainedAssumption
    DEF TimelineType, ConfirmedFrame, Lesser, Oldest, Monus
<1>2. /\ u.base_ports = PortsAt(t, Oldest(t))
      /\ DOMAIN u.inputs = {f \in DOMAIN t.inputs : f >= Oldest(t)}
      /\ \A f \in DOMAIN u.inputs : u.inputs[f] = t.inputs[f]
      /\ TimelineType(u)
    BY RetireFields
<1> HIDE DEF u
<1> SUFFICES ASSUME NEW i \in Ports
             PROVE  PortsAt(u, h)[i] = PortsAt(t, h)[i]
    BY DEF PortsAt, u
<1>3. Known(u, i, h) = {k \in Known(t, i, h) : k >= Oldest(t)}
    BY <1>2 DEF Known
<1>4. \A k \in Known(t, i, h) : k \in Nat
    BY DEF Known, TimelineType, IsMap
<1>5. CASE Known(u, i, h) = {}
    <2>1. \A k \in Known(t, i, h) : k < Oldest(t)
        BY <1>1, <1>3, <1>4, <1>5
    <2>2. Known(t, i, Oldest(t)) = Known(t, i, h)
        BY <1>1, <1>4, <2>1 DEF Known, TimelineType, IsMap
    <2>3. PortsAt(t, Oldest(t))[i] = PortsAt(t, h)[i]
        BY <2>2 DEF PortsAt
    <2> QED
        BY <1>2, <1>5, <2>3 DEF PortsAt
<1>6. CASE Known(u, i, h) # {}
    <2>1. /\ Latest(Known(u, i, h)) \in Known(u, i, h)
          /\ \A k \in Known(u, i, h) : k <= Latest(Known(u, i, h))
        BY <1>2, <1>6, LatestKnown
    <2>2. /\ Latest(Known(t, i, h)) \in Known(t, i, h)
          /\ \A k \in Known(t, i, h) : k <= Latest(Known(t, i, h))
        BY <1>3, <1>6, LatestKnown
    <2>3. Latest(Known(u, i, h)) = Latest(Known(t, i, h))
        BY <1>1, <1>3, <1>4, <2>1, <2>2
    <2>4. Latest(Known(u, i, h)) \in DOMAIN u.inputs
        BY <2>1 DEF Known
    <2> QED
        BY <1>2, <1>3, <1>6, <2>3, <2>4 DEF PortsAt
<1> QED
    BY <1>5, <1>6

\* Retiring a timeline without a pending correction establishes the invariant.
LEMMA RetireInv ==
    ASSUME NEW t, NEW g, TimelineType(t), IsMap(g, Entries),
           t.frame <= t.confirmed + PREDICTION_WINDOW, ConfirmedFull(t),
           ExecutedSpan(t), t.dirty = None, ExecutedCurrent(t),
           \A f \in DOMAIN t.inputs : f <= t.frame + Lookahead,
           InputsRecorded(t, g)
    PROVE  TimelineInv(Retire(t), g)
<1> DEFINE u == Retire(t)
<1>0. /\ t.frame \in Nat /\ t.confirmed \in Nat
      /\ IsMap(t.inputs, Entries) /\ IsMap(t.executed, PortValues)
    BY DEF TimelineType
<1>1. /\ TimelineType(u)
      /\ u.frame = t.frame
      /\ u.confirmed = t.confirmed
      /\ u.dirty = None
      /\ DOMAIN u.executed = {f \in DOMAIN t.executed : f >= ConfirmedFrame(t)}
      /\ \A f \in DOMAIN u.executed : u.executed[f] = t.executed[f]
      /\ DOMAIN u.inputs = {f \in DOMAIN t.inputs : f >= Oldest(t)}
      /\ \A f \in DOMAIN u.inputs : u.inputs[f] = t.inputs[f]
    BY RetireFields
<1>2. /\ ConfirmedFrame(t) \in Nat
      /\ ConfirmedFrame(t) <= t.frame
      /\ ConfirmedFrame(t) <= t.confirmed
      /\ ConfirmedFrame(t) = t.frame \/ ConfirmedFrame(t) = t.confirmed
      /\ Oldest(t) \in Nat
      /\ Oldest(t) <= ConfirmedFrame(t)
      /\ ConfirmedFrame(t) > 0 => Oldest(t) < ConfirmedFrame(t)
      /\ Oldest(t) >= ConfirmedFrame(t) - RETAINED_INPUTS
    BY <1>0, RetainedAssumption DEF ConfirmedFrame, Lesser, Oldest, Monus
<1>3. \A k : k >= Oldest(t) /\ Full(t.inputs, k) => Full(u.inputs, k)
    BY <1>1 DEF Full
<1>4. \A k \in Nat : k >= Oldest(t) => PortsAt(u, k) = PortsAt(t, k)
    BY PortsAtRetire
<1> HIDE DEF u
<1>5. ConfirmedFull(u)
    <2>1. ASSUME NEW k \in 0 .. u.confirmed - 1,
                 NEW j \in DOMAIN u.inputs, j <= k
          PROVE  Full(u.inputs, k)
        <3>1. j \in DOMAIN t.inputs /\ j \in Nat /\ k >= Oldest(t)
            BY <1>0, <1>1, <1>2, <2>1 DEF IsMap
        <3>2. Full(t.inputs, k)
            BY <1>1, <2>1, <3>1 DEF ConfirmedFull
        <3> QED
            BY <1>3, <3>1, <3>2
    <2>2. ASSUME u.confirmed > 0
          PROVE  \E j \in DOMAIN u.inputs : j < u.confirmed /\ j <= u.frame
        <3>1. PICK j \in DOMAIN t.inputs : j < t.confirmed /\ j <= t.frame
            BY <1>1, <2>2 DEF ConfirmedFull
        <3>2. j \in Nat
            BY <1>0 DEF IsMap
        <3>3. CASE j >= Oldest(t)
            BY <1>1, <3>1, <3>3
        <3>4. CASE j < Oldest(t)
            <4>1. Oldest(t) < t.confirmed /\ Oldest(t) <= t.frame
                BY <1>0, <1>2, <3>2, <3>4
            <4>2. Full(t.inputs, Oldest(t))
                BY <1>0, <1>2, <3>1, <3>2, <3>4, <4>1 DEF ConfirmedFull
            <4>3. Oldest(t) \in DOMAIN u.inputs
                BY <1>1, <1>2, <4>2 DEF Full
            <4> QED
                BY <1>1, <4>1, <4>3
        <3> QED
            BY <1>2, <3>2, <3>3, <3>4
    <2> QED
        BY <2>1, <2>2 DEF ConfirmedFull
<1>6. ExecutedSpan(u)
    <2>1. DOMAIN u.executed \subseteq 0 .. u.frame - 1
        BY <1>1 DEF ExecutedSpan
    <2>2. \A f \in 0 .. u.frame - 1 :
            f >= u.confirmed \/ (\E j \in DOMAIN u.executed : j <= f)
            => f \in DOMAIN u.executed
        BY <1>0, <1>1, <1>2 DEF ExecutedSpan
    <2>3. \A f \in DOMAIN u.executed : f < u.confirmed => Full(u.inputs, f)
        BY <1>0, <1>1, <1>2, <1>3 DEF ExecutedSpan, IsMap
    <2> QED
        BY <2>1, <2>2, <2>3 DEF ExecutedSpan
<1>7. DirtyRecent(u)
    BY <1>1 DEF DirtyRecent
<1>8. ExecutedCurrent(u)
    <2> SUFFICES ASSUME NEW f \in DOMAIN u.executed
                 PROVE  u.executed[f] = PortsAt(u, f)
        BY DEF ExecutedCurrent
    <2>1. f \in DOMAIN t.executed /\ f \in Nat /\ f >= Oldest(t)
        BY <1>0, <1>1, <1>2 DEF IsMap
    <2>2. t.executed[f] = PortsAt(t, f)
        BY <2>1 DEF ExecutedCurrent, Clean
    <2> QED
        BY <1>1, <1>4, <2>1, <2>2
<1>9. InputsRecent(u)
    <2> SUFFICES ASSUME NEW f \in DOMAIN u.inputs
                 PROVE  /\ f <= u.frame + Lookahead
                        /\ f >= Monus(u.frame,
                                      PREDICTION_WINDOW + RETAINED_INPUTS)
        BY DEF InputsRecent
    <2>1. f \in DOMAIN t.inputs /\ f >= Oldest(t) /\ f \in Nat
        BY <1>0, <1>1 DEF IsMap
    <2>2. f >= t.frame - (PREDICTION_WINDOW + RETAINED_INPUTS)
        BY <1>0, <1>2, <2>1, WindowAssumption, RetainedAssumption
    <2> QED
        BY <1>0, <1>1, <2>1, <2>2, WindowAssumption, RetainedAssumption
        DEF Monus
<1>10. InputsRecorded(u, g)
    BY <1>1 DEF InputsRecorded
<1> QED
    BY <1>1, <1>5, <1>6, <1>7, <1>8, <1>9, <1>10 DEF TimelineInv, u

-----------------------------------------------------------------------------
(* Learning an input: what sample_local and receive_remote have in common. *)

\* A word that is still unknown belongs to an unconfirmed frame, unless the
\* frame is forgotten.
LEMMA UnknownUnconfirmed ==
    ASSUME NEW t, TimelineType(t), ConfirmedFull(t), NEW f \in Nat,
           NEW p \in Ports, Entry(t.inputs, f)[p] = None,
           DOMAIN t.inputs # {} => \E j \in DOMAIN t.inputs : j <= f
    PROVE  f >= t.confirmed
<1> SUFFICES ASSUME f < t.confirmed PROVE FALSE
    BY DEF TimelineType
<1>1. t.confirmed > 0 /\ f \in 0 .. t.confirmed - 1
    BY DEF TimelineType
<1>2. \E j \in DOMAIN t.inputs : j <= f
    BY <1>1 DEF ConfirmedFull
<1>3. Full(t.inputs, f)
    BY <1>1, <1>2 DEF ConfirmedFull
<1> QED
    BY <1>3 DEF Full, Entry

\* Timeline t after port p's word b for frame f has become known.
Learn(t, f, p, b) ==
    [t EXCEPT !.inputs = Put(t.inputs, f, p, b),
              !.confirmed = Confirmation(Put(t.inputs, f, p, b), t.confirmed)]

\* The fields of Learn.
LEMMA LearnFields ==
    ASSUME NEW t, TimelineType(t), InputsRecent(t),
           NEW f \in Nat, NEW p \in Ports, NEW b \in Buttons
    PROVE  /\ TimelineType(Learn(t, f, p, b))
           /\ Learn(t, f, p, b).player = t.player
           /\ Learn(t, f, p, b).frame = t.frame
           /\ Learn(t, f, p, b).executed = t.executed
           /\ Learn(t, f, p, b).base_ports = t.base_ports
           /\ Learn(t, f, p, b).dirty = t.dirty
           /\ Learn(t, f, p, b).inputs = Put(t.inputs, f, p, b)
           /\ Learn(t, f, p, b).confirmed >= t.confirmed
           /\ \A k \in t.confirmed .. Learn(t, f, p, b).confirmed - 1 :
                Full(Put(t.inputs, f, p, b), k)
<1> DEFINE inputs == Put(t.inputs, f, p, b)
           top    == t.frame + Lookahead + f
<1>1. IsMap(inputs, Entries)
    BY PutType DEF TimelineType
<1>2. top \in Nat
    BY DelayAssumption, WindowAssumption
    DEF TimelineType, Lookahead, PauseLead
<1>3. \A k \in DOMAIN inputs : k <= top
    BY DelayAssumption, WindowAssumption
    DEF TimelineType, IsMap, Lookahead, PauseLead, InputsRecent, Put
<1>4. t \in [player : Ports, frame : Nat, confirmed : Nat,
             inputs : {t.inputs}, executed : {t.executed},
             base_ports : PortValues, dirty : Nat \cup {None}]
    BY DEF TimelineType
<1> DEFINE conf == Confirmation(inputs, t.confirmed)
<1> HIDE DEF inputs, top
<1>5. /\ conf \in Nat
      /\ conf >= t.confirmed
      /\ \A k \in t.confirmed .. conf - 1 : Full(inputs, k)
    BY <1>1, <1>2, <1>3, <1>4, ConfirmationStops
<1> HIDE DEF conf
<1>6. Learn(t, f, p, b) = [t EXCEPT !.inputs = inputs, !.confirmed = conf]
    BY DEF Learn, inputs, conf
<1>7. /\ Learn(t, f, p, b) \in
            [player : Ports, frame : Nat, confirmed : Nat,
             inputs : {inputs}, executed : {t.executed},
             base_ports : PortValues, dirty : Nat \cup {None}]
      /\ Learn(t, f, p, b).player = t.player
      /\ Learn(t, f, p, b).frame = t.frame
      /\ Learn(t, f, p, b).executed = t.executed
      /\ Learn(t, f, p, b).base_ports = t.base_ports
      /\ Learn(t, f, p, b).dirty = t.dirty
      /\ Learn(t, f, p, b).inputs = inputs
      /\ Learn(t, f, p, b).confirmed = conf
    BY <1>4, <1>5, <1>6
<1>8. TimelineType(Learn(t, f, p, b))
    BY <1>1, <1>7 DEF TimelineType
<1> QED
    BY <1>5, <1>7, <1>8 DEF inputs

\* A word learnt for a frame does not affect earlier frames.
LEMMA PortsAtBefore ==
    ASSUME NEW t, TimelineType(t), InputsRecent(t), NEW f \in Nat,
           NEW p \in Ports, NEW b \in Buttons, NEW h \in Nat, h < f
    PROVE  PortsAt(Learn(t, f, p, b), h) = PortsAt(t, h)
<1> DEFINE u == Learn(t, f, p, b)
<1>1. u.inputs = Put(t.inputs, f, p, b) /\ u.base_ports = t.base_ports
    BY LearnFields
<1>2. \A k : k \in DOMAIN t.inputs => k \in Nat
    BY DEF TimelineType, IsMap
<1> HIDE DEF u
<1> SUFFICES ASSUME NEW i \in Ports
             PROVE  PortsAt(u, h)[i] = PortsAt(t, h)[i]
    BY DEF PortsAt, u
<1>3. Known(u, i, h) = Known(t, i, h)
    BY <1>1, <1>2 DEF Known, Put
<1>4. \A k \in Known(t, i, h) : u.inputs[k][i] = t.inputs[k][i]
    BY <1>1, <1>2 DEF Known, Put
<1> QED
    BY <1>1, <1>3, <1>4, PortsAtSame

\* Learn preserves every part of the invariant that is about inputs.
LEMMA LearnInv ==
    ASSUME NEW t, NEW g, TimelineInv(t, g), NEW f \in Nat, NEW p \in Ports,
           NEW b \in Buttons, Entry(t.inputs, f)[p] \in {None, b},
           Entry(t.inputs, f)[p] = None => f >= t.confirmed,
           f <= t.frame + Lookahead,
           f >= Monus(t.frame, PREDICTION_WINDOW + RETAINED_INPUTS)
    PROVE  LET u == Learn(t, f, p, b)
           IN  /\ IsMap(Put(g, f, p, b), Entries)
               /\ u.frame <= u.confirmed + PREDICTION_WINDOW
               /\ ConfirmedFull(u)
               /\ ExecutedSpan(u)
               /\ InputsRecent(u)
               /\ InputsRecorded(u, Put(g, f, p, b))
<1> DEFINE u == Learn(t, f, p, b)
<1>0. /\ TimelineType(t) /\ ConfirmedFull(t) /\ ExecutedSpan(t)
      /\ InputsRecent(t) /\ InputsRecorded(t, g) /\ IsMap(g, Entries)
      /\ t.frame <= t.confirmed + PREDICTION_WINDOW
    BY DEF TimelineInv
<1>1. /\ t.frame \in Nat /\ t.confirmed \in Nat
      /\ IsMap(t.inputs, Entries)
      /\ \A k \in DOMAIN t.inputs : k \in Nat
    BY <1>0 DEF TimelineType, IsMap
<1>2. /\ TimelineType(u)
      /\ u.frame = t.frame
      /\ u.executed = t.executed
      /\ u.inputs = Put(t.inputs, f, p, b)
      /\ u.confirmed >= t.confirmed
      /\ \A k \in t.confirmed .. u.confirmed - 1 : Full(u.inputs, k)
    BY <1>0, LearnFields
<1> HIDE DEF u
<1>3. u.confirmed \in Nat
    BY <1>2 DEF TimelineType
<1>4. \A k : Full(t.inputs, k) => Full(u.inputs, k)
    BY <1>1, <1>2, PutKeepsFull
<1>5. DOMAIN u.inputs = DOMAIN t.inputs \cup {f}
    BY <1>2 DEF Put
<1>6. f \in DOMAIN t.inputs \/ f >= t.confirmed
    BY DEF Entry
<1>7. ConfirmedFull(u)
    <2>1. ASSUME NEW k \in 0 .. u.confirmed - 1,
                 NEW j \in DOMAIN u.inputs, j <= k
          PROVE  Full(u.inputs, k)
        <3>1. CASE k >= t.confirmed
            BY <1>1, <1>2, <1>3, <3>1
        <3>2. CASE k < t.confirmed
            <4>1. j \in DOMAIN t.inputs
                BY <1>1, <1>5, <1>6, <2>1, <3>2
            <4>2. Full(t.inputs, k)
                BY <1>0, <1>1, <2>1, <3>2, <4>1 DEF ConfirmedFull
            <4> QED
                BY <1>4, <4>2
        <3> QED
            BY <1>1, <3>1, <3>2
    <2>2. ASSUME u.confirmed > 0
          PROVE  \E j \in DOMAIN u.inputs : j < u.confirmed /\ j <= u.frame
        <3>1. CASE t.confirmed > 0
            <4>1. PICK j \in DOMAIN t.inputs : j < t.confirmed /\ j <= t.frame
                BY <1>0, <3>1 DEF ConfirmedFull
            <4> QED
                BY <1>1, <1>2, <1>3, <1>5, <4>1
        <3>2. CASE t.confirmed = 0
            <4>1. Full(u.inputs, 0)
                BY <1>2, <1>3, <2>2, <3>2
            <4> QED
                BY <1>1, <1>2, <2>2, <4>1 DEF Full
        <3> QED
            BY <1>1, <3>1, <3>2
    <2> QED
        BY <2>1, <2>2 DEF ConfirmedFull
<1>8. ExecutedSpan(u)
    <2>1. DOMAIN u.executed \subseteq 0 .. u.frame - 1
        BY <1>0, <1>2 DEF ExecutedSpan
    <2>2. \A h \in 0 .. u.frame - 1 :
            h >= u.confirmed \/ (\E j \in DOMAIN u.executed : j <= h)
            => h \in DOMAIN u.executed
        BY <1>0, <1>1, <1>2, <1>3 DEF ExecutedSpan
    <2>3. ASSUME NEW h \in DOMAIN u.executed, h < u.confirmed
          PROVE  Full(u.inputs, h)
        <3>1. h \in Nat
            BY <1>1, <1>2, <2>1
        <3>2. CASE h < t.confirmed
            BY <1>0, <1>2, <1>4, <3>2 DEF ExecutedSpan
        <3>3. CASE h >= t.confirmed
            BY <1>1, <1>2, <1>3, <2>3, <3>1, <3>3
        <3> QED
            BY <1>1, <3>1, <3>2, <3>3
    <2> QED
        BY <2>1, <2>2, <2>3 DEF ExecutedSpan
<1>9. InputsRecent(u)
    BY <1>0, <1>2, <1>5 DEF InputsRecent
<1>10. IsMap(Put(g, f, p, b), Entries)
    BY <1>0, PutType
<1>11. InputsRecorded(u, Put(g, f, p, b))
    <2> SUFFICES ASSUME NEW k \in DOMAIN u.inputs, NEW i \in Ports,
                        u.inputs[k][i] # None
                 PROVE  /\ k \in DOMAIN Put(g, f, p, b)
                        /\ Put(g, f, p, b)[k][i] = u.inputs[k][i]
        BY DEF InputsRecorded
    <2>1. CASE k = f
        <3>1. u.inputs[f][i] = IF i = p THEN b ELSE Entry(t.inputs, f)[i]
            BY <1>1, <1>2, PutWord
        <3>2. Put(g, f, p, b)[f][i] = IF i = p THEN b ELSE Entry(g, f)[i]
            BY <1>0, PutWord
        <3>3. i # p => Entry(g, f)[i] = Entry(t.inputs, f)[i]
            BY <1>0, <2>1, <3>1 DEF Entry, InputsRecorded
        <3>4. f \in DOMAIN Put(g, f, p, b)
            BY DEF Put
        <3> QED
            BY <2>1, <3>1, <3>2, <3>3, <3>4
    <2>2. CASE k # f
        <3>1. k \in DOMAIN t.inputs /\ u.inputs[k] = t.inputs[k]
            BY <1>2, <1>5, <2>2 DEF Put
        <3>2. k \in DOMAIN g /\ g[k][i] = t.inputs[k][i]
            BY <1>0, <3>1 DEF InputsRecorded
        <3>3. k \in DOMAIN Put(g, f, p, b) /\ Put(g, f, p, b)[k] = g[k]
            BY <2>2, <3>2 DEF Put
        <3> QED
            BY <3>1, <3>2, <3>3
    <2> QED
        BY <2>1, <2>2
<1>12. u.frame <= u.confirmed + PREDICTION_WINDOW
    BY <1>0, <1>1, <1>2, <1>3, WindowAssumption
<1> QED
    BY <1>7, <1>8, <1>9, <1>10, <1>11, <1>12 DEF u

-----------------------------------------------------------------------------
(* The methods.                                                            *)

\* A new timeline satisfies the invariant.
LEMMA WithDelayInv ==
    ASSUME NEW p \in Ports
    PROVE  TimelineInv(WithDelay(p),
                [f \in 0 .. InputDelay - 1 |-> [i \in Ports |-> Neutral]])
<1> DEFINE t == WithDelay(p)
           g == [f \in 0 .. InputDelay - 1 |-> [i \in Ports |-> Neutral]]
           neutral == [i \in Ports |-> Neutral]
           nothing == [f \in {} |-> neutral]
<1>1. neutral \in PortValues /\ neutral \in Entries
    BY ButtonsAssumption DEF PortValues, Entries
<1>2. IsMap(g, Entries) /\ IsMap(nothing, PortValues)
    BY <1>1, DelayAssumption DEF IsMap
<1>3. /\ t.player = p /\ t.frame = 0 /\ t.confirmed = InputDelay
      /\ t.inputs = g /\ t.executed = nothing /\ t.dirty = None
    BY DEF WithDelay
<1>4. TimelineType(t)
    BY <1>1, <1>2, DelayAssumption DEF TimelineType, WithDelay
<1>5. \A k \in 0 .. InputDelay - 1 : Full(g, k)
    BY ButtonsAssumption DEF Full
<1> HIDE DEF t, g, neutral, nothing
<1>6. DOMAIN g = 0 .. InputDelay - 1 /\ DOMAIN nothing = {}
    BY DEF g, nothing
<1>7. ConfirmedFull(t)
    BY <1>3, <1>5, <1>6, DelayAssumption DEF ConfirmedFull
<1>8. ExecutedSpan(t) /\ DirtyRecent(t) /\ ExecutedCurrent(t)
    BY <1>3, <1>6 DEF ExecutedSpan, DirtyRecent, ExecutedCurrent
<1>9. InputsRecent(t)
    BY <1>3, <1>6, DelayAssumption, WindowAssumption, RetainedAssumption
    DEF InputsRecent, Monus, Lookahead, PauseLead
<1>10. InputsRecorded(t, g)
    BY <1>3 DEF InputsRecorded
<1>11. t.frame <= t.confirmed + PREDICTION_WINDOW
    BY <1>3, DelayAssumption, WindowAssumption
<1> QED
    BY <1>2, <1>4, <1>7, <1>8, <1>9, <1>10, <1>11 DEF TimelineInv, t, g

\* The word sample_local settles on, and why it may be put.
LEMMA SampleWord ==
    ASSUME NEW t, NEW g, TimelineInv(t, g), NEW b \in Buttons
    PROVE  LET f == SampleFrame(t)
               v == SampleValue(t, b)
           IN  /\ f \in Nat /\ f >= t.frame /\ v \in Buttons
               /\ Entry(t.inputs, f)[t.player] \in {None, v}
               /\ Entry(t.inputs, f)[t.player] = None => f >= t.confirmed
               /\ f <= t.frame + Lookahead
               /\ f >= Monus(t.frame, PREDICTION_WINDOW + RETAINED_INPUTS)
<1> DEFINE f == SampleFrame(t)
           v == SampleValue(t, b)
<1>1. /\ TimelineType(t) /\ ConfirmedFull(t)
      /\ t.frame \in Nat /\ t.confirmed \in Nat /\ t.player \in Ports
      /\ IsMap(t.inputs, Entries)
    BY DEF TimelineInv, TimelineType
<1>2. /\ f \in Nat /\ f >= t.frame /\ f <= t.frame + Lookahead
      /\ f >= Monus(t.frame, PREDICTION_WINDOW + RETAINED_INPUTS)
    BY <1>1, DelayAssumption, WindowAssumption, RetainedAssumption
    DEF SampleFrame, Lookahead, PauseLead, Monus
<1> HIDE DEF f
<1>3. Entry(t.inputs, f) \in Entries
    BY <1>1 DEF Entry, IsMap, Entries
<1>4. v \in Buttons /\ Entry(t.inputs, f)[t.player] \in {None, v}
    BY <1>1, <1>3 DEF SampleValue, Entries, f
<1>5. ASSUME Entry(t.inputs, f)[t.player] = None, f < t.confirmed
      PROVE  FALSE
    <2>1. \E j \in DOMAIN t.inputs : j <= t.frame
        BY <1>1, <1>2, <1>5 DEF ConfirmedFull
    <2>2. \E j \in DOMAIN t.inputs : j <= f
        BY <1>1, <1>2, <2>1 DEF IsMap
    <2> QED
        BY <1>1, <1>2, <1>5, <2>2, UnknownUnconfirmed
<1> QED
    BY <1>1, <1>2, <1>4, <1>5 DEF f

\* sample_local preserves the invariant, and records the word it returns.
LEMMA SampleLocalInv ==
    ASSUME NEW t, NEW g, TimelineInv(t, g), NEW b \in Buttons
    PROVE  TimelineInv(SampleLocal(t, b),
                Put(g, SampleFrame(t), t.player, SampleValue(t, b)))
<1> DEFINE f == SampleFrame(t)
           v == SampleValue(t, b)
           u == Learn(t, f, t.player, v)
<1>1. /\ TimelineType(t) /\ InputsRecent(t) /\ ExecutedCurrent(t)
      /\ DirtyRecent(t) /\ ExecutedSpan(t) /\ t.player \in Ports
      /\ t.frame \in Nat
    BY DEF TimelineInv, TimelineType
<1>2. /\ f \in Nat /\ f >= t.frame /\ v \in Buttons
      /\ Entry(t.inputs, f)[t.player] \in {None, v}
      /\ Entry(t.inputs, f)[t.player] = None => f >= t.confirmed
      /\ f <= t.frame + Lookahead
      /\ f >= Monus(t.frame, PREDICTION_WINDOW + RETAINED_INPUTS)
    BY SampleWord
<1>3. SampleLocal(t, b) = u
    BY DEF SampleLocal, Learn
<1> HIDE DEF f, v
<1>4. /\ TimelineType(u)
      /\ u.frame = t.frame
      /\ u.executed = t.executed
      /\ u.base_ports = t.base_ports
      /\ u.dirty = t.dirty
      /\ u.inputs = Put(t.inputs, f, t.player, v)
    BY <1>1, <1>2, LearnFields
<1>5. /\ IsMap(Put(g, f, t.player, v), Entries)
      /\ u.frame <= u.confirmed + PREDICTION_WINDOW
      /\ ConfirmedFull(u)
      /\ ExecutedSpan(u)
      /\ InputsRecent(u)
      /\ InputsRecorded(u, Put(g, f, t.player, v))
    BY <1>1, <1>2, LearnInv
<1> HIDE DEF u
<1>6. DirtyRecent(u)
    BY <1>1, <1>4 DEF DirtyRecent
<1>7. ExecutedCurrent(u)
    <2> SUFFICES ASSUME NEW h \in DOMAIN u.executed, Clean(u, h)
                 PROVE  u.executed[h] = PortsAt(u, h)
        BY DEF ExecutedCurrent
    <2>1. h \in Nat /\ h < f
        BY <1>1, <1>2, <1>4 DEF ExecutedSpan
    <2>2. PortsAt(u, h) = PortsAt(t, h)
        BY <1>1, <1>2, <2>1, PortsAtBefore DEF u
    <2> QED
        BY <1>1, <1>4, <2>2 DEF ExecutedCurrent, Clean
<1> QED
    BY <1>3, <1>4, <1>5, <1>6, <1>7 DEF TimelineInv, f, v

\* receive_remote preserves the invariant when it returns no error, and
\* records the word unless it ignores it.
LEMMA ReceiveRemoteInv ==
    ASSUME NEW t, NEW g, TimelineInv(t, g), NEW f \in Nat, NEW b \in Buttons,
           ~ReceiveErr(t, f, b)
    PROVE  TimelineInv(ReceiveRemote(t, f, b),
                IF Ignored(t, f) THEN g ELSE Put(g, f, Other(t.player), b))
<1>1. CASE Ignored(t, f)
    BY <1>1 DEF ReceiveRemote
<1>2. CASE ~Ignored(t, f)
    <2> DEFINE p == Other(t.player)
               u == Learn(t, f, p, b)
               d == IF ~Mispredicted(t, f, b) THEN t.dirty
                    ELSE IF t.dirty = None THEN f ELSE Lesser(t.dirty, f)
               r == [u EXCEPT !.dirty = d]
    <2>1. /\ TimelineType(t) /\ InputsRecent(t) /\ ExecutedCurrent(t)
          /\ DirtyRecent(t) /\ ExecutedSpan(t) /\ ConfirmedFull(t)
          /\ t.frame \in Nat /\ t.confirmed \in Nat /\ t.player \in Ports
          /\ t.dirty \in Nat \cup {None}
          /\ t.frame <= t.confirmed + PREDICTION_WINDOW
        BY DEF TimelineInv, TimelineType
    <2>2. p \in Ports /\ Entry(t.inputs, f)[p] = None
        BY <1>2, <2>1 DEF Ignored, Held, Other, Ports
    <2>3. \A k \in DOMAIN t.inputs : k \in Nat
        BY <2>1 DEF TimelineType, IsMap
    <2>4. DOMAIN t.inputs # {} => \E j \in DOMAIN t.inputs : j <= f
        BY <1>2, <2>3 DEF Ignored, Forgotten
    <2>5. f >= t.confirmed
        BY <2>1, <2>2, <2>4, UnknownUnconfirmed
    <2>6. f <= t.frame + Lookahead
        BY <2>1, DelayAssumption, WindowAssumption
        DEF ReceiveErr, TooFar, Lookahead, PauseLead
    <2>7. f >= Monus(t.frame, PREDICTION_WINDOW + RETAINED_INPUTS)
        BY <2>1, <2>5, WindowAssumption, RetainedAssumption DEF Monus
    <2>8. ReceiveRemote(t, f, b) = r
        BY <1>2 DEF ReceiveRemote, Learn
    <2> HIDE DEF p
    <2>9. /\ TimelineType(u)
          /\ u.frame = t.frame
          /\ u.executed = t.executed
          /\ u.base_ports = t.base_ports
          /\ u.dirty = t.dirty
          /\ u.inputs = Put(t.inputs, f, p, b)
        BY <2>1, <2>2, LearnFields
    <2>10. /\ IsMap(Put(g, f, p, b), Entries)
           /\ u.frame <= u.confirmed + PREDICTION_WINDOW
           /\ ConfirmedFull(u)
           /\ ExecutedSpan(u)
           /\ InputsRecent(u)
           /\ InputsRecorded(u, Put(g, f, p, b))
        BY <2>2, <2>5, <2>6, <2>7, LearnInv
    <2>11. \A h \in Nat : h < f => PortsAt(u, h) = PortsAt(t, h)
        BY <2>1, <2>2, PortsAtBefore
    <2>12. d \in Nat \cup {None}
        BY <2>1 DEF Lesser
    <2> HIDE DEF u, d
    <2>13. /\ TimelineType(r)
           /\ r.frame = u.frame
           /\ r.confirmed = u.confirmed
           /\ r.inputs = u.inputs
           /\ r.executed = u.executed
           /\ r.base_ports = u.base_ports
           /\ r.dirty = d
        BY <2>9, <2>12 DEF TimelineType
    <2> HIDE DEF r
    <2>14. ConfirmedFull(r) /\ ExecutedSpan(r) /\ InputsRecent(r)
           /\ InputsRecorded(r, Put(g, f, p, b))
        BY <2>10, <2>13
        DEF ConfirmedFull, ExecutedSpan, InputsRecent, InputsRecorded
    <2>15. Mispredicted(t, f, b) =>
            /\ f \in DOMAIN t.executed
            /\ d \in Nat /\ d <= f
            /\ t.dirty # None => d <= t.dirty
            /\ d = f \/ d = t.dirty
        BY <2>1, NoneAssumption DEF d, Mispredicted, Lesser
    <2>16. ~Mispredicted(t, f, b) => d = t.dirty
        BY DEF d
    <2>17. DirtyRecent(r)
        BY <2>1, <2>5, <2>9, <2>13, <2>15, <2>16, WindowAssumption
        DEF DirtyRecent
    <2>18. ASSUME NEW h \in DOMAIN r.executed, Clean(r, h)
           PROVE  r.executed[h] = PortsAt(r, h)
        <3>1. h \in DOMAIN t.executed /\ h \in Nat /\ h < t.frame
            BY <2>1, <2>9, <2>13 DEF ExecutedSpan
        <3>2. PortsAt(r, h) = PortsAt(u, h)
            BY <2>13 DEF PortsAt, Known
        <3>3. CASE Mispredicted(t, f, b)
            <4>1. h < d /\ Clean(t, h) /\ h < f
                BY <2>1, <2>13, <2>15, <2>18, <3>1, <3>3, NoneAssumption
                DEF Clean
            <4> QED
                BY <2>1, <2>9, <2>11, <2>13, <3>1, <3>2, <4>1
                DEF ExecutedCurrent
        <3>4. CASE ~Mispredicted(t, f, b)
            <4>1. Clean(t, h) /\ t.executed[h] = PortsAt(t, h)
                BY <2>1, <2>13, <2>16, <2>18, <3>1, <3>4
                DEF Clean, ExecutedCurrent
            <4>2. CASE h < f
                BY <2>9, <2>11, <2>13, <3>1, <3>2, <4>1, <4>2
            <4>3. CASE h >= f
                <5>1. f \in DOMAIN t.executed
                    BY <2>1, <2>5, <3>1, <4>3 DEF ExecutedSpan
                <5>2. Clean(t, f)
                    BY <2>1, <3>1, <4>1, <4>3 DEF Clean
                <5>3. PortsAt(t, f)[p] = b
                    BY <2>1, <3>4, <5>1, <5>2
                    DEF Mispredicted, ExecutedCurrent, p
                <5>4. /\ PortsAt(u, h)[Other(p)] = PortsAt(t, h)[Other(p)]
                      /\ \/ PortsAt(u, h)[p] = PortsAt(t, h)[p]
                         \/ /\ PortsAt(u, h)[p] = b
                            /\ PortsAt(t, h)[p] = PortsAt(t, f)[p]
                    BY <2>1, <2>2, <2>9, <3>1, PortsAtPut
                <5>5. \A i \in Ports : i = p \/ i = Other(p)
                    BY <2>2 DEF Other, Ports
                <5>6. \A i \in Ports : PortsAt(u, h)[i] = PortsAt(t, h)[i]
                    BY <5>3, <5>4, <5>5
                <5>7. PortsAt(u, h) = PortsAt(t, h)
                    BY <5>6 DEF PortsAt
                <5> QED
                    BY <2>9, <2>13, <3>2, <4>1, <5>7
            <4> QED
                BY <3>1, <4>2, <4>3
        <3> QED
            BY <3>3, <3>4
    <2> QED
        BY <1>2, <2>8, <2>9, <2>10, <2>13, <2>14, <2>17, <2>18
        DEF TimelineInv, ExecutedCurrent, p
<1> QED
    BY <1>1, <1>2

\* advance preserves the invariant when no correction is pending and the
\* prediction window is not used up.
LEMMA AdvanceInv ==
    ASSUME NEW t, NEW g, TimelineInv(t, g), t.dirty = None, ~Stalled(t)
    PROVE  TimelineInv(Advance(t), g)
<1> DEFINE now  == PortsAt(t, t.frame)
           exec == [f \in DOMAIN t.executed \cup {t.frame} |->
                        IF f = t.frame THEN now ELSE t.executed[f]]
           next == t.frame + 1
           v    == [t EXCEPT !.frame = next, !.executed = exec]
<1>1. /\ TimelineType(t) /\ InputsRecent(t) /\ ExecutedCurrent(t)
      /\ ExecutedSpan(t) /\ ConfirmedFull(t) /\ IsMap(g, Entries)
      /\ InputsRecorded(t, g)
      /\ t.frame \in Nat /\ t.confirmed \in Nat
      /\ IsMap(t.executed, PortValues) /\ IsMap(t.inputs, Entries)
    BY DEF TimelineInv, TimelineType
<1>2. Advance(t) = Retire(v)
    BY DEF Advance
<1>3. now \in PortValues
    BY <1>1, PortsAtType
<1> HIDE DEF now
<1>4. IsMap(exec, PortValues)
    BY <1>1, <1>3 DEF IsMap
<1>5. /\ DOMAIN exec = DOMAIN t.executed \cup {t.frame}
      /\ exec[t.frame] = now
      /\ \A f \in DOMAIN t.executed : f # t.frame => exec[f] = t.executed[f]
    OBVIOUS
<1> HIDE DEF exec
<1>6. /\ TimelineType(v)
      /\ v.frame = t.frame + 1
      /\ v.executed = exec
      /\ v.confirmed = t.confirmed
      /\ v.inputs = t.inputs
      /\ v.base_ports = t.base_ports
      /\ v.dirty = None
    <2>0. next \in Nat
        BY <1>1
    <2>1. t \in [player : Ports, frame : Nat, confirmed : Nat,
                 inputs : {t.inputs}, executed : {t.executed},
                 base_ports : PortValues, dirty : Nat \cup {None}]
        BY <1>1 DEF TimelineType
    <2> HIDE DEF next
    <2>2. /\ v \in [player : Ports, frame : Nat, confirmed : Nat,
                    inputs : {t.inputs}, executed : {exec},
                    base_ports : PortValues, dirty : Nat \cup {None}]
          /\ v.frame = next
          /\ v.executed = exec
          /\ v.confirmed = t.confirmed
          /\ v.inputs = t.inputs
          /\ v.base_ports = t.base_ports
          /\ v.dirty = None
        BY <2>0, <2>1
    <2>3. TimelineType(v)
        BY <1>1, <1>4, <2>2 DEF TimelineType
    <2> QED
        BY <2>2, <2>3 DEF next
<1> HIDE DEF v
<1>7. \A h : PortsAt(v, h) = PortsAt(t, h)
    BY <1>6 DEF PortsAt, Known
<1>8. ConfirmedFull(v)
    BY <1>1, <1>6 DEF ConfirmedFull, IsMap
<1>9. ExecutedSpan(v)
    <2>1. DOMAIN v.executed \subseteq 0 .. v.frame - 1
        BY <1>1, <1>5, <1>6 DEF ExecutedSpan
    <2>2. \A f \in 0 .. v.frame - 1 :
            f >= v.confirmed \/ (\E j \in DOMAIN v.executed : j <= f)
            => f \in DOMAIN v.executed
        BY <1>1, <1>5, <1>6 DEF ExecutedSpan
    <2>3. t.frame < t.confirmed => Full(t.inputs, t.frame)
        BY <1>1 DEF ConfirmedFull
    <2>4. \A f \in DOMAIN v.executed : f < v.confirmed => Full(v.inputs, f)
        BY <1>1, <1>5, <1>6, <2>3 DEF ExecutedSpan
    <2> QED
        BY <2>1, <2>2, <2>4 DEF ExecutedSpan
<1>10. ExecutedCurrent(v)
    <2> SUFFICES ASSUME NEW h \in DOMAIN v.executed
                 PROVE  v.executed[h] = PortsAt(v, h)
        BY DEF ExecutedCurrent
    <2>1. CASE h = t.frame
        BY <1>5, <1>6, <1>7, <2>1 DEF now
    <2>2. CASE h # t.frame
        <3>1. h \in DOMAIN t.executed /\ t.executed[h] = PortsAt(t, h)
            BY <1>1, <1>5, <1>6, <2>2 DEF ExecutedCurrent, Clean
        <3> QED
            BY <1>5, <1>6, <1>7, <2>2, <3>1
    <2> QED
        BY <2>1, <2>2
<1>11. \A f \in DOMAIN v.inputs : f <= v.frame + Lookahead
    BY <1>1, <1>6, DelayAssumption, WindowAssumption
    DEF InputsRecent, IsMap, Lookahead, PauseLead
<1>12. InputsRecorded(v, g)
    BY <1>1, <1>6 DEF InputsRecorded
<1>13. v.frame <= v.confirmed + PREDICTION_WINDOW
    BY <1>1, <1>6, WindowAssumption DEF Stalled, Monus
<1> QED
    BY <1>1, <1>2, <1>6, <1>8, <1>9, <1>10, <1>11, <1>12, <1>13, RetireInv

\* corrected preserves the invariant, whatever frames were mispredicted.
LEMMA CorrectedInv ==
    ASSUME NEW t, NEW g, TimelineInv(t, g), t.dirty # None
    PROVE  TimelineInv(Corrected(t), g)
<1> DEFINE plan == Correction(t)
           exec == [f \in DOMAIN t.executed |->
                        IF f \in DOMAIN plan THEN plan[f] ELSE t.executed[f]]
           v    == [t EXCEPT !.dirty = None, !.executed = exec]
<1>1. /\ TimelineType(t) /\ InputsRecent(t) /\ ExecutedCurrent(t)
      /\ ExecutedSpan(t) /\ ConfirmedFull(t) /\ IsMap(g, Entries)
      /\ InputsRecorded(t, g) /\ t.frame <= t.confirmed + PREDICTION_WINDOW
      /\ t.frame \in Nat /\ t.confirmed \in Nat /\ t.dirty \in Nat
      /\ IsMap(t.executed, PortValues) /\ IsMap(t.inputs, Entries)
    BY DEF TimelineInv, TimelineType
<1>2. Corrected(t) = Retire(v)
    BY DEF Corrected
<1>3. /\ DOMAIN plan = t.dirty .. t.frame - 1
      /\ \A f \in DOMAIN plan : plan[f] = PortsAt(t, f)
    BY DEF Correction
<1> HIDE DEF plan
<1>4. \A f \in DOMAIN plan : plan[f] \in PortValues
    BY <1>1, <1>3, PortsAtType
<1>5. IsMap(exec, PortValues)
    BY <1>1, <1>4 DEF IsMap
<1>6. /\ DOMAIN exec = DOMAIN t.executed
      /\ \A f \in DOMAIN t.executed :
            exec[f] = IF f \in DOMAIN plan THEN plan[f] ELSE t.executed[f]
    OBVIOUS
<1> HIDE DEF exec
<1>7. /\ TimelineType(v)
      /\ v.frame = t.frame
      /\ v.executed = exec
      /\ v.confirmed = t.confirmed
      /\ v.inputs = t.inputs
      /\ v.base_ports = t.base_ports
      /\ v.dirty = None
    BY <1>1, <1>5 DEF TimelineType
<1> HIDE DEF v
<1>8. \A h : PortsAt(v, h) = PortsAt(t, h)
    BY <1>7 DEF PortsAt, Known
<1>9. ConfirmedFull(v) /\ ExecutedSpan(v) /\ InputsRecorded(v, g)
    BY <1>1, <1>6, <1>7 DEF ConfirmedFull, ExecutedSpan, InputsRecorded
<1>10. ExecutedCurrent(v)
    <2> SUFFICES ASSUME NEW h \in DOMAIN v.executed
                 PROVE  v.executed[h] = PortsAt(v, h)
        BY DEF ExecutedCurrent
    <2>1. h \in DOMAIN t.executed /\ h \in Nat /\ h < t.frame
        BY <1>1, <1>6, <1>7 DEF ExecutedSpan
    <2>2. CASE h \in DOMAIN plan
        BY <1>3, <1>6, <1>7, <1>8, <2>1, <2>2
    <2>3. CASE h \notin DOMAIN plan
        <3>1. h < t.dirty
            BY <1>1, <1>3, <2>1, <2>3
        <3>2. t.executed[h] = PortsAt(t, h)
            BY <1>1, <2>1, <3>1 DEF ExecutedCurrent, Clean
        <3> QED
            BY <1>6, <1>7, <1>8, <2>1, <2>3, <3>2
    <2> QED
        BY <2>2, <2>3
<1>11. \A f \in DOMAIN v.inputs : f <= v.frame + Lookahead
    BY <1>1, <1>7 DEF InputsRecent
<1> QED
    BY <1>1, <1>2, <1>7, <1>9, <1>10, <1>11, RetireInv

-----------------------------------------------------------------------------
(* What the methods do to the fields the session reads.                    *)

\* A full frame is simulated with the truth.
LEMMA FullTrue ==
    ASSUME NEW t, NEW g, TimelineInv(t, g), NEW f \in Nat, Full(t.inputs, f)
    PROVE  f \in DOMAIN g /\ PortsAt(t, f) = g[f]
<1>1. TimelineType(t) /\ IsMap(g, Entries) /\ InputsRecorded(t, g)
    BY DEF TimelineInv
<1>2. PortsAt(t, f) = t.inputs[f]
    BY <1>1, PortsAtFull
<1>3. f \in DOMAIN g /\ \A i \in Ports : g[f][i] = t.inputs[f][i]
    BY <1>1 DEF InputsRecorded, Full, Ports
<1>4. g[f] \in Entries /\ t.inputs[f] \in Entries
    BY <1>1, <1>3 DEF IsMap, TimelineType, Full
<1> QED
    BY <1>2, <1>3, <1>4 DEF Entries

\* Recording a word leaves the history of confirmed frames as it was.
LEMMA HistoryKept ==
    ASSUME NEW t, NEW g, TimelineInv(t, g), NEW f \in Nat, NEW p \in Ports,
           NEW b \in Buttons, Entry(t.inputs, f)[p] \in {None, b},
           Entry(t.inputs, f)[p] = None => f >= t.confirmed,
           NEW k \in DOMAIN g, k < t.confirmed
    PROVE  k \in DOMAIN Put(g, f, p, b) /\ Put(g, f, p, b)[k] = g[k]
<1>1. IsMap(g, Entries) /\ InputsRecorded(t, g) /\ t.confirmed \in Nat
    BY DEF TimelineInv, TimelineType
<1>2. k \in Nat /\ g[k] \in Entries
    BY <1>1 DEF IsMap
<1>3. CASE k # f
    BY <1>3 DEF Put
<1>4. CASE k = f
    <2>1. Entry(t.inputs, f)[p] = b
        BY <1>1, <1>2, <1>4
    <2>2. g[f][p] = b
        BY <1>1, <2>1, ButtonsAssumption DEF Entry, InputsRecorded
    <2>3. Put(g, f, p, b)[f] = [g[f] EXCEPT ![p] = b]
        BY <1>4 DEF Put, Entry
    <2>4. [g[f] EXCEPT ![p] = b] = g[f]
        BY <1>2, <1>4, <2>2 DEF Entries
    <2> QED
        BY <1>4, <2>3, <2>4 DEF Put
<1> QED
    BY <1>3, <1>4

\* The fields of a timeline after sample_local.
LEMMA SampleLocalFields ==
    ASSUME NEW t, NEW g, TimelineInv(t, g), NEW b \in Buttons
    PROVE  LET u == SampleLocal(t, b)
           IN  /\ u.player = t.player
               /\ u.frame = t.frame
               /\ u.executed = t.executed
               /\ u.dirty = t.dirty
               /\ u.confirmed >= t.confirmed
<1>1. TimelineType(t) /\ InputsRecent(t) /\ t.player \in Ports
    BY DEF TimelineInv, TimelineType
<1>2. SampleFrame(t) \in Nat /\ SampleValue(t, b) \in Buttons
    BY SampleWord
<1>3. SampleLocal(t, b)
        = Learn(t, SampleFrame(t), t.player, SampleValue(t, b))
    BY DEF SampleLocal, Learn
<1> QED
    BY <1>1, <1>2, <1>3, LearnFields

\* The fields of a timeline after receive_remote.
LEMMA ReceiveRemoteFields ==
    ASSUME NEW t, NEW g, TimelineInv(t, g), NEW f \in Nat, NEW b \in Buttons,
           ~ReceiveErr(t, f, b)
    PROVE  LET u == ReceiveRemote(t, f, b)
           IN  /\ u.player = t.player
               /\ u.frame = t.frame
               /\ u.executed = t.executed
               /\ u.confirmed >= t.confirmed
               /\ u.dirty # None /\ u.dirty # t.dirty => u.dirty >= t.confirmed
               /\ ~Ignored(t, f) =>
                    /\ Entry(t.inputs, f)[Other(t.player)] = None
                    /\ f >= t.confirmed
<1>0. /\ TimelineType(t) /\ InputsRecent(t) /\ ConfirmedFull(t)
      /\ t.confirmed \in Nat /\ t.player \in Ports
      /\ t.dirty \in Nat \cup {None}
    BY DEF TimelineInv, TimelineType
<1>1. CASE Ignored(t, f)
    BY <1>0, <1>1 DEF ReceiveRemote
<1>2. CASE ~Ignored(t, f)
    <2> DEFINE p == Other(t.player)
               u == Learn(t, f, p, b)
               d == IF ~Mispredicted(t, f, b) THEN t.dirty
                    ELSE IF t.dirty = None THEN f ELSE Lesser(t.dirty, f)
    <2>1. p \in Ports /\ Entry(t.inputs, f)[p] = None
        BY <1>0, <1>2 DEF Ignored, Held, Other, Ports
    <2>2. \A k \in DOMAIN t.inputs : k \in Nat
        BY <1>0 DEF TimelineType, IsMap
    <2>3. DOMAIN t.inputs # {} => \E j \in DOMAIN t.inputs : j <= f
        BY <1>2, <2>2 DEF Ignored, Forgotten
    <2>4. f >= t.confirmed
        BY <1>0, <2>1, <2>3, UnknownUnconfirmed
    <2>5. ReceiveRemote(t, f, b) = [u EXCEPT !.dirty = d]
        BY <1>2 DEF ReceiveRemote, Learn
    <2>6. d # None /\ d # t.dirty => d >= t.confirmed
        BY <1>0, <2>4 DEF Lesser
    <2>7. /\ TimelineType(u)
          /\ u.player = t.player
          /\ u.frame = t.frame
          /\ u.executed = t.executed
          /\ u.confirmed >= t.confirmed
        BY <1>0, <2>1, LearnFields
    <2> HIDE DEF u, d
    <2> DEFINE r == [u EXCEPT !.dirty = d]
    <2>8. /\ r.player = t.player
          /\ r.frame = t.frame
          /\ r.executed = t.executed
          /\ r.confirmed >= t.confirmed
          /\ r.dirty = d
        BY <2>7 DEF TimelineType
    <2> QED
        BY <2>1, <2>4, <2>5, <2>6, <2>8
<1> QED
    BY <1>1, <1>2

\* The fields of a timeline after advance.
LEMMA AdvanceFields ==
    ASSUME NEW t, NEW g, TimelineInv(t, g), t.dirty = None
    PROVE  LET u == Advance(t)
           IN  /\ u.player = t.player
               /\ u.frame = t.frame + 1
               /\ u.confirmed = t.confirmed
               /\ u.dirty = None
               /\ DOMAIN u.executed =
                    {f \in DOMAIN t.executed \cup {t.frame} :
                        f >= Lesser(t.confirmed, t.frame + 1)}
               /\ \A f \in DOMAIN u.executed : u.executed[f] = PortsAt(t, f)
<1> DEFINE now  == PortsAt(t, t.frame)
           exec == [f \in DOMAIN t.executed \cup {t.frame} |->
                        IF f = t.frame THEN now ELSE t.executed[f]]
           next == t.frame + 1
           v    == [t EXCEPT !.frame = next, !.executed = exec]
<1>1. /\ TimelineType(t) /\ ExecutedCurrent(t)
      /\ t.frame \in Nat /\ next \in Nat
      /\ IsMap(t.executed, PortValues) /\ IsMap(t.inputs, Entries)
    BY DEF TimelineInv, TimelineType
<1>2. Advance(t) = Retire(v)
    BY DEF Advance
<1>3. now \in PortValues
    BY <1>1, PortsAtType
<1>4. \A f \in DOMAIN exec : exec[f] = PortsAt(t, f)
    BY <1>1 DEF ExecutedCurrent, Clean
<1> HIDE DEF now
<1>5. IsMap(exec, PortValues)
    BY <1>1, <1>3 DEF IsMap
<1>6. DOMAIN exec = DOMAIN t.executed \cup {t.frame}
    OBVIOUS
<1>7. t \in [player : Ports, frame : Nat, confirmed : Nat,
             inputs : {t.inputs}, executed : {t.executed},
             base_ports : PortValues, dirty : Nat \cup {None}]
    BY <1>1 DEF TimelineType
<1> HIDE DEF exec, next
<1>8. /\ v \in [player : Ports, frame : Nat, confirmed : Nat,
                inputs : {t.inputs}, executed : {exec},
                base_ports : PortValues, dirty : Nat \cup {None}]
      /\ v.player = t.player
      /\ v.frame = next
      /\ v.executed = exec
      /\ v.confirmed = t.confirmed
      /\ v.inputs = t.inputs
      /\ v.dirty = None
    BY <1>1, <1>7
<1>9. TimelineType(v)
    BY <1>1, <1>5, <1>8 DEF TimelineType
<1> HIDE DEF v
<1>10. /\ Retire(v).player = v.player
       /\ Retire(v).frame = v.frame
       /\ Retire(v).confirmed = v.confirmed
       /\ Retire(v).dirty = v.dirty
       /\ DOMAIN Retire(v).executed
            = {f \in DOMAIN v.executed : f >= ConfirmedFrame(v)}
       /\ \A f \in DOMAIN Retire(v).executed :
            Retire(v).executed[f] = v.executed[f]
    BY <1>9, RetireFields
<1> QED
    BY <1>2, <1>4, <1>6, <1>8, <1>10 DEF ConfirmedFrame, next

\* The fields of a timeline after corrected.
LEMMA CorrectedFields ==
    ASSUME NEW t, NEW g, TimelineInv(t, g), t.dirty # None
    PROVE  LET u == Corrected(t)
           IN  /\ u.player = t.player
               /\ u.frame = t.frame
               /\ u.confirmed = t.confirmed
               /\ u.dirty = None
               /\ DOMAIN u.executed =
                    {f \in DOMAIN t.executed : f >= ConfirmedFrame(t)}
               /\ \A f \in DOMAIN u.executed : u.executed[f] = PortsAt(t, f)
<1> DEFINE plan == Correction(t)
           exec == [f \in DOMAIN t.executed |->
                        IF f \in DOMAIN plan THEN plan[f] ELSE t.executed[f]]
           v    == [t EXCEPT !.dirty = None, !.executed = exec]
<1>1. /\ TimelineType(t) /\ ExecutedCurrent(t) /\ ExecutedSpan(t)
      /\ t.frame \in Nat /\ t.dirty \in Nat
      /\ IsMap(t.executed, PortValues)
    BY DEF TimelineInv, TimelineType
<1>2. Corrected(t) = Retire(v)
    BY DEF Corrected
<1>3. /\ DOMAIN plan = t.dirty .. t.frame - 1
      /\ \A f \in DOMAIN plan : plan[f] = PortsAt(t, f)
    BY DEF Correction
<1> HIDE DEF plan
<1>4. \A f \in DOMAIN plan : plan[f] \in PortValues
    BY <1>1, <1>3, PortsAtType
<1>5. IsMap(exec, PortValues)
    BY <1>1, <1>4 DEF IsMap
<1>6. DOMAIN exec = DOMAIN t.executed
    OBVIOUS
<1>7. \A f \in DOMAIN exec : exec[f] = PortsAt(t, f)
    <2> TAKE f \in DOMAIN exec
    <2>1. f \in Nat /\ f < t.frame
        BY <1>1, <1>6 DEF ExecutedSpan
    <2>2. CASE f \in DOMAIN plan
        BY <1>3, <2>2
    <2>3. CASE f \notin DOMAIN plan
        BY <1>1, <1>3, <2>1, <2>3 DEF ExecutedCurrent, Clean
    <2> QED
        BY <2>2, <2>3
<1> HIDE DEF exec
<1>8. /\ TimelineType(v)
      /\ v.player = t.player
      /\ v.frame = t.frame
      /\ v.executed = exec
      /\ v.confirmed = t.confirmed
      /\ v.dirty = None
    BY <1>1, <1>5 DEF TimelineType
<1> HIDE DEF v
<1>9. /\ Retire(v).player = v.player
      /\ Retire(v).frame = v.frame
      /\ Retire(v).confirmed = v.confirmed
      /\ Retire(v).dirty = v.dirty
      /\ DOMAIN Retire(v).executed
            = {f \in DOMAIN v.executed : f >= ConfirmedFrame(v)}
      /\ \A f \in DOMAIN Retire(v).executed :
            Retire(v).executed[f] = v.executed[f]
    BY <1>8, RetireFields
<1> QED
    BY <1>2, <1>6, <1>7, <1>8, <1>9 DEF ConfirmedFrame
-----------------------------------------------------------------------------
(* The machine that is driven along it.                                    *)

\* What ExecutionInv says of the timeline's fields.
LEMMA ExecutionFacts ==
    ASSUME NEW e, NEW g, ExecutionInv(e, g)
    PROVE  /\ TimelineType(e.timeline)
           /\ e.timeline.frame \in Nat
           /\ e.timeline.confirmed \in Nat
           /\ e.timeline.player \in Ports
           /\ e.timeline.dirty \in Nat \cup {None}
           /\ ExecutedSpan(e.timeline)
           /\ DirtyRecent(e.timeline)
           /\ e.timeline.frame <= e.timeline.confirmed + PREDICTION_WINDOW
           /\ e.committed \in Nat
BY DEF ExecutionInv, TimelineInv, TimelineType, ExecutionType

\* A new session.
LEMMA FreshInv ==
    ASSUME NEW p \in Ports
    PROVE  ExecutionInv(Fresh(p),
                [f \in 0 .. InputDelay - 1 |-> [i \in Ports |-> Neutral]])
<1> DEFINE e == Fresh(p)
           g == [f \in 0 .. InputDelay - 1 |-> [i \in Ports |-> Neutral]]
           nothing == [f \in {} |-> [i \in Ports |-> Neutral]]
<1>1. TimelineInv(WithDelay(p), g)
    BY WithDelayInv
<1>2. WithDelay(p).frame = 0 /\ WithDelay(p).dirty = None
      /\ WithDelay(p).confirmed = InputDelay
    BY DEF WithDelay
<1>3. IsMap(nothing, PortValues) /\ DOMAIN nothing = {}
    BY DEF IsMap
<1>4. nothing = Prefix(nothing, 0)
    BY DEF Prefix
<1> HIDE DEF nothing, g
<1>5. /\ e.timeline = WithDelay(p)
      /\ e.core = nothing
      /\ e.snapshots = [k \in {0} |-> nothing]
      /\ e.outputs = [k \in {} |-> nothing]
      /\ e.committed = 0
      /\ e.released = nothing
      /\ e \in [timeline : {e.timeline}, core : {e.core},
                snapshots : {e.snapshots}, outputs : {e.outputs},
                committed : Nat, released : {e.released}]
    BY DEF Fresh, nothing
<1> HIDE DEF e
<1>6. ExecutionType(e)
    BY <1>2, <1>3, <1>5 DEF ExecutionType
<1>7. CoreHistory(e, g)
    BY <1>3, <1>5 DEF CoreHistory
<1>8. SnapshotsHeld(e)
    BY <1>2, <1>4, <1>5 DEF SnapshotsHeld
<1>9. OutputsHeld(e)
    BY <1>2, <1>5, DelayAssumption DEF OutputsHeld, ConfirmedFrame, Lesser
<1>10. ReleasedRight(e, g)
    BY <1>3, <1>5 DEF ReleasedRight
<1> QED
    BY <1>1, <1>5, <1>6, <1>7, <1>8, <1>9, <1>10 DEF ExecutionInv, e, g

\* Replacing the timeline by one that has learnt something.
LEMMA LearnExecution ==
    ASSUME NEW e, NEW g, ExecutionInv(e, g), NEW u, NEW h, TimelineInv(u, h),
           u.frame = e.timeline.frame, u.executed = e.timeline.executed,
           u.confirmed >= e.timeline.confirmed,
           u.dirty # None /\ u.dirty # e.timeline.dirty
                => u.dirty >= e.timeline.confirmed,
           \A k \in DOMAIN g : k < e.timeline.confirmed
                => k \in DOMAIN h /\ h[k] = g[k]
    PROVE  ExecutionInv([e EXCEPT !.timeline = u], h)
<1> DEFINE d == [e EXCEPT !.timeline = u]
<1>1. /\ e.timeline.frame \in Nat /\ e.timeline.confirmed \in Nat
      /\ ExecutionType(e) /\ CoreHistory(e, g) /\ SnapshotsHeld(e)
      /\ OutputsHeld(e) /\ ReleasedRight(e, g)
    BY ExecutionFacts DEF ExecutionInv
<1>2. u.frame \in Nat /\ u.confirmed \in Nat /\ u.dirty \in Nat \cup {None}
    BY DEF TimelineInv, TimelineType
<1>3. /\ d.timeline = u
      /\ d.core = e.core
      /\ d.snapshots = e.snapshots
      /\ d.outputs = e.outputs
      /\ d.committed = e.committed
      /\ d.released = e.released
      /\ d \in [timeline : {u}, core : {e.core}, snapshots : {e.snapshots},
                outputs : {e.outputs}, committed : Nat,
                released : {e.released}]
    BY <1>1 DEF ExecutionType
<1> HIDE DEF d
<1>4. ExecutionType(d)
    BY <1>1, <1>3 DEF ExecutionType
<1>5. CoreHistory(d, h)
    BY <1>1, <1>2, <1>3 DEF CoreHistory, ExecutionType
<1>6. SnapshotsHeld(d)
    BY <1>1, <1>2, <1>3 DEF SnapshotsHeld
<1>7. OutputsHeld(d)
    BY <1>1, <1>2, <1>3 DEF OutputsHeld, ConfirmedFrame, Lesser, ExecutionType
<1>8. ReleasedRight(d, h)
    <2>1. e.committed <= e.timeline.confirmed /\ e.committed \in Nat
        BY <1>1 DEF OutputsHeld, ConfirmedFrame, Lesser, ExecutionType
    <2>2. \A k \in DOMAIN e.released : k - 1 < e.timeline.confirmed
        BY <1>1, <2>1 DEF ReleasedRight
    <2> QED
        BY <1>1, <1>3, <2>2 DEF ReleasedRight
<1> QED
    BY <1>3, <1>4, <1>5, <1>6, <1>7, <1>8 DEF ExecutionInv, d

-----------------------------------------------------------------------------
(* Simulating frames.                                                      *)

\* The record a session keeps, without its invariants.
IsSession(e) ==
    e \in [timeline : {e.timeline}, core : {e.core},
           snapshots : {e.snapshots}, outputs : {e.outputs},
           committed : Nat, released : {e.released}]

\* The fields after execute, and after the timeline has been told.
LEMMA ExecuteFields ==
    ASSUME NEW e, IsSession(e), NEW plan, NEW u
    PROVE  LET core == Ran(e.core, plan)
               d    == [Execute(e, plan) EXCEPT !.timeline = u]
           IN  /\ IsSession(d)
               /\ d.timeline = u
               /\ d.core = core
               /\ d.snapshots = Capture(e.snapshots, core, Completed(plan))
               /\ d.outputs = Capture(e.outputs, core, Completed(plan))
               /\ d.committed = e.committed
               /\ d.released = e.released
<1> DEFINE core == Ran(e.core, plan)
           snap == Capture(e.snapshots, core, Completed(plan))
           outs == Capture(e.outputs, core, Completed(plan))
           x    == Execute(e, plan)
<1>1. x = [e EXCEPT !.core = core, !.snapshots = snap, !.outputs = outs]
    BY DEF Execute
<1> HIDE DEF core, snap, outs
<1>2. /\ x \in [timeline : {e.timeline}, core : {core}, snapshots : {snap},
                outputs : {outs}, committed : Nat, released : {e.released}]
      /\ x.committed = e.committed
    BY <1>1 DEF IsSession
<1> HIDE DEF x
<1> DEFINE d == [x EXCEPT !.timeline = u]
<1>3. /\ d \in [timeline : {u}, core : {core}, snapshots : {snap},
                outputs : {outs}, committed : Nat, released : {e.released}]
      /\ d.committed = e.committed
    BY <1>2
<1> HIDE DEF d
<1>4. /\ IsSession(d)
      /\ d.timeline = u /\ d.core = core /\ d.snapshots = snap
      /\ d.outputs = outs /\ d.released = e.released
    BY <1>3 DEF IsSession
<1> QED
    BY <1>3, <1>4 DEF d, x, core, snap, outs

\* fn correct never fails: the misprediction is in the window, every frame to
\* replay is on record, and the snapshot is held.
LEMMA CorrectNeverErrs ==
    ASSUME NEW e, NEW g, ExecutionInv(e, g)
    PROVE  ~CorrectErr(e)
<1> DEFINE t == e.timeline
<1>1. /\ t.frame \in Nat /\ t.confirmed \in Nat /\ t.dirty \in Nat \cup {None}
      /\ ExecutedSpan(t) /\ DirtyRecent(t)
    BY ExecutionFacts
<1>2. SnapshotsHeld(e)
    BY DEF ExecutionInv
<1>3. CASE t.dirty = None
    BY <1>3 DEF CorrectErr, CorrectionErr, CorrectedErr, Correction
<1>4. CASE t.dirty # None
    <2>1. /\ t.dirty \in DOMAIN t.executed
          /\ t.frame <= t.dirty + PREDICTION_WINDOW
          /\ t.dirty \in 0 .. t.frame - 1
        BY <1>1, <1>4 DEF DirtyRecent, ExecutedSpan
    <2>2. ~CorrectionErr(t)
        BY <1>1, <2>1, WindowAssumption DEF CorrectionErr, Monus
    <2>3. DOMAIN Correction(t) = t.dirty .. t.frame - 1
        BY <1>4 DEF Correction
    <2>4. ~CorrectedErr(t)
        BY <1>1, <2>1, <2>3 DEF CorrectedErr, ExecutedSpan
    <2>5. t.dirty \in DOMAIN e.snapshots
        BY <1>1, <1>2, <1>4, <2>1 DEF SnapshotsHeld
    <2> QED
        BY <2>2, <2>4, <2>5 DEF CorrectErr
<1> QED
    BY <1>3, <1>4

\* fn correct preserves the invariant and leaves nothing to correct; it takes
\* back no released frame.
LEMMA CorrectInv ==
    ASSUME NEW e, NEW g, ExecutionInv(e, g)
    PROVE  /\ ExecutionInv(Correct(e), g)
           /\ Correct(e).timeline.dirty = None
           /\ Correct(e).timeline.player = e.timeline.player
           /\ Correct(e).timeline.frame = e.timeline.frame
           /\ Correct(e).timeline.confirmed = e.timeline.confirmed
           /\ Correct(e).released = e.released
<1>1. CASE e.timeline.dirty = None
    BY <1>1 DEF Correct
<1>2. CASE e.timeline.dirty # None
    <2> DEFINE t == e.timeline
               first == t.dirty
               plan == Correction(t)
               restored == [e EXCEPT !.core = e.snapshots[first],
                                     !.snapshots = Until(e.snapshots, first),
                                     !.outputs = Until(e.outputs, first)]
               u == Corrected(t)
               d == [Execute(restored, plan) EXCEPT !.timeline = u]
               core == Ran(restored.core, plan)
               done == Completed(plan)
    <2>1. /\ TimelineType(t) /\ t.frame \in Nat /\ t.confirmed \in Nat
          /\ first \in Nat /\ ExecutedSpan(t) /\ DirtyRecent(t)
          /\ ExecutedCurrent(t) /\ TimelineInv(t, g)
          /\ ExecutionType(e) /\ CoreHistory(e, g) /\ SnapshotsHeld(e)
          /\ OutputsHeld(e) /\ ReleasedRight(e, g)
        BY <1>2, ExecutionFacts DEF ExecutionInv, TimelineInv
    <2>2. Correct(e) = d
        BY <1>2 DEF Correct
    <2>3. /\ first \in DOMAIN t.executed /\ first < t.frame
          /\ \A f \in first .. t.frame - 1 : f \in DOMAIN t.executed
        BY <1>2, <2>1 DEF DirtyRecent, ExecutedSpan
    <2>4. first \in DOMAIN e.snapshots
          /\ e.snapshots[first] = Prefix(e.core, first)
        BY <1>2, <2>1, <2>3 DEF SnapshotsHeld
    <2>5. /\ DOMAIN plan = first .. t.frame - 1
          /\ \A f \in DOMAIN plan : plan[f] = PortsAt(t, f)
        BY <1>2 DEF Correction
    <2>6. /\ u.player = t.player
          /\ u.frame = t.frame
          /\ u.confirmed = t.confirmed
          /\ u.dirty = None
          /\ DOMAIN u.executed = {f \in DOMAIN t.executed : f >= ConfirmedFrame(t)}
          /\ \A f \in DOMAIN u.executed : u.executed[f] = PortsAt(t, f)
        BY <1>2, <2>1, CorrectedFields
    <2>7. TimelineInv(u, g)
        BY <1>2, <2>1, CorrectedInv
    <2>8. /\ IsSession(restored)
          /\ restored.core = Prefix(e.core, first)
          /\ restored.snapshots = Until(e.snapshots, first)
          /\ restored.outputs = Until(e.outputs, first)
          /\ restored.committed = e.committed
          /\ restored.released = e.released
        BY <2>1, <2>4 DEF IsSession, ExecutionType
    <2> HIDE DEF restored, u, plan
    <2>9. /\ IsSession(d)
          /\ d.timeline = u
          /\ d.core = core
          /\ d.snapshots = Capture(Until(e.snapshots, first), core, done)
          /\ d.outputs = Capture(Until(e.outputs, first), core, done)
          /\ d.committed = e.committed
          /\ d.released = e.released
        <3>1. IsSession(restored)
            BY <2>8
        <3>2. /\ IsSession(d)
              /\ d.timeline = u
              /\ d.core = core
              /\ d.snapshots = Capture(restored.snapshots, core, done)
              /\ d.outputs = Capture(restored.outputs, core, done)
              /\ d.committed = restored.committed
              /\ d.released = restored.released
            BY <3>1, ExecuteFields
        <3> QED
            BY <2>8, <3>2
    <2> HIDE DEF d
    <2>10. done = first + 1 .. t.frame
        <3>1. \A k \in first + 1 .. t.frame : k - 1 \in DOMAIN plan /\ k = (k - 1) + 1
            BY <2>1, <2>5
        <3>2. \A f \in DOMAIN plan : f + 1 \in first + 1 .. t.frame
            BY <2>1, <2>5
        <3> QED
            BY <3>1, <3>2 DEF Completed
    <2>11. DOMAIN restored.core = 0 .. first - 1
        BY <2>8 DEF Prefix
    <2>12. /\ DOMAIN core = 0 .. t.frame - 1
           /\ \A f \in 0 .. t.frame - 1 :
                core[f] = IF f >= first THEN PortsAt(t, f) ELSE e.core[f]
        BY <2>1, <2>3, <2>5, <2>8, <2>11 DEF Prefix, Ran
    <2>13. core = [f \in DOMAIN core |-> core[f]]
        BY DEF Ran
    <2> HIDE DEF core, done
    <2>14. \A f \in DOMAIN core : f \in Nat /\ core[f] \in PortValues
        BY <2>1, <2>12, PortsAtType DEF ExecutionType, IsMap
    <2>15. ExecutionType(d)
        BY <2>1, <2>6, <2>9, <2>12, <2>13, <2>14
        DEF ExecutionType, IsSession, IsMap
    <2>16. \A f \in DOMAIN t.executed : core[f] = PortsAt(t, f)
        <3> TAKE f \in DOMAIN t.executed
        <3>1. f \in 0 .. t.frame - 1
            BY <2>1 DEF ExecutedSpan
        <3>2. CASE f >= first
            BY <2>12, <3>1, <3>2
        <3>3. CASE f < first
            <4>1. t.executed[f] = PortsAt(t, f)
                BY <2>1, <3>3 DEF ExecutedCurrent, Clean
            <4>2. e.core[f] = t.executed[f]
                BY <2>1, <3>1 DEF CoreHistory, ExecutionType
            <4> QED
                BY <2>1, <2>12, <3>1, <3>3, <4>1, <4>2
        <3> QED
            BY <2>1, <3>1, <3>2, <3>3
    <2>17. CoreHistory(d, g)
        <3> SUFFICES ASSUME NEW f \in 0 .. t.frame - 1
                     PROVE  IF f \in DOMAIN u.executed
                            THEN core[f] = u.executed[f]
                            ELSE /\ f < t.confirmed
                                 /\ f \in DOMAIN g
                                 /\ core[f] = g[f]
            BY <2>6, <2>9, <2>12 DEF CoreHistory
        <3>1. CASE f \in DOMAIN u.executed
            BY <2>6, <2>16, <3>1
        <3>2. CASE f \in DOMAIN t.executed /\ f \notin DOMAIN u.executed
            <4>1. f < t.confirmed
                BY <2>1, <2>6, <3>2 DEF ConfirmedFrame, Lesser
            <4>2. Full(t.inputs, f)
                BY <2>1, <3>2, <4>1 DEF ExecutedSpan
            <4>3. f \in DOMAIN g /\ PortsAt(t, f) = g[f]
                BY <2>1, <4>2, FullTrue
            <4> QED
                BY <2>16, <3>2, <4>1, <4>3
        <3>3. CASE f \notin DOMAIN t.executed
            <4>1. f < first
                BY <2>1, <2>3, <3>3
            <4>2. f < t.confirmed /\ f \in DOMAIN g /\ e.core[f] = g[f]
                BY <2>1, <3>3 DEF CoreHistory, ExecutionType
            <4> QED
                BY <2>1, <2>6, <2>12, <3>3, <4>1, <4>2
        <3> QED
            BY <3>1, <3>2, <3>3
    <2>18. \A k \in 0 .. first : Prefix(e.core, k) = Prefix(core, k)
        BY <2>1, <2>3, <2>12 DEF Prefix
    <2>19. SnapshotsHeld(d)
        <3>1. DOMAIN d.snapshots
                = {k \in DOMAIN e.snapshots : k <= first} \cup (first + 1 .. t.frame)
            BY <2>9, <2>10 DEF Capture, Until
        <3>2. \A k \in first + 1 .. t.frame : d.snapshots[k] = Prefix(core, k)
            BY <2>9, <2>10 DEF Capture
        <3>3. \A k \in DOMAIN e.snapshots :
                k <= first => /\ k \in 0 .. first
                              /\ d.snapshots[k] = e.snapshots[k]
                              /\ e.snapshots[k] = Prefix(e.core, k)
            BY <2>1, <2>9, <2>10 DEF Capture, Until, SnapshotsHeld
        <3>4. \A k \in DOMAIN d.snapshots :
                k \in 0 .. t.frame /\ d.snapshots[k] = Prefix(core, k)
            BY <2>1, <2>3, <2>18, <3>1, <3>2, <3>3
        <3>5. \A k \in 0 .. t.frame :
                k >= t.confirmed \/ k = t.frame => k \in DOMAIN d.snapshots
            BY <2>1, <2>3, <3>1 DEF SnapshotsHeld
        <3> QED
            BY <2>6, <2>9, <3>4, <3>5 DEF SnapshotsHeld
    <2>20. OutputsHeld(d)
        <3>1. e.committed <= first /\ e.committed \in Nat
            BY <1>2, <2>1 DEF OutputsHeld, ExecutionType
        <3>2. DOMAIN d.outputs
                = {k \in DOMAIN e.outputs : k <= first} \cup (first + 1 .. t.frame)
            BY <2>9, <2>10 DEF Capture, Until
        <3>3. DOMAIN d.outputs = e.committed + 1 .. t.frame
            BY <2>1, <2>3, <3>1, <3>2 DEF OutputsHeld
        <3>4. \A k \in first + 1 .. t.frame : d.outputs[k] = Prefix(core, k)
            BY <2>9, <2>10 DEF Capture
        <3>5. \A k \in DOMAIN e.outputs :
                k <= first => /\ k \in 0 .. first
                              /\ d.outputs[k] = e.outputs[k]
                              /\ e.outputs[k] = Prefix(e.core, k)
            BY <2>1, <2>9, <2>10, <3>1 DEF Capture, Until, OutputsHeld
        <3>6. \A k \in DOMAIN d.outputs : d.outputs[k] = Prefix(core, k)
            BY <2>18, <3>2, <3>4, <3>5
        <3>7. ConfirmedFrame(u) = ConfirmedFrame(t)
            BY <2>6 DEF ConfirmedFrame
        <3> QED
            BY <2>1, <2>6, <2>9, <3>3, <3>6, <3>7 DEF OutputsHeld
    <2>21. ReleasedRight(d, g)
        BY <2>1, <2>9 DEF ReleasedRight
    <2> QED
        BY <2>2, <2>6, <2>7, <2>9, <2>15, <2>17, <2>19, <2>20, <2>21
        DEF ExecutionInv
<1> QED
    BY <1>1, <1>2

-----------------------------------------------------------------------------
(* Releasing frames.                                                       *)

\* An interval that fits into the window passes the check of fn commit.
LEMMA WindowFits ==
    ASSUME NEW a \in Nat, NEW b \in Nat, NEW n \in Nat, b + 1 <= a + n,
           NEW S, S \subseteq a .. b
    PROVE  Cardinality(S) \in Nat /\ Cardinality(S) <= n
<1>1. /\ IsFiniteSet(a .. b)
      /\ Cardinality(a .. b) = IF a > b THEN 0 ELSE b - a + 1
    BY FS_Interval
<1>2. Cardinality(S) <= Cardinality(a .. b) /\ IsFiniteSet(S)
    BY <1>1, FS_Subset
<1>3. Cardinality(S) \in Nat
    BY <1>2, FS_CardinalityType
<1> QED
    BY <1>1, <1>2, <1>3

\* fn commit, called with no correction pending, preserves the invariant,
\* releases only what is true, revises nothing, and passes its own checks.
LEMMA CommitInv ==
    ASSUME NEW e, NEW g, ExecutionInv(e, g), e.timeline.dirty = None
    PROVE  /\ ExecutionInv(Commit(e), g)
           /\ Commit(e).timeline = e.timeline
           /\ \A k \in DOMAIN e.released :
                /\ k \in DOMAIN Commit(e).released
                /\ Commit(e).released[k] = e.released[k]
           /\ ~WindowErr(Commit(e))
<1> DEFINE t == e.timeline
           cf == ConfirmedFrame(t)
           out == Released(e)
           kept == {k \in DOMAIN e.snapshots : k >= cf}
           rel == [k \in DOMAIN e.released \cup out |->
                    IF k \in out THEN e.outputs[k][k - 1] ELSE e.released[k]]
           outs == [k \in DOMAIN e.outputs \ out |-> e.outputs[k]]
           com == IF out = {} THEN e.committed ELSE Latest(out)
           snap == [k \in kept |-> e.snapshots[k]]
           d == Commit(e)
<1>1. /\ TimelineType(t) /\ t.frame \in Nat /\ t.confirmed \in Nat
      /\ ExecutedSpan(t) /\ ExecutedCurrent(t) /\ TimelineInv(t, g)
      /\ t.frame <= t.confirmed + PREDICTION_WINDOW
      /\ ExecutionType(e) /\ CoreHistory(e, g) /\ SnapshotsHeld(e)
      /\ OutputsHeld(e) /\ ReleasedRight(e, g) /\ e.committed \in Nat
    BY ExecutionFacts DEF ExecutionInv, TimelineInv
<1>2. /\ cf \in Nat /\ cf <= t.frame /\ cf <= t.confirmed
      /\ t.frame <= cf + PREDICTION_WINDOW
    BY <1>1, WindowAssumption DEF ConfirmedFrame, Lesser
<1>3. /\ DOMAIN e.outputs = e.committed + 1 .. t.frame
      /\ e.committed <= cf
      /\ \A k \in DOMAIN e.outputs : e.outputs[k] = Prefix(e.core, k)
    BY <1>1 DEF OutputsHeld
<1>4. d = [e EXCEPT !.released = rel, !.outputs = outs, !.committed = com,
                    !.snapshots = snap]
    BY DEF Commit, Kept
<1> HIDE DEF cf
<1>5. out = e.committed + 1 .. cf
    BY <1>1, <1>2, <1>3 DEF Released, cf
<1> HIDE DEF out
<1>6. com = cf
    <2>1. CASE out = {}
        BY <1>1, <1>2, <1>3, <1>5, <2>1
    <2>2. CASE out # {}
        <3>1. out \subseteq Nat /\ cf \in out /\ \A k \in out : k <= cf
            BY <1>1, <1>2, <1>5, <2>2
        <3>2. Latest(out) \in out /\ \A k \in out : k <= Latest(out)
            BY <1>2, <2>2, <3>1, LatestIsGreatest
        <3> DEFINE m == Latest(out)
        <3>3. m \in Nat /\ m <= cf /\ cf <= m
            BY <3>1, <3>2
        <3> HIDE DEF m
        <3>4. m = cf
            BY <1>2, <3>3
        <3> QED
            BY <2>2, <3>4 DEF m
    <2> QED
        BY <2>1, <2>2
<1>7. \A k \in out : e.outputs[k][k - 1] = e.core[k - 1] /\ k - 1 \in 0 .. cf - 1
    <2> TAKE k \in out
    <2>1. /\ k \in DOMAIN e.outputs
          /\ k - 1 \in 0 .. cf - 1
          /\ k - 1 \in 0 .. k - 1
        BY <1>1, <1>2, <1>3, <1>5
    <2>2. e.outputs[k] = Prefix(e.core, k)
        BY <1>3, <2>1
    <2>3. Prefix(e.core, k)[k - 1] = e.core[k - 1]
        BY <2>1 DEF Prefix
    <2> QED
        BY <2>1, <2>2, <2>3
<1>8. \A f \in 0 .. cf - 1 : f \in DOMAIN g /\ e.core[f] = g[f]
    <2> TAKE f \in 0 .. cf - 1
    <2>1. f \in DOMAIN e.core /\ f < t.confirmed /\ f \in Nat
        BY <1>1, <1>2 DEF ExecutionType
    <2>2. CASE f \in DOMAIN t.executed
        <3>1. Full(t.inputs, f)
            BY <1>1, <2>1, <2>2 DEF ExecutedSpan
        <3>2. f \in DOMAIN g /\ PortsAt(t, f) = g[f]
            BY <1>1, <2>1, <3>1, FullTrue
        <3>3. t.executed[f] = PortsAt(t, f)
            BY <1>1, <2>2 DEF ExecutedCurrent, Clean
        <3> QED
            BY <1>1, <2>1, <2>2, <3>2, <3>3 DEF CoreHistory
    <2>3. CASE f \notin DOMAIN t.executed
        BY <1>1, <2>1, <2>3 DEF CoreHistory
    <2> QED
        BY <2>2, <2>3
<1>9. /\ DOMAIN e.released = 1 .. e.committed
      /\ \A k \in DOMAIN e.released :
            k - 1 \in DOMAIN g /\ e.released[k] = g[k - 1]
    BY <1>1 DEF ReleasedRight
<1>10. DOMAIN rel = 1 .. cf
    BY <1>1, <1>2, <1>3, <1>5, <1>9
<1>11. \A k \in DOMAIN rel : k - 1 \in DOMAIN g /\ rel[k] = g[k - 1]
    BY <1>7, <1>8, <1>9
<1>12. IsMap(rel, PortValues)
    <2>1. \A k \in out : e.core[k - 1] \in PortValues
        BY <1>1, <1>2, <1>7 DEF ExecutionType, IsMap
    <2>2. \A k \in DOMAIN e.released : e.released[k] \in PortValues
        BY <1>1 DEF ExecutionType, IsMap
    <2>3. \A k \in DOMAIN rel : rel[k] \in PortValues
        BY <1>7, <2>1, <2>2
    <2>4. \A k \in DOMAIN rel : k \in Nat
        BY <1>10
    <2> QED
        BY <2>3, <2>4 DEF IsMap
<1>13. \A k \in DOMAIN e.released : k \in DOMAIN rel /\ rel[k] = e.released[k]
    BY <1>1, <1>5, <1>9
<1>14. /\ DOMAIN outs = cf + 1 .. t.frame
       /\ \A k \in DOMAIN outs : outs[k] = Prefix(e.core, k)
    BY <1>1, <1>2, <1>3, <1>5
<1>15. /\ \A k \in DOMAIN snap :
            k \in cf .. t.frame /\ snap[k] = Prefix(e.core, k)
       /\ \A k \in 0 .. t.frame :
            k >= t.confirmed \/ k = t.frame => k \in DOMAIN snap
    BY <1>1, <1>2 DEF SnapshotsHeld
<1> HIDE DEF rel, outs, com, snap
<1>16. /\ d \in [timeline : {t}, core : {e.core}, snapshots : {snap},
                 outputs : {outs}, committed : {com}, released : {rel}]
       /\ d.timeline = t /\ d.core = e.core /\ d.snapshots = snap
       /\ d.outputs = outs /\ d.committed = com /\ d.released = rel
    BY <1>1, <1>4 DEF ExecutionType
<1> HIDE DEF d
<1>17. ExecutionType(d)
    BY <1>1, <1>2, <1>6, <1>12, <1>16 DEF ExecutionType
<1>18. CoreHistory(d, g)
    BY <1>1, <1>16 DEF CoreHistory
<1>19. SnapshotsHeld(d)
    BY <1>2, <1>15, <1>16 DEF SnapshotsHeld
<1>20. OutputsHeld(d)
    BY <1>2, <1>6, <1>14, <1>16 DEF OutputsHeld, cf
<1>21. ReleasedRight(d, g)
    BY <1>6, <1>10, <1>11, <1>16 DEF ReleasedRight
<1>22. ExecutionInv(d, g)
    BY <1>1, <1>16, <1>17, <1>18, <1>19, <1>20, <1>21 DEF ExecutionInv
<1>23. ~WindowErr(d)
    <2> DEFINE A == DOMAIN d.outputs
               B == DOMAIN d.snapshots
               W == PREDICTION_WINDOW
               first == cf + 1
               last == t.frame
    <2>1. A \subseteq first .. last /\ B \subseteq cf .. last
        BY <1>14, <1>15, <1>16
    <2>2. /\ W \in Nat /\ W + 1 \in Nat /\ first \in Nat /\ last \in Nat
          /\ last + 1 <= first + W /\ last + 1 <= cf + (W + 1)
        BY <1>1, <1>2, WindowAssumption
    <2> HIDE DEF A, B, W, first, last
    <2>3. Cardinality(A) \in Nat /\ Cardinality(A) <= W
        BY <2>1, <2>2, WindowFits
    <2>4. Cardinality(B) \in Nat /\ Cardinality(B) <= W + 1
        BY <1>2, <2>1, <2>2, WindowFits
    <2>5. ~(Cardinality(A) > W) /\ ~(Cardinality(B) > W + 1)
        BY <2>2, <2>3, <2>4
    <2> QED
        BY <2>5 DEF WindowErr, A, B, W
<1> QED
    BY <1>13, <1>16, <1>22, <1>23 DEF d

-----------------------------------------------------------------------------
(* Playing a frame.                                                        *)

\* Simulating the next frame with what the timeline says, and advancing.
LEMMA ExecuteNextInv ==
    ASSUME NEW e, NEW g, ExecutionInv(e, g), e.timeline.dirty = None,
           ~Stalled(e.timeline)
    PROVE  LET t == e.timeline
               plan == [f \in {t.frame} |-> PortsAt(t, t.frame)]
               d == [Execute(e, plan) EXCEPT !.timeline = Advance(t)]
           IN  /\ ExecutionInv(d, g)
               /\ d.timeline.dirty = None
               /\ d.timeline.player = t.player
               /\ d.timeline.confirmed = t.confirmed
               /\ d.timeline.frame = t.frame + 1
               /\ d.released = e.released
<1> DEFINE t == e.timeline
           plan == [f \in {t.frame} |-> PortsAt(t, t.frame)]
           u == Advance(t)
           d == [Execute(e, plan) EXCEPT !.timeline = u]
           core == Ran(e.core, plan)
           done == Completed(plan)
           next == t.frame + 1
<1>1. /\ TimelineType(t) /\ t.frame \in Nat /\ t.confirmed \in Nat
      /\ ExecutedSpan(t) /\ ExecutedCurrent(t) /\ TimelineInv(t, g)
      /\ ExecutionType(e) /\ CoreHistory(e, g) /\ SnapshotsHeld(e)
      /\ OutputsHeld(e) /\ ReleasedRight(e, g) /\ e.committed \in Nat
    BY ExecutionFacts DEF ExecutionInv, TimelineInv
<1>2. DOMAIN plan = {t.frame} /\ plan[t.frame] = PortsAt(t, t.frame)
    OBVIOUS
<1>3. /\ u.player = t.player
      /\ u.frame = next
      /\ u.confirmed = t.confirmed
      /\ u.dirty = None
      /\ DOMAIN u.executed = {f \in DOMAIN t.executed \cup {t.frame} :
                                f >= Lesser(t.confirmed, next)}
      /\ \A f \in DOMAIN u.executed : u.executed[f] = PortsAt(t, f)
    BY <1>1, AdvanceFields
<1>4. TimelineInv(u, g)
    BY <1>1, AdvanceInv
<1> HIDE DEF plan, u
<1>5. /\ IsSession(d)
      /\ d.timeline = u
      /\ d.core = core
      /\ d.snapshots = Capture(e.snapshots, core, done)
      /\ d.outputs = Capture(e.outputs, core, done)
      /\ d.committed = e.committed
      /\ d.released = e.released
    <2>1. IsSession(e)
        BY <1>1 DEF IsSession, ExecutionType
    <2> QED
        BY <2>1, ExecuteFields
<1> HIDE DEF d
<1>6. done = {next} /\ next \in Nat
    BY <1>1, <1>2 DEF Completed
<1>7. DOMAIN e.core = 0 .. t.frame - 1
    BY <1>1 DEF ExecutionType
<1>8. /\ DOMAIN core = 0 .. next - 1
      /\ core[t.frame] = PortsAt(t, t.frame)
      /\ \A f \in 0 .. t.frame - 1 : core[f] = e.core[f]
    BY <1>1, <1>2, <1>7 DEF Ran
<1>9. core = [f \in DOMAIN core |-> core[f]]
    BY DEF Ran
<1> HIDE DEF core, done
<1>10. \A f \in DOMAIN core : f \in Nat /\ core[f] \in PortValues
    <2>1. PortsAt(t, t.frame) \in PortValues
        BY <1>1, PortsAtType
    <2>2. \A f \in 0 .. t.frame - 1 : e.core[f] \in PortValues
        BY <1>1 DEF ExecutionType, IsMap
    <2> QED
        BY <1>1, <1>8, <2>1, <2>2
<1>11. ExecutionType(d)
    BY <1>1, <1>3, <1>5, <1>8, <1>9, <1>10 DEF ExecutionType, IsSession, IsMap
<1>12. CoreHistory(d, g)
    <2> SUFFICES ASSUME NEW f \in 0 .. next - 1
                 PROVE  IF f \in DOMAIN u.executed
                        THEN core[f] = u.executed[f]
                        ELSE /\ f < t.confirmed
                             /\ f \in DOMAIN g
                             /\ core[f] = g[f]
        BY <1>3, <1>5, <1>8 DEF CoreHistory
    <2>1. f \in DOMAIN t.executed \cup {t.frame} => core[f] = PortsAt(t, f)
        <3>1. ASSUME f \in DOMAIN t.executed, f # t.frame
              PROVE  core[f] = PortsAt(t, f)
            <4>1. f \in 0 .. t.frame - 1
                BY <1>1, <3>1 DEF ExecutedSpan
            <4>2. t.executed[f] = PortsAt(t, f)
                BY <1>1, <3>1 DEF ExecutedCurrent, Clean
            <4>3. e.core[f] = t.executed[f]
                BY <1>1, <1>7, <3>1, <4>1 DEF CoreHistory
            <4> QED
                BY <1>8, <4>1, <4>2, <4>3
        <3> QED
            BY <1>8, <3>1
    <2>2. CASE f \in DOMAIN u.executed
        BY <1>3, <2>1, <2>2
    <2>3. CASE f \in DOMAIN t.executed \cup {t.frame} /\ f \notin DOMAIN u.executed
        <3>1. f < t.confirmed
            BY <1>1, <1>3, <1>6, <2>3 DEF Lesser
        <3>2. Full(t.inputs, f)
            <4>1. CASE f \in DOMAIN t.executed
                BY <1>1, <3>1, <4>1 DEF ExecutedSpan
            <4>2. CASE f = t.frame
                BY <1>1, <3>1, <4>2 DEF TimelineInv, ConfirmedFull
            <4> QED
                BY <2>3, <4>1, <4>2
        <3>3. f \in DOMAIN g /\ PortsAt(t, f) = g[f]
            BY <1>1, <1>6, <3>2, FullTrue
        <3> QED
            BY <2>1, <2>3, <3>1, <3>3
    <2>4. CASE f \notin DOMAIN t.executed \cup {t.frame}
        <3>1. f \in 0 .. t.frame - 1
            BY <1>1, <2>4
        <3> QED
            BY <1>1, <1>3, <1>7, <1>8, <2>4, <3>1 DEF CoreHistory
    <2> QED
        BY <2>2, <2>3, <2>4
<1>13. \A k \in 0 .. t.frame : Prefix(e.core, k) = Prefix(core, k)
    BY <1>1, <1>8 DEF Prefix
<1>14. SnapshotsHeld(d)
    <2>1. DOMAIN d.snapshots = DOMAIN e.snapshots \cup {next}
        BY <1>5, <1>6 DEF Capture
    <2>2. \A k \in DOMAIN e.snapshots :
            k \in 0 .. t.frame /\ e.snapshots[k] = Prefix(e.core, k)
        BY <1>1 DEF SnapshotsHeld
    <2>3. \A k \in DOMAIN d.snapshots :
            d.snapshots[k] = IF k = next THEN Prefix(core, k) ELSE e.snapshots[k]
        BY <1>5, <1>6, <2>1 DEF Capture
    <2>4. \A k \in DOMAIN d.snapshots :
            k \in 0 .. next /\ d.snapshots[k] = Prefix(core, k)
        BY <1>1, <1>6, <1>13, <2>1, <2>2, <2>3
    <2>5. \A k \in 0 .. next :
            k >= t.confirmed \/ k = next => k \in DOMAIN d.snapshots
        BY <1>1, <2>1 DEF SnapshotsHeld
    <2> QED
        BY <1>3, <1>5, <2>4, <2>5 DEF SnapshotsHeld
<1>15. OutputsHeld(d)
    <2>1. /\ DOMAIN e.outputs = e.committed + 1 .. t.frame
          /\ \A k \in DOMAIN e.outputs : e.outputs[k] = Prefix(e.core, k)
          /\ e.committed <= t.frame /\ e.committed <= t.confirmed
        BY <1>1 DEF OutputsHeld, ConfirmedFrame, Lesser
    <2>2. DOMAIN d.outputs = e.committed + 1 .. next
        BY <1>1, <1>5, <1>6, <2>1 DEF Capture
    <2>3. \A k \in DOMAIN d.outputs :
            d.outputs[k] = IF k = next THEN Prefix(core, k) ELSE e.outputs[k]
        BY <1>5, <1>6, <2>2 DEF Capture
    <2>4. \A k \in DOMAIN d.outputs : d.outputs[k] = Prefix(core, k)
        BY <1>1, <1>13, <2>1, <2>2, <2>3
    <2>5. e.committed <= ConfirmedFrame(u)
        BY <1>1, <1>3, <2>1 DEF ConfirmedFrame, Lesser
    <2> QED
        BY <1>3, <1>5, <2>2, <2>4, <2>5 DEF OutputsHeld
<1>16. ReleasedRight(d, g)
    BY <1>1, <1>5 DEF ReleasedRight
<1>17. ExecutionInv(d, g)
    BY <1>4, <1>5, <1>11, <1>12, <1>14, <1>15, <1>16 DEF ExecutionInv
<1> QED
    BY <1>3, <1>5, <1>17 DEF d, plan, u

-----------------------------------------------------------------------------
(* The two ways in which a session learns an input.                        *)

\* handle_event of an accepted Message::Input.
LEMMA ReceiveInv ==
    ASSUME NEW e, NEW g, ExecutionInv(e, g), NEW f \in Nat, NEW b \in Buttons,
           ~ReceiveErr(e.timeline, f, b)
    PROVE  ExecutionInv([e EXCEPT !.timeline = ReceiveRemote(e.timeline, f, b)],
                IF Ignored(e.timeline, f) THEN g
                ELSE Put(g, f, Other(e.timeline.player), b))
<1> DEFINE t == e.timeline
           p == Other(t.player)
           u == ReceiveRemote(t, f, b)
           h == IF Ignored(t, f) THEN g ELSE Put(g, f, p, b)
<1>1. TimelineInv(t, g)
    BY DEF ExecutionInv
<1>2. p \in Ports
    BY <1>1 DEF TimelineInv, TimelineType, Ports, Other
<1>3. TimelineInv(u, h)
    BY <1>1, ReceiveRemoteInv
<1>4. /\ u.frame = t.frame
      /\ u.executed = t.executed
      /\ u.confirmed >= t.confirmed
      /\ u.dirty # None /\ u.dirty # t.dirty => u.dirty >= t.confirmed
      /\ ~Ignored(t, f) => Entry(t.inputs, f)[p] = None /\ f >= t.confirmed
    BY <1>1, ReceiveRemoteFields
<1>5. \A k \in DOMAIN g : k < t.confirmed => k \in DOMAIN h /\ h[k] = g[k]
    <2>1. CASE Ignored(t, f)
        BY <2>1
    <2>2. CASE ~Ignored(t, f)
        BY <1>1, <1>2, <1>4, <2>2, HistoryKept
    <2> QED
        BY <2>1, <2>2
<1> HIDE DEF u, h
<1>6. ExecutionInv([e EXCEPT !.timeline = u], h)
    BY <1>3, <1>4, <1>5, LearnExecution
<1> QED
    BY <1>6 DEF u, h

\* execute does not read the timeline it is about to replace.
LEMMA ExecuteForgets ==
    ASSUME NEW e, IsSession(e), NEW t, NEW plan, NEW u
    PROVE  [Execute([e EXCEPT !.timeline = t], plan) EXCEPT !.timeline = u]
            = [Execute(e, plan) EXCEPT !.timeline = u]
<1> DEFINE d == [e EXCEPT !.timeline = t]
           x == [Execute(d, plan) EXCEPT !.timeline = u]
           y == [Execute(e, plan) EXCEPT !.timeline = u]
<1>1. /\ IsSession(d) /\ d.core = e.core /\ d.snapshots = e.snapshots
      /\ d.outputs = e.outputs /\ d.committed = e.committed
      /\ d.released = e.released
    BY DEF IsSession
<1> HIDE DEF d
<1>2. /\ IsSession(x)
      /\ x.timeline = u
      /\ x.core = Ran(d.core, plan)
      /\ x.snapshots = Capture(d.snapshots, Ran(d.core, plan), Completed(plan))
      /\ x.outputs = Capture(d.outputs, Ran(d.core, plan), Completed(plan))
      /\ x.committed = d.committed
      /\ x.released = d.released
    BY <1>1, ExecuteFields
<1>3. /\ IsSession(y)
      /\ y.timeline = u
      /\ y.core = Ran(e.core, plan)
      /\ y.snapshots = Capture(e.snapshots, Ran(e.core, plan), Completed(plan))
      /\ y.outputs = Capture(e.outputs, Ran(e.core, plan), Completed(plan))
      /\ y.committed = e.committed
      /\ y.released = e.released
    BY ExecuteFields
<1> HIDE DEF x, y
<1>4. /\ x.timeline = y.timeline /\ x.core = y.core
      /\ x.snapshots = y.snapshots /\ x.outputs = y.outputs
      /\ x.committed = y.committed /\ x.released = y.released
    BY <1>1, <1>2, <1>3
<1>5. x = y
    BY <1>2, <1>3, <1>4 DEF IsSession
<1> QED
    BY <1>5 DEF x, y, d

\* Sampling the local buttons and, unless the window is used up, simulating
\* one frame.
LEMMA PlayExecution ==
    ASSUME NEW e, NEW g, ExecutionInv(e, g), e.timeline.dirty = None,
           NEW b \in Buttons
    PROVE  LET t == e.timeline
               h == Put(g, SampleFrame(t), t.player, SampleValue(t, b))
           IN  /\ ExecutionInv(Play(e, b), h)
               /\ Play(e, b).timeline.dirty = None
               /\ Play(e, b).timeline.player = t.player
               /\ Play(e, b).timeline.confirmed >= t.confirmed
               /\ Play(e, b).released = e.released
<1> DEFINE t == e.timeline
           h == Put(g, SampleFrame(t), t.player, SampleValue(t, b))
           u == SampleLocal(t, b)
           d == [e EXCEPT !.timeline = u]
           plan == [f \in {u.frame} |-> PortsAt(u, u.frame)]
           x == [Execute(d, plan) EXCEPT !.timeline = Advance(u)]
<1>1. /\ TimelineInv(t, g) /\ t.player \in Ports /\ t.confirmed \in Nat
      /\ IsSession(e)
    BY ExecutionFacts DEF ExecutionInv, ExecutionType, IsSession
<1>2. TimelineInv(u, h)
    BY <1>1, SampleLocalInv
<1>3. /\ u.player = t.player /\ u.frame = t.frame
      /\ u.executed = t.executed /\ u.dirty = None
      /\ u.confirmed >= t.confirmed /\ u.confirmed \in Nat
    <2>1. u.confirmed \in Nat
        BY <1>2 DEF TimelineInv, TimelineType
    <2> QED
        BY <1>1, <2>1, SampleLocalFields
<1>4. \A k \in DOMAIN g : k < t.confirmed => k \in DOMAIN h /\ h[k] = g[k]
    <2>1. /\ SampleFrame(t) \in Nat /\ SampleValue(t, b) \in Buttons
          /\ Entry(t.inputs, SampleFrame(t))[t.player]
                \in {None, SampleValue(t, b)}
          /\ Entry(t.inputs, SampleFrame(t))[t.player] = None
                => SampleFrame(t) >= t.confirmed
        BY <1>1, SampleWord
    <2> QED
        BY <1>1, <2>1, HistoryKept
<1> HIDE DEF u, h
<1>5. ExecutionInv(d, h)
    BY <1>2, <1>3, <1>4, LearnExecution
<1>6. d.timeline = u /\ d.released = e.released
    BY <1>1 DEF IsSession
<1>7. CASE Stalled(u)
    <2>1. Play(e, b) = d
        BY <1>7 DEF Play, u
    <2> QED
        BY <1>3, <1>5, <1>6, <2>1 DEF h
<1>8. CASE ~Stalled(u)
    <2>1. Play(e, b) = [Execute(e, plan) EXCEPT !.timeline = Advance(u)]
        BY <1>8 DEF Play, u
    <2>2. Play(e, b) = x
        BY SMTT(30), <1>1, <2>1, ExecuteForgets
    <2> HIDE DEF d
    <2>3. /\ ExecutionInv(x, h)
          /\ x.timeline.dirty = None
          /\ x.timeline.player = u.player
          /\ x.timeline.confirmed = u.confirmed
          /\ x.released = d.released
        BY <1>3, <1>5, <1>6, <1>8, ExecuteNextInv
    <2> QED
        BY <1>3, <1>6, <2>2, <2>3 DEF h
<1> QED
    BY <1>7, <1>8

-----------------------------------------------------------------------------
(* The pause agreement.  Its lemmas are about two sessions given by their  *)
(* parts, so that they serve both ports:                                   *)
(*   c, f, s, k, h   the first one's PauseControl, frames played, inputs   *)
(*                   sampled, peer's inputs known, and messages to it;     *)
(*   d, e, t, l, g   the same of the second.                               *)

\* The PauseVote and PauseControl structs.
Votes == [target : Nat \cup {None}, paused : BOOLEAN]
Controls ==
    [local : Votes, peer : Votes, episode : Nat \cup {None},
     reported : (BOOLEAN \X BOOLEAN) \cup {None},
     local_request : Nat, local_acked : Nat, peer_request : Nat, desired : BOOLEAN]

\* The messages of a session: inputs (PausePlay leaves their words out) and the
\* changes and acknowledgments of votes, which bear on a pause, and the others.
InputMessages ==
    [type : {"Input"}, frame : Nat] \cup [type : {"Input"}, frame : Nat, word : Buttons]
ChangeMessages ==
    [type : {"PauseChange"}, request : Nat, frame : Nat, paused : BOOLEAN]
AckMessages == [type : {"PauseAck"}, request : Nat]
Trajectories == UNION {[0 .. n - 1 -> PortValues] : n \in Nat}
OtherMessages ==
    [type : {"Progress"}, frame : Nat, confirmed : Nat]
        \cup [type : {"Checkpoint"}, frame : Nat, hash : Trajectories]
        \cup [type : {"Close"}, frame : Nat]
Messages == InputMessages \cup ChangeMessages \cup AckMessages \cup OtherMessages

\* A vote is a change that asks for a pause, the other changes are releases.
IsInput(m) == m.type = "Input"
IsChange(m) == m.type = "PauseChange"
IsVote(m) == IsChange(m) /\ m.paused
IsAck(m, r) == m.type = "PauseAck" /\ m.request = r

\* A vote to stop at x or before, the change r, the acknowledgment of r is in h.
Names(h, x) == \E i \in 1 .. Len(h) : IsVote(h[i]) /\ h[i].frame <= x
HasChange(h, r) == \E i \in 1 .. Len(h) : IsChange(h[i]) /\ h[i].request = r
HasAck(h, r) == \E i \in 1 .. Len(h) : IsAck(h[i], r)

\* The acknowledgment of r comes before any change.
Ripe(h, r) ==
    \E i \in 1 .. Len(h) : IsAck(h[i], r) /\ \A j \in 1 .. i - 1 : ~IsChange(h[j])

-----------------------------------------------------------------------------
(* The parts of the agreement.                                             *)

\* There is a barrier exactly while a vote stands or a change is not yet
\* acknowledged, and the session has not run past it.
Halts(c, f) ==
    /\ c.episode = None <=>
            (~c.local.paused /\ ~c.peer.paused /\ c.local_acked = c.local_request)
    /\ c.episode # None => f <= c.episode /\ c.episode <= f + 2 * PauseLead

\* What d has seen of c's votes: all, all but the last, or neither the last vote
\* nor its release.  No vote follows a release before that is acknowledged.
Views(c, d) ==
    /\ c.local_acked <= d.peer_request /\ d.peer_request <= c.local_request
    /\ c.local_request <= c.local_acked + 2
    /\ c.local_request = c.local_acked + 2 => ~c.local.paused
    /\ d.peer_request = c.local_request =>
            d.peer.target = c.local.target /\ (d.peer.paused <=> c.local.paused)
    /\ d.peer_request = c.local_request - 1 =>
            /\ d.peer.paused <=> ~c.local.paused
            /\ ~c.local.paused => d.peer.target = c.local.target
    /\ d.peer_request = c.local_request - 2 => ~d.peer.paused
    /\ c.local.paused => c.local.target # None

\* The changes in h, under way from c to d, are those d has not seen, in order.
Sent(c, d, h) ==
    /\ \A i \in 1 .. Len(h) : IsChange(h[i]) =>
        /\ d.peer_request < h[i].request /\ h[i].request <= c.local_request
        /\ h[i].frame = c.local.target
        /\ h[i].request = c.local_request => (h[i].paused <=> c.local.paused)
        /\ h[i].request # c.local_request =>
                h[i].request = c.local_request - 1 /\ h[i].paused /\ ~c.local.paused
    /\ \A i, j \in 1 .. Len(h) :
            i < j /\ IsChange(h[i]) /\ IsChange(h[j]) => h[i].request < h[j].request
    /\ \A r \in d.peer_request + 1 .. c.local_request : HasChange(h, r)

\* The acknowledgments in h, under way to c, are of changes d has seen, and
\* among them are all that c waits for.
Acks(c, d, h) ==
    /\ \A i \in 1 .. Len(h) : h[i].type = "PauseAck" =>
            h[i].request >= 1 /\ h[i].request <= d.peer_request
    /\ \A r \in c.local_acked + 1 .. d.peer_request : HasAck(h, r)

\* c has withdrawn its vote, and will lift its barrier on what is already under
\* way, before it hears of another vote.
Finishing(c, h) ==
    /\ ~c.local.paused /\ ~c.peer.paused /\ c.local_acked # c.local_request
    /\ Ripe(h, c.local_request)
Lasting(c, h) == c.episode # None /\ ~Finishing(c, h)

\* A barrier that will last is one for the peer too, no later, now or when a vote
\* under way to it has arrived.
Agree(c, h, d, g) ==
    Lasting(c, h) => \/ Lasting(d, g) /\ d.episode <= c.episode
                     \/ Names(g, c.episode)

\* While a vote of c is under way (g), c itself stops no later than it says.
Owned(c, g) ==
    \A i \in 1 .. Len(g) : IsVote(g[i]) => c.episode # None /\ c.episode <= g[i].frame

\* The vote at i of h comes before the receiver can have passed its frame: the
\* receiver does not know enough inputs to get there, also with those before i;
Ahead(k, h, i) ==
    /\ k + PREDICTION_WINDOW <= h[i].frame
    /\ \A j \in 1 .. i - 1 :
            IsInput(h[j]) => h[j].frame + 1 + PREDICTION_WINDOW <= h[i].frame

\* or it is held by a barrier of its own until the vote arrives.
Barred(c, h, i) ==
    /\ c.episode # None /\ c.episode <= h[i].frame
    /\ \/ c.local.paused
       \/ /\ c.local_acked # c.local_request
          /\ \A j \in 1 .. i - 1 : ~IsAck(h[j], c.local_request)

\* Every vote under way to c arrives in time, and names no frame too far ahead.
Timely(c, f, k, h) ==
    \A i \in 1 .. Len(h) : IsVote(h[i]) =>
        /\ h[i].frame <= f + 2 * PauseLead
        /\ Ahead(k, h, i) \/ Barred(c, h, i)

\* The agreement, seen from one side and from both.
Half(c, f, k, h, d, g) ==
    /\ Halts(c, f) /\ Views(c, d) /\ Sent(c, d, g) /\ Acks(c, d, h)
    /\ Agree(c, h, d, g) /\ Owned(c, g) /\ Timely(c, f, k, h)
Pact(c, f, k, h, d, e, l, g) ==
    Half(c, f, k, h, d, g) /\ Half(d, e, l, g, c, h)

-----------------------------------------------------------------------------
(* Queues and records.                                                     *)

\* A queue with a message at its end, index by index.
LEMMA AppendFacts ==
    ASSUME NEW h \in Seq(Messages), NEW m \in Messages
    PROVE  /\ Append(h, m) \in Seq(Messages) /\ Len(h) \in Nat
           /\ Len(Append(h, m)) = Len(h) + 1
           /\ \A i \in 1 .. Len(h) : Append(h, m)[i] = h[i] /\ h[i] \in Messages
           /\ Append(h, m)[Len(h) + 1] = m
  OBVIOUS

\* A queue without its head, index by index.
LEMMA TailFacts ==
    ASSUME NEW h \in Seq(Messages), h # <<>>
    PROVE  /\ Tail(h) \in Seq(Messages) /\ Len(h) \in Nat \ {0} /\ Head(h) = h[1]
           /\ Len(Tail(h)) = Len(h) - 1
           /\ \A i \in 1 .. Len(h) - 1 : Tail(h)[i] = h[i + 1] /\ i + 1 \in 1 .. Len(h)
           /\ \A i \in 1 .. Len(h) : h[i] \in Messages
           /\ \A i \in 2 .. Len(h) : h[i] = Tail(h)[i - 1] /\ i - 1 \in 1 .. Len(h) - 1
  <1>1. Tail(h) \in Seq(Messages) /\ Len(h) \in Nat \ {0} /\ Head(h) = h[1]
        /\ Len(Tail(h)) = Len(h) - 1 /\ \A i \in 1 .. Len(h) - 1 : Tail(h)[i] = h[i + 1]
    OBVIOUS
  <1>2. \A i \in 1 .. Len(h) : h[i] \in Messages OBVIOUS
  <1> QED BY <1>1, <1>2

\* The fields of each kind of message.
LEMMA MessageTypes ==
    ASSUME NEW m \in Messages
    PROVE  /\ m.type \in {"Input", "PauseChange", "PauseAck", "Progress", "Checkpoint",
                          "Close"}
           /\ IsInput(m) => m \in InputMessages /\ m.frame \in Nat
           /\ IsChange(m) => /\ m \in ChangeMessages /\ m.frame \in Nat
                             /\ m.request \in Nat /\ m.paused \in BOOLEAN
           /\ m.type = "PauseAck" => m \in AckMessages /\ m.request \in Nat
  <1>1. CASE m \in InputMessages BY <1>1 DEF InputMessages, IsInput, IsChange
  <1>2. CASE m \in ChangeMessages BY <1>2 DEF ChangeMessages, IsInput, IsChange
  <1>3. CASE m \in AckMessages BY <1>3 DEF AckMessages, IsInput, IsChange
  <1>4. CASE m \in OtherMessages BY <1>4 DEF OtherMessages, IsInput, IsChange
  <1> QED BY <1>1, <1>2, <1>3, <1>4 DEF Messages

\* What is found in a queue after a message is put at its end.
LEMMA AppendFinds ==
    ASSUME NEW h \in Seq(Messages), NEW m \in Messages
    PROVE  /\ \A x : Names(Append(h, m), x) <=> Names(h, x) \/ (IsVote(m) /\ m.frame <= x)
           /\ \A r : HasChange(Append(h, m), r) <=>
                        HasChange(h, r) \/ (IsChange(m) /\ m.request = r)
           /\ \A r : HasAck(Append(h, m), r) <=> HasAck(h, r) \/ IsAck(m, r)
           /\ \A r : Ripe(Append(h, m), r) <=>
                        Ripe(h, r) \/ (IsAck(m, r) /\ \A i \in 1 .. Len(h) : ~IsChange(h[i]))
  <1> DEFINE g == Append(h, m)
  <1>1. /\ Len(h) \in Nat /\ Len(g) = Len(h) + 1 /\ g[Len(h) + 1] = m
        /\ \A i \in 1 .. Len(h) : g[i] = h[i]
    BY AppendFacts
  <1>2. \A i \in 1 .. Len(g) : i = Len(h) + 1 \/ i \in 1 .. Len(h) BY <1>1
  <1>3. Len(h) + 1 \in 1 .. Len(g) /\ \A i \in 1 .. Len(h) : i \in 1 .. Len(g) BY <1>1
  <1> HIDE DEF g
  <1>4. \A x : Names(g, x) <=> Names(h, x) \/ (IsVote(m) /\ m.frame <= x)
    BY <1>1, <1>2, <1>3 DEF Names
  <1>5. \A r : HasChange(g, r) <=> HasChange(h, r) \/ (IsChange(m) /\ m.request = r)
    BY <1>1, <1>2, <1>3 DEF HasChange
  <1>6. \A r : HasAck(g, r) <=> HasAck(h, r) \/ IsAck(m, r)
    BY <1>1, <1>2, <1>3 DEF HasAck
  <1>7. ASSUME NEW r PROVE Ripe(g, r) <=>
              Ripe(h, r) \/ (IsAck(m, r) /\ \A i \in 1 .. Len(h) : ~IsChange(h[i]))
    <2>1. ASSUME NEW i \in 1 .. Len(h) PROVE \A j \in 1 .. i - 1 : g[j] = h[j]
      BY <1>1
    <2>2. \A j \in 1 .. Len(h) + 1 - 1 : j \in 1 .. Len(h) /\ g[j] = h[j] BY <1>1
    <2>3. \A j \in 1 .. Len(h) : j \in 1 .. Len(h) + 1 - 1 BY <1>1
    <2>4. ASSUME NEW i \in 1 .. Len(g), IsAck(g[i], r), \A j \in 1 .. i - 1 : ~IsChange(g[j])
          PROVE  Ripe(h, r) \/ (IsAck(m, r) /\ \A j \in 1 .. Len(h) : ~IsChange(h[j]))
      <3>1. CASE i = Len(h) + 1 BY <3>1, <2>2, <2>3, <2>4, <1>1
      <3>2. CASE i \in 1 .. Len(h) BY <3>2, <2>1, <2>4, <1>1 DEF Ripe
      <3> QED BY <3>1, <3>2, <1>2
    <2>5. ASSUME Ripe(h, r) PROVE Ripe(g, r)
      <3> PICK i \in 1 .. Len(h) : IsAck(h[i], r) /\ \A j \in 1 .. i - 1 : ~IsChange(h[j])
        BY <2>5 DEF Ripe
      <3> QED BY <1>1, <1>3, <2>1 DEF Ripe
    <2>6. ASSUME IsAck(m, r), \A i \in 1 .. Len(h) : ~IsChange(h[i]) PROVE Ripe(g, r)
      BY <2>6, <2>2, <1>1, <1>3 DEF Ripe
    <2> QED BY <2>4, <2>5, <2>6 DEF Ripe
  <1> QED BY <1>4, <1>5, <1>6, <1>7 DEF g

\* What is found in a queue, from its head and its tail.
LEMMA TailFinds ==
    ASSUME NEW h \in Seq(Messages), h # <<>>
    PROVE  /\ \A x : Names(h, x) <=>
                        Names(Tail(h), x) \/ (IsVote(Head(h)) /\ Head(h).frame <= x)
           /\ \A r : HasChange(h, r) <=>
                        HasChange(Tail(h), r) \/ (IsChange(Head(h)) /\ Head(h).request = r)
           /\ \A r : HasAck(h, r) <=> HasAck(Tail(h), r) \/ IsAck(Head(h), r)
           /\ \A r : Ripe(h, r) <=>
                        IsAck(Head(h), r) \/ (~IsChange(Head(h)) /\ Ripe(Tail(h), r))
  <1> DEFINE g == Tail(h)
             m == Head(h)
  <1>1. /\ Len(h) \in Nat \ {0} /\ Len(g) = Len(h) - 1 /\ h[1] = m /\ 1 \in 1 .. Len(h)
        /\ \A i \in 1 .. Len(g) : g[i] = h[i + 1] /\ i + 1 \in 1 .. Len(h)
        /\ \A i \in 1 .. Len(h) : i # 1 => h[i] = g[i - 1] /\ i - 1 \in 1 .. Len(g)
    BY TailFacts
  <1> HIDE DEF g, m
  <1>2. \A x : Names(h, x) <=> Names(g, x) \/ (IsVote(m) /\ m.frame <= x)
    BY <1>1 DEF Names
  <1>3. \A r : HasChange(h, r) <=> HasChange(g, r) \/ (IsChange(m) /\ m.request = r)
    BY <1>1 DEF HasChange
  <1>4. \A r : HasAck(h, r) <=> HasAck(g, r) \/ IsAck(m, r)
    BY <1>1 DEF HasAck
  <1>5. ASSUME NEW r PROVE Ripe(h, r) <=> IsAck(m, r) \/ (~IsChange(m) /\ Ripe(g, r))
    <2>1. ASSUME IsAck(m, r) PROVE Ripe(h, r)
      <3>1. \A j \in 1 .. 1 - 1 : FALSE OBVIOUS
      <3> QED BY <3>1, <2>1, <1>1 DEF Ripe
    <2>2. ASSUME ~IsChange(m), Ripe(g, r) PROVE Ripe(h, r)
      <3> PICK i \in 1 .. Len(g) : IsAck(g[i], r) /\ \A j \in 1 .. i - 1 : ~IsChange(g[j])
        BY <2>2 DEF Ripe
      <3>1. i + 1 \in 1 .. Len(h) /\ IsAck(h[i + 1], r) BY <1>1
      <3>2. ASSUME NEW j \in 1 .. (i + 1) - 1 PROVE ~IsChange(h[j])
        <4>1. CASE j = 1 BY <4>1, <2>2, <1>1
        <4>2. CASE j # 1
          <5>1. j \in 1 .. Len(h) /\ j - 1 \in 1 .. i - 1 BY <4>2, <1>1
          <5> QED BY <5>1, <4>2, <1>1
        <4> QED BY <4>1, <4>2
      <3> QED BY <3>1, <3>2 DEF Ripe
    <2>3. ASSUME Ripe(h, r), ~IsAck(m, r) PROVE ~IsChange(m) /\ Ripe(g, r)
      <3> PICK i \in 1 .. Len(h) : IsAck(h[i], r) /\ \A j \in 1 .. i - 1 : ~IsChange(h[j])
        BY <2>3 DEF Ripe
      <3>1. i # 1 /\ i - 1 \in 1 .. Len(g) /\ IsAck(g[i - 1], r) BY <2>3, <1>1
      <3>2. 1 \in 1 .. i - 1 /\ ~IsChange(m) BY <3>1, <1>1
      <3>3. ASSUME NEW j \in 1 .. (i - 1) - 1 PROVE ~IsChange(g[j])
        <4>1. j \in 1 .. Len(g) /\ j + 1 \in 1 .. i - 1 BY <1>1, <3>1
        <4> QED BY <4>1, <1>1
      <3> QED BY <3>1, <3>2, <3>3 DEF Ripe
    <2> QED BY <2>1, <2>2, <2>3
  <1> QED BY <1>2, <1>3, <1>4, <1>5 DEF g, m

\* The constants are natural numbers, and None is not.
LEMMA Numbers ==
    /\ PREDICTION_WINDOW \in Nat \ {0} /\ InputDelay \in Nat /\ PauseLead \in Nat
    /\ PauseLead = PREDICTION_WINDOW + 2 * InputDelay /\ None \notin Nat
  BY WindowAssumption, DelayAssumption, NoneAssumption DEF PauseLead

\* The fields of a PauseControl.
LEMMA ControlTypes ==
    ASSUME NEW c \in Controls
    PROVE  /\ c.local_request \in Nat /\ c.local_acked \in Nat /\ c.peer_request \in Nat
           /\ c.local.paused \in BOOLEAN /\ c.peer.paused \in BOOLEAN
           /\ c.local.target \in Nat \cup {None} /\ c.peer.target \in Nat \cup {None}
           /\ c.episode \in Nat \cup {None}
  <1>1. /\ c.local \in Votes /\ c.peer \in Votes
        /\ c.episode \in Nat \cup {None}
        /\ c.local_request \in Nat /\ c.local_acked \in Nat /\ c.peer_request \in Nat
    BY DEF Controls
  <1>2. \A v \in Votes : v.paused \in BOOLEAN /\ v.target \in Nat \cup {None} BY DEF Votes
  <1> QED BY <1>1, <1>2

\* The agreement is about six fields of a PauseControl: what the player wants and
\* was told are no part of it.
LEMMA PactSame ==
    ASSUME NEW c \in Controls, NEW c2 \in Controls, NEW d \in Controls,
           NEW f, NEW k, NEW h, NEW e, NEW l, NEW g,
           c2.local = c.local, c2.peer = c.peer, c2.episode = c.episode,
           c2.local_request = c.local_request, c2.local_acked = c.local_acked,
           c2.peer_request = c.peer_request, Pact(c, f, k, h, d, e, l, g)
    PROVE  Pact(c2, f, k, h, d, e, l, g)
  <1>1. Half(c2, f, k, h, d, g)
    BY DEF Pact, Half, Halts, Views, Sent, Acks, Agree, Lasting, Finishing, Owned,
           Timely, Barred
  <1>2. Half(d, e, l, g, c2, h)
    BY DEF Pact, Half, Halts, Views, Sent, Acks, Agree, Lasting, Finishing, Owned,
           Timely, Barred
  <1> QED BY <1>1, <1>2 DEF Pact

\* The agreement is the same seen from the peer.
LEMMA PactSymmetric ==
    ASSUME NEW c, NEW f, NEW k, NEW h, NEW d, NEW e, NEW l, NEW g,
           Pact(c, f, k, h, d, e, l, g)
    PROVE  Pact(d, e, l, g, c, f, k, h)
  BY DEF Pact

\* The counters of a PauseControl.
LEMMA Counters ==
    ASSUME NEW c \in Controls
    PROVE  c.local_request \in Nat /\ c.local_acked \in Nat /\ c.peer_request \in Nat
  BY ControlTypes

\* Taking the head leaves the changes behind it as they were.
LEMMA TailSent ==
    ASSUME NEW c \in Controls, NEW c2 \in Controls, NEW d \in Controls,
           NEW h \in Seq(Messages), h # <<>>, Sent(d, c, h),
           IsChange(Head(h)) => /\ Head(h).request = c.peer_request + 1
                                /\ c2.peer_request = Head(h).request,
           ~IsChange(Head(h)) => c2.peer_request = c.peer_request
    PROVE  Sent(d, c2, Tail(h))
  <1> DEFINE m == Head(h)
             t == Tail(h)
  <1>1. /\ t \in Seq(Messages) /\ Len(h) \in Nat \ {0} /\ h[1] = m /\ 1 \in 1 .. Len(h)
        /\ Len(t) = Len(h) - 1
        /\ \A i \in 1 .. Len(t) : t[i] = h[i + 1] /\ i + 1 \in 1 .. Len(h)
    BY TailFacts
  <1>2. \A r : HasChange(h, r) <=> HasChange(t, r) \/ (IsChange(m) /\ m.request = r)
    BY TailFinds
  <1>3. /\ IsChange(m) => m.request = c.peer_request + 1 /\ c2.peer_request = m.request
        /\ ~IsChange(m) => c2.peer_request = c.peer_request
    OBVIOUS
  <1>4. c.peer_request \in Nat /\ c2.peer_request \in Nat /\ d.local_request \in Nat
    BY Counters
  <1> HIDE DEF m, t
  <1>5. ASSUME NEW i \in 1 .. Len(t), NEW j \in 1 .. Len(t), i < j,
               IsChange(t[i]), IsChange(t[j])
        PROVE  t[i].request < t[j].request
    <2>1. i + 1 < j + 1 BY <1>1, <1>5
    <2>2. /\ t[i] = h[i + 1] /\ t[j] = h[j + 1]
          /\ i + 1 \in 1 .. Len(h) /\ j + 1 \in 1 .. Len(h)
      BY <1>1
    <2> QED BY <1>5, <2>1, <2>2 DEF Sent
  <1>6. ASSUME NEW i \in 1 .. Len(t), IsChange(t[i]) PROVE c2.peer_request < t[i].request
    <2>1. t[i] = h[i + 1] /\ i + 1 \in 1 .. Len(h) BY <1>1
    <2>2. 1 < i + 1 BY <1>1
    <2>3. CASE IsChange(m) BY <2>1, <2>2, <2>3, <1>1, <1>3, <1>6 DEF Sent
    <2>4. CASE ~IsChange(m) BY <2>1, <2>4, <1>3, <1>6 DEF Sent
    <2> QED BY <2>3, <2>4
  <1>7. ASSUME NEW r \in c2.peer_request + 1 .. d.local_request PROVE HasChange(t, r)
    <2>1. CASE IsChange(m)
      <3>1. r # m.request /\ r \in c.peer_request + 1 .. d.local_request
        BY <2>1, <1>3, <1>4
      <3> QED BY <3>1, <1>2 DEF Sent
    <2>2. CASE ~IsChange(m) BY <2>2, <1>2, <1>3 DEF Sent
    <2> QED BY <2>1, <2>2
  <1>8. ASSUME NEW i \in 1 .. Len(t), IsChange(t[i])
        PROVE  /\ t[i].request <= d.local_request
               /\ t[i].frame = d.local.target
               /\ t[i].request = d.local_request => (t[i].paused <=> d.local.paused)
               /\ t[i].request # d.local_request =>
                    t[i].request = d.local_request - 1 /\ t[i].paused /\ ~d.local.paused
    <2>1. t[i] = h[i + 1] /\ i + 1 \in 1 .. Len(h) BY <1>1
    <2> QED BY <2>1, <1>8 DEF Sent
  <1>9. Sent(d, c2, t) BY <1>5, <1>6, <1>7, <1>8 DEF Sent
  <1> QED BY <1>9 DEF t

\* The head of the queue is not about pauses.
LEMMA TakeInput ==
    ASSUME NEW c \in Controls, NEW d \in Controls, NEW f \in Nat, NEW k \in Nat,
           NEW e \in Nat, NEW l \in Nat, NEW h \in Seq(Messages), NEW g \in Seq(Messages),
           h # <<>>, IsInput(Head(h)), Pact(c, f, k, h, d, e, l, g)
    PROVE  Pact(c, f, Head(h).frame + 1, Tail(h), d, e, l, g)
  <1> DEFINE m == Head(h)
             t == Tail(h)
  <1>1. /\ t \in Seq(Messages) /\ Len(h) \in Nat \ {0} /\ h[1] = m /\ Len(t) = Len(h) - 1
        /\ \A i \in 1 .. Len(t) : t[i] = h[i + 1] /\ i + 1 \in 1 .. Len(h)
        /\ m \in Messages
    BY TailFacts
  <1>2. m.type = "Input" /\ m.frame \in Nat /\ ~IsChange(m) /\ \A r : ~IsAck(m, r)
    BY <1>1, MessageTypes DEF IsInput, IsChange, IsAck
  <1>3. /\ \A x : Names(h, x) <=> Names(t, x)
        /\ \A r : HasChange(h, r) <=> HasChange(t, r)
        /\ \A r : HasAck(h, r) <=> HasAck(t, r)
        /\ \A r : Ripe(h, r) <=> Ripe(t, r)
    BY <1>2, TailFinds DEF IsVote
  <1> HIDE DEF m, t
  <1>4. Agree(c, t, d, g) /\ Agree(d, g, c, t)
    BY <1>3 DEF Pact, Half, Agree, Lasting, Finishing
  <1>5. Sent(d, c, t)
    <2>1. Sent(d, c, h) BY DEF Pact, Half
    <2> QED BY <1>2, <2>1, TailSent DEF m, t
  <1>6. Acks(c, d, t) /\ Owned(d, t)
    BY <1>1, <1>3 DEF Pact, Half, Acks, Owned
  <1>7. Timely(c, f, m.frame + 1, t)
    <2> SUFFICES ASSUME NEW i \in 1 .. Len(t), IsVote(t[i])
                 PROVE  /\ t[i].frame <= f + 2 * PauseLead
                        /\ Ahead(m.frame + 1, t, i) \/ Barred(c, t, i)
      BY DEF Timely
    <2>1. t[i] = h[i + 1] /\ i + 1 \in 1 .. Len(h) BY <1>1
    <2>2. h[i + 1].frame <= f + 2 * PauseLead /\ (Ahead(k, h, i + 1) \/ Barred(c, h, i + 1))
      BY <2>1 DEF Pact, Half, Timely
    <2>3. \A j \in 1 .. i - 1 : t[j] = h[j + 1] /\ j + 1 \in 1 .. (i + 1) - 1 BY <1>1
    <2>4. 1 \in 1 .. (i + 1) - 1 BY <1>1
    <2>5. ASSUME Ahead(k, h, i + 1) PROVE Ahead(m.frame + 1, t, i)
      BY <2>5, <2>1, <2>3, <2>4, <1>1, <1>2 DEF Ahead, IsInput
    <2>6. ASSUME Barred(c, h, i + 1) PROVE Barred(c, t, i)
      BY <2>6, <2>1, <2>3 DEF Barred
    <2> QED BY <2>1, <2>2, <2>5, <2>6
  <1> QED BY <1>4, <1>5, <1>6, <1>7 DEF Pact, Half, m, t

\* A queue with others at its end, index by index.
LEMMA ConcatFacts ==
    ASSUME NEW g \in Seq(Messages), NEW x \in Seq(Messages)
    PROVE  /\ g \o x \in Seq(Messages) /\ Len(g) \in Nat /\ Len(x) \in Nat
           /\ Len(g \o x) = Len(g) + Len(x)
           /\ \A i \in 1 .. Len(g) : (g \o x)[i] = g[i] /\ i \in 1 .. Len(g \o x)
           /\ \A i \in 1 .. Len(x) :
                (g \o x)[Len(g) + i] = x[i] /\ Len(g) + i \in 1 .. Len(g \o x)
           /\ \A i \in 1 .. Len(g \o x) :
                \/ i \in 1 .. Len(g)
                \/ ~(i \in 1 .. Len(g)) /\ i - Len(g) \in 1 .. Len(x)
                   /\ (g \o x)[i] = x[i - Len(g)]
  <1>1. /\ g \o x \in Seq(Messages) /\ Len(g) \in Nat /\ Len(x) \in Nat
        /\ Len(g \o x) = Len(g) + Len(x)
    BY ConcatProperties
  <1>2. \A i \in 1 .. Len(g) + Len(x) :
            (g \o x)[i] = IF i <= Len(g) THEN g[i] ELSE x[i - Len(g)]
    BY ConcatProperties
  <1> QED BY <1>1, <1>2

\* Neither a change nor an acknowledgment.
Neutrals(x) == \A i \in 1 .. Len(x) : ~IsChange(x[i]) /\ x[i].type # "PauseAck"

\* Such messages at the end of a queue change nothing that is found in it.
LEMMA ConcatFinds ==
    ASSUME NEW g \in Seq(Messages), NEW x \in Seq(Messages), Neutrals(x)
    PROVE  /\ \A y : Names(g \o x, y) <=> Names(g, y)
           /\ \A r : HasChange(g \o x, r) <=> HasChange(g, r)
           /\ \A r : HasAck(g \o x, r) <=> HasAck(g, r)
           /\ \A r : Ripe(g \o x, r) <=> Ripe(g, r)
  <1> DEFINE a == g \o x
  <1>1. /\ Len(g) \in Nat /\ Len(a) \in Nat
        /\ \A i \in 1 .. Len(g) : a[i] = g[i] /\ i \in 1 .. Len(a)
        /\ \A i \in 1 .. Len(a) : i \in 1 .. Len(g)
                                    \/ (~IsChange(a[i]) /\ a[i].type # "PauseAck")
    BY ConcatFacts DEF Neutrals
  <1> HIDE DEF a
  <1>2. \A y : Names(a, y) <=> Names(g, y) BY <1>1 DEF Names, IsVote
  <1>3. \A r : HasChange(a, r) <=> HasChange(g, r) BY <1>1 DEF HasChange
  <1>4. \A r : HasAck(a, r) <=> HasAck(g, r) BY <1>1 DEF HasAck, IsAck
  <1>5. ASSUME NEW r PROVE Ripe(a, r) <=> Ripe(g, r)
    <2>1. \A i \in 1 .. Len(g) : \A j \in 1 .. i - 1 : a[j] = g[j] BY <1>1
    <2>2. ASSUME Ripe(a, r) PROVE Ripe(g, r)
      <3> PICK i \in 1 .. Len(a) : IsAck(a[i], r) /\ \A j \in 1 .. i - 1 : ~IsChange(a[j])
        BY <2>2 DEF Ripe
      <3>1. i \in 1 .. Len(g) BY <1>1 DEF IsAck
      <3> QED BY <3>1, <2>1, <1>1 DEF Ripe
    <2>3. ASSUME Ripe(g, r) PROVE Ripe(a, r)
      <3> PICK i \in 1 .. Len(g) : IsAck(g[i], r) /\ \A j \in 1 .. i - 1 : ~IsChange(g[j])
        BY <2>3 DEF Ripe
      <3> QED BY <2>1, <1>1 DEF Ripe
    <2> QED BY <2>2, <2>3
  <1> QED BY <1>2, <1>3, <1>4, <1>5 DEF a

\* Messages that are not about pauses are sent.
LEMMA PutNeutrals ==
    ASSUME NEW c \in Controls, NEW d \in Controls, NEW f \in Nat, NEW k \in Nat,
           NEW e \in Nat, NEW l \in Nat, NEW h \in Seq(Messages), NEW g \in Seq(Messages),
           NEW x \in Seq(Messages), Neutrals(x), Pact(c, f, k, h, d, e, l, g)
    PROVE  Pact(c, f, k, h, d, e, l, g \o x)
  <1> DEFINE a == g \o x
  <1>1. /\ a \in Seq(Messages) /\ Len(g) \in Nat /\ Len(a) \in Nat
        /\ \A i \in 1 .. Len(g) : a[i] = g[i] /\ i \in 1 .. Len(a)
        /\ \A i \in 1 .. Len(a) : i \in 1 .. Len(g)
                                    \/ (~IsChange(a[i]) /\ a[i].type # "PauseAck")
    <2>1. /\ a \in Seq(Messages) /\ Len(g) \in Nat
          /\ \A i \in 1 .. Len(g) : a[i] = g[i] /\ i \in 1 .. Len(a)
          /\ \A i \in 1 .. Len(a) : i \in 1 .. Len(g)
                \/ (i - Len(g) \in 1 .. Len(x) /\ a[i] = x[i - Len(g)])
      BY ConcatFacts
    <2> HIDE DEF a
    <2>2. Len(a) \in Nat BY <2>1
    <2> QED BY <2>1, <2>2 DEF Neutrals
  <1>2. /\ \A y : Names(g, y) <=> Names(a, y)
        /\ \A r : HasChange(g, r) <=> HasChange(a, r)
        /\ \A r : HasAck(g, r) <=> HasAck(a, r)
        /\ \A r : Ripe(g, r) <=> Ripe(a, r)
    BY ConcatFinds
  <1> HIDE DEF a
  <1>3. Agree(c, h, d, a) /\ Agree(d, a, c, h)
    BY <1>2 DEF Pact, Half, Agree, Lasting, Finishing
  <1>4. Sent(c, d, a)
    <2>1. Sent(c, d, g) BY DEF Pact, Half
    <2>2. \A i \in 1 .. Len(a) : IsChange(a[i]) => i \in 1 .. Len(g) /\ a[i] = g[i]
      BY <1>1
    <2> QED BY <2>1, <2>2, <1>2 DEF Sent
  <1>5. Acks(d, c, a) /\ Owned(c, a)
    <2>1. Acks(d, c, g) /\ Owned(c, g) BY DEF Pact, Half
    <2>2. \A i \in 1 .. Len(a) : IsVote(a[i]) \/ a[i].type = "PauseAck"
                                    => i \in 1 .. Len(g) /\ a[i] = g[i]
      BY <1>1 DEF IsVote
    <2> QED BY <2>1, <2>2, <1>2 DEF Acks, Owned
  <1>6. Timely(d, e, l, a)
    <2> SUFFICES ASSUME NEW i \in 1 .. Len(a), IsVote(a[i])
                 PROVE  /\ a[i].frame <= e + 2 * PauseLead
                        /\ Ahead(l, a, i) \/ Barred(d, a, i)
      BY DEF Timely
    <2>1. i \in 1 .. Len(g) /\ a[i] = g[i] BY <1>1 DEF IsVote
    <2>2. g[i].frame <= e + 2 * PauseLead /\ (Ahead(l, g, i) \/ Barred(d, g, i))
      BY <2>1 DEF Pact, Half, Timely
    <2>3. \A j \in 1 .. i - 1 : j \in 1 .. Len(g) BY <1>1, <2>1
    <2>4. \A j \in 1 .. i - 1 : a[j] = g[j] BY <1>1, <2>3
    <2> QED BY <2>1, <2>2, <2>4 DEF Ahead, Barred
  <1> QED BY <1>3, <1>4, <1>5, <1>6 DEF Pact, Half, a

\* An input is sent.
LEMMA PutInput ==
    ASSUME NEW c \in Controls, NEW d \in Controls, NEW f \in Nat, NEW k \in Nat,
           NEW e \in Nat, NEW l \in Nat, NEW h \in Seq(Messages), NEW g \in Seq(Messages),
           NEW m \in Messages, IsInput(m), Pact(c, f, k, h, d, e, l, g)
    PROVE  Pact(c, f, k, h, d, e, l, Append(g, m))
  <1> DEFINE x == <<m>>
  <1>1. x \in Seq(Messages) /\ Append(g, m) = g \o x OBVIOUS
  <1>2. Neutrals(x) BY DEF Neutrals, IsInput, IsChange
  <1> HIDE DEF x
  <1>3. Pact(c, f, k, h, d, e, l, g \o x) BY <1>1, <1>2, PutNeutrals
  <1> QED BY <1>1, <1>3

\* The head of the queue is not about pauses, nor an input.
LEMMA TakeOther ==
    ASSUME NEW c \in Controls, NEW d \in Controls, NEW f \in Nat, NEW k \in Nat,
           NEW e \in Nat, NEW l \in Nat, NEW h \in Seq(Messages), NEW g \in Seq(Messages),
           h # <<>>, ~IsChange(Head(h)), Head(h).type # "PauseAck",
           Pact(c, f, k, h, d, e, l, g)
    PROVE  Pact(c, f, k, Tail(h), d, e, l, g)
  <1> DEFINE m == Head(h)
             t == Tail(h)
  <1>1. /\ t \in Seq(Messages) /\ Len(h) \in Nat \ {0} /\ h[1] = m /\ Len(t) = Len(h) - 1
        /\ \A i \in 1 .. Len(t) : t[i] = h[i + 1] /\ i + 1 \in 1 .. Len(h)
        /\ m \in Messages
    BY TailFacts
  <1>2. ~IsChange(m) /\ m.type # "PauseAck" /\ \A r : ~IsAck(m, r) BY DEF IsAck
  <1>3. /\ \A x : Names(h, x) <=> Names(t, x)
        /\ \A r : HasChange(h, r) <=> HasChange(t, r)
        /\ \A r : HasAck(h, r) <=> HasAck(t, r)
        /\ \A r : Ripe(h, r) <=> Ripe(t, r)
    BY <1>2, TailFinds DEF IsVote
  <1> HIDE DEF m, t
  <1>4. Agree(c, t, d, g) /\ Agree(d, g, c, t)
    BY <1>3 DEF Pact, Half, Agree, Lasting, Finishing
  <1>5. Sent(d, c, t)
    <2>1. Sent(d, c, h) BY DEF Pact, Half
    <2> QED BY <1>2, <2>1, TailSent DEF m, t
  <1>6. Acks(c, d, t) /\ Owned(d, t)
    BY <1>1, <1>3 DEF Pact, Half, Acks, Owned
  <1>7. Timely(c, f, k, t)
    <2> SUFFICES ASSUME NEW i \in 1 .. Len(t), IsVote(t[i])
                 PROVE  /\ t[i].frame <= f + 2 * PauseLead
                        /\ Ahead(k, t, i) \/ Barred(c, t, i)
      BY DEF Timely
    <2>1. t[i] = h[i + 1] /\ i + 1 \in 1 .. Len(h) BY <1>1
    <2>2. h[i + 1].frame <= f + 2 * PauseLead /\ (Ahead(k, h, i + 1) \/ Barred(c, h, i + 1))
      BY <2>1 DEF Pact, Half, Timely
    <2>3. \A j \in 1 .. i - 1 : t[j] = h[j + 1] /\ j + 1 \in 1 .. (i + 1) - 1
      <3>1. \A j \in 1 .. i - 1 : j \in 1 .. Len(t) /\ j + 1 \in 1 .. (i + 1) - 1
        BY <1>1
      <3> QED BY <3>1, <1>1
    <2>4. ASSUME Ahead(k, h, i + 1) PROVE Ahead(k, t, i)
      BY <2>4, <2>1, <2>3, <1>1 DEF Ahead
    <2>5. ASSUME Barred(c, h, i + 1) PROVE Barred(c, t, i)
      BY <2>5, <2>1, <2>3 DEF Barred
    <2> QED BY <2>1, <2>2, <2>4, <2>5
  <1> QED BY <1>4, <1>5, <1>6, <1>7 DEF Pact, Half, m, t

\* A frame is simulated.
LEMMA RunFrame ==
    ASSUME NEW c \in Controls, NEW d \in Controls, NEW f \in Nat, NEW k \in Nat,
           NEW e \in Nat, NEW l \in Nat, NEW h \in Seq(Messages), NEW g \in Seq(Messages),
           c.episode # None => f < c.episode, Pact(c, f, k, h, d, e, l, g)
    PROVE  Pact(c, f + 1, k, h, d, e, l, g)
  <1>1. /\ c.local_request \in Nat /\ c.local_acked \in Nat /\ c.peer_request \in Nat
        /\ d.local_request \in Nat /\ d.local_acked \in Nat /\ d.peer_request \in Nat
    BY ControlTypes
  <1>2. Halts(c, f + 1) BY Numbers, ControlTypes DEF Pact, Half, Halts
  <1>3. Timely(c, f + 1, k, h)
    <2>1. \A i \in 1 .. Len(h) : h[i] \in Messages OBVIOUS
    <2>2. ASSUME NEW i \in 1 .. Len(h), IsVote(h[i])
          PROVE  /\ h[i].frame <= f + 1 + 2 * PauseLead
                 /\ Ahead(k, h, i) \/ Barred(c, h, i)
      <3>1. h[i].frame \in Nat BY <2>1, <2>2, MessageTypes DEF IsVote
      <3> QED BY <2>2, <3>1, Numbers DEF Pact, Half, Timely
    <2> QED BY <2>2 DEF Timely
  <1> QED BY <1>2, <1>3 DEF Pact, Half

\* What the window and the delay say of the two sides: c's side has sampled up to s.
Near(f, s, e, l, g) ==
    /\ l <= s /\ s <= f + InputDelay + 1 /\ f <= e + InputDelay + 1 + PREDICTION_WINDOW
    /\ \A i \in 1 .. Len(g) : IsInput(g[i]) => g[i].frame < s

\* Where the votes of d can be: all seen by c, the last one not yet, or a vote and its
\* release not yet.
LEMMA ViewCases ==
    ASSUME NEW c \in Controls, NEW d \in Controls, Views(d, c)
    PROVE  /\ d.local_acked <= c.peer_request /\ d.local_request <= d.local_acked + 2
           /\ \/ /\ c.peer_request = d.local_request
                 /\ c.peer.target = d.local.target /\ (c.peer.paused <=> d.local.paused)
              \/ /\ c.peer_request + 1 = d.local_request /\ d.local_acked # d.local_request
                 /\ c.peer.paused <=> ~d.local.paused
                 /\ ~d.local.paused => c.peer.target = d.local.target
              \/ /\ c.peer_request + 2 = d.local_request /\ d.local_acked = c.peer_request
                 /\ ~c.peer.paused /\ ~d.local.paused
  <1>1. /\ c.peer_request \in Nat /\ d.local_request \in Nat /\ d.local_acked \in Nat
    BY Counters
  <1>2. /\ d.local_acked <= c.peer_request /\ c.peer_request <= d.local_request
        /\ d.local_request <= d.local_acked + 2
    BY DEF Views
  <1>3. \/ c.peer_request = d.local_request
        \/ c.peer_request = d.local_request - 1
        \/ c.peer_request = d.local_request - 2 /\ d.local_acked = c.peer_request
           /\ d.local_request = d.local_acked + 2
    BY <1>1, <1>2
  <1>4. CASE c.peer_request = d.local_request BY <1>2, <1>4 DEF Views
  <1>5. CASE c.peer_request = d.local_request - 1
    <2>1. c.peer_request + 1 = d.local_request /\ d.local_acked # d.local_request
      BY <1>1, <1>2, <1>5
    <2> QED BY <2>1, <1>2, <1>5 DEF Views
  <1>6. CASE c.peer_request = d.local_request - 2 /\ d.local_acked = c.peer_request
             /\ d.local_request = d.local_acked + 2
    <2>1. c.peer_request + 2 = d.local_request BY <1>1, <1>6
    <2> QED BY <2>1, <1>2, <1>6 DEF Views
  <1> QED BY <1>3, <1>4, <1>5, <1>6

\* What a change under way to c says of its sender d.
Says(c, d, m) ==
    /\ c.peer_request < m.request /\ m.request <= d.local_request
    /\ m.frame = d.local.target
    /\ \/ /\ m.request = d.local_request
          /\ m.paused <=> d.local.paused
       \/ /\ m.request + 1 = d.local_request /\ m.paused /\ ~d.local.paused

\* It is the next one, and a release names the frame of the vote.
Follows(c, m) ==
    /\ m.request = c.peer_request + 1
    /\ ~m.paused => c.peer.target = m.frame

\* Every change under way says so.
LEMMA ChangeSays ==
    ASSUME NEW c \in Controls, NEW d \in Controls, NEW h \in Seq(Messages),
           Sent(d, c, h), NEW i \in 1 .. Len(h), IsChange(h[i])
    PROVE  Says(c, d, h[i]) /\ h[i].request \in Nat /\ h[i].frame \in Nat
           /\ h[i].paused \in BOOLEAN
  <1>1. h[i] \in Messages /\ h[i].request \in Nat /\ h[i].frame \in Nat
        /\ h[i].paused \in BOOLEAN
    BY MessageTypes
  <1>2. d.local_request \in Nat BY Counters
  <1>3. /\ c.peer_request < h[i].request /\ h[i].request <= d.local_request
        /\ h[i].frame = d.local.target
        /\ h[i].request = d.local_request => (h[i].paused <=> d.local.paused)
        /\ h[i].request # d.local_request =>
                h[i].request = d.local_request - 1 /\ h[i].paused /\ ~d.local.paused
    BY DEF Sent
  <1>4. h[i].request = d.local_request - 1 => h[i].request + 1 = d.local_request
    BY <1>1, <1>2
  <1> QED BY <1>1, <1>3, <1>4 DEF Says

\* No vote is under way to a session that has seen one and no release.
LEMMA NoVoteToPaused ==
    ASSUME NEW c \in Controls, NEW d \in Controls, NEW h \in Seq(Messages),
           Views(d, c), Sent(d, c, h), c.peer.paused
    PROVE  \A i \in 1 .. Len(h) : ~IsVote(h[i])
  <1> SUFFICES ASSUME NEW i \in 1 .. Len(h), IsVote(h[i]) PROVE FALSE OBVIOUS
  <1>1. Says(c, d, h[i]) /\ h[i].request \in Nat /\ h[i].paused BY ChangeSays DEF IsVote
  <1>2. d.local_request \in Nat /\ c.peer_request \in Nat /\ d.local_acked \in Nat
    BY Counters
  <1>3. CASE c.peer_request = d.local_request BY <1>1, <1>2, <1>3 DEF Says
  <1>4. CASE c.peer_request + 1 = d.local_request /\ ~d.local.paused
    BY <1>1, <1>2, <1>4 DEF Says
  <1> QED BY <1>3, <1>4, ViewCases

\* Before it is seen, the last change keeps its sender's episode.
LEMMA UnseenLasts ==
    ASSUME NEW c \in Controls, NEW d \in Controls, NEW f, NEW h \in Seq(Messages),
           Halts(d, f), Views(d, c), Acks(d, c, h), c.peer_request # d.local_request
    PROVE  /\ d.episode # None /\ d.local_acked # d.local_request
           /\ ~Ripe(h, d.local_request) /\ ~HasAck(h, d.local_request)
           /\ Lasting(d, h)
  <1>1. /\ c.peer_request \in Nat /\ d.local_request \in Nat /\ d.local_acked \in Nat
        /\ d.local_acked <= c.peer_request /\ c.peer_request <= d.local_request
    BY Counters DEF Views
  <1>2. c.peer_request < d.local_request /\ d.local_acked # d.local_request BY <1>1
  <1>3. ASSUME NEW i \in 1 .. Len(h), IsAck(h[i], d.local_request) PROVE FALSE
    <2>1. h[i].request = d.local_request /\ h[i].request <= c.peer_request
      BY <1>3 DEF Acks, IsAck
    <2> QED BY <2>1, <1>1, <1>2
  <1>4. ~HasAck(h, d.local_request) /\ ~Ripe(h, d.local_request) BY <1>3 DEF HasAck, Ripe
  <1> QED BY <1>2, <1>4 DEF Halts, Lasting, Finishing

\* The head of the queue, when it is a change, passes the checks of fn observe.
LEMMA HeadChange ==
    ASSUME NEW c \in Controls, NEW d \in Controls, NEW f \in Nat, NEW k \in Nat,
           NEW e \in Nat, NEW l \in Nat, NEW h \in Seq(Messages), NEW g \in Seq(Messages),
           h # <<>>, IsChange(Head(h)), f <= k + PREDICTION_WINDOW,
           Pact(c, f, k, h, d, e, l, g)
    PROVE  /\ Follows(c, Head(h)) /\ Says(c, d, Head(h))
           /\ c.peer.paused <=> ~Head(h).paused
           /\ Head(h).paused => f <= Head(h).frame /\ Head(h).frame <= f + 2 * PauseLead
           /\ \A i \in 1 .. Len(Tail(h)) : ~IsVote(Tail(h)[i])
  <1> DEFINE m == Head(h)
             t == Tail(h)
  <1>1. /\ t \in Seq(Messages) /\ Len(h) \in Nat \ {0} /\ h[1] = m /\ 1 \in 1 .. Len(h)
        /\ Len(t) = Len(h) - 1
        /\ \A i \in 1 .. Len(t) : t[i] = h[i + 1] /\ i + 1 \in 1 .. Len(h)
        /\ m \in Messages
    BY TailFacts
  <1>2. IsChange(m) OBVIOUS
  <1> HIDE DEF m, t
  <1>3. Sent(d, c, h) /\ Views(d, c) /\ Timely(c, f, k, h) /\ Halts(c, f)
    BY DEF Pact, Half
  <1>4. Says(c, d, m) /\ m.request \in Nat /\ m.frame \in Nat /\ m.paused \in BOOLEAN
    BY <1>1, <1>2, <1>3, ChangeSays
  <1>5. d.local_request \in Nat /\ c.peer_request \in Nat /\ d.local_acked \in Nat
    BY Counters
  <1>6. m.request = c.peer_request + 1
    <2>1. c.peer_request < m.request /\ m.request <= d.local_request BY <1>4 DEF Says
    <2>2. c.peer_request + 1 \in c.peer_request + 1 .. d.local_request BY SMTT(30), <1>5, <1>4, <2>1
    <2>3. PICK j \in 1 .. Len(h) : IsChange(h[j]) /\ h[j].request = c.peer_request + 1
      BY <2>2, <1>3 DEF Sent, HasChange
    <2>4. CASE j = 1 BY <2>3, <2>4, <1>1
    <2>5. CASE j # 1
      <3>1. 1 < j BY <2>5, <1>1
      <3>2. m.request < c.peer_request + 1 BY <3>1, <2>3, <1>1, <1>2, <1>3 DEF Sent
      <3> QED BY <3>2, <2>1, <1>5, <1>4
    <2> QED BY <2>4, <2>5
  <1>7. /\ c.peer.paused <=> ~m.paused
        /\ ~m.paused => c.peer.target = m.frame
    <2>1. CASE m.request = d.local_request /\ (m.paused <=> d.local.paused)
      <3>1. c.peer_request # d.local_request /\ c.peer_request + 2 # d.local_request
        BY <2>1, <1>5, <1>6
      <3> QED BY <3>1, <2>1, <1>3, <1>4, ViewCases DEF Says
    <2>2. CASE m.request + 1 = d.local_request /\ m.paused
      <3>1. c.peer_request # d.local_request /\ c.peer_request + 1 # d.local_request
        BY <2>2, <1>5, <1>6
      <3> QED BY <3>1, <2>2, <1>3, ViewCases
    <2> QED BY <2>1, <2>2, <1>4 DEF Says
  <1>8. ASSUME m.paused PROVE f <= m.frame /\ m.frame <= f + 2 * PauseLead
    <2>1. m.frame <= f + 2 * PauseLead /\ (Ahead(k, h, 1) \/ Barred(c, h, 1))
      BY <1>8, <1>1, <1>2, <1>3 DEF Timely, IsVote
    <2>2. CASE Ahead(k, h, 1)
      <3>1. k + PREDICTION_WINDOW <= m.frame BY <2>2, <1>1 DEF Ahead
      <3> QED BY <3>1, <2>1, <1>4, Numbers
    <2>3. CASE Barred(c, h, 1)
      <3>1. c.episode # None /\ c.episode <= m.frame /\ f <= c.episode
        BY <2>3, <1>1, <1>3 DEF Barred, Halts
      <3>2. c.episode \in Nat BY <3>1, ControlTypes
      <3> QED BY <3>1, <3>2, <2>1, <1>4
    <2> QED BY <2>1, <2>2, <2>3
  <1>9. ASSUME NEW i \in 1 .. Len(t), IsVote(t[i]) PROVE FALSE
    <2>1. t[i] = h[i + 1] /\ 1 < i + 1 /\ i + 1 \in 1 .. Len(h) BY <1>1
    <2>2. IsChange(h[i + 1]) /\ h[i + 1].paused BY <2>1, <1>9 DEF IsVote
    <2>3. m.request < h[i + 1].request BY <2>1, <2>2, <1>1, <1>2, <1>3 DEF Sent
    <2>4. Says(c, d, h[i + 1]) /\ h[i + 1].request \in Nat BY <2>1, <2>2, <1>3, ChangeSays
    <2>5. m.request # d.local_request BY SMTT(30), <2>3, <2>4, <1>5, <1>4 DEF Says
    <2>6. m.request + 1 = d.local_request /\ ~d.local.paused BY <2>5, <1>4 DEF Says
    <2>7. h[i + 1].request <= d.local_request BY <2>4 DEF Says
    <2>8. h[i + 1].request = d.local_request
      <3> DEFINE x == m.request
                 y == h[i + 1].request
                 n == d.local_request
      <3>1. x \in Nat /\ y \in Nat /\ n \in Nat BY <1>4, <1>5, <2>4
      <3>2. x < y /\ x + 1 = n /\ y <= n BY <2>3, <2>6, <2>7
      <3> HIDE DEF x, y, n
      <3>3. y = n BY <3>1, <3>2
      <3> QED BY <3>3 DEF y, n
    <2>9. h[i + 1].request + 1 # d.local_request BY <2>4, <2>8, <1>5
    <2> QED BY <2>2, <2>4, <2>6, <2>8, <2>9 DEF Says
  <1> QED BY <1>4, <1>6, <1>7, <1>8, <1>9 DEF m, t, Follows

\* Taking the head leaves the acknowledgments that are still waited for.
LEMMA TailAcks ==
    ASSUME NEW c \in Controls, NEW c2 \in Controls, NEW d \in Controls,
           NEW h \in Seq(Messages), h # <<>>, Acks(c, d, h),
           c.local_acked <= c2.local_acked,
           Head(h).type = "PauseAck" => Head(h).request <= c2.local_acked
    PROVE  Acks(c2, d, Tail(h))
  <1> DEFINE m == Head(h)
             t == Tail(h)
  <1>1. /\ Len(h) \in Nat \ {0} /\ Len(t) = Len(h) - 1 /\ m \in Messages
        /\ \A i \in 1 .. Len(t) : t[i] = h[i + 1] /\ i + 1 \in 1 .. Len(h)
    BY TailFacts
  <1>2. \A r : HasAck(h, r) <=> HasAck(t, r) \/ IsAck(m, r) BY TailFinds
  <1>3. m.type = "PauseAck" => m.request <= c2.local_acked /\ m.request \in Nat
    BY <1>1, MessageTypes
  <1>4. c.local_acked \in Nat /\ c2.local_acked \in Nat /\ d.peer_request \in Nat
    BY Counters
  <1> HIDE DEF m, t
  <1>5. \A i \in 1 .. Len(t) : t[i].type = "PauseAck" =>
            t[i].request >= 1 /\ t[i].request <= d.peer_request
    BY <1>1 DEF Acks
  <1>6. ASSUME NEW r \in c2.local_acked + 1 .. d.peer_request PROVE HasAck(t, r)
    <2>1. r \in c.local_acked + 1 .. d.peer_request /\ r > c2.local_acked BY <1>4
    <2>2. ~IsAck(m, r) BY <2>1, <1>3, <1>4 DEF IsAck
    <2> QED BY <2>1, <2>2, <1>2 DEF Acks
  <1>7. Acks(c2, d, t) BY <1>5, <1>6 DEF Acks
  <1> QED BY <1>7 DEF t

\* Taking the head leaves the votes behind it.
LEMMA TailOwned ==
    ASSUME NEW d, NEW h \in Seq(Messages), h # <<>>, Owned(d, h)
    PROVE  Owned(d, Tail(h))
  BY TailFacts DEF Owned

\* Putting a message that is no change at the end leaves the changes as they were.
LEMMA AppendSent ==
    ASSUME NEW c, NEW c2, NEW d, NEW g \in Seq(Messages), NEW n \in Messages,
           ~IsChange(n), Sent(c, d, g),
           c2.local = c.local, c2.local_request = c.local_request
    PROVE  Sent(c2, d, Append(g, n))
  <1> DEFINE a == Append(g, n)
  <1>1. /\ Len(g) \in Nat /\ Len(a) = Len(g) + 1 /\ a[Len(g) + 1] = n
        /\ \A i \in 1 .. Len(g) : a[i] = g[i]
    BY AppendFacts
  <1>2. \A i \in 1 .. Len(a) : IsChange(a[i]) => i \in 1 .. Len(g) /\ a[i] = g[i] BY <1>1
  <1>3. \A r : HasChange(a, r) <=> HasChange(g, r) BY AppendFinds
  <1> HIDE DEF a
  <1>4. Sent(c2, d, a) BY <1>2, <1>3 DEF Sent
  <1> QED BY <1>4 DEF a

\* A message that is no vote, at the end, makes no vote late.
LEMMA AppendTimely ==
    ASSUME NEW d, NEW e, NEW l, NEW g \in Seq(Messages), NEW n \in Messages,
           ~IsVote(n), Timely(d, e, l, g)
    PROVE  Timely(d, e, l, Append(g, n))
  <1> DEFINE a == Append(g, n)
  <1>1. /\ Len(g) \in Nat /\ Len(a) = Len(g) + 1 /\ a[Len(g) + 1] = n
        /\ \A i \in 1 .. Len(g) : a[i] = g[i]
    BY AppendFacts
  <1>2. \A i \in 1 .. Len(a) : IsVote(a[i]) => i \in 1 .. Len(g) /\ a[i] = g[i] BY <1>1
  <1> HIDE DEF a
  <1>3. ASSUME NEW i \in 1 .. Len(a), IsVote(a[i])
        PROVE  /\ a[i].frame <= e + 2 * PauseLead
               /\ Ahead(l, a, i) \/ Barred(d, a, i)
    <2>1. i \in 1 .. Len(g) /\ a[i] = g[i] BY <1>2, <1>3
    <2>2. g[i].frame <= e + 2 * PauseLead /\ (Ahead(l, g, i) \/ Barred(d, g, i))
      BY <2>1, <1>3 DEF Timely
    <2>3. \A j \in 1 .. i - 1 : a[j] = g[j] BY <1>1, <2>1
    <2> QED BY <2>1, <2>2, <2>3 DEF Ahead, Barred
  <1>4. Timely(d, e, l, a) BY <1>3 DEF Timely
  <1> QED BY <1>4 DEF a

\* fn observe of the change m, field by field.
Observed(c, c2, m) ==
    /\ c2.local = c.local /\ c2.local_request = c.local_request
    /\ c2.local_acked = c.local_acked /\ c2.peer_request = m.request
    /\ c2.peer.target = m.frame /\ (c2.peer.paused <=> m.paused)
    /\ m.paused =>
          /\ c2.episode # None /\ c2.episode <= m.frame
          /\ c.episode = None => c2.episode = m.frame
          /\ c.episode # None => c2.episode <= c.episode
          /\ c2.episode = m.frame \/ c2.episode = c.episode
    /\ ~m.paused /\ ~c.local.paused /\ c.local_acked = c.local_request => c2.episode = None
    /\ ~m.paused /\ (c.local.paused \/ c.local_acked # c.local_request) =>
          c2.episode = c.episode

\* After fn observe the barriers still agree: both will last, or neither.
LEMMA TakeChangeAgrees ==
    ASSUME NEW c \in Controls, NEW d \in Controls, NEW f \in Nat, NEW k \in Nat,
           NEW e \in Nat, NEW l \in Nat, NEW h \in Seq(Messages), NEW g \in Seq(Messages),
           h # <<>>, IsChange(Head(h)), f <= k + PREDICTION_WINDOW,
           Pact(c, f, k, h, d, e, l, g),
           NEW c2 \in Controls, NEW n \in Messages, IsAck(n, Head(h).request),
           Observed(c, c2, Head(h))
    PROVE  /\ Agree(c2, Tail(h), d, Append(g, n))
           /\ Agree(d, Append(g, n), c2, Tail(h))
  <1> DEFINE m == Head(h)
             t == Tail(h)
             a == Append(g, n)
  <1>1. /\ Len(h) \in Nat \ {0} /\ h[1] = m /\ 1 \in 1 .. Len(h) /\ Len(t) = Len(h) - 1
        /\ \A i \in 1 .. Len(t) : t[i] = h[i + 1] /\ i + 1 \in 1 .. Len(h)
        /\ t \in Seq(Messages) /\ m \in Messages
    BY TailFacts
  <1>2. /\ m.request = c.peer_request + 1 /\ Says(c, d, m) /\ (c.peer.paused <=> ~m.paused)
        /\ \A i \in 1 .. Len(t) : ~IsVote(t[i])
    <2>1. Follows(c, m) BY HeadChange
    <2>2. m.request = c.peer_request + 1 BY <2>1 DEF Follows
    <2>3. Says(c, d, m) BY HeadChange
    <2>4. c.peer.paused <=> ~m.paused BY HeadChange
    <2>5. \A i \in 1 .. Len(t) : ~IsVote(t[i]) BY HeadChange
    <2> QED BY <2>2, <2>3, <2>4, <2>5
  <1>3. IsChange(m) /\ ~IsVote(n) /\ (\A r : IsAck(n, r) <=> r = m.request)
        /\ ~IsChange(n) /\ \A r : ~IsAck(m, r)
    BY DEF IsAck, IsChange, IsVote
  <1>4. m.request \in Nat /\ m.frame \in Nat /\ m.paused \in BOOLEAN
    BY <1>1, <1>3, MessageTypes
  <1>5. /\ \A x : Names(h, x) <=> (m.paused /\ m.frame <= x)
        /\ \A x : ~Names(t, x)
        /\ \A r : HasAck(h, r) <=> HasAck(t, r)
        /\ \A r : ~Ripe(h, r)
    <2>1. \A x : ~Names(t, x) BY <1>2 DEF Names
    <2> QED BY <2>1, <1>3, TailFinds DEF IsVote
  <1>6. /\ \A x : Names(a, x) <=> Names(g, x)
        /\ \A r : Ripe(a, r) <=>
                Ripe(g, r) \/ (r = m.request /\ \A i \in 1 .. Len(g) : ~IsChange(g[i]))
    BY <1>3, AppendFinds
  <1>7. Observed(c, c2, m) OBVIOUS
  <1> HIDE DEF m, t, a
  <1>8. /\ Halts(c, f) /\ Views(c, d) /\ Sent(c, d, g) /\ Acks(c, d, h) /\ Agree(c, h, d, g)
        /\ Halts(d, e) /\ Views(d, c) /\ Sent(d, c, h) /\ Acks(d, c, g) /\ Agree(d, g, c, h)
        /\ Owned(d, h)
    BY DEF Pact, Half
  <1>9. /\ c.local_request \in Nat /\ c.local_acked \in Nat /\ c.peer_request \in Nat
        /\ d.local_request \in Nat /\ d.local_acked \in Nat /\ d.peer_request \in Nat
    BY Counters
  <1>10. c.peer_request # d.local_request BY <1>2, <1>4, <1>9 DEF Says
  <1>11. /\ d.episode # None /\ d.local_acked # d.local_request
         /\ ~Ripe(g, d.local_request) /\ Lasting(d, g)
    BY <1>8, <1>10, UnseenLasts
  <1>12. ASSUME m.paused PROVE Agree(c2, t, d, a) /\ Agree(d, a, c2, t)
    <2>1. /\ c2.episode # None /\ c2.episode <= m.frame /\ c2.peer.paused
          /\ c.episode = None => c2.episode = m.frame
          /\ c.episode # None => c2.episode <= c.episode
          /\ c2.episode = m.frame \/ c2.episode = c.episode
      BY <1>7, <1>12 DEF Observed
    <2>2. Lasting(c2, t) BY <2>1 DEF Lasting, Finishing
    <2>3. Lasting(d, a)
      <3>1. CASE m.request = d.local_request /\ d.local.paused
        BY <3>1, <1>11 DEF Lasting, Finishing
      <3>2. CASE m.request # d.local_request
        <4>1. ~Ripe(a, d.local_request) BY <3>2, <1>6, <1>11
        <4> QED BY <4>1, <1>11 DEF Lasting, Finishing
      <3>3. m.request = d.local_request => d.local.paused
        <4>1. m.request = d.local_request => m.request + 1 # d.local_request BY <1>4
        <4> QED BY <4>1, <1>2, <1>12 DEF Says
      <3> QED BY <3>1, <3>2, <3>3
    <2>4. c2.episode \in Nat /\ d.episode \in Nat /\ (c.episode # None => c.episode \in Nat)
      BY <2>1, <1>11, ControlTypes
    <2>5. d.episode <= m.frame
      BY <1>1, <1>3, <1>8, <1>12 DEF Owned, IsVote
    <2>6. Agree(d, a, c2, t)
      <3>1. (Lasting(c, h) /\ c.episode <= d.episode) \/ m.frame <= d.episode
        BY <1>5, <1>8, <1>11 DEF Agree
      <3>2. CASE Lasting(c, h) /\ c.episode <= d.episode
        <4>1. c.episode # None BY <3>2 DEF Lasting
        <4>2. c2.episode <= d.episode BY <4>1, <3>2, <2>1, <2>4
        <4> QED BY <4>2, <2>2 DEF Agree
      <3>3. CASE m.frame <= d.episode
        <4>1. c2.episode <= d.episode BY <3>3, <2>1, <2>4, <1>4
        <4> QED BY <4>1, <2>2 DEF Agree
      <3> QED BY <3>1, <3>2, <3>3
    <2>7. Agree(c2, t, d, a)
      <3>1. CASE c2.episode = m.frame BY <3>1, <2>3, <2>5 DEF Agree
      <3>2. CASE c2.episode # m.frame
        <4>1. c.episode # None /\ c2.episode = c.episode BY <3>2, <2>1
        <4>2. Lasting(c, h) BY <4>1, <1>5 DEF Lasting, Finishing
        <4>3. (Lasting(d, g) /\ d.episode <= c.episode) \/ Names(g, c.episode)
          BY <4>2, <1>8 DEF Agree
        <4> QED BY <4>1, <4>3, <2>3, <1>6 DEF Agree
      <3> QED BY <3>1, <3>2
    <2> QED BY <2>6, <2>7
  <1>13. ASSUME ~m.paused PROVE Agree(c2, t, d, a) /\ Agree(d, a, c2, t)
    <2>1. m.request = d.local_request /\ ~d.local.paused BY <1>2, <1>13 DEF Says
    <2>2. c.peer.paused /\ c.episode # None /\ Lasting(c, h)
      BY <1>2, <1>8, <1>13 DEF Halts, Lasting, Finishing
    <2>3. \A i \in 1 .. Len(t) : ~IsChange(t[i])
      <3> SUFFICES ASSUME NEW i \in 1 .. Len(t), IsChange(t[i]) PROVE FALSE OBVIOUS
      <3>1. c2.peer_request = m.request BY <1>7 DEF Observed
      <3>2. Sent(d, c2, Tail(h)) BY <3>1, <1>2, <1>3, <1>8, TailSent DEF m
      <3>3. Says(c2, d, t[i]) /\ t[i].request \in Nat BY <3>2, <1>1, ChangeSays DEF t
      <3> QED BY SMTT(30), <3>1, <3>3, <2>1, <1>4, <1>9 DEF Says
    <2>4. /\ c2.local = c.local /\ c2.local_request = c.local_request
          /\ c2.local_acked = c.local_acked /\ ~c2.peer.paused
      BY <1>7, <1>13 DEF Observed
    <2>5. CASE d.peer_request = c.local_request /\ ~c.local.paused
      <3>1. \A i \in 1 .. Len(g) : ~IsChange(g[i])
        <4> SUFFICES ASSUME NEW i \in 1 .. Len(g), IsChange(g[i]) PROVE FALSE OBVIOUS
        <4>1. Says(d, c, g[i]) /\ g[i].request \in Nat BY <1>8, ChangeSays
        <4> QED BY <4>1, <2>5, <1>9 DEF Says
      <3>2. ~d.peer.paused BY <2>5, <1>8 DEF Views
      <3>3. Ripe(a, d.local_request) BY <3>1, <2>1, <1>6
      <3>4. ~Lasting(d, a) BY <3>2, <3>3, <2>1, <1>11 DEF Lasting, Finishing
      <3>5. ~Lasting(c2, t)
        <4>1. CASE c.local_acked = c.local_request
          BY <4>1, <2>5, <1>7, <1>13 DEF Lasting, Observed
        <4>2. CASE c.local_acked # c.local_request
          <5>1. c.local_acked <= d.peer_request BY <1>8 DEF Views
          <5>2. c.local_request \in c.local_acked + 1 .. d.peer_request
            BY <5>1, <4>2, <2>5, <1>9
          <5>3. HasAck(t, c.local_request) BY <5>2, <1>5, <1>8 DEF Acks
          <5>4. Ripe(t, c.local_request)
            <6> PICK i \in 1 .. Len(t) : IsAck(t[i], c.local_request) BY <5>3 DEF HasAck
            <6>1. \A j \in 1 .. i - 1 : j \in 1 .. Len(t) BY <1>1
            <6> QED BY <6>1, <2>3 DEF Ripe
          <5> QED BY <5>4, <4>2, <2>4, <2>5 DEF Lasting, Finishing
        <4> QED BY <4>1, <4>2
      <3> QED BY <3>4, <3>5 DEF Agree
    <2>6. CASE d.peer_request # c.local_request \/ c.local.paused
      <3>1. c.local.paused \/ c.local_acked # c.local_request
        <4>1. c.local_acked <= d.peer_request /\ d.peer_request <= c.local_request
          BY <1>8 DEF Views
        <4> QED BY <4>1, <2>6, <1>9
      <3>2. c2.episode = c.episode BY <3>1, <1>7, <1>13 DEF Observed
      <3>3. Lasting(c2, t)
        <4>1. CASE c.local.paused BY <4>1, <3>2, <2>2, <2>4 DEF Lasting, Finishing
        <4>2. CASE d.peer_request # c.local_request
          <5>1. ~HasAck(h, c.local_request) BY <4>2, <1>8, UnseenLasts
          <5>2. ~Ripe(t, c.local_request) BY <5>1, <1>5 DEF HasAck, Ripe
          <5> QED BY <5>2, <3>2, <2>2, <2>4 DEF Lasting, Finishing
        <4> QED BY <4>1, <4>2, <2>6
      <3>4. Lasting(d, a)
        <4>1. CASE d.peer.paused BY <4>1, <1>11 DEF Lasting, Finishing
        <4>2. CASE ~d.peer.paused
          <5>1. d.peer_request # c.local_request BY <4>2, <2>6, <1>8 DEF Views
          <5>2. d.peer_request <= c.local_request BY <1>8 DEF Views
          <5>3. c.local_request \in d.peer_request + 1 .. c.local_request
            BY <5>1, <5>2, <1>9
          <5>4. HasChange(g, c.local_request) BY <5>3, <1>8 DEF Sent
          <5>5. ~Ripe(a, d.local_request) BY <5>4, <1>6, <1>11 DEF HasChange
          <5> QED BY <5>5, <1>11 DEF Lasting, Finishing
        <4> QED BY <4>1, <4>2
      <3>5. (Lasting(d, g) /\ d.episode <= c.episode) \/ Names(g, c.episode)
        BY <2>2, <1>8 DEF Agree
      <3>6. Agree(c2, t, d, a) BY <3>2, <3>4, <3>5, <1>6 DEF Agree
      <3>7. Lasting(c, h) /\ c.episode <= d.episode BY <1>5, <1>8, <1>11, <1>13 DEF Agree
      <3>8. Agree(d, a, c2, t) BY <3>2, <3>3, <3>7 DEF Agree
      <3> QED BY <3>6, <3>8
    <2> QED BY <2>5, <2>6
  <1> QED BY <1>4, <1>12, <1>13 DEF t, a

\* fn observe, with the acknowledgment it sends, keeps the agreement.
LEMMA TakeChange ==
    ASSUME NEW c \in Controls, NEW d \in Controls, NEW f \in Nat, NEW k \in Nat,
           NEW e \in Nat, NEW l \in Nat, NEW h \in Seq(Messages), NEW g \in Seq(Messages),
           h # <<>>, IsChange(Head(h)), f <= k + PREDICTION_WINDOW,
           Pact(c, f, k, h, d, e, l, g),
           NEW c2 \in Controls, NEW n \in Messages, IsAck(n, Head(h).request),
           Observed(c, c2, Head(h))
    PROVE  Pact(c2, f, k, Tail(h), d, e, l, Append(g, n))
  <1> DEFINE m == Head(h)
             t == Tail(h)
             a == Append(g, n)
  <1>1. /\ Len(h) \in Nat \ {0} /\ h[1] = m /\ 1 \in 1 .. Len(h) /\ Len(t) = Len(h) - 1
        /\ t \in Seq(Messages) /\ m \in Messages
    BY TailFacts
  <1>2. /\ m.request = c.peer_request + 1 /\ Says(c, d, m) /\ (c.peer.paused <=> ~m.paused)
        /\ m.paused => f <= m.frame /\ m.frame <= f + 2 * PauseLead
        /\ \A i \in 1 .. Len(t) : ~IsVote(t[i])
    <2>1. Follows(c, m) BY HeadChange
    <2>2. m.request = c.peer_request + 1 BY <2>1 DEF Follows
    <2>3. Says(c, d, m) BY HeadChange
    <2>4. c.peer.paused <=> ~m.paused BY HeadChange
    <2>5. \A i \in 1 .. Len(t) : ~IsVote(t[i]) BY HeadChange
    <2>6. m.paused => f <= m.frame /\ m.frame <= f + 2 * PauseLead BY HeadChange
    <2> QED BY <2>2, <2>3, <2>4, <2>5, <2>6
  <1>3. IsChange(m) /\ ~IsVote(n) /\ ~IsChange(n) /\ n.type = "PauseAck"
        /\ n.request = m.request /\ m.type # "PauseAck"
    BY DEF IsAck, IsChange, IsVote
  <1>4. m.request \in Nat /\ m.frame \in Nat /\ m.paused \in BOOLEAN
    BY <1>1, <1>3, MessageTypes
  <1>5. /\ Len(g) \in Nat /\ Len(a) = Len(g) + 1 /\ a[Len(g) + 1] = n
        /\ \A i \in 1 .. Len(g) : a[i] = g[i] /\ g[i] \in Messages
    BY AppendFacts
  <1>6. \A i \in 1 .. Len(a) : i = Len(g) + 1 \/ i \in 1 .. Len(g) BY <1>5
  <1>7. Observed(c, c2, m) OBVIOUS
  <1>8. \A r : HasAck(a, r) <=> HasAck(g, r) \/ r = m.request
    BY <1>3, AppendFinds DEF IsAck
  <1> HIDE DEF m, t, a
  <1>9. /\ Halts(c, f) /\ Views(c, d) /\ Sent(c, d, g) /\ Acks(c, d, h)
        /\ Views(d, c) /\ Sent(d, c, h) /\ Acks(d, c, g) /\ Owned(c, g) /\ Timely(d, e, l, g)
    BY DEF Pact, Half
  <1>10. /\ c.local_request \in Nat /\ c.local_acked \in Nat /\ c.peer_request \in Nat
         /\ d.local_request \in Nat /\ d.local_acked \in Nat /\ d.peer_request \in Nat
         /\ c2.peer_request \in Nat
    BY Counters
  <1>11. /\ c2.local = c.local /\ c2.local_request = c.local_request
         /\ c2.local_acked = c.local_acked /\ c2.peer_request = m.request
         /\ c2.peer.target = m.frame /\ (c2.peer.paused <=> m.paused)
    BY <1>7 DEF Observed
  <1>12. Halts(c2, f)
    <2>1. c.episode \in Nat \cup {None} /\ c2.episode \in Nat \cup {None} BY ControlTypes
    <2>2. CASE m.paused
      <3>1. /\ c2.episode # None /\ c2.peer.paused
            /\ c2.episode = m.frame \/ c2.episode = c.episode
        BY <2>2, <1>7 DEF Observed
      <3> QED BY <3>1, <2>2, <1>2, <1>9 DEF Halts
    <2>3. CASE ~m.paused
      <3>1. c.peer.paused /\ c.episode # None BY <2>3, <1>2, <1>9 DEF Halts
      <3> QED BY <3>1, <2>3, <1>7, <1>9, <1>11 DEF Halts, Observed
    <2> QED BY <2>2, <2>3, <1>4
  <1>13. Views(c2, d) BY <1>9, <1>11 DEF Views
  <1>14. Views(d, c2)
    <2>1. /\ d.local_acked <= c2.peer_request /\ c2.peer_request <= d.local_request
      BY SMTT(30), <1>2, <1>4, <1>9, <1>10, <1>11 DEF Says, Views
    <2>2. /\ d.local_request <= d.local_acked + 2
          /\ d.local_request = d.local_acked + 2 => ~d.local.paused
          /\ d.local.paused => d.local.target # None
      BY <1>9 DEF Views
    <2>3. /\ c2.peer.target = d.local.target
          /\ \/ m.request = d.local_request /\ (m.paused <=> d.local.paused)
             \/ m.request + 1 = d.local_request /\ m.paused /\ ~d.local.paused
      BY <1>2, <1>11 DEF Says
    <2>4. CASE m.request = d.local_request /\ (m.paused <=> d.local.paused)
      <3>1. c2.peer_request = d.local_request /\ (c2.peer.paused <=> d.local.paused)
        BY <2>4, <1>11
      <3>2. d.local_request # d.local_request - 1 /\ d.local_request # d.local_request - 2
        BY <1>10
      <3> QED BY <3>1, <3>2, <2>1, <2>2, <2>3 DEF Views
    <2>5. CASE m.request + 1 = d.local_request /\ m.paused /\ ~d.local.paused
      <3>1. /\ c2.peer_request # d.local_request
            /\ c2.peer_request # d.local_request - 2
        BY SMTT(30), <2>5, <1>4, <1>10, <1>11
      <3>2. c2.peer.paused /\ ~d.local.paused BY <2>5, <1>11
      <3> QED BY <3>1, <3>2, <2>1, <2>2, <2>3 DEF Views
    <2> QED BY <2>3, <2>4, <2>5
  <1>15. Sent(c2, d, a) BY <1>3, <1>9, <1>11, AppendSent DEF a
  <1>16. Sent(d, c2, t) BY <1>2, <1>3, <1>9, <1>11, TailSent DEF m, t
  <1>17. Acks(c2, d, t)
    <2>1. c.local_acked <= c2.local_acked BY <1>10, <1>11
    <2> QED BY <2>1, <1>3, <1>9, TailAcks DEF m, t
  <1>18. Acks(d, c2, a)
    <2>1. ASSUME NEW i \in 1 .. Len(a), a[i].type = "PauseAck"
          PROVE  a[i].request >= 1 /\ a[i].request <= c2.peer_request
      <3>1. CASE i = Len(g) + 1
        <4>1. a[i].request = c2.peer_request BY <3>1, <1>3, <1>5, <1>11
        <4>2. c2.peer_request = c.peer_request + 1 BY <1>2, <1>11
        <4>3. c.peer_request \in Nat BY Counters
        <4>4. c2.peer_request \in Nat /\ c2.peer_request >= 1 BY <4>2, <4>3
        <4> QED BY <4>1, <4>4
      <3>2. CASE i \in 1 .. Len(g)
        <4>1. a[i] = g[i] /\ a[i].request \in Nat BY <3>2, <2>1, <1>5, MessageTypes
        <4>2. a[i].request >= 1 /\ a[i].request <= c.peer_request
          BY <4>1, <3>2, <2>1, <1>9 DEF Acks
        <4>3. c2.peer_request = c.peer_request + 1 BY <1>2, <1>11
        <4> QED BY SMTT(30), <4>1, <4>2, <4>3, <1>10
      <3> QED BY <3>1, <3>2, <1>6
    <2>2. ASSUME NEW r \in d.local_acked + 1 .. c2.peer_request PROVE HasAck(a, r)
      <3>1. r = m.request \/ r \in d.local_acked + 1 .. c.peer_request
        BY <1>2, <1>10, <1>11
      <3> QED BY <3>1, <1>8, <1>9 DEF Acks
    <2> QED BY <2>1, <2>2 DEF Acks
  <1>19. Owned(c2, a)
    <2> SUFFICES ASSUME NEW i \in 1 .. Len(a), IsVote(a[i])
                 PROVE  c2.episode # None /\ c2.episode <= a[i].frame
      BY DEF Owned
    <2>1. i \in 1 .. Len(g) /\ a[i] = g[i] /\ IsVote(g[i]) BY <1>3, <1>5, <1>6
    <2>2. Says(d, c, g[i]) /\ g[i].request \in Nat /\ g[i].frame \in Nat
      BY <2>1, <1>9, ChangeSays DEF IsVote
    <2>3. c.episode # None /\ c.episode <= g[i].frame /\ c.episode \in Nat
      BY <2>1, <1>9, ControlTypes DEF Owned
    <2>4. c.local_acked <= d.peer_request BY <1>9 DEF Views
    <2>5. d.peer_request < g[i].request /\ g[i].request <= c.local_request
      BY <2>2 DEF Says
    <2>6. c.local_acked # c.local_request
      <3>1. /\ c.local_acked \in Nat /\ c.local_request \in Nat /\ d.peer_request \in Nat
            /\ g[i].request \in Nat
        BY <2>2, Counters
      <3> QED BY <3>1, <2>4, <2>5
    <2>7. c2.episode # None /\ c2.episode <= c.episode
      <3>1. CASE m.paused BY <3>1, <2>3, <1>7 DEF Observed
      <3>2. CASE ~m.paused BY <3>2, <2>3, <2>6, <1>7 DEF Observed
      <3> QED BY <3>1, <3>2
    <2>8. c2.episode \in Nat BY <2>7, ControlTypes
    <2> QED BY SMTT(30), <2>1, <2>2, <2>3, <2>7, <2>8
  <1>20. Owned(d, t) BY <1>2 DEF Owned
  <1>21. Timely(c2, f, k, t) BY <1>2 DEF Timely
  <1>22. Timely(d, e, l, a) BY <1>3, <1>9, AppendTimely DEF a
  <1>23. Agree(c2, t, d, a) /\ Agree(d, a, c2, t) BY TakeChangeAgrees DEF t, a
  <1>24. Halts(d, e) BY DEF Pact, Half
  <1> QED BY <1>12, <1>13, <1>14, <1>15, <1>16, <1>17, <1>18, <1>19, <1>20, <1>21, <1>22,
             <1>23, <1>24 DEF Pact, Half, t, a

\* fn observe refuses no change of an honest peer.
LEMMA ChangeAccepted ==
    ASSUME NEW c \in Controls, NEW d \in Controls, NEW f \in Nat, NEW k \in Nat,
           NEW e \in Nat, NEW l \in Nat, NEW h \in Seq(Messages), NEW g \in Seq(Messages),
           h # <<>>, IsChange(Head(h)), f <= k + PREDICTION_WINDOW,
           Pact(c, f, k, h, d, e, l, g)
    PROVE  ~ObserveErr(c, f, Head(h))
  <1> DEFINE m == Head(h)
  <1>1. Follows(c, m) BY HeadChange
  <1>2. c.peer.paused <=> ~m.paused BY HeadChange
  <1>3. ~m.paused => c.peer.target = m.frame BY <1>1 DEF Follows
  <1>4. m.paused => f <= m.frame /\ m.frame <= f + 2 * PauseLead BY HeadChange
  <1>5. m \in Messages /\ IsChange(m) BY TailFacts
  <1>6. m.request \in Nat /\ m.frame \in Nat /\ m.paused \in BOOLEAN /\ c.peer_request \in Nat
        /\ c.peer.paused \in BOOLEAN
    BY <1>5, MessageTypes, ControlTypes
  <1> HIDE DEF m
  <1>7. m.request # c.peer_request /\ m.request = c.peer_request + 1 /\ m.request # 0
    BY <1>1, <1>6 DEF Follows
  <1>8. m.paused => m.frame \in f .. f + 2 * PauseLead BY <1>4, <1>6, Numbers
  <1>9. c.peer.paused # m.paused BY <1>2, <1>6
  <1>10. ~ObserveErr(c, f, m) BY <1>3, <1>7, <1>8, <1>9 DEF ObserveErr, Repeated
  <1> QED BY <1>10 DEF m

\* fn acknowledge, before it reconciles, field by field.
Heard(c, c2, m) ==
    /\ c2.local = c.local /\ c2.peer = c.peer
    /\ c2.local_request = c.local_request /\ c2.peer_request = c.peer_request
    /\ c.local_acked <= c2.local_acked /\ m.request <= c2.local_acked
    /\ c2.local_acked = c.local_acked \/ c2.local_acked = m.request
    /\ c2.episode = IF ~c.local.paused /\ ~c.peer.paused
                       /\ c2.local_acked = c.local_request
                    THEN None ELSE c.episode

\* fn acknowledge, before it reconciles, keeps the agreement.
LEMMA TakeAck ==
    ASSUME NEW c \in Controls, NEW d \in Controls, NEW f \in Nat, NEW k \in Nat,
           NEW e \in Nat, NEW l \in Nat, NEW h \in Seq(Messages), NEW g \in Seq(Messages),
           h # <<>>, Head(h).type = "PauseAck", Pact(c, f, k, h, d, e, l, g),
           NEW c2 \in Controls, Heard(c, c2, Head(h))
    PROVE  Pact(c2, f, k, Tail(h), d, e, l, g)
  <1> DEFINE m == Head(h)
             t == Tail(h)
  <1>1. /\ Len(h) \in Nat \ {0} /\ h[1] = m /\ 1 \in 1 .. Len(h) /\ Len(t) = Len(h) - 1
        /\ \A i \in 1 .. Len(t) : t[i] = h[i + 1] /\ i + 1 \in 1 .. Len(h)
        /\ t \in Seq(Messages) /\ m \in Messages
    BY TailFacts
  <1>2. m.type = "PauseAck" /\ ~IsChange(m) /\ ~IsVote(m) /\ m.request \in Nat
    BY <1>1, MessageTypes DEF IsChange, IsVote
  <1>3. /\ \A x : Names(h, x) <=> Names(t, x)
        /\ \A r : Ripe(h, r) <=> m.request = r \/ Ripe(t, r)
    BY <1>2, TailFinds DEF IsAck
  <1>4. Heard(c, c2, m) OBVIOUS
  <1> HIDE DEF m, t
  <1>5. /\ Halts(c, f) /\ Views(c, d) /\ Sent(c, d, g) /\ Acks(c, d, h) /\ Agree(c, h, d, g)
        /\ Views(d, c) /\ Sent(d, c, h) /\ Acks(d, c, g) /\ Agree(d, g, c, h)
        /\ Owned(c, g) /\ Owned(d, h) /\ Timely(c, f, k, h)
    BY DEF Pact, Half
  <1>6. /\ c.local_request \in Nat /\ c.local_acked \in Nat /\ d.peer_request \in Nat
        /\ c2.local_acked \in Nat
    BY Counters
  <1>7. /\ c2.local = c.local /\ c2.peer = c.peer
        /\ c2.local_request = c.local_request /\ c2.peer_request = c.peer_request
        /\ c.local_acked <= c2.local_acked /\ m.request <= c2.local_acked
        /\ c2.local_acked = c.local_acked \/ c2.local_acked = m.request
    BY <1>4 DEF Heard
  <1>8. /\ m.request <= d.peer_request
        /\ c.local_acked <= d.peer_request /\ d.peer_request <= c.local_request
        /\ c.local_request <= c.local_acked + 2
    BY <1>1, <1>2, <1>5 DEF Acks, Views
  <1>9. c2.local_acked <= d.peer_request BY <1>7, <1>8
  <1>10. \/ /\ ~c.local.paused /\ ~c.peer.paused /\ c2.local_acked = c.local_request
            /\ c2.episode = None
         \/ /\ c.local.paused \/ c.peer.paused \/ c2.local_acked # c.local_request
            /\ c2.episode = c.episode
    BY <1>4 DEF Heard
  <1>11. Halts(c2, f)
    <2>1. c.local_acked = c.local_request => c2.local_acked = c.local_request
      BY <1>6, <1>7, <1>8, <1>9
    <2> QED BY <2>1, <1>5, <1>7, <1>10 DEF Halts
  <1>12. Views(c2, d)
    <2> DEFINE n == c.local_request
               a == c.local_acked
               b == c2.local_acked
    <2>1. n \in Nat /\ a \in Nat /\ b \in Nat BY <1>6
    <2>2. a <= b /\ n <= a + 2 BY <1>7, <1>8
    <2>3. c2.local_request = n BY <1>7
    <2> HIDE DEF n, a, b
    <2>4. n <= b + 2 /\ (n = b + 2 => n = a + 2) BY <2>1, <2>2
    <2>5. c2.local_request <= c2.local_acked + 2 BY <2>3, <2>4 DEF b
    <2>6. c2.local_request = c2.local_acked + 2 => c.local_request = c.local_acked + 2
      BY <2>3, <2>4 DEF n, a, b
    <2> QED BY <2>5, <2>6, <1>5, <1>7, <1>9 DEF Views
  <1>13. Views(d, c2) BY <1>5, <1>7 DEF Views
  <1>14. Sent(c2, d, g) BY <1>5, <1>7 DEF Sent
  <1>15. Sent(d, c2, t) BY <1>2, <1>5, <1>7, TailSent DEF m, t
  <1>16. Acks(c2, d, t) BY <1>5, <1>7, TailAcks DEF m, t
  <1>17. Acks(d, c2, g) BY <1>5, <1>7 DEF Acks
  <1>18. Owned(c2, g)
    <2> SUFFICES ASSUME NEW i \in 1 .. Len(g), IsVote(g[i])
                 PROVE  c2.episode # None /\ c2.episode <= g[i].frame
      BY DEF Owned
    <2>1. Says(d, c, g[i]) /\ g[i].request \in Nat BY <1>5, ChangeSays DEF IsVote
    <2>2. d.peer_request < g[i].request /\ g[i].request <= c.local_request
      BY <2>1 DEF Says
    <2>3. c2.local_acked # c.local_request BY <2>1, <2>2, <1>6, <1>9
    <2> QED BY <2>3, <1>5, <1>10 DEF Owned
  <1>19. Owned(d, t) BY <1>5, TailOwned DEF t
  <1>20. Timely(c2, f, k, t)
    <2> SUFFICES ASSUME NEW i \in 1 .. Len(t), IsVote(t[i])
                 PROVE  /\ t[i].frame <= f + 2 * PauseLead
                        /\ Ahead(k, t, i) \/ Barred(c2, t, i)
      BY DEF Timely
    <2>1. t[i] = h[i + 1] /\ i + 1 \in 1 .. Len(h) BY <1>1
    <2>2. h[i + 1].frame <= f + 2 * PauseLead /\ (Ahead(k, h, i + 1) \/ Barred(c, h, i + 1))
      BY <2>1, <1>5 DEF Timely
    <2>3. \A j \in 1 .. i - 1 : t[j] = h[j + 1] /\ j + 1 \in 1 .. (i + 1) - 1 BY <1>1
    <2>4. 1 \in 1 .. (i + 1) - 1 BY <1>1
    <2>5. ASSUME Ahead(k, h, i + 1) PROVE Ahead(k, t, i) BY <2>5, <2>1, <2>3 DEF Ahead
    <2>6. ASSUME Barred(c, h, i + 1) PROVE Barred(c2, t, i)
      <3>1. CASE c.local.paused BY <3>1, <2>1, <2>6, <1>7, <1>10 DEF Barred
      <3>2. CASE ~c.local.paused
        <4>1. m.request # c.local_request
          BY <3>2, <2>4, <2>6, <1>1, <1>2 DEF Barred, IsAck
        <4>2. c.local_acked # c.local_request BY <3>2, <2>6 DEF Barred
        <4>3. c2.local_acked # c.local_request BY <4>1, <4>2, <1>7
        <4>4. c2.episode = c.episode BY <4>3, <1>10
        <4>5. \A j \in 1 .. i - 1 : ~IsAck(t[j], c.local_request)
          BY <3>2, <2>3, <2>6 DEF Barred
        <4> QED BY <4>3, <4>4, <4>5, <2>1, <2>6, <1>7 DEF Barred
      <3> QED BY <3>1, <3>2
    <2> QED BY <2>1, <2>2, <2>5, <2>6
  <1>21. Agree(c2, t, d, g) /\ Agree(d, g, c2, t)
    <2>1. CASE c2.episode = None
      <3>1. Agree(c2, t, d, g) BY <2>1 DEF Agree, Lasting
      <3>2. ~Lasting(c, h)
        <4>1. CASE c.episode = None BY <4>1 DEF Lasting
        <4>2. CASE c.episode # None
          <5>1. /\ ~c.local.paused /\ ~c.peer.paused /\ c2.local_acked = c.local_request
            BY <4>2, <2>1, <1>10
          <5>2. c.local_acked # c.local_request BY <5>1, <4>2, <1>5 DEF Halts
          <5>3. m.request = c.local_request BY <5>1, <5>2, <1>7
          <5>4. Ripe(h, c.local_request) BY <5>3, <1>3
          <5> QED BY <5>1, <5>2, <5>4 DEF Lasting, Finishing
        <4> QED BY <4>1, <4>2
      <3>3. Agree(d, g, c2, t) BY <3>2, <1>3, <1>5 DEF Agree
      <3> QED BY <3>1, <3>3
    <2>2. CASE c2.episode # None
      <3>1. /\ c2.episode = c.episode
            /\ c.local.paused \/ c.peer.paused \/ c2.local_acked # c.local_request
        BY <2>2, <1>10
      <3>2. Lasting(c2, t) <=> Lasting(c, h)
        <4>1. CASE c.local.paused \/ c.peer.paused
          BY <4>1, <3>1, <1>7 DEF Lasting, Finishing
        <4>2. CASE ~c.local.paused /\ ~c.peer.paused
          <5>1. c2.local_acked # c.local_request BY <4>2, <3>1
          <5>2. m.request # c.local_request BY <5>1, <1>6, <1>7, <1>8, <1>9
          <5>3. c.local_acked # c.local_request BY <5>1, <1>6, <1>7, <1>8, <1>9
          <5> QED BY <5>1, <5>2, <5>3, <3>1, <1>3, <1>7 DEF Lasting, Finishing
        <4> QED BY <4>1, <4>2
      <3> QED BY <3>1, <3>2, <1>3, <1>5 DEF Agree
    <2> QED BY <2>1, <2>2
  <1>22. Halts(d, e) /\ Timely(d, e, l, g) BY DEF Pact, Half
  <1> QED BY <1>11, <1>12, <1>13, <1>14, <1>15, <1>16, <1>17, <1>18, <1>19, <1>20, <1>21,
             <1>22 DEF Pact, Half, t

\* fn reconcile votes to stop, field by field.
Voted(c, c2, f, n) ==
    /\ ~c.local.paused /\ c.local_acked = c.local_request
    /\ c2.local.paused /\ c2.local.target = n.frame /\ c2.peer = c.peer
    /\ c2.local_request = c.local_request + 1 /\ c2.local_acked = c.local_acked
    /\ c2.peer_request = c.peer_request /\ c2.episode = n.frame
    /\ n.frame = IF c.episode = None THEN f + PauseLead ELSE c.episode
    /\ IsVote(n) /\ n.request = c2.local_request

\* The vote comes in time, when the delay is at least one frame.
LEMMA VoteTimely ==
    ASSUME InputDelay >= 1,
           NEW c \in Controls, NEW d \in Controls, NEW f \in Nat, NEW k \in Nat,
           NEW s \in Nat, NEW e \in Nat, NEW l \in Nat,
           NEW h \in Seq(Messages), NEW g \in Seq(Messages),
           Near(f, s, e, l, g), Pact(c, f, k, h, d, e, l, g),
           NEW c2 \in Controls, NEW n \in Messages, Voted(c, c2, f, n)
    PROVE  Timely(d, e, l, Append(g, n))
  <1> DEFINE a == Append(g, n)
             z == Len(g) + 1
  <1>1. /\ Len(g) \in Nat /\ Len(a) = z /\ a[z] = n
        /\ \A i \in 1 .. Len(g) : a[i] = g[i] /\ g[i] \in Messages
    BY AppendFacts
  <1>2. \A i \in 1 .. Len(a) : i = z \/ i \in 1 .. Len(g) BY <1>1
  <1>3. \A i \in 1 .. z - 1 : i \in 1 .. Len(g) /\ a[i] = g[i] /\ g[i] \in Messages
    BY <1>1
  <1> HIDE DEF a, z
  <1>4. /\ Halts(c, f) /\ Views(c, d) /\ Sent(c, d, g) /\ Agree(c, h, d, g) /\ Agree(d, g, c, h)
        /\ Halts(d, e) /\ Views(d, c) /\ Sent(d, c, h) /\ Acks(d, c, g)
    BY DEF Pact, Half
  <1>5. /\ c.local_request \in Nat /\ c.local_acked \in Nat /\ d.peer_request \in Nat
        /\ c.peer_request \in Nat /\ d.local_request \in Nat /\ d.local_acked \in Nat
    BY Counters
  <1>6. ~c.local.paused /\ c.local_acked = c.local_request BY DEF Voted
  <1>7. \A i \in 1 .. Len(g) : ~IsChange(g[i])
    <2> SUFFICES ASSUME NEW i \in 1 .. Len(g), IsChange(g[i]) PROVE FALSE OBVIOUS
    <2>1. Says(d, c, g[i]) /\ g[i].request \in Nat BY <1>4, ChangeSays
    <2>2. d.peer_request < g[i].request /\ g[i].request <= c.local_request
      BY <2>1 DEF Says
    <2>3. c.local_acked <= d.peer_request BY <1>4 DEF Views
    <2> QED BY SMTT(30), <2>1, <2>2, <2>3, <1>5, <1>6
  <1>8. n.frame \in Nat BY MessageTypes DEF Voted, IsVote
  <1>9. n.frame <= e + 2 * PauseLead /\ (Ahead(l, a, z) \/ Barred(d, a, z))
    <2>1. CASE c.episode = None
      <3>1. n.frame = f + PauseLead BY <2>1 DEF Voted
      <3>2. l <= s /\ s <= f + InputDelay + 1 /\ f <= e + InputDelay + 1 + PREDICTION_WINDOW
        BY DEF Near
      <3>3. n.frame <= e + 2 * PauseLead BY <3>1, <3>2, Numbers
      <3>4. s + PREDICTION_WINDOW <= n.frame BY <3>1, <3>2, Numbers
      <3>5. l + PREDICTION_WINDOW <= n.frame BY <3>2, <3>4, <1>8, Numbers
      <3>6. ASSUME NEW j \in 1 .. z - 1, IsInput(a[j])
            PROVE  a[j].frame + 1 + PREDICTION_WINDOW <= n.frame
        <4>1. a[j].frame \in Nat /\ a[j].frame < s BY <3>6, <1>3, MessageTypes DEF Near
        <4> QED BY SMTT(30), <4>1, <3>4, <1>8, Numbers
      <3>7. Ahead(l, a, z) BY <3>5, <3>6, <1>1 DEF Ahead
      <3> QED BY <3>3, <3>7
    <2>2. CASE c.episode # None
      <3>1. n.frame = c.episode BY <2>2 DEF Voted
      <3>2. c.peer.paused BY <2>2, <1>4, <1>6 DEF Halts
      <3>3. Lasting(c, h) BY <3>2, <2>2 DEF Lasting, Finishing
      <3>4. \A x : ~Names(g, x) BY <1>7 DEF Names, IsVote
      <3>5. Lasting(d, g) /\ d.episode <= c.episode BY <3>3, <3>4, <1>4 DEF Agree
      <3>6. \A x : ~Names(h, x) BY <3>2, <1>4, NoVoteToPaused DEF Names
      <3>7. c.episode <= d.episode BY <3>5, <3>6, <1>4 DEF Agree
      <3>8. d.episode # None /\ d.episode \in Nat /\ d.episode <= e + 2 * PauseLead
        BY <3>5, <1>4, ControlTypes DEF Lasting, Halts
      <3>9. n.frame = d.episode BY <3>1, <3>5, <3>7, <3>8, <1>8
      <3>10. CASE c.peer_request = d.local_request
        <4>1. d.local.paused BY <3>2, <3>10, <1>4 DEF Views
        <4> QED BY <4>1, <3>8, <3>9, <1>1 DEF Barred
      <3>11. CASE c.peer_request # d.local_request
        <4>1. d.local_acked # d.local_request /\ ~HasAck(g, d.local_request)
          BY <3>11, <1>4, UnseenLasts
        <4>2. \A j \in 1 .. z - 1 : ~IsAck(a[j], d.local_request)
          BY <4>1, <1>3 DEF HasAck
        <4> QED BY <4>1, <4>2, <3>8, <3>9, <1>1 DEF Barred
      <3> QED BY <3>10, <3>11
    <2> QED BY <2>1, <2>2
  <1>10. Timely(d, e, l, a)
    <2> SUFFICES ASSUME NEW i \in 1 .. Len(a), IsVote(a[i])
                 PROVE  /\ a[i].frame <= e + 2 * PauseLead
                        /\ Ahead(l, a, i) \/ Barred(d, a, i)
      BY DEF Timely
    <2>1. i = z BY <1>1, <1>2, <1>7 DEF IsVote
    <2> QED BY <2>1, <1>1, <1>9
  <1> QED BY <1>10 DEF a

\* A vote that is sent keeps the agreement.
LEMMA PutVote ==
    ASSUME InputDelay >= 1,
           NEW c \in Controls, NEW d \in Controls, NEW f \in Nat, NEW k \in Nat,
           NEW s \in Nat, NEW e \in Nat, NEW l \in Nat,
           NEW h \in Seq(Messages), NEW g \in Seq(Messages),
           Near(f, s, e, l, g), Pact(c, f, k, h, d, e, l, g),
           NEW c2 \in Controls, NEW n \in Messages, Voted(c, c2, f, n)
    PROVE  Pact(c2, f, k, h, d, e, l, Append(g, n))
  <1> DEFINE a == Append(g, n)
  <1>1. /\ Len(g) \in Nat /\ Len(a) = Len(g) + 1 /\ a[Len(g) + 1] = n
        /\ \A i \in 1 .. Len(g) : a[i] = g[i] /\ g[i] \in Messages
    BY AppendFacts
  <1>2. \A i \in 1 .. Len(a) : i = Len(g) + 1 \/ i \in 1 .. Len(g) BY <1>1
  <1>3. /\ ~c.local.paused /\ c.local_acked = c.local_request
        /\ c2.local.paused /\ c2.local.target = n.frame /\ c2.peer = c.peer
        /\ c2.local_request = c.local_request + 1 /\ c2.local_acked = c.local_acked
        /\ c2.peer_request = c.peer_request /\ c2.episode = n.frame
        /\ c.episode # None => n.frame = c.episode
        /\ IsVote(n) /\ n.request = c2.local_request
    BY DEF Voted
  <1>4. /\ n.frame \in Nat /\ n.paused /\ IsChange(n) /\ n.type # "PauseAck"
        /\ \A r : ~IsAck(n, r)
    BY <1>3, MessageTypes DEF IsVote, IsChange, IsAck
  <1>5. /\ \A x : Names(a, x) <=> Names(g, x) \/ n.frame <= x
        /\ \A r : HasChange(a, r) <=> HasChange(g, r) \/ n.request = r
        /\ \A r : HasAck(a, r) <=> HasAck(g, r)
        /\ \A r : Ripe(a, r) <=> Ripe(g, r)
    BY <1>3, <1>4, AppendFinds
  <1>6. Timely(d, e, l, a) BY VoteTimely
  <1> HIDE DEF a
  <1>7. /\ Halts(c, f) /\ Views(c, d) /\ Sent(c, d, g) /\ Acks(c, d, h) /\ Agree(c, h, d, g)
        /\ Views(d, c) /\ Sent(d, c, h) /\ Acks(d, c, g) /\ Agree(d, g, c, h)
        /\ Owned(d, h) /\ Timely(c, f, k, h)
    BY DEF Pact, Half
  <1>8. /\ c.local_request \in Nat /\ c.local_acked \in Nat /\ d.peer_request \in Nat
        /\ c2.local_request \in Nat
    BY Counters
  <1>9. d.peer_request = c.local_request
    <2>1. c.local_acked <= d.peer_request /\ d.peer_request <= c.local_request
      BY <1>7 DEF Views
    <2> QED BY <2>1, <1>3, <1>8
  <1>10. \A i \in 1 .. Len(g) : ~IsChange(g[i])
    <2> SUFFICES ASSUME NEW i \in 1 .. Len(g), IsChange(g[i]) PROVE FALSE OBVIOUS
    <2>1. Says(d, c, g[i]) /\ g[i].request \in Nat BY <1>7, ChangeSays
    <2>2. d.peer_request < g[i].request /\ g[i].request <= c.local_request
      BY <2>1 DEF Says
    <2> QED BY <2>1, <2>2, <1>8, <1>9
  <1>11. Halts(c2, f)
    <2>1. f <= n.frame /\ n.frame <= f + 2 * PauseLead
      <3>1. CASE c.episode = None
        <4>1. n.frame = f + PauseLead BY <3>1 DEF Voted
        <4> QED BY <4>1, Numbers
      <3>2. CASE c.episode # None BY <3>2, <1>3, <1>7 DEF Halts
      <3> QED BY <3>1, <3>2
    <2>2. n.frame # None BY <1>4, Numbers
    <2> QED BY <2>1, <2>2, <1>3 DEF Halts
  <1>12. Views(c2, d)
    <2>1. /\ c2.local_acked <= d.peer_request /\ d.peer_request <= c2.local_request
          /\ c2.local_request <= c2.local_acked + 2 /\ c2.local_request # c2.local_acked + 2
          /\ d.peer_request # c2.local_request /\ d.peer_request = c2.local_request - 1
          /\ d.peer_request # c2.local_request - 2
      BY SMTT(30), <1>3, <1>8, <1>9
    <2>2. ~d.peer.paused BY <1>3, <1>7, <1>9 DEF Views
    <2>3. c2.local.target # None BY <1>3, <1>4, Numbers
    <2> QED BY <2>1, <2>2, <2>3, <1>3 DEF Views
  <1>13. Views(d, c2) BY <1>3, <1>7 DEF Views
  <1>14. Sent(c2, d, a)
    <2>1. \A i \in 1 .. Len(a) : IsChange(a[i]) => i = Len(g) + 1 /\ a[i] = n
      BY <1>1, <1>2, <1>10
    <2>2. d.peer_request < n.request /\ n.request <= c2.local_request
      BY <1>3, <1>8, <1>9
    <2>3. \A r \in d.peer_request + 1 .. c2.local_request : HasChange(a, r)
      <3>1. \A r \in d.peer_request + 1 .. c2.local_request : r = n.request
        BY <1>3, <1>8, <1>9
      <3> QED BY <3>1, <1>5
    <2>4. \A i, j \in 1 .. Len(a) : IsChange(a[i]) /\ IsChange(a[j]) => ~(i < j)
      BY <2>1, <1>1
    <2> QED BY <2>1, <2>2, <2>3, <2>4, <1>3, <1>4 DEF Sent
  <1>15. Sent(d, c2, h) BY <1>3, <1>7 DEF Sent
  <1>16. Acks(c2, d, h) BY <1>3, <1>7 DEF Acks
  <1>17. Acks(d, c2, a)
    <2>1. \A i \in 1 .. Len(a) : a[i].type = "PauseAck" => i \in 1 .. Len(g) /\ a[i] = g[i]
      BY <1>1, <1>2, <1>4
    <2> QED BY <2>1, <1>3, <1>5, <1>7 DEF Acks
  <1>18. Owned(c2, a)
    <2>1. \A i \in 1 .. Len(a) : IsVote(a[i]) => a[i] = n BY <1>1, <1>2, <1>10 DEF IsVote
    <2>2. c2.episode # None /\ c2.episode <= n.frame BY <1>3, <1>4, Numbers
    <2> QED BY <2>1, <2>2 DEF Owned
  <1>19. Timely(c2, f, k, h)
    <2>1. ASSUME NEW i \in 1 .. Len(h), Barred(c, h, i) PROVE Barred(c2, h, i)
      BY <2>1, <1>3 DEF Barred
    <2> QED BY <2>1, <1>7 DEF Timely
  <1>20. Agree(c2, h, d, a)
    <2>1. Names(a, c2.episode) BY <1>3, <1>4, <1>5
    <2> QED BY <2>1 DEF Agree
  <1>21. Agree(d, a, c2, h)
    <2>1. Lasting(d, a) <=> Lasting(d, g) BY <1>5 DEF Lasting, Finishing
    <2>2. Lasting(c2, h) BY <1>3, <1>4, Numbers DEF Lasting, Finishing
    <2>3. Lasting(c, h) => c2.episode = c.episode BY <1>3 DEF Lasting
    <2> QED BY <2>1, <2>2, <2>3, <1>7 DEF Agree
  <1>22. Halts(d, e) BY DEF Pact, Half
  <1> QED BY <1>6, <1>7, <1>11, <1>12, <1>13, <1>14, <1>15, <1>16, <1>17, <1>18, <1>19,
             <1>20, <1>21, <1>22 DEF Pact, Half, a

\* fn reconcile withdraws the vote, field by field.
Withdrawn(c, c2, n) ==
    /\ c.local.paused
    /\ ~c2.local.paused /\ c2.local.target = c.local.target /\ c2.peer = c.peer
    /\ c2.local_request = c.local_request + 1 /\ c2.local_acked = c.local_acked
    /\ c2.peer_request = c.peer_request /\ c2.episode = c.episode
    /\ IsChange(n) /\ ~n.paused /\ n.request = c2.local_request
    /\ n.frame = c.local.target

\* A release that is sent keeps the agreement.
LEMMA PutRelease ==
    ASSUME NEW c \in Controls, NEW d \in Controls, NEW f \in Nat, NEW k \in Nat,
           NEW e \in Nat, NEW l \in Nat, NEW h \in Seq(Messages), NEW g \in Seq(Messages),
           Pact(c, f, k, h, d, e, l, g),
           NEW c2 \in Controls, NEW n \in Messages, Withdrawn(c, c2, n)
    PROVE  Pact(c2, f, k, h, d, e, l, Append(g, n))
  <1> DEFINE a == Append(g, n)
  <1>1. /\ Len(g) \in Nat /\ Len(a) = Len(g) + 1 /\ a[Len(g) + 1] = n
        /\ \A i \in 1 .. Len(g) : a[i] = g[i] /\ g[i] \in Messages
    BY AppendFacts
  <1>2. \A i \in 1 .. Len(a) : i = Len(g) + 1 \/ i \in 1 .. Len(g) BY <1>1
  <1>3. /\ c.local.paused
        /\ ~c2.local.paused /\ c2.local.target = c.local.target /\ c2.peer = c.peer
        /\ c2.local_request = c.local_request + 1 /\ c2.local_acked = c.local_acked
        /\ c2.peer_request = c.peer_request /\ c2.episode = c.episode
        /\ IsChange(n) /\ ~n.paused /\ n.request = c2.local_request
        /\ n.frame = c.local.target
    BY DEF Withdrawn
  <1>4. ~IsVote(n) /\ n.type # "PauseAck" /\ (\A r : ~IsAck(n, r)) /\ n.request \in Nat
    BY <1>3, MessageTypes DEF IsVote, IsChange, IsAck
  <1>5. /\ \A x : Names(a, x) <=> Names(g, x)
        /\ \A r : HasChange(a, r) <=> HasChange(g, r) \/ n.request = r
        /\ \A r : HasAck(a, r) <=> HasAck(g, r)
        /\ \A r : Ripe(a, r) <=> Ripe(g, r)
    BY <1>3, <1>4, AppendFinds
  <1> HIDE DEF a
  <1>6. /\ Halts(c, f) /\ Views(c, d) /\ Sent(c, d, g) /\ Acks(c, d, h) /\ Agree(c, h, d, g)
        /\ Views(d, c) /\ Sent(d, c, h) /\ Acks(d, c, g) /\ Agree(d, g, c, h)
        /\ Owned(c, g) /\ Owned(d, h) /\ Timely(c, f, k, h) /\ Timely(d, e, l, g)
    BY DEF Pact, Half
  <1>7. /\ c.local_request \in Nat /\ c.local_acked \in Nat /\ d.peer_request \in Nat
        /\ c2.local_request \in Nat
    BY Counters
  <1>8. /\ c.local_acked <= d.peer_request /\ d.peer_request <= c.local_request
        /\ c.local_request <= c.local_acked + 2 /\ c.local_request # c.local_acked + 2
        /\ c.local.target # None
    BY <1>3, <1>6 DEF Views
  <1>9. c2.local_acked # c2.local_request BY <1>3, <1>7, <1>8
  <1>10. Halts(c2, f) BY <1>3, <1>6, <1>9 DEF Halts
  <1>11. Views(c2, d)
    <2>1. /\ c2.local_acked <= d.peer_request /\ d.peer_request <= c2.local_request
          /\ c2.local_request <= c2.local_acked + 2
          /\ d.peer_request # c2.local_request
      BY SMTT(30), <1>3, <1>7, <1>8
    <2>2. d.peer_request = c2.local_request - 1 =>
              d.peer.paused /\ d.peer.target = c2.local.target
      <3>1. d.peer_request = c2.local_request - 1 => d.peer_request = c.local_request
        BY <1>3, <1>7
      <3> QED BY <3>1, <1>3, <1>6 DEF Views
    <2>3. d.peer_request = c2.local_request - 2 => ~d.peer.paused
      <3>1. d.peer_request = c2.local_request - 2 => d.peer_request = c.local_request - 1
        BY <1>3, <1>7
      <3> QED BY <3>1, <1>3, <1>6 DEF Views
    <2> QED BY <2>1, <2>2, <2>3, <1>3 DEF Views
  <1>12. Views(d, c2) BY <1>3, <1>6 DEF Views
  <1>13. Sent(c2, d, a)
    <2>1. ASSUME NEW i \in 1 .. Len(g), IsChange(g[i])
          PROVE  /\ d.peer_request < g[i].request /\ g[i].request = c.local_request
                 /\ g[i].paused /\ g[i].frame = c.local.target /\ g[i].request \in Nat
      <3>1. Says(d, c, g[i]) /\ g[i].request \in Nat BY <2>1, <1>6, ChangeSays
      <3> QED BY <3>1, <1>3 DEF Says
    <2>2. /\ d.peer_request < n.request /\ n.request <= c2.local_request
          /\ c.local_request # c2.local_request
          /\ c.local_request = c2.local_request - 1 /\ c.local_request < n.request
          /\ c.local_request <= c2.local_request
      BY SMTT(30), <1>3, <1>7, <1>8
    <2>3. \A i \in 1 .. Len(a) : IsChange(a[i]) =>
            /\ d.peer_request < a[i].request /\ a[i].request <= c2.local_request
            /\ a[i].frame = c2.local.target
            /\ a[i].request = c2.local_request => (a[i].paused <=> c2.local.paused)
            /\ a[i].request # c2.local_request =>
                    /\ a[i].request = c2.local_request - 1
                    /\ a[i].paused /\ ~c2.local.paused
      <3>1. ASSUME NEW i \in 1 .. Len(g), IsChange(a[i])
            PROVE  /\ d.peer_request < a[i].request /\ a[i].request = c.local_request
                   /\ a[i].paused /\ a[i].frame = c.local.target
        BY <3>1, <2>1, <1>1
      <3> QED BY <3>1, <2>2, <1>1, <1>2, <1>3
    <2>4. ASSUME NEW i \in 1 .. Len(a), NEW j \in 1 .. Len(a), i < j,
                 IsChange(a[i]), IsChange(a[j])
          PROVE  a[i].request < a[j].request
      <3>1. i \in 1 .. Len(g) /\ a[i] = g[i] BY <2>4, <1>1, <1>2
      <3>2. CASE j \in 1 .. Len(g)
        <4>1. a[j] = g[j] BY <3>2, <1>1
        <4> QED BY <3>1, <3>2, <4>1, <2>4, <1>6 DEF Sent
      <3>3. CASE j = Len(g) + 1
        <4>1. a[i].request = c.local_request BY <3>1, <2>1, <2>4
        <4> QED BY <4>1, <3>3, <2>2, <1>1
      <3> QED BY <3>2, <3>3, <1>2
    <2>5. ASSUME NEW r \in d.peer_request + 1 .. c2.local_request PROVE HasChange(a, r)
      <3>1. r = n.request \/ r \in d.peer_request + 1 .. c.local_request BY <1>3, <1>7
      <3> QED BY <3>1, <1>5, <1>6 DEF Sent
    <2> QED BY <2>3, <2>4, <2>5 DEF Sent
  <1>14. Sent(d, c2, h) BY <1>3, <1>6 DEF Sent
  <1>15. Acks(c2, d, h) BY <1>3, <1>6 DEF Acks
  <1>16. Acks(d, c2, a)
    <2>1. \A i \in 1 .. Len(a) : a[i].type = "PauseAck" => i \in 1 .. Len(g) /\ a[i] = g[i]
      BY <1>1, <1>2, <1>4
    <2> QED BY <2>1, <1>3, <1>5, <1>6 DEF Acks
  <1>17. Owned(c2, a)
    <2>1. \A i \in 1 .. Len(a) : IsVote(a[i]) => i \in 1 .. Len(g) /\ a[i] = g[i]
      BY <1>1, <1>2, <1>4
    <2> QED BY <2>1, <1>3, <1>6 DEF Owned
  <1>18. \A i \in 1 .. Len(h) : ~IsAck(h[i], c2.local_request)
    <2> SUFFICES ASSUME NEW i \in 1 .. Len(h), IsAck(h[i], c2.local_request) PROVE FALSE
      OBVIOUS
    <2>1. c2.local_request <= d.peer_request BY <1>6 DEF Acks, IsAck
    <2> QED BY <2>1, <1>3, <1>7, <1>8
  <1>19. Timely(c2, f, k, h)
    <2>1. ASSUME NEW i \in 1 .. Len(h), Barred(c, h, i) PROVE Barred(c2, h, i)
      <3>1. \A j \in 1 .. i - 1 : j \in 1 .. Len(h) OBVIOUS
      <3> QED BY <3>1, <2>1, <1>3, <1>9, <1>18 DEF Barred
    <2> QED BY <2>1, <1>6 DEF Timely
  <1>20. Timely(d, e, l, a) BY <1>4, <1>6, AppendTimely DEF a
  <1>21. Lasting(c, h) /\ Lasting(c2, h)
    <2>1. c.episode # None BY <1>3, <1>6 DEF Halts
    <2>2. ~Ripe(h, c2.local_request) BY <1>18 DEF Ripe
    <2> QED BY <2>1, <2>2, <1>3 DEF Lasting, Finishing
  <1>22. Lasting(d, a) <=> Lasting(d, g) BY <1>5 DEF Lasting, Finishing
  <1>23. Agree(c2, h, d, a) /\ Agree(d, a, c2, h)
    BY <1>3, <1>5, <1>6, <1>21, <1>22 DEF Agree
  <1>24. Halts(d, e) BY DEF Pact, Half
  <1> QED BY <1>6, <1>10, <1>11, <1>12, <1>13, <1>14, <1>15, <1>16, <1>17, <1>19, <1>20,
             <1>23, <1>24 DEF Pact, Half, a

-----------------------------------------------------------------------------
\* The fields that only report leaves alone.
Same(c, c2) ==
    /\ c2.local = c.local /\ c2.peer = c.peer /\ c2.episode = c.episode
    /\ c2.local_request = c.local_request /\ c2.local_acked = c.local_acked
    /\ c2.peer_request = c.peer_request

\* A PauseControl is its fields.
LEMMA ControlFields ==
    ASSUME NEW c \in Controls
    PROVE  /\ c = [local |-> c.local, peer |-> c.peer, episode |-> c.episode,
                   reported |-> c.reported, local_request |-> c.local_request,
                   local_acked |-> c.local_acked, peer_request |-> c.peer_request,
                   desired |-> c.desired]
           /\ c.local \in Votes /\ c.peer \in Votes /\ c.episode \in Nat \cup {None}
           /\ c.reported \in (BOOLEAN \X BOOLEAN) \cup {None}
           /\ c.local_request \in Nat /\ c.local_acked \in Nat /\ c.peer_request \in Nat
           /\ c.desired \in BOOLEAN
  BY DEF Controls

\* The flags are a pair, and not those of a running game while a vote stands.
LEMMA FlagsType ==
    ASSUME NEW c \in Controls
    PROVE  /\ Flags(c) \in BOOLEAN \X BOOLEAN /\ Flags(c) # None
           /\ Flags(c) = Running <=> ~c.local.paused /\ ~c.peer.paused
           /\ Running \in BOOLEAN \X BOOLEAN /\ Running # None
  <1>1. c.local.paused \in BOOLEAN /\ c.peer.paused \in BOOLEAN BY ControlTypes
  <1>2. Flags(c) \in BOOLEAN \X BOOLEAN /\ Running \in BOOLEAN \X BOOLEAN
    BY <1>1 DEF Flags, Running
  <1>3. Flags(c) = Running <=> ~c.local.paused /\ ~c.peer.paused
    BY <1>1 DEF Flags, Running
  <1> QED BY <1>2, <1>3, FlagsAssumption

\* report_pause changes what was reported, and nothing else.
LEMMA ReportFields ==
    ASSUME NEW c \in Controls, NEW f, NEW x
    PROVE  /\ Report(c, f, x) \in Controls /\ Same(c, Report(c, f, x))
           /\ Report(c, f, x).reported =
                (IF Status(c, f, x) = None THEN c.reported
                 ELSE IF Status(c, f, x) = Running THEN None ELSE Status(c, f, x))
  <1> DEFINE r == IF Status(c, f, x) = None THEN c.reported
                  ELSE IF Status(c, f, x) = Running THEN None ELSE Status(c, f, x)
  <1>1. Report(c, f, x) = [c EXCEPT !.reported = r] BY DEF Report
  <1>2. Status(c, f, x) \in {None, Running, Flags(c)} BY DEF Status
  <1>3. r \in (BOOLEAN \X BOOLEAN) \cup {None} BY <1>2, FlagsType, ControlFields
  <1> HIDE DEF r
  <1>4. Report(c, f, x) \in Controls BY <1>1, <1>3 DEF Controls
  <1>5. Report(c, f, x).reported = r /\ Same(c, Report(c, f, x))
    BY <1>1 DEF Controls, Same
  <1> QED BY <1>4, <1>5 DEF r

\* A pause is reported only to a side that has stopped at the barrier, at a frame
\* whose inputs it knows.
LEMMA ReportTold ==
    ASSUME NEW c \in Controls, NEW f \in Nat, NEW y \in Nat, Halts(c, f),
           c.reported # Running, c.reported # None => f <= y
    PROVE  LET r == Report(c, f, Lesser(f, y)).reported
           IN  /\ r # Running
               /\ r # None => f <= y /\ c.episode # None /\ f >= c.episode
  <1> DEFINE x == Lesser(f, y)
             s == Status(c, f, x)
             r == Report(c, f, x).reported
  <1>1. r = (IF s = None THEN c.reported ELSE IF s = Running THEN None ELSE s)
    BY ReportFields
  <1>2. /\ Flags(c) # None /\ Running # None
        /\ Flags(c) = Running <=> ~c.local.paused /\ ~c.peer.paused
    BY FlagsType
  <1>3. c.episode \in Nat \cup {None} BY ControlTypes
  <1>4. x \in Nat /\ x <= y /\ x <= f BY DEF Lesser
  <1>5. s = Status(c, f, x) OBVIOUS
  <1> HIDE DEF x, r, s
  <1>6. CASE c.episode # None /\ f < c.episode
    <2>1. s = IF c.reported = None THEN None ELSE Running
      BY <1>5, <1>6 DEF Status, Barrier
    <2> QED BY <2>1, <1>1, <1>2 DEF r, x
  <1>7. CASE c.episode = None
    <2>1. ~c.local.paused /\ ~c.peer.paused BY <1>7 DEF Halts
    <2>2. Flags(c) = Running BY <2>1, <1>2
    <2>3. s = IF c.reported = None \/ c.reported = Running THEN None ELSE Running
      BY <2>2, <1>5, <1>7 DEF Status, Barrier
    <2> QED BY <2>3, <1>1, <1>2 DEF r, x
  <1>8. CASE c.episode # None /\ ~(f < c.episode)
    <2>1. c.episode \in Nat /\ f >= c.episode /\ f <= c.episode BY <1>3, <1>8 DEF Halts
    <2>2. s = IF x < c.episode \/ Flags(c) = Running \/ c.reported = Flags(c)
              THEN None ELSE Flags(c)
      BY <1>5, <1>8 DEF Status, Barrier
    <2>3. CASE s = None BY <2>1, <2>3, <1>1, <1>8 DEF r, x
    <2>4. CASE s # None
      <3>1. s = Flags(c) /\ Flags(c) # Running /\ ~(x < c.episode) BY <2>2, <2>4
      <3>2. f <= y BY <3>1, <2>1, <1>4
      <3> QED BY <3>1, <3>2, <2>1, <2>4, <1>1, <1>2, <1>8 DEF r, x
    <2> QED BY <2>3, <2>4
  <1> QED BY <1>6, <1>7, <1>8

\* A vote is its two fields.
LEMMA VoteType ==
    ASSUME NEW t \in Nat \cup {None}, NEW b \in BOOLEAN
    PROVE  Vote(t, b) \in Votes /\ Vote(t, b).target = t /\ Vote(t, b).paused = b
  BY DEF Vote, Votes

\* The control after fn finish_episode.
LEMMA FinishFields ==
    ASSUME NEW c \in Controls
    PROVE  LET x == FinishEpisode(c)
           IN  /\ x \in Controls /\ x.local = c.local /\ x.peer = c.peer
               /\ x.local_request = c.local_request /\ x.local_acked = c.local_acked
               /\ x.peer_request = c.peer_request
               /\ x.reported = c.reported /\ x.desired = c.desired
               /\ x.episode = IF ~c.local.paused /\ ~c.peer.paused
                                 /\ c.local_acked = c.local_request
                              THEN None ELSE c.episode
  <1>1. CASE ~c.local.paused /\ ~c.peer.paused /\ c.local_acked = c.local_request
    <2>1. FinishEpisode(c) = [c EXCEPT !.episode = None] BY <1>1 DEF FinishEpisode
    <2> QED BY <2>1, <1>1 DEF Controls
  <1>2. CASE ~(~c.local.paused /\ ~c.peer.paused /\ c.local_acked = c.local_request)
    <2>1. FinishEpisode(c) = c BY <1>2 DEF FinishEpisode
    <2> QED BY <2>1, <1>2
  <1> QED BY <1>1, <1>2

\* fn update_episode for a vote, field by field.
LEMMA UpdateFields ==
    ASSUME NEW c \in Controls, NEW t \in Nat
    PROVE  LET x == UpdateEpisode(c, t, TRUE)
           IN  /\ x \in Controls /\ x.local = c.local /\ x.peer = c.peer
               /\ x.local_request = c.local_request /\ x.local_acked = c.local_acked
               /\ x.peer_request = c.peer_request
               /\ x.reported = c.reported /\ x.desired = c.desired
               /\ x.episode = IF c.episode = None THEN t ELSE Lesser(c.episode, t)
  <1> DEFINE y == IF c.episode = None THEN t ELSE Lesser(c.episode, t)
  <1>1. y \in Nat \cup {None} BY ControlTypes DEF Lesser
  <1>2. UpdateEpisode(c, t, TRUE) = [c EXCEPT !.episode = y] BY DEF UpdateEpisode
  <1> HIDE DEF y
  <1>3. UpdateEpisode(c, t, TRUE) \in Controls BY <1>1, <1>2 DEF Controls
  <1> QED BY <1>2, <1>3 DEF Controls, y

\* fn observe, field by field.
LEMMA ObserveFields ==
    ASSUME NEW c \in Controls, NEW m \in Messages, IsChange(m), ~Repeated(c, m)
    PROVE  /\ Observe(c, m) \in Controls /\ Observed(c, Observe(c, m), m)
           /\ Observe(c, m).reported = c.reported
  <1> DEFINE x == [c EXCEPT !.peer = Vote(m.frame, m.paused), !.peer_request = m.request]
             o == Observe(c, m)
  <1>1. m.request \in Nat /\ m.frame \in Nat /\ m.paused \in BOOLEAN BY MessageTypes
  <1>2. /\ Vote(m.frame, m.paused) \in Votes
        /\ Vote(m.frame, m.paused).target = m.frame
        /\ Vote(m.frame, m.paused).paused = m.paused
    BY <1>1, VoteType
  <1>3. x \in Controls BY <1>1, <1>2 DEF Controls
  <1>4. /\ x.local = c.local /\ x.local_request = c.local_request
        /\ x.local_acked = c.local_acked /\ x.peer_request = m.request
        /\ x.episode = c.episode /\ x.reported = c.reported
        /\ x.peer = Vote(m.frame, m.paused)
    BY DEF Controls
  <1>5. o = UpdateEpisode(x, m.frame, m.paused) BY DEF Observe
  <1> HIDE DEF x, o
  <1>6. x.peer.target = m.frame /\ x.peer.paused = m.paused BY <1>2, <1>4
  <1>7. CASE m.paused
    <2>1. o = UpdateEpisode(x, m.frame, TRUE) BY <1>1, <1>5, <1>7
    <2>2. /\ o \in Controls /\ o.local = x.local /\ o.peer = x.peer
          /\ o.local_request = x.local_request /\ o.local_acked = x.local_acked
          /\ o.peer_request = x.peer_request /\ o.reported = x.reported
          /\ o.episode = IF x.episode = None THEN m.frame ELSE Lesser(x.episode, m.frame)
      BY <2>1, <1>1, <1>3, UpdateFields
    <2>3. c.episode \in Nat \cup {None} BY ControlTypes
    <2>4. /\ o.episode # None /\ o.episode <= m.frame
          /\ c.episode = None => o.episode = m.frame
          /\ c.episode # None => o.episode <= c.episode
          /\ o.episode = m.frame \/ o.episode = c.episode
      BY <2>2, <2>3, <1>1, <1>4, Numbers DEF Lesser
    <2>5. Observed(c, o, m) BY <2>2, <2>4, <1>4, <1>6, <1>7 DEF Observed
    <2> QED BY <2>2, <2>5, <1>4 DEF o
  <1>8. CASE ~m.paused
    <2>1. o = FinishEpisode(x) BY <1>5, <1>8 DEF UpdateEpisode
    <2>2. /\ o \in Controls /\ o.local = x.local /\ o.peer = x.peer
          /\ o.local_request = x.local_request /\ o.local_acked = x.local_acked
          /\ o.peer_request = x.peer_request /\ o.reported = x.reported
          /\ o.episode = IF ~x.local.paused /\ ~x.peer.paused
                                 /\ x.local_acked = x.local_request
                              THEN None ELSE x.episode
      BY <2>1, <1>3, FinishFields
    <2>3. Observed(c, o, m) BY <2>2, <1>4, <1>6, <1>8 DEF Observed
    <2> QED BY <2>2, <2>3, <1>4 DEF o
  <1> QED BY <1>7, <1>8

\* fn acknowledge before it reconciles, field by field.
LEMMA AcknowledgedFields ==
    ASSUME NEW c \in Controls, NEW m \in Messages, m.type = "PauseAck"
    PROVE  /\ Acknowledged(c, m) \in Controls /\ Heard(c, Acknowledged(c, m), m)
           /\ Acknowledged(c, m).reported = c.reported
           /\ Acknowledged(c, m).local_acked \in {c.local_acked, m.request}
  <1> DEFINE v == IF m.request > c.local_acked THEN m.request ELSE c.local_acked
             x == [c EXCEPT !.local_acked = v]
             o == Acknowledged(c, m)
  <1>1. m.request \in Nat /\ c.local_acked \in Nat BY MessageTypes, ControlTypes
  <1>2. /\ v \in Nat /\ c.local_acked <= v /\ m.request <= v
        /\ v = c.local_acked \/ v = m.request
    BY <1>1
  <1>3. o = FinishEpisode(x) BY DEF Acknowledged
  <1> HIDE DEF v, o
  <1>4. x \in Controls BY <1>2 DEF Controls
  <1>5. /\ x.local = c.local /\ x.local_request = c.local_request
        /\ x.local_acked = v /\ x.peer_request = c.peer_request
        /\ x.episode = c.episode /\ x.reported = c.reported /\ x.peer = c.peer
    BY DEF Controls
  <1> HIDE DEF x
  <1>6. /\ o \in Controls /\ o.local = x.local /\ o.peer = x.peer
        /\ o.local_request = x.local_request /\ o.local_acked = x.local_acked
        /\ o.peer_request = x.peer_request /\ o.reported = x.reported
        /\ o.episode = IF ~x.local.paused /\ ~x.peer.paused
                               /\ x.local_acked = x.local_request
                            THEN None ELSE x.episode
    BY <1>3, <1>4, FinishFields
  <1>7. Heard(c, o, m) BY <1>2, <1>5, <1>6 DEF Heard
  <1> QED BY <1>2, <1>5, <1>6, <1>7 DEF o

\* A PauseControl with another vote of its own.
LEMMA WithVote ==
    ASSUME NEW c \in Controls, NEW v \in Votes, NEW u \in Nat
    PROVE  [c EXCEPT !.local = v, !.local_request = u] \in Controls
  BY DEF Controls

\* A release names the frame of the vote it withdraws.
Sane(c) ==
    /\ c.local_acked <= c.local_request
    /\ c.local.paused => c.local.target # None

\* fn reconcile, when it changes the vote.
LEMMA ReconcileFields ==
    ASSUME NEW c \in Controls, NEW f \in Nat, ~Deferred(c), Sane(c),
           c.episode # None => f <= c.episode
    PROVE  LET c2 == Reconcile(c, f)
               n == Change(c, f)[1]
           IN  /\ c2 \in Controls /\ c2.reported = c.reported
               /\ n \in Messages /\ Change(c, f) = <<n>>
               /\ c.desired => Voted(c, c2, f, n)
               /\ ~c.desired => Withdrawn(c, c2, n)
  <1> DEFINE t == Target(c, f)
             x == [c EXCEPT !.local = Vote(t, c.desired),
                            !.local_request = c.local_request + 1]
             n == [type |-> "PauseChange", request |-> c.local_request + 1,
                   frame |-> t, paused |-> c.desired]
             c2 == Reconcile(c, f)
  <1>1. /\ c.local_request \in Nat /\ c.local_acked \in Nat /\ c.desired \in BOOLEAN
        /\ c.episode \in Nat \cup {None} /\ c.local.target \in Nat \cup {None}
        /\ c.local.paused \in BOOLEAN
    BY ControlTypes, ControlFields
  <1>2. /\ c.desired => ~c.local.paused /\ c.local_acked = c.local_request
        /\ ~c.desired => c.local.paused
    BY <1>1 DEF Deferred
  <1>3. t \in Nat
    <2>1. CASE c.desired BY <2>1, <1>1, Numbers DEF Target, Barrier
    <2>2. CASE ~c.desired BY <2>2, <1>1, <1>2 DEF Target, Sane
    <2> QED BY <2>1, <2>2
  <1>4. c.desired => t = IF c.episode = None THEN f + PauseLead ELSE c.episode
    BY <1>1 DEF Target, Barrier
  <1>5. ~c.desired => t = c.local.target BY DEF Target
  <1>6. Change(c, f) = <<n>> BY DEF Change
  <1>7. c2 = UpdateEpisode(x, t, c.desired) BY DEF Reconcile
  <1> HIDE DEF t, c2
  <1>8. /\ Vote(t, c.desired) \in Votes /\ Vote(t, c.desired).target = t
        /\ Vote(t, c.desired).paused = c.desired
    BY <1>1, <1>3, VoteType
  <1>9. x \in Controls
    <2>1. c.local_request + 1 \in Nat BY <1>1
    <2> QED BY <2>1, <1>8, WithVote
  <1>10. /\ x.local = Vote(t, c.desired) /\ x.local_request = c.local_request + 1
         /\ x.local_acked = c.local_acked /\ x.peer_request = c.peer_request
         /\ x.episode = c.episode /\ x.reported = c.reported /\ x.peer = c.peer
    BY DEF Controls
  <1>11. n \in ChangeMessages BY <1>1, <1>3 DEF ChangeMessages
  <1>12. /\ n.type = "PauseChange" /\ n.request = c.local_request + 1 /\ n.frame = t
         /\ n.paused = c.desired
    OBVIOUS
  <1> HIDE DEF x, n
  <1>13. n \in Messages BY <1>11 DEF Messages
  <1>14. CASE c.desired
    <2>1. c2 = UpdateEpisode(x, t, TRUE) BY <1>1, <1>7, <1>14
    <2>2. /\ c2 \in Controls /\ c2.local = x.local /\ c2.peer = x.peer
          /\ c2.local_request = x.local_request /\ c2.local_acked = x.local_acked
          /\ c2.peer_request = x.peer_request /\ c2.reported = x.reported
          /\ c2.episode = IF x.episode = None THEN t ELSE Lesser(x.episode, t)
      BY <2>1, <1>3, <1>9, UpdateFields
    <2>3. c2.episode = t
      <3>1. CASE c.episode = None BY <3>1, <2>2, <1>10
      <3>2. CASE c.episode # None BY <3>2, <2>2, <1>4, <1>10, <1>14 DEF Lesser
      <3> QED BY <3>1, <3>2
    <2>4. IsVote(n) BY <1>12, <1>14 DEF IsVote, IsChange
    <2>5. c2.local.paused /\ c2.local.target = t BY <2>2, <1>8, <1>10, <1>14
    <2>6. Voted(c, c2, f, n)
      BY <2>2, <2>3, <2>4, <2>5, <1>2, <1>4, <1>10, <1>12, <1>14 DEF Voted
    <2> QED BY <2>2, <2>6, <1>6, <1>10, <1>13, <1>14 DEF c2
  <1>15. CASE ~c.desired
    <2>1. c2 = FinishEpisode(x) BY <1>7, <1>15 DEF UpdateEpisode
    <2>2. /\ c2 \in Controls /\ c2.local = x.local /\ c2.peer = x.peer
          /\ c2.local_request = x.local_request /\ c2.local_acked = x.local_acked
          /\ c2.peer_request = x.peer_request /\ c2.reported = x.reported
          /\ c2.episode = IF ~x.local.paused /\ ~x.peer.paused
                                 /\ x.local_acked = x.local_request
                              THEN None ELSE x.episode
      BY <2>1, <1>9, FinishFields
    <2>3. x.local_acked # x.local_request
      <3>1. c.local_acked # c.local_request + 1 BY <1>1 DEF Sane
      <3> QED BY <3>1, <1>10
    <2>4. c2.episode = c.episode BY <2>2, <2>3, <1>10
    <2>5. ~c2.local.paused /\ c2.local.target = t BY <2>2, <1>8, <1>10, <1>15
    <2>6. IsChange(n) /\ ~n.paused BY <1>12, <1>15 DEF IsChange
    <2>7. Withdrawn(c, c2, n)
      BY <2>2, <2>4, <2>5, <2>6, <1>2, <1>5, <1>10, <1>12, <1>15 DEF Withdrawn
    <2> QED BY <2>2, <2>7, <1>6, <1>10, <1>13, <1>15 DEF c2
  <1> QED BY <1>14, <1>15

\* No session runs past its barrier.
Below(c, f) == c.episode # None => f <= c.episode

\* What the player has been told.
Told(c, f, y, b) ==
    /\ c.reported # Running
    /\ c.reported # None => f <= y
    /\ c.reported # None /\ ~b => c.episode # None /\ f >= c.episode

\* There are two ports.
LEMMA TwoPorts ==
    ASSUME NEW p \in Ports
    PROVE  Other(p) \in Ports /\ Other(p) # p /\ Other(Other(p)) = p
           /\ \A r \in Ports : r = p \/ r = Other(p)
  BY DEF Ports, Other

\* Every method of PauseControl keeps the vote sane and the session below its
\* barrier.
LEMMA SaneMoves ==
    ASSUME NEW c \in Controls, Sane(c), NEW f \in Nat, Below(c, f)
    PROVE  /\ \A c2 \in Controls : Same(c, c2) => Sane(c2) /\ Below(c2, f)
           /\ \A c2 \in Controls, m \in Messages :
                IsChange(m) /\ Observed(c, c2, m) /\ ~ObserveErr(c, f, m) /\ ~Repeated(c, m) =>
                    Sane(c2) /\ Below(c2, f)
           /\ \A c2 \in Controls, m \in Messages :
                m.type = "PauseAck" /\ Heard(c, c2, m) /\ ~AcknowledgeErr(c, m) =>
                    Sane(c2) /\ Below(c2, f)
           /\ \A c2 \in Controls, n \in Messages :
                Voted(c, c2, f, n) \/ Withdrawn(c, c2, n) => Sane(c2) /\ Below(c2, f)
  <1>1. /\ c.local_request \in Nat /\ c.local_acked \in Nat
        /\ c.local_acked <= c.local_request
        /\ c.local.paused => c.local.target # None
        /\ c.episode \in Nat \cup {None}
        /\ c.episode # None => f <= c.episode
    BY ControlTypes DEF Sane, Below
  <1>2. ASSUME NEW c2 \in Controls, Same(c, c2) PROVE Sane(c2) /\ Below(c2, f)
    BY <1>1, <1>2 DEF Same, Sane, Below
  <1>3. ASSUME NEW c2 \in Controls, NEW m \in Messages, IsChange(m), Observed(c, c2, m),
               ~ObserveErr(c, f, m), ~Repeated(c, m)
        PROVE  Sane(c2) /\ Below(c2, f)
    <2>1. m.frame \in Nat /\ m.paused \in BOOLEAN BY <1>3, MessageTypes
    <2>2. Sane(c2) BY <1>1, <1>3 DEF Observed, Sane
    <2>3. CASE m.paused
      <3>1. m.frame \in f .. f + 2 * PauseLead BY <2>3, <1>3 DEF ObserveErr
      <3>2. c2.episode = m.frame \/ c2.episode = c.episode BY <2>3, <1>3 DEF Observed
      <3> QED BY <3>1, <3>2, <2>1, <2>2, <1>1, Numbers DEF Below
    <2>4. CASE ~m.paused
      <3>1. c2.episode = None \/ c2.episode = c.episode BY <2>4, <1>3 DEF Observed
      <3> QED BY <3>1, <2>2, <1>1 DEF Below
    <2> QED BY <2>3, <2>4
  <1>4. ASSUME NEW c2 \in Controls, NEW m \in Messages, m.type = "PauseAck",
               Heard(c, c2, m), ~AcknowledgeErr(c, m)
        PROVE  Sane(c2) /\ Below(c2, f)
    <2>1. m.request \in Nat /\ ~(m.request > c.local_request)
      BY <1>4, MessageTypes DEF AcknowledgeErr
    <2>2. c2.local = c.local /\ c2.local_request = c.local_request
          /\ (c2.local_acked = c.local_acked \/ c2.local_acked = m.request)
          /\ (c2.episode = None \/ c2.episode = c.episode)
      BY <1>4 DEF Heard
    <2>3. c2.local_acked <= c2.local_request BY <2>1, <2>2, <1>1
    <2> QED BY <2>2, <2>3, <1>1 DEF Sane, Below
  <1>5. ASSUME NEW c2 \in Controls, NEW n \in Messages, Voted(c, c2, f, n)
        PROVE  Sane(c2) /\ Below(c2, f)
    <2>1. n.frame \in Nat BY <1>5, MessageTypes DEF Voted, IsVote
    <2>2. /\ c2.local_request = c.local_request + 1 /\ c2.local_acked = c.local_acked
          /\ c2.local.target = n.frame /\ c2.episode = n.frame
          /\ n.frame = IF c.episode = None THEN f + PauseLead ELSE c.episode
      BY <1>5 DEF Voted
    <2>3. c2.local_acked <= c2.local_request BY <2>2, <1>1
    <2>4. f <= n.frame BY <2>2, <1>1, Numbers
    <2> QED BY <2>1, <2>2, <2>3, <2>4, Numbers DEF Sane, Below
  <1>6. ASSUME NEW c2 \in Controls, NEW n \in Messages, Withdrawn(c, c2, n)
        PROVE  Sane(c2) /\ Below(c2, f)
    <2>1. /\ c2.local_request = c.local_request + 1 /\ c2.local_acked = c.local_acked
          /\ ~c2.local.paused /\ c2.episode = c.episode
      BY <1>6 DEF Withdrawn
    <2>2. c2.local_acked <= c2.local_request BY <2>1, <1>1
    <2> QED BY <2>1, <2>2, <1>1 DEF Sane, Below
  <1> QED BY <1>2, <1>3, <1>4, <1>5, <1>6

\* fn reconcile either leaves the vote, or changes it and sends the change n.
Moves(c, x, f, n) == IsChange(n) /\ (Voted(c, x, f, n) \/ Withdrawn(c, x, n))

\* fn reconcile, in either case.
LEMMA ReconcileMoves ==
    ASSUME NEW c \in Controls, NEW f \in Nat, Sane(c), Below(c, f),
           NEW g \in Seq(Messages)
    PROVE  LET x == Reconcile(c, f)
               a == g \o Change(c, f)
           IN  /\ x \in Controls /\ x.reported = c.reported
               /\ Sane(x) /\ Below(x, f) /\ a \in Seq(Messages)
               /\ \/ x = c /\ a = g
                  \/ \E n \in Messages : a = Append(g, n) /\ Moves(c, x, f, n)
  <1> DEFINE x == Reconcile(c, f)
             a == g \o Change(c, f)
  <1>1. CASE Deferred(c)
    <2>1. x = c /\ Change(c, f) = <<>> BY <1>1 DEF Reconcile, Change
    <2>2. a = g BY <2>1, ConcatEmptySeq
    <2> QED BY <2>1, <2>2
  <1>2. CASE ~Deferred(c)
    <2> DEFINE n == Change(c, f)[1]
    <2>1. /\ x \in Controls /\ x.reported = c.reported
          /\ n \in Messages /\ Change(c, f) = <<n>>
          /\ c.desired => Voted(c, x, f, n)
          /\ ~c.desired => Withdrawn(c, x, n)
      BY <1>2, ReconcileFields DEF Below
    <2> HIDE DEF x, n
    <2>2. a = Append(g, n) BY <2>1
    <2>3. Moves(c, x, f, n)
      BY <2>1 DEF Moves, Voted, Withdrawn, IsVote
    <2>4. Sane(x) /\ Below(x, f) BY <2>1, SaneMoves
    <2>5. a \in Seq(Messages) BY <2>1, <2>2
    <2> QED BY <2>1, <2>2, <2>3, <2>4, <2>5 DEF x
  <1> QED BY <1>1, <1>2

\* What the player wants is no part of the agreement.
LEMMA DesireSame ==
    ASSUME NEW c \in Controls, NEW paused \in BOOLEAN
    PROVE  /\ Desire(c, paused) \in Controls /\ Same(c, Desire(c, paused))
           /\ Desire(c, paused).reported = c.reported
  <1>1. Desire(c, paused) \in Controls BY DEF Desire, Controls
  <1>2. Same(c, Desire(c, paused)) /\ Desire(c, paused).reported = c.reported
    BY DEF Desire, Same, Controls
  <1> QED BY <1>1, <1>2

\* The peer's acknowledgment is of a request that was made.
LEMMA AckAccepted ==
    ASSUME NEW c \in Controls, NEW d \in Controls, NEW f \in Nat, NEW k \in Nat,
           NEW e \in Nat, NEW l \in Nat, NEW h \in Seq(Messages), NEW g \in Seq(Messages),
           h # <<>>, Head(h).type = "PauseAck", Pact(c, f, k, h, d, e, l, g)
    PROVE  ~AcknowledgeErr(c, Head(h))
  <1> DEFINE m == Head(h)
  <1>1. m = h[1] /\ 1 \in 1 .. Len(h) /\ m \in Messages /\ m.request \in Nat
    BY TailFacts, MessageTypes
  <1>2. m.request >= 1 /\ m.request <= d.peer_request
    BY <1>1 DEF Pact, Half, Acks
  <1>3. d.peer_request <= c.local_request BY DEF Pact, Half, Views
  <1>4. d.peer_request \in Nat /\ c.local_request \in Nat BY Counters
  <1> HIDE DEF m
  <1>5. ~AcknowledgeErr(c, m) BY <1>1, <1>2, <1>3, <1>4 DEF AcknowledgeErr
  <1> QED BY <1>5 DEF m

\* fn reconcile keeps the agreement.
LEMMA PactReconciles ==
    ASSUME InputDelay >= 1,
           NEW c \in Controls, NEW d \in Controls, NEW f \in Nat, NEW k \in Nat,
           NEW s \in Nat, NEW e \in Nat, NEW l \in Nat,
           NEW h \in Seq(Messages), NEW g \in Seq(Messages),
           Near(f, s, e, l, g), Pact(c, f, k, h, d, e, l, g), Sane(c), Below(c, f)
    PROVE  Pact(Reconcile(c, f), f, k, h, d, e, l, g \o Change(c, f))
  <1> DEFINE x == Reconcile(c, f)
             a == g \o Change(c, f)
  <1>1. /\ x \in Controls
        /\ \/ x = c /\ a = g
           \/ \E n \in Messages : a = Append(g, n) /\ Moves(c, x, f, n)
    BY ReconcileMoves
  <1> HIDE DEF x, a
  <1>2. CASE x = c /\ a = g BY <1>2 DEF x, a
  <1>3. ASSUME NEW n \in Messages, a = Append(g, n), Moves(c, x, f, n)
        PROVE  Pact(x, f, k, h, d, e, l, a)
    <2>1. CASE Voted(c, x, f, n) BY <2>1, <1>1, <1>3, PutVote
    <2>2. CASE Withdrawn(c, x, n) BY <2>2, <1>1, <1>3, PutRelease
    <2> QED BY <2>1, <2>2, <1>3 DEF Moves
  <1> QED BY <1>1, <1>2, <1>3 DEF x, a

\* A side that has stopped for good is not overtaken by one that has stopped.
LEMMA StopsNoLater ==
    ASSUME NEW c \in Controls, NEW d \in Controls, NEW f \in Nat, NEW k \in Nat,
           NEW e \in Nat, NEW l \in Nat, NEW h \in Seq(Messages), NEW g \in Seq(Messages),
           Pact(c, f, k, h, d, e, l, g), Lasting(c, h), c.episode = f, d.episode = e,
           e <= l + PREDICTION_WINDOW
    PROVE  e <= f
  <1>1. CASE Lasting(d, g) /\ d.episode <= c.episode BY <1>1
  <1>2. CASE Names(g, c.episode)
    <2>1. PICK i \in 1 .. Len(g) : IsVote(g[i]) /\ g[i].frame <= f BY <1>2 DEF Names
    <2>2. g[i] \in Messages /\ g[i].frame \in Nat BY <2>1, MessageTypes DEF IsVote
    <2>3. Ahead(l, g, i) \/ Barred(d, g, i) BY <2>1 DEF Pact, Half, Timely
    <2>4. CASE Ahead(l, g, i)
      <3>1. l + PREDICTION_WINDOW <= g[i].frame BY <2>4 DEF Ahead
      <3> QED BY <3>1, <2>1, <2>2, Numbers
    <2>5. CASE Barred(d, g, i)
      <3>1. e <= g[i].frame BY <2>5 DEF Barred
      <3> QED BY <3>1, <2>1, <2>2
    <2> QED BY <2>3, <2>4, <2>5
  <1> QED BY <1>1, <1>2 DEF Pact, Half, Agree

\* A player who has been told of the votes as they stand has stopped, and the
\* agreement will last.
LEMMA ToldStops ==
    ASSUME NEW c \in Controls, NEW d \in Controls, NEW f \in Nat, NEW k \in Nat,
           NEW e \in Nat, NEW l \in Nat, NEW h \in Seq(Messages), NEW g \in Seq(Messages),
           Pact(c, f, k, h, d, e, l, g), NEW y, Told(c, f, y, FALSE), c.reported = Flags(c)
    PROVE  Lasting(c, h) /\ c.episode = f /\ f <= y
  <1>1. Flags(c) # None /\ (Flags(c) = Running <=> ~c.local.paused /\ ~c.peer.paused)
    BY FlagsType
  <1>2. c.episode # None /\ f >= c.episode /\ f <= y /\ Flags(c) # Running
    BY <1>1 DEF Told
  <1>3. c.episode \in Nat /\ f <= c.episode BY <1>2, ControlTypes DEF Pact, Half, Halts
  <1>4. c.episode = f BY <1>2, <1>3
  <1> QED BY <1>1, <1>2, <1>4 DEF Lasting, Finishing

\* Two new sessions agree.
LEMMA NewPact ==
    /\ NewPause \in Controls /\ Sane(NewPause) /\ NewPause.reported = None
    /\ NewPause.episode = None /\ Running # None
    /\ \A k, l : \A f, e \in Nat : Pact(NewPause, f, k, <<>>, NewPause, e, l, <<>>)
  <1> DEFINE c == NewPause
  <1>1. /\ ~c.local.paused /\ ~c.peer.paused /\ c.local_acked = 0 /\ c.local_request = 0
        /\ c.peer_request = 0 /\ c.episode = None /\ c.reported = None
        /\ c.peer.target = c.local.target
    BY DEF NewPause, Vote
  <1>2. c \in Controls
    BY Numbers DEF NewPause, Vote, Votes, Controls
  <1> HIDE DEF c
  <1>3. \A h : h = <<>> => \A i \in 1 .. Len(h) : FALSE OBVIOUS
  <1>4. ASSUME NEW f \in Nat, NEW k PROVE Half(c, f, k, <<>>, c, <<>>)
    <2>1. Halts(c, f) BY <1>1 DEF Halts
    <2>2. Views(c, c) BY <1>1 DEF Views
    <2>3. Sent(c, c, <<>>)
      <3>1. \A r \in c.peer_request + 1 .. c.local_request : FALSE BY <1>1
      <3> QED BY <3>1, <1>3 DEF Sent
    <2>4. Acks(c, c, <<>>)
      <3>1. \A r \in c.local_acked + 1 .. c.peer_request : FALSE BY <1>1
      <3> QED BY <3>1, <1>3 DEF Acks
    <2>5. Agree(c, <<>>, c, <<>>) BY <1>1 DEF Agree, Lasting
    <2>6. Owned(c, <<>>) /\ Timely(c, f, k, <<>>) BY <1>3 DEF Owned, Timely
    <2> QED BY <2>1, <2>2, <2>3, <2>4, <2>5, <2>6 DEF Half
  <1>5. Running # None BY <1>2, FlagsType
  <1> QED BY <1>1, <1>2, <1>4, <1>5 DEF Pact, Sane, c
=============================================================================
