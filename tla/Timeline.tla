------------------------------ MODULE Timeline ------------------------------
(***************************************************************************)
(* The rollback timeline of one netplay peer                               *)
(* (crates/zeff-netplay/src/rollback.rs).  A timeline is a value, a record *)
(* with the fields of the Rust struct, and every method is an operator     *)
(* from a timeline to its successor, or a predicate that says when the     *)
(* method returns an error.  The state machines that own a timeline        *)
(* (Rollback, Session) are built from these operators.                     *)
(*                                                                         *)
(* A port number is 0 for Player::One and 1 for Player::Two.  A BTreeMap   *)
(* or a VecDeque keyed by frame is a function whose domain is the set of   *)
(* frames held.                                                            *)
(***************************************************************************)
EXTENDS Integers

CONSTANTS
    PREDICTION_WINDOW,  \* how many unconfirmed frames may be simulated
    RETAINED_INPUTS,    \* how many confirmed frames of input are kept
    InputDelay,         \* frames between sampling a button and its use
    Buttons,            \* the button words a port can carry
    Neutral,            \* the word 0: nothing pressed
    None                \* Option::None

ASSUME WindowAssumption   == PREDICTION_WINDOW \in Nat \ {0}
ASSUME RetainedAssumption == RETAINED_INPUTS \in Nat \ {0}
ASSUME DelayAssumption    == InputDelay \in Nat
ASSUME ButtonsAssumption  == Neutral \in Buttons /\ None \notin Buttons
ASSUME NoneAssumption     == None \notin Nat

Ports == {0, 1}
Other(i) == 1 - i

\* InputDelay::pause_lead and InputDelay::lookahead.
\* Fault: the delay is counted once.
PauseLeadOnce == PREDICTION_WINDOW + InputDelay
PauseLead == PREDICTION_WINDOW + 2 * InputDelay
Lookahead == PauseLead + 1

PortValues == [Ports -> Buttons]

Monus(a, b) == IF a >= b THEN a - b ELSE 0
Lesser(a, b) == IF a <= b THEN a ELSE b
Latest(S) == CHOOSE k \in S : \A j \in S : j <= k

-----------------------------------------------------------------------------
(* Reading a timeline.                                                     *)

ConfirmedFrame(t) == Lesser(t.confirmed, t.frame)

\* A frame is full when both ports' inputs are known.
Full(inputs, f) == f \in DOMAIN inputs /\ \A i \in Ports : inputs[f][i] # None

\* The frames at or before f at which port i's input is known.
Known(t, i, f) ==
    {k \in DOMAIN t.inputs : k <= f /\ t.inputs[k][i] # None}

\* The input a frame is simulated with: the latest known word of each port.
PortsAt(t, f) ==
    [i \in Ports |->
        IF Known(t, i, f) = {} THEN t.base_ports[i]
                               ELSE t.inputs[Latest(Known(t, i, f))][i]]

Stalled(t) == Monus(t.frame, t.confirmed) >= PREDICTION_WINDOW

CorrectionErr(t) ==
    t.dirty # None /\ Monus(t.frame, t.dirty) > PREDICTION_WINDOW
\* Fault: the last simulated frame is not replayed.
CorrectionShort(t) ==
    IF t.dirty = None THEN [f \in {} |-> PortsAt(t, f)]
    ELSE [f \in t.dirty .. t.frame - 2 |-> PortsAt(t, f)]
Correction(t) ==
    IF t.dirty = None THEN [f \in {} |-> PortsAt(t, f)]
    ELSE [f \in t.dirty .. t.frame - 1 |-> PortsAt(t, f)]

-----------------------------------------------------------------------------
(* Changing a timeline.                                                    *)

WithDelay(player) ==
    [player     |-> player,
     frame      |-> 0,
     confirmed  |-> InputDelay,
     inputs     |-> [f \in 0 .. InputDelay - 1 |-> [i \in Ports |-> Neutral]],
     executed   |-> [f \in {} |-> [i \in Ports |-> Neutral]],
     base_ports |-> [i \in Ports |-> Neutral],
     dirty      |-> None]

\* inputs.entry(frame).or_default()
Entry(inputs, f) ==
    IF f \in DOMAIN inputs THEN inputs[f] ELSE [i \in Ports |-> None]

Put(inputs, f, i, b) ==
    [k \in DOMAIN inputs \cup {f} |->
        IF k = f THEN [Entry(inputs, f) EXCEPT ![i] = b] ELSE inputs[k]]

\* Fault: the search starts at frame 0, whose input may be forgotten.
ConfirmationRestarted(inputs, from) ==
    CHOOSE c \in {0} \cup {k + 1 : k \in DOMAIN inputs} :
        ~Full(inputs, c) /\ \A k \in 0 .. c - 1 : Full(inputs, k)

\* The first frame from `from` on that is not full: where the loop of
\* update_confirmation stops.
Confirmation(inputs, from) ==
    CHOOSE c \in {from} \cup {k + 1 : k \in DOMAIN inputs} :
        /\ c >= from
        /\ ~Full(inputs, c)
        /\ \A k \in from .. c - 1 : Full(inputs, k)

\* get_or_insert: a frame sampled twice keeps its first word.
SampleFrame(t) == t.frame + InputDelay
SampleValue(t, b) ==
    LET own == Entry(t.inputs, SampleFrame(t))[t.player]
    IN  IF own = None THEN b ELSE own

SampleLocal(t, b) ==
    LET inputs == Put(t.inputs, SampleFrame(t), t.player, SampleValue(t, b))
    IN  [t EXCEPT !.inputs = inputs,
                  !.confirmed = Confirmation(inputs, t.confirmed)]

\* A frame older than every input held is ignored.
Forgotten(t, f) == DOMAIN t.inputs # {} /\ \A k \in DOMAIN t.inputs : f < k
Held(t, f) == Entry(t.inputs, f)[Other(t.player)]

\* Fault: one frame more than the lookahead is accepted.
TooFarByOne(t, f) == f > t.frame + Lookahead + 1
TooFar(t, f) == f > t.frame + Lookahead
Rewritten(t, f, b) == ~Forgotten(t, f) /\ Held(t, f) \notin {None, b}
ReceiveErr(t, f, b) == TooFar(t, f) \/ Rewritten(t, f, b)

\* Out of date, or a repetition.
Ignored(t, f) == Forgotten(t, f) \/ Held(t, f) # None

\* Fault: the word is compared with the local player's.
MispredictedOwn(t, f, b) ==
    f \in DOMAIN t.executed /\ t.executed[f][t.player] # b
Mispredicted(t, f, b) ==
    f \in DOMAIN t.executed /\ t.executed[f][Other(t.player)] # b

\* Fault: the latest misprediction hides an earlier one.
ReceiveRemoteLatest(t, f, b) ==
    IF Ignored(t, f) THEN t
    ELSE LET inputs == Put(t.inputs, f, Other(t.player), b)
         IN  [t EXCEPT
                !.inputs = inputs,
                !.confirmed = Confirmation(inputs, t.confirmed),
                !.dirty = IF Mispredicted(t, f, b) THEN f ELSE t.dirty]

ReceiveRemote(t, f, b) ==
    IF Ignored(t, f) THEN t
    ELSE LET inputs == Put(t.inputs, f, Other(t.player), b)
         IN  [t EXCEPT
                !.inputs = inputs,
                !.confirmed = Confirmation(inputs, t.confirmed),
                !.dirty = IF ~Mispredicted(t, f, b) THEN t.dirty
                          ELSE IF t.dirty = None THEN f
                          ELSE Lesser(t.dirty, f)]

\* Drops what no correction can need any more.
Oldest(t) == Monus(ConfirmedFrame(t), RETAINED_INPUTS)
Retire(t) ==
    LET kept   == {f \in DOMAIN t.executed : f >= ConfirmedFrame(t)}
        recent == {f \in DOMAIN t.inputs : f >= Oldest(t)}
    IN  [t EXCEPT !.executed = [f \in kept |-> t.executed[f]],
                  !.base_ports = PortsAt(t, Oldest(t)),
                  !.inputs = [f \in recent |-> t.inputs[f]]]

\* advance, called with what next_frame returned.
Advance(t) ==
    Retire([t EXCEPT
        !.frame = t.frame + 1,
        !.executed = [f \in DOMAIN t.executed \cup {t.frame} |->
            IF f = t.frame THEN PortsAt(t, t.frame) ELSE t.executed[f]]])

\* corrected, called with what correction returned.
CorrectedErr(t) == ~(DOMAIN Correction(t) \subseteq DOMAIN t.executed)
Corrected(t) ==
    LET replayed == Correction(t)
    IN  Retire([t EXCEPT
            !.dirty = None,
            !.executed = [f \in DOMAIN t.executed |->
                IF f \in DOMAIN replayed THEN replayed[f] ELSE t.executed[f]]])
-----------------------------------------------------------------------------
(* What every method preserves.  g is a history of the inputs: the word    *)
(* accepted for each frame and port.                                       *)

\* m is a function from some frames to the set S.
IsMap(m, S) ==
    /\ m = [f \in DOMAIN m |-> m[f]]
    /\ \A f \in DOMAIN m : f \in Nat /\ m[f] \in S

Entries == [Ports -> Buttons \cup {None}]

TimelineType(t) ==
    /\ t \in [player : Ports, frame : Nat, confirmed : Nat,
              inputs : {t.inputs}, executed : {t.executed},
              base_ports : PortValues, dirty : Nat \cup {None}]
    /\ IsMap(t.inputs, Entries)
    /\ IsMap(t.executed, PortValues)

\* Confirmed frames that have not been forgotten are full, and once a frame
\* is confirmed there is always a confirmed input to hold on to.
ConfirmedFull(t) ==
    /\ \A k \in 0 .. t.confirmed - 1 :
            (\E j \in DOMAIN t.inputs : j <= k) => Full(t.inputs, k)
    /\ t.confirmed > 0 =>
            \E j \in DOMAIN t.inputs : j < t.confirmed /\ j <= t.frame

\* The record of executed frames has every unconfirmed frame and has no gaps,
\* and the confirmed frames in it are full.
ExecutedSpan(t) ==
    /\ DOMAIN t.executed \subseteq 0 .. t.frame - 1
    /\ \A f \in 0 .. t.frame - 1 :
            f >= t.confirmed \/ (\E j \in DOMAIN t.executed : j <= f)
            => f \in DOMAIN t.executed
    /\ \A f \in DOMAIN t.executed : f < t.confirmed => Full(t.inputs, f)

DirtyRecent(t) ==
    t.dirty # None =>
        t.dirty \in DOMAIN t.executed /\ t.frame <= t.dirty + PREDICTION_WINDOW

\* Executed frames before the first misprediction agree with the inputs.
Clean(t, f) == t.dirty = None \/ f < t.dirty
ExecutedCurrent(t) ==
    \A f \in DOMAIN t.executed : Clean(t, f) => t.executed[f] = PortsAt(t, f)

InputsRecent(t) ==
    \A f \in DOMAIN t.inputs :
        /\ f <= t.frame + Lookahead
        /\ f >= Monus(t.frame, PREDICTION_WINDOW + RETAINED_INPUTS)

InputsRecorded(t, g) ==
    \A f \in DOMAIN t.inputs, i \in Ports :
        t.inputs[f][i] # None =>
            f \in DOMAIN g /\ g[f][i] = t.inputs[f][i]

TimelineInv(t, g) ==
    /\ TimelineType(t)
    /\ IsMap(g, Entries)
    /\ t.frame <= t.confirmed + PREDICTION_WINDOW
    /\ ConfirmedFull(t)
    /\ ExecutedSpan(t)
    /\ DirtyRecent(t)
    /\ ExecutedCurrent(t)
    /\ InputsRecent(t)
    /\ InputsRecorded(t, g)
=============================================================================
