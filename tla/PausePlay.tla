----------------------------- MODULE PausePlay ------------------------------
(***************************************************************************)
(* The pause agreement between two sessions, with the rollback timeline    *)
(* reduced to counters: a pause depends on how far each side has played    *)
(* and how much input it knows, and never on the buttons.  Input and pause *)
(* messages share one ordered connection (src/netplay/network.rs); other   *)
(* messages do not bear on a pause and are left out.  Session has the rest.*)
(*                                                                         *)
(* A batch is a run of Receive steps, of which the last one reports; until *)
(* then the session does nothing else.  The rest of fn step is Step, and a *)
(* call that finds no message is Idle.                                     *)
(***************************************************************************)
EXTENDS PauseControl, Sequences

CONSTANTS
    MaxFrame,     \* bound: no step at this frame
    MaxRequests,  \* bound: player p makes MaxRequests[p] pause requests
    Ends          \* bound: BOOLEAN, or {TRUE} for batches of one message

ASSUME PausePlayAssumption ==
    /\ MaxFrame \in Nat /\ MaxRequests \in [Ports -> Nat]
    /\ Ends \subseteq BOOLEAN

VARIABLES
    frame,   \* frame[p]: the frames p has simulated
    sampled, \* sampled[p]: p has sampled its buttons for the frames before this
    known,   \* known[p]: p knows the peer's buttons for the frames before this
    pause,   \* pause[p]: p's PauseControl
    chan,    \* chan[p]: the messages under way to p, oldest first
    busy,    \* busy[p]: p is inside a batch, with a message still to handle
    status   \* status[p]: "up", or the check that ended p's session

vars == <<frame, sampled, known, pause, chan, busy, status>>

Init ==
    /\ frame = [p \in Ports |-> 0]
    /\ sampled = [p \in Ports |-> InputDelay]
    /\ known = [p \in Ports |-> InputDelay]
    /\ pause = [p \in Ports |-> NewPause]
    /\ chan = [p \in Ports |-> <<>>]
    /\ busy = [p \in Ports |-> FALSE]
    /\ status = [p \in Ports |-> "up"]

\* Timeline::confirmed and Timeline::confirmed_frame.
Confirmed(s, k) == Lesser(s, k)

\* report_pause ends every batch and every step.
Reported(p, c) ==
    Report(c, frame'[p], Lesser(frame'[p], Confirmed(sampled'[p], known'[p])))
ReportedIf(ends, p, c) == IF ends THEN Reported(p, c) ELSE c

Ready(p) == status[p] = "up" /\ ~busy[p]

Fails(p, why) ==
    /\ status' = [status EXCEPT ![p] = why]
    /\ UNCHANGED <<frame, sampled, known, pause>>

\* handle_event of Message::Input
ReceiveInput(p, m, ends) ==
    IF m.frame > frame[p] + Lookahead
    THEN Fails(p, "input exceeds lookahead") /\ UNCHANGED chan
    ELSE /\ known' = [known EXCEPT ![p] = m.frame + 1]
         /\ UNCHANGED <<frame, sampled, status>>
         /\ pause' = [pause EXCEPT ![p] = ReportedIf(ends, p, @)]
         /\ chan' = [chan EXCEPT ![p] = Tail(@)]

\* handle_event of Message::PauseChange
ReceiveChange(p, m, ends) ==
    IF ObserveErr(pause[p], frame[p], m)
    THEN Fails(p, "pause refused") /\ UNCHANGED chan
    ELSE /\ UNCHANGED <<frame, sampled, known, status>>
         /\ pause' = [pause EXCEPT ![p] = ReportedIf(ends, p, Observe(@, m))]
         /\ chan' = [chan EXCEPT
                        ![p] = Tail(@),
                        ![Other(p)] = Append(@,
                            [type |-> "PauseAck", request |-> m.request])]

\* Fault: a vote that waited for the acknowledgment is not sent.
ReceiveAckOnly(p, m, ends) ==
    IF AcknowledgeErr(pause[p], m)
    THEN Fails(p, "pause refused") /\ UNCHANGED chan
    ELSE /\ UNCHANGED <<frame, sampled, known, status>>
         /\ pause' = [pause EXCEPT ![p] = ReportedIf(ends, p, Acknowledged(@, m))]
         /\ chan' = [chan EXCEPT ![p] = Tail(@)]

\* handle_event of Message::PauseAck
ReceiveAck(p, m, ends) ==
    LET c == Acknowledged(pause[p], m)
    IN  IF AcknowledgeErr(pause[p], m)
        THEN Fails(p, "pause refused") /\ UNCHANGED chan
        ELSE /\ UNCHANGED <<frame, sampled, known, status>>
             /\ pause' = [pause EXCEPT
                            ![p] = ReportedIf(ends, p, Reconcile(c, frame[p]))]
             /\ chan' = [chan EXCEPT
                            ![p] = Tail(@),
                            ![Other(p)] = @ \o Change(c, frame[p])]

\* One message of a batch; a batch goes on only if there is another message.
Receive(p, ends) ==
    /\ status[p] = "up"
    /\ chan[p] # <<>>
    /\ ends \/ Len(chan[p]) > 1
    /\ busy' = [busy EXCEPT ![p] = ~ends]
    /\ LET m == Head(chan[p])
       IN  \/ m.type = "Input" /\ ReceiveInput(p, m, ends)
           \/ m.type = "PauseChange" /\ ReceiveChange(p, m, ends)
           \/ m.type = "PauseAck" /\ ReceiveAck(p, m, ends)

\* next_frame: the window allows one more frame.
\* Fault: one frame more than the window is simulated.
MayRunDeeper(f, s, k) == Monus(f, Confirmed(s, k)) <= PREDICTION_WINDOW
MayRun(f, s, k) == Monus(f, Confirmed(s, k)) < PREDICTION_WINDOW

\* fn step: sample and send once, and simulate a frame if the window allows.
Step(p) ==
    LET slot == frame[p] + InputDelay + 1
        input == [type |-> "Input", frame |-> frame[p] + InputDelay]
    IN  /\ Ready(p)
        /\ frame[p] < MaxFrame
        /\ ~AtBarrier(pause[p], frame[p])
        /\ sampled' = [sampled EXCEPT ![p] = slot]
        /\ chan' = [chan EXCEPT ![Other(p)] =
                        IF sampled[p] = slot THEN @ ELSE Append(@, input)]
        /\ frame' = [frame EXCEPT ![p] =
                        IF MayRun(@, slot, known[p]) THEN @ + 1 ELSE @]
        /\ UNCHANGED <<known, busy, status>>
        /\ pause' = [pause EXCEPT ![p] = Reported(p, @)]

\* fn request_pause
RequestPause(p, paused) ==
    LET c == Desire(pause[p], paused)
    IN  /\ Ready(p)
        /\ c.local_request < MaxRequests[p]
        /\ pause' = [pause EXCEPT ![p] = Reconcile(c, frame[p])]
        /\ chan' = [chan EXCEPT ![Other(p)] = @ \o Change(c, frame[p])]
        /\ UNCHANGED <<frame, sampled, known, busy, status>>

\* fn poll, or a step held at the barrier, that finds no message: the vote that
\* request_pause changed is reported.
Idle(p) ==
    /\ Ready(p)
    /\ UNCHANGED <<frame, sampled, known, chan, busy, status>>
    /\ pause' = [pause EXCEPT ![p] = Reported(p, @)]

Next ==
    \E p \in Ports :
        \/ \E ends \in Ends : Receive(p, ends)
        \/ Step(p)
        \/ Idle(p)
        \/ \E paused \in BOOLEAN : RequestPause(p, paused)

Spec == Init /\ [][Next]_vars

\* The host keeps calling step and poll, and what was sent arrives.
Fairness ==
    \A p \in Ports : WF_vars(Receive(p, TRUE)) /\ WF_vars(Step(p)) /\ WF_vars(Idle(p))

FairSpec == Spec /\ Fairness
-----------------------------------------------------------------------------
(* Properties.                                                             *)

\* The counters and votes have the types of the Rust structs, and a session is
\* never more than the prediction window past what it knows.
TypeOK ==
    \A p \in Ports :
        /\ busy[p] => chan[p] # <<>>
        /\ frame[p] \in 0 .. MaxFrame
        /\ known[p] \in InputDelay .. sampled[Other(p)]
        /\ sampled[p] \in frame[p] + InputDelay .. frame[p] + InputDelay + 1
        /\ frame[p] <= Confirmed(sampled[p], known[p]) + PREDICTION_WINDOW
        /\ pause[p].episode \in Nat \cup {None}
        /\ pause[p].local_acked \in 0 .. pause[p].local_request

\* An honest player's input or pause request never ends the peer's session.
NoFalseAlarm == \A p \in Ports : status[p] = "up"

\* What the test selected_delay_bounds_pause_and_checkpoint_lookahead
\* (src/netplay/session/tests.rs) asserts of one exchange, for every delay from
\* InputDelay::MIN to InputDelay::MAX: the pause that one player requests is
\* accepted by the other.
PauseAccepted == \A p \in Ports : status[p] # "pause refused"

\* When both players have been told of the votes as they stand and the game is
\* paused, both have stopped at the same frame and neither shows an unconfirmed
\* one.  (A player who has just withdrawn a pause is told when the peer has
\* acknowledged it; until then the peer may be ahead.)
PausedTogether ==
    (\A p \in Ports : ~busy[p] /\ pause[p].reported = Flags(pause[p])) =>
        /\ frame[0] = frame[1]
        /\ \A p \in Ports : frame[p] <= Confirmed(sampled[p], known[p])

\* Two sessions that have seen all of each other's votes stop at the same frame
\* or not at all: no vote is left over from an episode that has ended.
Settled(p) ==
    /\ pause[p].local_acked = pause[p].local_request
    /\ pause[p].peer_request = pause[Other(p)].local_request
SameBarrier ==
    (\A p \in Ports : Settled(p)) => Barrier(pause[0]) = Barrier(pause[1])

\* A pause that is not withdrawn takes effect in the end, also one requested
\* while the release before it still has to be acknowledged: it is reported,
\* unless the frame agreed on is past the bound.
PauseTakesEffect ==
    \A p \in Ports :
        pause[p].desired ~>
            \/ ~pause[p].desired
            \/ pause[p].reported # None
            \/ Barrier(pause[p]) # None /\ Barrier(pause[p]) > MaxFrame

\* When no player wants a pause any more, the barrier is lifted on both sides.
PlayResumes ==
    (\A p \in Ports : ~pause[p].desired) ~>
        \/ \E p \in Ports : pause[p].desired
        \/ \A p \in Ports : Barrier(pause[p]) = None
=============================================================================
