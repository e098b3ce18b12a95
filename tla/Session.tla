------------------------------- MODULE Session ------------------------------
(***************************************************************************)
(* Two rollback sessions (src/netplay/session.rs) playing one game over a  *)
(* reliable, ordered connection.  Each call into a session (step, poll,    *)
(* request_pause) is one action: the emulation thread runs it to its end.  *)
(* A call first handles some of the messages under way (fn batch).         *)
(*                                                                         *)
(* A call is evaluated on a work record: the session, the messages it has  *)
(* sent so far, and the error that ended it, if any.  Admission is over    *)
(* when the model begins (Event::Ready), and chat is left out.             *)
(***************************************************************************)
EXTENDS Execution, PauseControl, Sequences

CONSTANTS
    HASH_INTERVAL,  \* frames between two checkpoints
    CAPACITY,       \* checkpoints held on either side
    EVENT_BUDGET,   \* messages handled in one batch
    Heartbeats,     \* bound: whether a heartbeat may be due: {FALSE} or BOOLEAN
                    \* (and then only when no message is under way to the peer)
    MaxFrame,       \* bound: no step at this frame
    MaxRequests,    \* bound: player p makes MaxRequests[p] pause requests
    MaxQueue,       \* bound: no step or request while so many messages wait
    Stops           \* bound: the players who may end the session

ASSUME SessionAssumption ==
    /\ HASH_INTERVAL \in Nat \ {0} /\ CAPACITY \in Nat \ {0}
    /\ EVENT_BUDGET \in Nat \ {0} /\ MaxFrame \in Nat
    /\ Heartbeats \subseteq BOOLEAN
    /\ MaxRequests \in [Ports -> Nat] /\ MaxQueue \in Nat /\ Stops \subseteq Ports
    /\ None \notin {"protocol", "rollback", "closed"}

VARIABLES
    peer,   \* peer[p]: the Session of player p
    chan,   \* chan[p]: the messages under way to p, oldest first
    status  \* status[p]: "up", or how p's session ended

vars == <<peer, chan, status>>

\* checks.rs: own checkpoints not yet answered, the peer's not yet reached, and
\* the frame and hash of the last one that matched.
NoHashes ==
    [expected |-> [k \in {} |-> 0], pending |-> [k \in {} |-> 0],
     matched |-> [frame |-> 0, hash |-> None]]

\* Session::start, admitted.
Start(p) ==
    [exec |-> Fresh(p), pause |-> NewPause, hashes |-> NoHashes,
     sampled |-> None, progress |-> [frame |-> 0, confirmed |-> 0],
     stalled |-> FALSE]

Init ==
    /\ peer = [p \in Ports |-> Start(p)]
    /\ chan = [p \in Ports |-> <<>>]
    /\ status = [p \in Ports |-> "up"]

Begin(s) == [s |-> s, out |-> <<>>, err |-> None]
Send(w, messages) == [w EXCEPT !.out = @ \o messages]
Fail(w, why) == [w EXCEPT !.err = why]

Frame(s) == s.exec.timeline.frame
Confirmed(s) == ConfirmedFrame(s.exec.timeline)

-----------------------------------------------------------------------------
(* Hashes::remote and Hashes::local.                                       *)

Without(map, S) == [k \in DOMAIN map \ S |-> map[k]]

\* Fault: the peer may not be ahead.
RemoteErrAhead(h, m, current) ==
    \/ m.frame = 0 \/ m.frame % HASH_INTERVAL # 0
    \/ m.frame > current

RemoteErr(h, m, current) ==
    \/ m.frame = 0 \/ m.frame % HASH_INTERVAL # 0
    \/ m.frame > current + Lookahead
    \/ IF m.frame <= h.matched.frame
       THEN h.matched # [frame |-> m.frame, hash |-> m.hash]
       ELSE IF m.frame \in DOMAIN h.expected
       THEN h.expected[m.frame] # m.hash
       ELSE IF m.frame \in DOMAIN h.pending
       THEN h.pending[m.frame] # m.hash
       ELSE Cardinality(DOMAIN h.pending) >= CAPACITY

Remote(h, m) ==
    IF m.frame <= h.matched.frame \/ m.frame \in DOMAIN h.pending THEN h
    ELSE IF m.frame \in DOMAIN h.expected
    THEN [h EXCEPT !.expected = Without(@, {m.frame}),
                   !.matched = [frame |-> m.frame, hash |-> m.hash]]
    ELSE [h EXCEPT !.pending = [k \in DOMAIN @ \cup {m.frame} |->
                        IF k = m.frame THEN m.hash ELSE @[k]]]

\* local, for the checkpoints `made` of one commit: a function from frames to
\* hashes, taken in frame order.
Answered(h, made) == DOMAIN made \cap DOMAIN h.pending
LocalErr(h, made) ==
    \/ DOMAIN made \cap DOMAIN h.expected # {}
    \/ \E k \in Answered(h, made) : h.pending[k] # made[k]
    \/ /\ DOMAIN made \ DOMAIN h.pending # {}
       /\ Cardinality(DOMAIN h.expected \cup (DOMAIN made \ DOMAIN h.pending))
            > CAPACITY
Local(h, made) ==
    LET met   == Answered(h, made)
        asked == DOMAIN made \ met
    IN  [expected |-> [k \in DOMAIN h.expected \cup asked |->
                        IF k \in asked THEN made[k] ELSE h.expected[k]],
         pending  |-> Without(h.pending, met),
         matched  |-> IF met = {} THEN h.matched
                      ELSE [frame |-> Latest(met), hash |-> made[Latest(met)]]]

-----------------------------------------------------------------------------
(* Handling a message: fn handle_event.                                    *)

EventErr(s, m) ==
    LET t == s.exec.timeline
    IN  CASE m.type = "Input" -> ReceiveErr(t, m.frame, m.word)
          [] m.type = "Progress" ->
                \/ m.confirmed > m.frame
                \/ m.frame > t.frame + Lookahead
                \/ m.frame < s.progress.frame
                \/ m.confirmed < s.progress.confirmed
          [] m.type = "PauseChange" -> ObserveErr(s.pause, t.frame, m)
          [] m.type = "PauseAck" -> AcknowledgeErr(s.pause, m)
          [] m.type = "Checkpoint" -> RemoteErr(s.hashes, m, t.frame)
          [] m.type = "Close" -> FALSE

HandleEvent(w, m) ==
    IF w.err # None THEN w
    ELSE IF EventErr(w.s, m) THEN Fail(w, "protocol")
    ELSE CASE m.type = "Input" ->
                [w EXCEPT !.s.exec.timeline = ReceiveRemote(@, m.frame, m.word)]
           [] m.type = "Progress" ->
                [w EXCEPT !.s.progress =
                    [frame |-> m.frame, confirmed |-> m.confirmed]]
           [] m.type = "PauseChange" ->
                Send([w EXCEPT !.s.pause = Observe(@, m)],
                     <<[type |-> "PauseAck", request |-> m.request]>>)
           [] m.type = "PauseAck" ->
                LET c == Acknowledged(w.s.pause, m)
                IN  Send([w EXCEPT !.s.pause = Reconcile(c, Frame(w.s))],
                         Change(c, Frame(w.s)))
           [] m.type = "Checkpoint" ->
                [w EXCEPT !.s.hashes = Remote(@, m)]
           [] m.type = "Close" -> Fail(w, "closed")

-----------------------------------------------------------------------------
(* The parts of a call.                                                    *)

\* fn correct
CorrectWork(w) ==
    IF w.err # None THEN w
    ELSE IF CorrectErr(w.s.exec) THEN Fail(w, "rollback")
    ELSE [w EXCEPT !.s.exec = Correct(@)]

\* The elements of a finite set of numbers in their order.
Ascending(S) ==
    CHOOSE s \in [1 .. Cardinality(S) -> S] :
        \A i, j \in 1 .. Cardinality(S) : i < j => s[i] < s[j]

\* The checkpoints of the frames commit releases, and their messages.
Checkpoints(e) ==
    [k \in {j \in Released(e) : j % HASH_INTERVAL = 0} |-> e.outputs[k]]
CheckpointMessages(made) ==
    LET frames == Ascending(DOMAIN made)
    IN  [i \in DOMAIN frames |->
            [type |-> "Checkpoint", frame |-> frames[i],
             hash |-> made[frames[i]]]]

\* fn commit
CommitWork(w) ==
    LET made == Checkpoints(w.s.exec)
    IN  IF w.err # None THEN w
        ELSE IF LocalErr(w.s.hashes, made) THEN Fail(w, "protocol")
        ELSE IF WindowErr(Commit(w.s.exec)) THEN Fail(w, "rollback")
        ELSE Send([w EXCEPT !.s.exec = Commit(@), !.s.hashes = Local(@, made)],
                  CheckpointMessages(made))

\* fn report_pause
ReportWork(w) ==
    [w EXCEPT !.s.pause = Report(@, Frame(w.s), Confirmed(w.s))]

\* fn send_progress
ProgressWork(w) ==
    IF w.err # None THEN w
    ELSE Send(w, <<[type |-> "Progress", frame |-> Frame(w.s),
                    confirmed |-> Confirmed(w.s)]>>)

\* The loop over the events of fn batch.
Handled(s, events) ==
    LET after[n \in 0 .. Len(events)] ==
            IF n = 0 THEN Begin(s) ELSE HandleEvent(after[n - 1], events[n])
    IN  after[Len(events)]

\* fn batch, with or without a heartbeat.
Resumes(s) ==
    \/ ~Stalled(s.exec.timeline)
    \/ Barrier(s.pause) # None /\ Confirmed(s) >= Barrier(s.pause)
Batch(s, events, heartbeat) ==
    LET corrected == CorrectWork(Handled(s, events))
        cleared   == [corrected EXCEPT !.s.stalled = @ /\ ~Resumes(corrected.s)]
        reported  == ReportWork(CommitWork(cleared))
    IN  IF heartbeat THEN ProgressWork(reported) ELSE reported

\* Fault: the buttons are sent only with a simulated frame.
PlayWorkQuiet(w, p, b) ==
    LET t == w.s.exec.timeline
        input == [type |-> "Input", frame |-> SampleFrame(t),
                  word |-> SampleValue(t, b)]
    IN  Send([w EXCEPT !.s.exec = Play(@, b), !.s.sampled = SampleFrame(t)],
             IF \/ w.s.sampled = SampleFrame(t)
                \/ Play(w.s.exec, b).timeline.frame = t.frame
             THEN <<>> ELSE <<input>>)

\* The buttons of step: sampled, sent once, and used if the window allows.
PlayWork(w, p, b) ==
    LET t == w.s.exec.timeline
        input == [type |-> "Input", frame |-> SampleFrame(t),
                  word |-> SampleValue(t, b)]
    IN  Send([w EXCEPT !.s.exec = Play(@, b), !.s.sampled = SampleFrame(t)],
             IF w.s.sampled = SampleFrame(t) THEN <<>> ELSE <<input>>)

\* fn step after its batch.
StepWork(w, p, b) ==
    LET frame   == Frame(w.s)
        blocked == AtBarrier(w.s.pause, frame)
        played  == IF blocked THEN w ELSE PlayWork(w, p, b)
        waits   == /\ Frame(played.s) = frame
                   /\ ~(blocked /\ Confirmed(played.s) >= frame)
    IN  ProgressWork(ReportWork(CommitWork(
            [played EXCEPT !.s.stalled = waits])))

-----------------------------------------------------------------------------
(* Actions.                                                                *)

\* The messages a batch may find, given that any number has arrived.
Arrivals(p) == {n \in 0 .. Len(chan[p]) : n <= EVENT_BUDGET}
Events(p, n) == SubSeq(chan[p], 1, n)

\* fn restore closes the connection, which tells the peer.
\* Fault: the worker is stopped before it has sent the message.
GoodbyeLost(s) == <<>>
Goodbye(s) == <<[type |-> "Close", frame |-> Frame(s)]>>

\* The outcome of a call: its messages go out; an error ends the session, and
\* the host then restores the machine.
Finish(p, w, n) ==
    /\ peer' = [peer EXCEPT ![p] = IF w.err = None THEN w.s ELSE @]
    /\ status' = [status EXCEPT ![p] = IF w.err = None THEN @ ELSE w.err]
    /\ chan' = [chan EXCEPT
                    ![p] = SubSeq(@, n + 1, Len(@)),
                    ![Other(p)] = @ \o w.out \o
                        IF w.err = None THEN <<>> ELSE Goodbye(w.s)]

\* The bounds on what is under way.
Room(p) == Len(chan[Other(p)]) < MaxQueue
Due(p, heartbeat) == heartbeat => chan[Other(p)] = <<>>

\* fn step
Step(p, b, n, heartbeat) ==
    LET batch == Batch(peer[p], Events(p, n), heartbeat)
    IN  /\ status[p] = "up"
        /\ Frame(peer[p]) < MaxFrame
        /\ Room(p)
        /\ Due(p, heartbeat)
        /\ Finish(p, IF batch.err = None THEN StepWork(batch, p, b) ELSE batch, n)

\* fn poll and fn accept_event
Poll(p, n, heartbeat) ==
    /\ status[p] = "up"
    /\ Due(p, heartbeat)
    /\ Finish(p, Batch(peer[p], Events(p, n), heartbeat), n)

\* fn request_pause
RequestPause(p, paused) ==
    LET c == Desire(peer[p].pause, paused)
        current == Frame(peer[p])
    IN  /\ status[p] = "up"
        /\ c.local_request < MaxRequests[p]
        /\ Room(p)
        /\ Finish(p,
                Send(Begin([peer[p] EXCEPT !.pause = Reconcile(c, current)]),
                     Change(c, current)), 0)

\* The player ends the session (EmuCommand::StopNetplay): fn restore.
Stop(p) ==
    /\ status[p] = "up"
    /\ p \in Stops
    /\ status' = [status EXCEPT ![p] = "stopped"]
    /\ chan' = [chan EXCEPT ![p] = <<>>, ![Other(p)] = @ \o Goodbye(peer[p])]
    /\ UNCHANGED peer

Next ==
    \E p \in Ports :
        \/ \E n \in Arrivals(p), heartbeat \in Heartbeats :
            \/ \E b \in Buttons : Step(p, b, n, heartbeat)
            \/ Poll(p, n, heartbeat)
        \/ \E paused \in BOOLEAN : RequestPause(p, paused)
        \/ Stop(p)

Spec == Init /\ [][Next]_vars

\* A call that finds every message there is.
StepAll(p) ==
    \E b \in Buttons : Step(p, b, Lesser(Len(chan[p]), EVENT_BUDGET), FALSE)
PollAll(p) ==
    chan[p] # <<>> /\ Poll(p, Lesser(Len(chan[p]), EVENT_BUDGET), FALSE)

\* The host keeps calling poll and step, and what was sent arrives: strong
\* fairness of both, with their enabling conditions written out.
Fairness ==
    \A p \in Ports :
        /\ \/ []<><<StepAll(p)>>_vars
           \/ <>[](~Room(p) \/ Frame(peer[p]) >= MaxFrame \/ status[p] # "up")
        /\ \/ []<><<PollAll(p)>>_vars
           \/ <>[](chan[p] = <<>> \/ status[p] # "up")

FairSpec == Spec /\ Fairness
-----------------------------------------------------------------------------
(* Properties.                                                             *)

\* The sessions have the types of the Rust structs.
TypeOK ==
    \A p \in Ports :
        /\ status[p] \in {"up", "stopped", "closed", "protocol", "rollback"}
        /\ TimelineType(peer[p].exec.timeline)
        /\ ExecutionType(peer[p].exec)
        /\ peer[p].stalled \in BOOLEAN
        /\ peer[p].pause.local_acked <= peer[p].pause.local_request

\* Two honest sessions never end each other: no message that one sends fails a
\* check of the other (the lookahead of inputs, progress and checkpoints, the
\* order and window of pause requests, the checkpoint capacity, the equality of
\* checkpoints), and no internal check of either fails.
NoFalseAlarm == \A p \in Ports : status[p] \notin {"protocol", "rollback"}

\* What is known to both sides is the same game: wherever both have confirmed
\* all they have simulated, their machines are in the same state.
SameMachine ==
    (\A p \in Ports : Confirmed(peer[p]) = Frame(peer[p])) =>
        \A f \in DOMAIN peer[0].exec.core \cap DOMAIN peer[1].exec.core :
            peer[0].exec.core[f] = peer[1].exec.core[f]

Game == INSTANCE SharedGame WITH
            Words <- PortValues,
            shown <- [p \in Ports |-> peer[p].exec.released]

\* Both players are shown one game.
OneGame == Game!Spec

\* When both players have been told of the votes as they stand and the game is
\* paused, they look at the same frame of the same game, and no unconfirmed
\* frame is on either screen.
PausedTogether ==
    (\A p \in Ports : peer[p].pause.reported = Flags(peer[p].pause)) =>
        /\ Frame(peer[0]) = Frame(peer[1])
        /\ peer[0].exec.core = peer[1].exec.core
        /\ \A p \in Ports : Confirmed(peer[p]) = Frame(peer[p])

\* Neither session waits for the other for ever: without pauses both play to
\* the end, although each may run ahead only by the prediction window, unless
\* a player ends the session or asks for a pause.
BothPlayOn ==
    <>(\/ \A p \in Ports : Frame(peer[p]) = MaxFrame
       \/ \E p \in Ports : status[p] # "up" \/ peer[p].pause.local_request > 0)

\* When one session has ended, for whatever reason, the other ends too: its
\* player is not left waiting in a game that nobody else plays.
EndTogether ==
    \A p \in Ports : (status[p] # "up") ~> (status[Other(p)] # "up")
=============================================================================
