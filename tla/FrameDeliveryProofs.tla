------------------------ MODULE FrameDeliveryProofs -------------------------
(***************************************************************************)
(* Proofs about FrameDelivery.  There are two invariants, for the two      *)
(* questions the frame channel raises.                                     *)
(*                                                                         *)
(* StepInv is behind SteppingNeverFull: while the interface only steps,    *)
(* the channel never fills up, for every capacity that is not below the    *)
(* limit on open step requests.  That the channel has room is not          *)
(* inductive.  It has room because frames_in_flight counts every request   *)
(* queued, every result in the channel and the result being sent, and      *)
(* because each result completes exactly one request; that in turn needs   *)
(* that nothing was merged, that is, that the channel was never full       *)
(* before.  StepInv says all this at once.                                 *)
(*                                                                         *)
(* DeliveryInv is behind NothingLost, InOrder and InFlightExact, in every  *)
(* mode and for every capacity and limit.  What a sequence of results      *)
(* carries is a load, and loads are added: Carried of a concatenation is   *)
(* the sum, a merge adds the loads of two results, so that no step of      *)
(* send_frame changes the sum of what is on its way.  The proofs use only  *)
(* the laws of the sum; the recursive functions Carried and Gathered are   *)
(* reasoned about by the least length at which a law would fail.           *)
(***************************************************************************)
EXTENDS FrameDelivery, FiniteSetTheorems, SequenceTheorems, WellFoundedInduction,
        TLAPS

\* What the queue and the channel hold until uncapped mode is asked for.
StepCommands == {"step", "ask", "cap", "shutdown"}
StepFrames == [ids : Seq(Nat), steps : {1}, merged : {FALSE}, fault : BOOLEAN]

\* The result send_frame is at work on.
Sending == IF worker.pc \in {"try", "send"} THEN 1 ELSE 0

StepWorker ==
    /\ worker \in [pc : {"loop", "try", "send", "exited"}, uncapped : {FALSE},
                   fault : {"none", "told"}, result : StepFrames \cup {NoFrame},
                   queued : {<<>>}, outbox : Seq(StepFrames)]
    /\ worker.pc = "try" => worker.result \in StepFrames
    /\ Len(worker.outbox) = IF worker.pc = "send" THEN 1 ELSE 0

StepInterface ==
    ui \in [pc : {"drain", "work", "ask", "wait", "closing", "joining", "closed"},
            in_flight : 0 .. MAX_IN_FLIGHT, uncapped : {FALSE}, fault : BOOLEAN]

\* frames_in_flight counts the open requests, those whose result the shutdown
\* has thrown away aside.
StepCount ==
    /\ Cardinality(Requests(cmds)) + Len(channel) + Sending <= ui.in_flight
    /\ Open => Cardinality(Requests(cmds)) + Len(channel) + Sending = ui.in_flight

Stepping ==
    /\ cmds \in Seq(StepCommands)
    /\ channel \in Seq(StepFrames)
    /\ StepWorker
    /\ StepInterface
    /\ StepCount

StepInv ==
    /\ freed \in BOOLEAN
    /\ made \in Nat
    /\ recording \in BOOLEAN
    /\ ~freed => Stepping
-----------------------------------------------------------------------------
(* Counting the requests in a queue.                                       *)

\* The requests in the command queue are finitely many.
LEMMA RequestsFinite ==
    ASSUME NEW S, NEW queue \in Seq(S)
    PROVE  /\ IsFiniteSet(Requests(queue))
           /\ Cardinality(Requests(queue)) \in Nat
<1>1. IsFiniteSet(1 .. Len(queue)) BY FS_Interval
<1>2. Requests(queue) \in SUBSET (1 .. Len(queue)) BY DEF Requests
<1> QED BY <1>1, <1>2, FS_Subset, FS_CardinalityType

\* The empty command queue has no request.
LEMMA RequestsNone == Cardinality(Requests(<<>>)) = 0
<1>1. Requests(<<>>) = {} BY DEF Requests
<1> QED BY <1>1, FS_EmptySet

\* A command sent adds one request if it is StepFrames, else none.
LEMMA RequestsAppend ==
    ASSUME NEW S, NEW queue \in Seq(S), NEW c \in S
    PROVE  Cardinality(Requests(Append(queue, c))) =
               Cardinality(Requests(queue)) + (IF c = "step" THEN 1 ELSE 0)
<1>1. Len(queue) + 1 \notin Requests(queue) BY DEF Requests
<1>2. CASE c = "step"
  <2>1. Requests(Append(queue, c)) = Requests(queue) \cup {Len(queue) + 1}
    BY <1>2 DEF Requests
  <2> QED BY <1>1, <1>2, <2>1, RequestsFinite, FS_AddElement
<1>3. CASE c # "step"
  <2>1. Requests(Append(queue, c)) = Requests(queue) BY <1>3 DEF Requests
  <2> QED BY <1>3, <2>1, RequestsFinite
<1> QED BY <1>2, <1>3

\* A command taken removes one request if it is StepFrames, else none.
LEMMA RequestsTail ==
    ASSUME NEW S, NEW queue \in Seq(S), queue # <<>>
    PROVE  Cardinality(Requests(Tail(queue))) =
               Cardinality(Requests(queue)) - (IF Head(queue) = "step" THEN 1 ELSE 0)
<1> DEFINE late == Requests(queue) \ {1}
           back == [i \in late |-> i - 1]
<1>1. /\ IsFiniteSet(late)
      /\ Cardinality(late) =
            Cardinality(Requests(queue)) - (IF Head(queue) = "step" THEN 1 ELSE 0)
  <2>1. 1 \in Requests(queue) <=> Head(queue) = "step" BY DEF Requests
  <2> QED BY <2>1, RequestsFinite, FS_RemoveElement
<1>2. back \in Bijection(late, Requests(Tail(queue)))
  <2>1. back \in [late -> Requests(Tail(queue))] BY DEF Requests
  <2>2. \A i, j \in late : back[i] = back[j] => i = j BY DEF Requests
  <2>3. \A k \in Requests(Tail(queue)) : \E i \in late : back[i] = k
    <3> TAKE k \in Requests(Tail(queue))
    <3>1. k + 1 \in late BY DEF Requests
    <3>2. back[k + 1] = (k + 1) - 1 BY <3>1
    <3>3. (k + 1) - 1 = k BY DEF Requests
    <3> QED BY <3>1, <3>2, <3>3
  <2> QED BY <2>1, <2>2, <2>3 DEF Bijection, Injection, Surjection, IsInjective
<1>3. ExistsBijection(late, Requests(Tail(queue))) BY <1>2 DEF ExistsBijection
<1> QED BY <1>1, <1>3, FS_Bijection
-----------------------------------------------------------------------------
(* The steps of the worker.                                                *)

\* send_frame starts with one result under way, to be tried or to be sent.
LEMMA DeliverStep ==
    ASSUME StepWorker, worker.pc = "loop", NEW result \in StepFrames,
           NEW fault \in {"none", "told"}, recording \in BOOLEAN,
           worker' = Deliver([worker EXCEPT !.fault = fault, !.uncapped = FALSE], result)
    PROVE  StepWorker' /\ Sending = 0 /\ Sending' = 1
<1>1. CASE Preserved(result)
  <2>1. worker' = [worker EXCEPT !.fault = fault, !.uncapped = FALSE,
                                 !.pc = "send", !.outbox = <<result>>]
    BY <1>1 DEF Deliver, StepWorker
  <2>2. <<result>> \in Seq(StepFrames) /\ Len(<<result>>) = 1 OBVIOUS
  <2> QED BY <2>1, <2>2 DEF StepWorker, Sending
<1>2. CASE ~Preserved(result)
  <2>1. worker' = [worker EXCEPT !.fault = fault, !.uncapped = FALSE,
                                 !.pc = "try", !.result = result]
    BY <1>2 DEF Deliver, StepWorker
  <2> QED BY <2>1 DEF StepWorker, Sending
<1> QED BY <1>1, <1>2

\* StepFrames turns a queued request into a result that completes it.
LEMMA StepKeeps ==
    ASSUME Stepping, made \in Nat, recording \in BOOLEAN, Step
    PROVE  Stepping'
<1>1. PICK faulty \in MayFault(worker) : worker' = Advanced(worker, faulty, 1)
  BY DEF Step
<1>2. faulty \in BOOLEAN BY <1>1 DEF MayFault
<1> DEFINE ids == IF worker.fault = "none" THEN <<made + 1>> ELSE <<>>
           fault == IF faulty THEN "told" ELSE worker.fault
<1>3. Frame(ids, 1, faulty) \in StepFrames BY <1>2 DEF Frame, StepFrames
<1>4. fault \in {"none", "told"} BY DEF Stepping, StepWorker
<1>5. worker' = Deliver([worker EXCEPT !.fault = fault, !.uncapped = FALSE],
                        Frame(ids, 1, faulty))
  <2>1. worker.uncapped = FALSE BY DEF Stepping, StepWorker
  <2>2. [worker EXCEPT !.fault = IF faulty THEN "told" ELSE worker.fault,
                       !.uncapped = worker.uncapped /\ ~faulty /\ worker.fault = "none"]
            = [worker EXCEPT !.fault = fault, !.uncapped = FALSE]
    BY <2>1
  <2> QED BY <1>1, <2>2 DEF Advanced
<1> HIDE DEF ids, fault
<1>6. StepWorker' /\ Sending = 0 /\ Sending' = 1
  BY <1>3, <1>4, <1>5, DeliverStep DEF Step, Stepping
<1>7. /\ cmds # <<>> /\ Head(cmds) = "step" /\ cmds' = Tail(cmds)
      /\ channel' = channel /\ ui' = ui
  BY DEF Step
<1>8. cmds' \in Seq(StepCommands) BY <1>7 DEF Stepping
<1>9. Cardinality(Requests(cmds')) = Cardinality(Requests(cmds)) - 1
  BY <1>7, RequestsTail DEF Stepping
<1>10. StepCount'
  BY <1>6, <1>7, <1>8, <1>9, RequestsFinite DEF Stepping, StepCount, StepInterface, Open
<1> QED BY <1>6, <1>7, <1>8, <1>10 DEF Stepping, StepInterface

\* The commands SetUncapped, the ones waited for, and Shutdown leave requests
\* and results alone.
LEMMA CommandKeeps ==
    ASSUME Stepping, SetUncapped \/ Answer \/ Shutdown
    PROVE  Stepping'
<1>1. /\ cmds # <<>> /\ Head(cmds) # "step" /\ Head(cmds) # "uncap"
      /\ cmds' = Tail(cmds) /\ channel' = channel /\ ui' = ui
  BY DEF Stepping, StepCommands, SetUncapped, Answer, Shutdown
<1>2. StepWorker' /\ Sending' = Sending
  <2>1. CASE SetUncapped
    <3>1. worker' = [worker EXCEPT !.uncapped = FALSE]
      BY <1>1, <2>1 DEF SetUncapped
    <3> QED BY <3>1 DEF Stepping, StepWorker, Sending
  <2>2. CASE Answer BY <2>2 DEF Answer, Stepping, StepWorker, Sending
  <2>3. CASE Shutdown
    <3>1. worker.pc = "loop" /\ worker' = [worker EXCEPT !.pc = "exited"]
      BY <2>3 DEF Shutdown
    <3> QED BY <3>1 DEF Stepping, StepWorker, Sending
  <2> QED BY <2>1, <2>2, <2>3
<1>3. cmds' \in Seq(StepCommands) BY <1>1 DEF Stepping
<1>4. Cardinality(Requests(cmds')) = Cardinality(Requests(cmds))
  BY <1>1, RequestsTail, RequestsFinite DEF Stepping
<1>5. StepCount' BY <1>1, <1>2, <1>4 DEF Stepping, StepCount, Open
<1> QED BY <1>1, <1>2, <1>3, <1>5 DEF Stepping, StepInterface

\* The channel has room for the result being sent.
LEMMA RoomWhileStepping ==
    ASSUME Stepping, Sending = 1, MAX_IN_FLIGHT <= FRAME_CHANNEL_CAPACITY
    PROVE  ~Full
BY RequestsFinite, DeliveryAssumption DEF Stepping, StepCount, StepInterface, Full

\* A result goes into the channel, whether try_send or a blocking send puts it there.
LEMMA PutKeeps ==
    ASSUME Stepping, NEW frame \in StepFrames, Sending = 1,
           cmds' = cmds, ui' = ui, channel' = Append(channel, frame),
           StepWorker', Sending' = 0
    PROVE  Stepping'
<1>1. channel' \in Seq(StepFrames) /\ Len(channel') = Len(channel) + 1
  BY DEF Stepping
<1>2. StepCount' BY <1>1, RequestsFinite DEF Stepping, StepCount, StepInterface, Open
<1> QED BY <1>1, <1>2 DEF Stepping, StepInterface

\* try_send finds room.
LEMMA TryKeeps ==
    ASSUME Stepping, TrySend, MAX_IN_FLIGHT <= FRAME_CHANNEL_CAPACITY
    PROVE  Stepping'
<1>1. worker.pc = "try" BY DEF TrySend
<1>2. Sending = 1 BY <1>1 DEF Sending
<1>3. ~Full BY <1>2, RoomWhileStepping
<1>4. /\ channel' = Append(channel, worker.result) /\ cmds' = cmds /\ ui' = ui
      /\ worker' = [worker EXCEPT !.pc = "loop", !.result = NoFrame]
  BY <1>3 DEF TrySend
<1>5. worker.result \in StepFrames BY <1>1 DEF Stepping, StepWorker
<1>6. StepWorker' /\ Sending' = 0 BY <1>1, <1>4 DEF Stepping, StepWorker, Sending
<1> QED BY <1>2, <1>4, <1>5, <1>6, PutKeeps

\* The one result that may not be merged is sent.
LEMMA SendKeeps ==
    ASSUME Stepping, Send
    PROVE  Stepping'
<1>1. worker.pc = "send" BY DEF Send
<1>2. Sending = 1 BY <1>1 DEF Sending
<1>3. worker.outbox \in Seq(StepFrames) /\ Len(worker.outbox) = 1
  BY <1>1 DEF Stepping, StepWorker
<1>4. Head(worker.outbox) \in StepFrames /\ Tail(worker.outbox) = <<>>
  <2>1. Head(worker.outbox) \in StepFrames BY <1>3
  <2>2. /\ Tail(worker.outbox) \in Seq(StepFrames)
        /\ Len(Tail(worker.outbox)) = 0
    BY <1>3
  <2>3. \A s \in Seq(StepFrames) : Len(s) = 0 => s = <<>> OBVIOUS
  <2> QED BY <2>1, <2>2, <2>3
<1>5. /\ channel' = Append(channel, Head(worker.outbox)) /\ cmds' = cmds /\ ui' = ui
      /\ worker' = [worker EXCEPT !.outbox = <<>>, !.pc = "loop"]
  BY <1>3, <1>4 DEF Send
<1>6. <<>> \in Seq(StepFrames) /\ Len(<<>>) = 0 OBVIOUS
<1>7. StepWorker' /\ Sending' = 0
  <2>1. /\ worker'.pc = "loop" /\ worker'.outbox = <<>>
        /\ worker' \in [pc : {"loop", "try", "send", "exited"}, uncapped : {FALSE},
                        fault : {"none", "told"}, result : StepFrames \cup {NoFrame},
                        queued : {<<>>}, outbox : Seq(StepFrames)]
    BY <1>5, <1>6 DEF Stepping, StepWorker
  <2>2. Len(worker'.outbox) = IF worker'.pc = "send" THEN 1 ELSE 0 BY <2>1
  <2>3. worker'.pc = "try" => worker'.result \in StepFrames BY <2>1
  <2>4. StepWorker' BY <2>1, <2>2, <2>3, Zenon DEF StepWorker
  <2>5. Sending' = 0 BY <2>1 DEF Sending
  <2> QED BY <2>4, <2>5
<1> QED BY <1>2, <1>4, <1>5, <1>7, PutKeeps
-----------------------------------------------------------------------------
(* The steps of the interface.                                             *)

\* process_frame_result takes one result and one open request off; a fault
\* sends a command that is no request.
LEMMA ReceiveKeeps ==
    ASSUME Stepping, Receive
    PROVE  Stepping'
<1> DEFINE frame == Head(channel)
<1>1. /\ channel # <<>> /\ channel' = Tail(channel) /\ worker' = worker
      /\ ui.pc \in {"drain", "ask"} /\ ui' = Processed(ui, frame)
      /\ cmds' = IF frame.fault THEN Append(cmds, "cap") ELSE cmds
  BY DEF Receive
<1>2. /\ frame \in StepFrames /\ channel' \in Seq(StepFrames)
      /\ Len(channel') = Len(channel) - 1 /\ Len(channel) \in Nat \ {0}
  BY <1>1 DEF Stepping
<1>3. /\ cmds' \in Seq(StepCommands)
      /\ Cardinality(Requests(cmds')) = Cardinality(Requests(cmds))
  BY <1>1, RequestsAppend, RequestsFinite DEF Stepping, StepCommands
<1>4. frame.steps = 1 /\ frame.fault \in BOOLEAN BY <1>2 DEF StepFrames
<1> HIDE DEF frame
<1>5. Cardinality(Requests(cmds)) \in Nat /\ Sending \in {0, 1}
  BY RequestsFinite DEF Stepping, Sending
<1>6. Open BY <1>1 DEF Open
<1>7. ui.in_flight \in 1 .. MAX_IN_FLIGHT
  BY <1>2, <1>5, <1>6, DeliveryAssumption DEF Stepping, StepCount, StepInterface
<1>8. ui' = [ui EXCEPT !.in_flight = ui.in_flight - 1, !.fault = ui.fault \/ frame.fault,
                       !.uncapped = ui.uncapped /\ ~frame.fault]
  <2>1. (IF ui.in_flight > frame.steps THEN ui.in_flight - frame.steps ELSE 0)
            = ui.in_flight - 1
    BY <1>4, <1>7, DeliveryAssumption
  <2>2. ui \in [pc : {"drain", "work", "ask", "wait", "closing", "joining", "closed"},
                in_flight : 0 .. MAX_IN_FLIGHT, uncapped : {FALSE}, fault : BOOLEAN]
    BY DEF Stepping, StepInterface
  <2> QED BY <1>1, <2>1, <2>2 DEF Processed
<1>9. StepInterface' /\ ui'.in_flight = ui.in_flight - 1 /\ ui'.pc = ui.pc
  <2>1. ui.in_flight - 1 \in 0 .. MAX_IN_FLIGHT BY <1>7, DeliveryAssumption
  <2>2. (ui.fault \/ frame.fault) \in BOOLEAN BY <1>4 DEF Stepping, StepInterface
  <2>3. (ui.uncapped /\ ~frame.fault) = FALSE BY DEF Stepping, StepInterface
  <2> QED BY <1>8, <2>1, <2>2, <2>3 DEF Stepping, StepInterface
<1>10. Sending' = Sending BY <1>1 DEF Sending
<1>11. StepCount'
  BY SMTT(30), <1>2, <1>3, <1>5, <1>6, <1>7, <1>9, <1>10, DeliveryAssumption
    DEF Stepping, StepCount, Open
<1> QED BY <1>1, <1>2, <1>3, <1>9, <1>11 DEF Stepping, StepWorker

\* A step request is counted as it is sent, and only below the limit.
LEMMA RequestKeeps ==
    ASSUME Stepping, RequestStep
    PROVE  Stepping'
<1>1. /\ ui.pc = "work" /\ ui.in_flight < MAX_IN_FLIGHT /\ cmds' = Append(cmds, "step")
      /\ ui' = [ui EXCEPT !.pc = "drain", !.in_flight = ui.in_flight + 1]
      /\ channel' = channel /\ worker' = worker
  BY DEF RequestStep, MayStep
<1>2. /\ cmds' \in Seq(StepCommands)
      /\ Cardinality(Requests(cmds')) = Cardinality(Requests(cmds)) + 1
      /\ Cardinality(Requests(cmds)) \in Nat
  BY <1>1, RequestsAppend, RequestsFinite DEF Stepping, StepCommands
<1>3. StepInterface' /\ ui'.pc = "drain" /\ ui'.in_flight = ui.in_flight + 1
  <2>1. ui.in_flight + 1 \in 0 .. MAX_IN_FLIGHT
    BY <1>1, DeliveryAssumption DEF Stepping, StepInterface
  <2> QED BY <1>1, <2>1 DEF Stepping, StepInterface
<1>4. Sending' = Sending /\ Sending \in {0, 1} BY <1>1 DEF Sending
<1>5. StepCount'
  <2>1. Len(channel) \in Nat /\ ui.in_flight \in Nat
    BY DeliveryAssumption DEF Stepping, StepInterface
  <2> QED BY <1>1, <1>2, <1>3, <1>4, <2>1 DEF Stepping, StepCount, Open
<1> QED BY <1>1, <1>2, <1>3, <1>5 DEF Stepping, StepWorker

\* The steps of a tick, of recv_cold_response and of shutdown that neither
\* request a step nor receive a result.
LEMMA TurnKeeps ==
    ASSUME Stepping, NEW pc \in {"drain", "work", "ask", "wait", "closing", "joining",
                                 "closed"},
           ui' = [ui EXCEPT !.pc = pc],
           ~Open => pc \in {"closing", "joining", "closed"},
           channel' = channel, worker' = worker,
           \/ cmds' = cmds
           \/ \E c \in {"ask", "shutdown"} : cmds' = Append(cmds, c)
    PROVE  Stepping'
<1>1. /\ cmds' \in Seq(StepCommands)
      /\ Cardinality(Requests(cmds')) = Cardinality(Requests(cmds))
  <2>1. cmds \in Seq(StepCommands) /\ Cardinality(Requests(cmds)) \in Nat
    BY RequestsFinite DEF Stepping
  <2>2. ASSUME NEW c \in {"ask", "shutdown"}, cmds' = Append(cmds, c)
        PROVE  /\ cmds' \in Seq(StepCommands)
               /\ Cardinality(Requests(cmds')) = Cardinality(Requests(cmds))
    <3>1. c \in StepCommands /\ c # "step" BY DEF StepCommands
    <3> QED BY <2>1, <2>2, <3>1, RequestsAppend
  <2> QED BY <2>1, <2>2
<1>2. StepInterface' /\ ui'.in_flight = ui.in_flight /\ ui'.pc = pc
  BY DEF Stepping, StepInterface
<1>3. Sending' = Sending BY DEF Sending
<1>4. Open' => Open BY <1>2 DEF Open
<1>5. StepCount' BY <1>1, <1>2, <1>3, <1>4 DEF Stepping, StepCount
<1> QED BY <1>1, <1>2, <1>5 DEF Stepping, StepWorker

\* shutdown throws a result away and leaves the count as it was.
LEMMA DiscardKeeps ==
    ASSUME Stepping, Discard
    PROVE  Stepping'
<1>1. CASE channel # <<>>
  <2>1. /\ ui.pc = "closing" /\ channel' = Tail(channel)
        /\ cmds' = cmds /\ ui' = ui /\ worker' = worker
    BY <1>1 DEF Discard
  <2>2. /\ channel' \in Seq(StepFrames) /\ Len(channel') = Len(channel) - 1
        /\ Len(channel) \in Nat
    BY <1>1, <2>1 DEF Stepping
  <2>3. Sending' = Sending /\ Sending \in {0, 1} BY <2>1 DEF Sending
  <2>4. Cardinality(Requests(cmds)) \in Nat BY RequestsFinite DEF Stepping
  <2>5. ui.in_flight \in Nat BY DeliveryAssumption DEF Stepping, StepInterface
  <2>6. StepCount' BY <2>1, <2>2, <2>3, <2>4, <2>5 DEF Stepping, StepCount, Open
  <2> QED BY <2>1, <2>2, <2>6 DEF Stepping, StepWorker, StepInterface
<1>2. CASE channel = <<>>
  <2>1. /\ ui' = [ui EXCEPT !.pc = "joining"] /\ channel' = channel
        /\ cmds' = cmds /\ worker' = worker
    BY <1>2 DEF Discard
  <2> QED BY <2>1, TurnKeeps
<1> QED BY <1>1, <1>2
-----------------------------------------------------------------------------
(* The invariant and what follows from it.                                 *)

\* In the beginning nothing is open.
LEMMA StepInit == Init => StepInv
<1> SUFFICES ASSUME Init PROVE StepInv OBVIOUS
<1>1. recording \in BOOLEAN BY DeliveryAssumption DEF Init
<1>2. StepWorker
  <2>1. /\ worker.pc = "loop" /\ worker.outbox = <<>>
        /\ worker \in [pc : {"loop", "try", "send", "exited"}, uncapped : {FALSE},
                       fault : {"none", "told"}, result : StepFrames \cup {NoFrame},
                       queued : {<<>>}, outbox : Seq(StepFrames)]
    BY DEF Init
  <2>2. Len(worker.outbox) = IF worker.pc = "send" THEN 1 ELSE 0 BY <2>1
  <2>3. worker.pc = "try" => worker.result \in StepFrames BY <2>1
  <2> QED BY <2>1, <2>2, <2>3, Zenon DEF StepWorker
<1>3. StepInterface BY DeliveryAssumption DEF Init, StepInterface
<1>4. StepCount
  <2>1. Sending = 0 BY DEF Init, Sending
  <2>2. cmds = <<>> /\ Len(channel) = 0 /\ ui.in_flight = 0 BY DEF Init
  <2> QED BY <2>1, <2>2, RequestsNone DEF StepCount
<1>5. cmds \in Seq(StepCommands) /\ channel \in Seq(StepFrames) BY DEF Init
<1>6. freed \in BOOLEAN /\ made \in Nat BY DEF Init
<1> QED BY <1>1, <1>2, <1>3, <1>4, <1>5, <1>6, Zenon DEF StepInv, Stepping

\* Every step, before uncapped mode is asked for, keeps the count.
LEMMA StepNext ==
    ASSUME MAX_IN_FLIGHT <= FRAME_CHANNEL_CAPACITY, StepInv, Next
    PROVE  StepInv'
<1>1. /\ freed' \in BOOLEAN /\ (freed => freed') /\ made' \in Nat
      /\ recording' \in BOOLEAN
  <2>1. recording' = recording /\ (freed' = freed \/ freed' = TRUE)
    BY Zenon
      DEF Next, Worker, Interface, Step, SetUncapped, Answer, Shutdown, Batch,
          TrySend, Drain, Send, Receive, Drained, RequestStep, Idle, Toggle, Ask,
          Answered, Close, Discard, Join, history
  <2>2. made' = made \/ made' = made + 1
    BY Zenon
      DEF Next, Worker, Interface, Step, SetUncapped, Answer, Shutdown, Batch,
          TrySend, Drain, Send, Receive, Drained, RequestStep, Idle, Toggle, Ask,
          Answered, Close, Discard, Join, history
  <2>3. made' \in Nat BY <2>2 DEF StepInv
  <2>4. freed \in BOOLEAN /\ recording \in BOOLEAN BY DEF StepInv
  <2> QED BY <2>1, <2>3, <2>4
<1> SUFFICES ASSUME ~freed, ~freed', Stepping, made \in Nat, recording \in BOOLEAN
             PROVE  Stepping'
  BY <1>1 DEF StepInv
<1>2. CASE Step BY <1>2, StepKeeps
<1>3. CASE SetUncapped \/ Answer \/ Shutdown BY <1>3, CommandKeeps
<1>4. CASE Batch \/ Drain BY <1>4 DEF Batch, Drain, Stepping, StepWorker
<1>5. CASE TrySend BY <1>5, TryKeeps
<1>6. CASE Send BY <1>6, SendKeeps
<1>7. CASE Receive BY <1>7, ReceiveKeeps
<1>8. CASE RequestStep BY <1>8, RequestKeeps
<1>9. CASE Toggle BY <1>9 DEF Toggle
<1>10. CASE Discard BY <1>10, DiscardKeeps
<1>11. CASE Drained
  <2>1. PICK pc \in {"work", "wait"} : ui' = [ui EXCEPT !.pc = pc] BY <1>11 DEF Drained
  <2>2. Open BY <1>11 DEF Drained, Open
  <2> QED BY <1>11, <2>1, <2>2, TurnKeeps DEF Drained
<1>12. CASE Idle
  <2>1. Open BY <1>12 DEF Idle, Open
  <2> QED BY <1>12, <2>1, TurnKeeps DEF Idle
<1>13. CASE Ask
  <2>1. Open BY <1>13 DEF Ask, Open
  <2> QED BY <1>13, <2>1, TurnKeeps DEF Ask
<1>14. CASE Answered
  <2>1. Open BY <1>14 DEF Answered, Open
  <2> QED BY <1>14, <2>1, TurnKeeps DEF Answered
<1>15. CASE Close
  <2>1. Open BY <1>15 DEF Close, Open
  <2> QED BY <1>15, <2>1, TurnKeeps DEF Close
<1>16. CASE Join BY <1>16, TurnKeeps DEF Join
<1> QED
  BY <1>2, <1>3, <1>4, <1>5, <1>6, <1>7, <1>8, <1>9, <1>10, <1>11, <1>12, <1>13,
     <1>14, <1>15, <1>16
    DEF Next, Worker, Interface

\* The inductive invariant holds in every state: until uncapped mode is asked
\* for, frames_in_flight counts exactly the requests queued, the results in the
\* channel and the one send_frame is at work on.
THEOREM SteppingInvariant ==
    ASSUME MAX_IN_FLIGHT <= FRAME_CHANNEL_CAPACITY
    PROVE  Spec => []StepInv
<1>1. StepInv /\ [Next]_vars => StepInv'
  <2> SUFFICES ASSUME StepInv, UNCHANGED vars PROVE StepInv' BY StepNext
  <2>1. UNCHANGED <<cmds, channel, worker, ui, recording, made, freed>> BY DEF vars
  <2> QED BY <2>1
       DEF StepInv, Stepping, StepWorker, StepInterface, StepCount, Sending, Open
<1> QED BY <1>1, StepInit, PTL DEF Spec

\* SteppingNeverFull: while the interface only steps, try_send and the blocking
\* send of send_frame find room in the channel.
THEOREM ChannelHasRoom ==
    ASSUME MAX_IN_FLIGHT <= FRAME_CHANNEL_CAPACITY
    PROVE  Spec => []SteppingNeverFull
<1>1. StepInv => SteppingNeverFull
  <2> SUFFICES ASSUME StepInv, worker.pc \in {"try", "send"}, ~freed PROVE ~Full
    BY DEF SteppingNeverFull
  <2>1. Sending = 1 BY DEF Sending
  <2> QED BY <2>1, RoomWhileStepping DEF StepInv
<1> QED BY <1>1, SteppingInvariant, PTL

\* While the interface only steps, send_frame never drains the channel and
\* merge_replaced_frame is never called: no result carries another's payload.
NothingMerged ==
    ~freed => /\ worker.pc # "drain" /\ worker.queued = <<>>
              /\ \A i \in 1 .. Len(channel) : ~channel[i].merged

\* NothingMerged holds in every state.
THEOREM NothingIsMerged ==
    ASSUME MAX_IN_FLIGHT <= FRAME_CHANNEL_CAPACITY
    PROVE  Spec => []NothingMerged
<1>1. StepInv => NothingMerged
  <2> SUFFICES ASSUME Stepping
               PROVE  /\ worker.pc # "drain" /\ worker.queued = <<>>
                      /\ \A i \in 1 .. Len(channel) : ~channel[i].merged
    BY DEF StepInv, NothingMerged
  <2>1. worker.pc # "drain" /\ worker.queued = <<>> BY DEF Stepping, StepWorker
  <2>2. \A i \in 1 .. Len(channel) : channel[i] \in StepFrames BY DEF Stepping
  <2>3. \A f \in StepFrames : ~f.merged BY DEF StepFrames
  <2> QED BY <2>1, <2>2, <2>3
<1> QED BY <1>1, SteppingInvariant, PTL

-----------------------------------------------------------------------------
(* What results carry together.                                            *)

\* A set of numbers that is not empty has a least element.
LEMMA LeastNumber ==
    ASSUME NEW S, S \subseteq Nat, S # {}
    PROVE  \E m \in S : \A n \in S : m <= n
<1>1. PICK m \in S : \A n \in S : ~(<<n, m>> \in OpToRel(<, Nat))
  BY WFMin, NatLessThanWellFounded
<1>2. \A n \in S : ~(n < m) BY <1>1 DEF OpToRel
<1> QED BY <1>2, SMT

Frames == [ids : Seq(Nat), steps : Nat, merged : BOOLEAN, fault : BOOLEAN]

\* Whatever holds of zero and of each next number holds of all.
LEMMA Counting ==
    ASSUME NEW S, NEW N \in Nat, 0 \in S, \A n \in 0 .. N - 1 : n \in S => n + 1 \in S
    PROVE  \A n \in 0 .. N : n \in S
<1> DEFINE Bad == {n \in Nat : n <= N /\ n \notin S}
<1> SUFFICES ASSUME Bad # {} PROVE FALSE OBVIOUS
<1>1. Bad \subseteq Nat OBVIOUS
<1>2. PICK n \in Bad : \A i \in Bad : n <= i BY <1>1, LeastNumber
<1>3. n \in Nat /\ n <= N /\ n \notin S /\ n # 0 BY <1>2
<1>4. n - 1 \in Nat /\ n - 1 <= N /\ n - 1 \in 0 .. N - 1 /\ (n - 1) + 1 = n /\ ~(n <= n - 1)
  BY <1>3
<1>5. n - 1 \notin Bad BY <1>2, <1>4
<1>6. n - 1 \in S BY <1>4, <1>5
<1> QED BY <1>3, <1>4, <1>6

-----------------------------------------------------------------------------
(* What results carry: a payload and a number of requests, put together.   *)

Loads == [ids : Seq(Nat), steps : Nat]
Zero == [ids |-> <<>>, steps |-> 0]
Plus(x, y) == [ids |-> x.ids \o y.ids, steps |-> x.steps + y.steps]
Load(frame) == [ids |-> frame.ids, steps |-> frame.steps]
Cat(s, t) == s \o t
One(frame) == <<frame>>

\* Loads are put together one after the other, in whatever grouping.
LEMMA LoadAlgebra ==
    /\ Zero \in Loads
    /\ \A x, y \in Loads : Plus(x, y) \in Loads
    /\ \A x, y, z \in Loads : Plus(Plus(x, y), z) = Plus(x, Plus(y, z))
    /\ \A x \in Loads : Plus(x, Zero) = x /\ Plus(Zero, x) = x
    /\ \A f \in Frames : Load(f) \in Loads
<1>1. Zero \in Loads
  <2>1. <<>> \in Seq(Nat) /\ 0 \in Nat OBVIOUS
  <2> QED BY <2>1 DEF Zero, Loads
<1>2. ASSUME NEW x \in Loads PROVE x.ids \in Seq(Nat) /\ x.steps \in Nat
  BY DEF Loads
<1>3. ASSUME NEW x \in Loads, NEW y \in Loads PROVE Plus(x, y) \in Loads
  <2>1. x.ids \o y.ids \in Seq(Nat) /\ x.steps + y.steps \in Nat BY <1>2
  <2> QED BY <2>1 DEF Plus, Loads
<1>4. ASSUME NEW x \in Loads, NEW y \in Loads, NEW z \in Loads
      PROVE  Plus(Plus(x, y), z) = Plus(x, Plus(y, z))
  <2> DEFINE a == x.ids
             b == y.ids
             c == z.ids
  <2>1. a \in Seq(Nat) /\ b \in Seq(Nat) /\ c \in Seq(Nat) BY <1>2
  <2>2. (x.steps + y.steps) + z.steps = x.steps + (y.steps + z.steps) BY <1>2
  <2> HIDE DEF a, b, c
  <2>3. (a \o b) \o c = a \o (b \o c) BY SMTT(30), <2>1, ConcatAssociative
  <2>4. /\ Plus(Plus(x, y), z) = [ids |-> (a \o b) \o c, steps |-> (x.steps + y.steps) + z.steps]
        /\ Plus(x, Plus(y, z)) = [ids |-> a \o (b \o c), steps |-> x.steps + (y.steps + z.steps)]
    BY DEF Plus, a, b, c
  <2> QED BY <2>2, <2>3, <2>4
<1>5. ASSUME NEW x \in Loads PROVE Plus(x, Zero) = x /\ Plus(Zero, x) = x
  <2> DEFINE a == x.ids
  <2>1. a \in Seq(Nat) /\ x.steps \in Nat /\ x = [ids |-> a, steps |-> x.steps]
    BY <1>2 DEF Loads
  <2>2. x.steps + 0 = x.steps /\ 0 + x.steps = x.steps BY <2>1
  <2> HIDE DEF a
  <2>3. a \o <<>> = a /\ <<>> \o a = a BY <2>1, ConcatEmptySeq
  <2>4. /\ Plus(x, Zero) = [ids |-> a \o <<>>, steps |-> x.steps + 0]
        /\ Plus(Zero, x) = [ids |-> <<>> \o a, steps |-> 0 + x.steps]
    BY DEF Plus, Zero, a
  <2> QED BY <2>1, <2>2, <2>3, <2>4
<1>6. ASSUME NEW f \in Frames PROVE Load(f) \in Loads BY DEF Frames, Load, Loads
<1> QED BY <1>1, <1>3, <1>4, <1>5, <1>6

\* f adds up the first m results.
Adds(f, frames, m) ==
    f = [n \in 0 .. m |->
            IF n = 0 THEN [ids |-> <<>>, steps |-> 0]
            ELSE [ids |-> f[n - 1].ids \o frames[n].ids,
                  steps |-> f[n - 1].steps + frames[n].steps]]

\* There is such a sum for every number of results.
LEMMA AddsExists ==
    ASSUME NEW frames, NEW N \in Nat
    PROVE  \E f : Adds(f, frames, N)
<1> DEFINE Bad == {m \in Nat : ~\E f : Adds(f, frames, m)}
<1>1. SUFFICES ASSUME Bad # {} PROVE FALSE OBVIOUS
<1>2. PICK m \in Bad : \A n \in Bad : m <= n BY <1>1, LeastNumber
<1>3. CASE m = 0
  <2> DEFINE f == [n \in 0 .. 0 |-> Zero]
  <2>1. f = [n \in 0 .. 0 |-> IF n = 0 THEN Zero ELSE Plus(f[n - 1], frames[n])] OBVIOUS
  <2> HIDE DEF f
  <2>2. Adds(f, frames, 0) BY <2>1 DEF Adds, Zero, Plus
  <2> QED BY <1>2, <1>3, <2>2
<1>4. CASE m # 0
  <2>1. m \in Nat /\ m - 1 \in Nat /\ m - 1 \notin Bad BY <1>2, <1>4
  <2>2. PICK f : Adds(f, frames, m - 1) BY <2>1
  <2>3. f = [n \in 0 .. m - 1 |-> IF n = 0 THEN Zero ELSE Plus(f[n - 1], frames[n])]
    BY <2>2 DEF Adds, Zero, Plus
  <2> DEFINE h == [n \in 0 .. m |-> IF n = m THEN Plus(f[m - 1], frames[m]) ELSE f[n]]
  <2>4. \A n \in 0 .. m - 1 : h[n] = f[n] BY <2>1
  <2>5. ASSUME NEW n \in 0 .. m
        PROVE  h[n] = IF n = 0 THEN Zero ELSE Plus(h[n - 1], frames[n])
    <3>1. CASE n = m
      <4>1. h[n] = Plus(f[m - 1], frames[m]) BY <3>1
      <4>2. h[n - 1] = f[m - 1] BY <3>1, <2>1, <2>4
      <4> QED BY <3>1, <4>1, <4>2, <1>4
    <3>2. CASE n # m
      <4>1. n \in 0 .. m - 1 BY <3>2, <2>1
      <4>2. f[n] = IF n = 0 THEN Zero ELSE Plus(f[n - 1], frames[n]) BY <4>1, <2>3
      <4>3. n # 0 => n - 1 \in 0 .. m - 1 BY <4>1
      <4> QED BY <4>1, <4>2, <4>3, <2>4
    <3> QED BY <3>1, <3>2
  <2>6. h = [n \in 0 .. m |-> IF n = 0 THEN Zero ELSE Plus(h[n - 1], frames[n])]
    <3>1. h = [n \in 0 .. m |-> h[n]] OBVIOUS
    <3> HIDE DEF h
    <3> QED BY <3>1, <2>5
  <2> HIDE DEF h
  <2>7. Adds(h, frames, m) BY <2>6 DEF Adds, Zero, Plus
  <2> QED BY <2>7, <1>2
<1> QED BY <1>3, <1>4
\* u adds up one result after the other.
Sums(u, frames) ==
    /\ u[0] = Zero
    /\ \A n \in 1 .. Len(frames) : u[n] = Plus(u[n - 1], Load(frames[n]))

\* Carried is the last of such sums.
LEMMA CarriedSums ==
    ASSUME NEW frames \in Seq(Frames)
    PROVE  \E u : Sums(u, frames) /\ Carried(frames) = u[Len(frames)]
<1> DEFINE N == Len(frames)
           u == CHOOSE f : Adds(f, frames, N)
<1>1. N \in Nat OBVIOUS
<1>2. Adds(u, frames, N) BY <1>1, AddsExists
<1>3. Carried(frames) = u[N] BY DEF Carried, Adds
<1> HIDE DEF u
<1>4. u[0] = Zero
  <2>1. 0 \in 0 .. N BY <1>1
  <2> QED BY <2>1, <1>2 DEF Adds, Zero
<1>5. ASSUME NEW n \in 1 .. N PROVE u[n] = Plus(u[n - 1], Load(frames[n]))
  <2>1. n \in 0 .. N /\ n # 0 OBVIOUS
  <2>2. u[n] = [ids |-> u[n - 1].ids \o frames[n].ids,
                steps |-> u[n - 1].steps + frames[n].steps]
    BY <2>1, <1>2 DEF Adds
  <2>3. Load(frames[n]).ids = frames[n].ids /\ Load(frames[n]).steps = frames[n].steps
    BY DEF Load
  <2> QED BY <2>2, <2>3 DEF Plus
<1> QED BY <1>3, <1>4, <1>5 DEF Sums

\* Sums are loads.
LEMMA SumsType ==
    ASSUME NEW s \in Seq(Frames), NEW u, Sums(u, s)
    PROVE  \A n \in 0 .. Len(s) : u[n] \in Loads
<1> DEFINE S == {n \in 0 .. Len(s) : u[n] \in Loads}
<1>1. Len(s) \in Nat /\ \A n \in 1 .. Len(s) : s[n] \in Frames OBVIOUS
<1>2. 0 \in S BY <1>1, LoadAlgebra DEF Sums
<1>3. ASSUME NEW n \in 0 .. Len(s) - 1, n \in S PROVE n + 1 \in S
  <2>1. n + 1 \in 1 .. Len(s) /\ (n + 1) - 1 = n /\ n + 1 \in 0 .. Len(s) BY <1>1
  <2>2. u[n + 1] = Plus(u[n], Load(s[n + 1])) BY <2>1 DEF Sums
  <2>3. u[n] \in Loads BY <1>3
  <2>4. Load(s[n + 1]) \in Loads BY <1>1, <2>1, LoadAlgebra
  <2>5. u[n + 1] \in Loads BY <2>2, <2>3, <2>4, LoadAlgebra
  <2> QED BY <2>1, <2>5
<1> HIDE DEF S
<1>4. \A n \in 0 .. Len(s) : n \in S BY <1>1, <1>2, <1>3, Counting
<1> QED BY <1>4 DEF S

\* A sum depends on the results alone.
LEMMA SumsAgree ==
    ASSUME NEW s, NEW t, NEW u, NEW v, Sums(u, s), Sums(v, t), Len(s) \in Nat, Len(t) \in Nat,
           NEW m \in Nat, m <= Len(s), m <= Len(t), \A n \in 1 .. m : s[n] = t[n]
    PROVE  u[m] = v[m]
<1> DEFINE S == {n \in 0 .. m : u[n] = v[n]}
<1>1. 0 \in S BY DEF Sums
<1>2. ASSUME NEW n \in 0 .. m - 1, n \in S PROVE n + 1 \in S
  <2>1. /\ n + 1 \in 1 .. Len(s) /\ n + 1 \in 1 .. Len(t) /\ n + 1 \in 1 .. m
        /\ (n + 1) - 1 = n /\ n + 1 \in 0 .. m
    OBVIOUS
  <2>2. u[n + 1] = Plus(u[n], Load(s[n + 1])) /\ v[n + 1] = Plus(v[n], Load(t[n + 1]))
    BY <2>1 DEF Sums
  <2>3. s[n + 1] = t[n + 1] /\ u[n] = v[n] BY <2>1, <1>2
  <2> QED BY <2>1, <2>2, <2>3
<1> HIDE DEF S
<1>3. \A n \in 0 .. m : n \in S BY <1>1, <1>2, Counting
<1>4. m \in 0 .. m OBVIOUS
<1>5. m \in S BY <1>3, <1>4
<1> QED BY <1>5 DEF S

\* What results carry is a load.
LEMMA CarriedType ==
    ASSUME NEW s \in Seq(Frames)
    PROVE  Carried(s) \in Loads
<1>1. PICK u : Sums(u, s) /\ Carried(s) = u[Len(s)] BY CarriedSums
<1>2. Len(s) \in 0 .. Len(s) OBVIOUS
<1> QED BY <1>1, <1>2, SumsType

\* No result carries nothing.
LEMMA CarriedNone == <<>> \in Seq(Frames) /\ Carried(<<>>) = Zero
<1>1. <<>> \in Seq(Frames) /\ Len(<<>>) = 0 OBVIOUS
<1>2. PICK u : Sums(u, <<>>) /\ Carried(<<>>) = u[Len(<<>>)] BY <1>1, CarriedSums
<1> QED BY <1>1, <1>2 DEF Sums

\* One result carries its load.
LEMMA CarriedOne ==
    ASSUME NEW f \in Frames
    PROVE  One(f) \in Seq(Frames) /\ Carried(One(f)) = Load(f)
<1>1. One(f) \in Seq(Frames) /\ Len(One(f)) = 1 /\ One(f)[1] = f /\ 1 \in 1 .. 1 /\ 1 - 1 = 0
  BY DEF One
<1>2. PICK u : Sums(u, One(f)) /\ Carried(One(f)) = u[Len(One(f))] BY <1>1, CarriedSums
<1>3. u[0] = Zero /\ u[1] = Plus(u[1 - 1], Load(One(f)[1])) BY <1>1, <1>2 DEF Sums
<1> QED BY <1>1, <1>2, <1>3, LoadAlgebra

\* What two sequences of results carry is what the one carries and then the other.
LEMMA CarriedCat ==
    ASSUME NEW s \in Seq(Frames), NEW t \in Seq(Frames)
    PROVE  Cat(s, t) \in Seq(Frames) /\ Carried(Cat(s, t)) = Plus(Carried(s), Carried(t))
<1> DEFINE x == Cat(s, t)
           a == Len(s)
           b == Len(t)
<1>1. /\ x \in Seq(Frames) /\ a \in Nat /\ b \in Nat /\ Len(x) = a + b
      /\ \A i \in 1 .. a : x[i] = s[i]
      /\ \A i \in 1 .. b : x[a + i] = t[i]
  BY DEF Cat
<1>2. \A i \in 1 .. b : t[i] \in Frames OBVIOUS
<1> HIDE DEF x
<1>3. PICK u : Sums(u, s) /\ Carried(s) = u[a] BY CarriedSums
<1>4. PICK v : Sums(v, t) /\ Carried(t) = v[b] BY CarriedSums
<1>5. PICK w : Sums(w, x) /\ Carried(x) = w[Len(x)] BY <1>1, CarriedSums
<1>6. w[a] = u[a]
  <2>1. a <= Len(x) /\ a <= Len(s) /\ Len(x) \in Nat /\ Len(s) \in Nat BY <1>1
  <2>2. Sums(w, x) /\ Sums(u, s) BY <1>3, <1>5
  <2>3. a \in Nat /\ \A i \in 1 .. a : x[i] = s[i] BY <1>1
  <2> HIDE DEF a
  <2> QED BY <2>1, <2>2, <2>3, SumsAgree
<1>7. u[a] \in Loads /\ \A n \in 0 .. b : v[n] \in Loads
  <2>1. a \in 0 .. a BY <1>1
  <2> QED BY <2>1, <1>3, <1>4, SumsType
<1> HIDE DEF a, b
<1> DEFINE S == {n \in 0 .. b : w[a + n] = Plus(u[a], v[n])}
<1>8. 0 \in S
  <2>1. a + 0 = a /\ 0 \in 0 .. b BY <1>1
  <2>2. v[0] = Zero BY <1>4 DEF Sums
  <2> QED BY <2>1, <2>2, <1>6, <1>7, LoadAlgebra
<1>9. ASSUME NEW n \in 0 .. b - 1, n \in S PROVE n + 1 \in S
  <2>1. /\ n + 1 \in 1 .. b /\ (n + 1) - 1 = n /\ n + 1 \in 0 .. b /\ n \in 0 .. b
        /\ a + (n + 1) \in 1 .. Len(x) /\ (a + (n + 1)) - 1 = a + n
    BY <1>1
  <2>2. w[a + (n + 1)] = Plus(w[(a + (n + 1)) - 1], Load(x[a + (n + 1)])) BY <2>1, <1>5 DEF Sums
  <2>3. v[n + 1] = Plus(v[(n + 1) - 1], Load(t[n + 1])) BY <2>1, <1>4 DEF Sums, b
  <2>4. x[a + (n + 1)] = t[n + 1] /\ Load(t[n + 1]) \in Loads
    BY <2>1, <1>1, <1>2, LoadAlgebra
  <2>5. w[a + n] = Plus(u[a], v[n]) BY <1>9
  <2>6. v[n] \in Loads BY <2>1, <1>7
  <2>7. w[a + (n + 1)] = Plus(Plus(u[a], v[n]), Load(t[n + 1])) BY <2>1, <2>2, <2>4, <2>5
  <2>8. w[a + (n + 1)] = Plus(u[a], v[n + 1])
    <3> DEFINE c == Load(t[n + 1])
               d == v[n]
               e == u[a]
    <3>1. c \in Loads /\ d \in Loads /\ e \in Loads BY <2>4, <2>6, <1>7
    <3>2. v[n + 1] = Plus(d, c) BY <2>1, <2>3
    <3>3. w[a + (n + 1)] = Plus(Plus(e, d), c) BY <2>7
    <3> HIDE DEF c, d, e
    <3>4. Plus(Plus(e, d), c) = Plus(e, Plus(d, c)) BY <3>1, LoadAlgebra
    <3> QED BY <3>2, <3>3, <3>4 DEF e
  <2> QED BY <2>1, <2>8
<1> HIDE DEF S
<1>10. \A n \in 0 .. b : n \in S BY <1>1, <1>8, <1>9, Counting
<1>11. b \in S
  <2>1. b \in 0 .. b BY <1>1
  <2> QED BY <2>1, <1>10
<1>12. w[a + b] = Plus(u[a], v[b]) BY <1>11 DEF S
<1> QED BY <1>1, <1>3, <1>4, <1>5, <1>12 DEF x
\* The results from the first on, and with one more behind.
LEMMA CarriedEnds ==
    ASSUME NEW s \in Seq(Frames)
    PROVE  /\ s # <<>> => /\ Head(s) \in Frames /\ Tail(s) \in Seq(Frames)
                          /\ Carried(s) = Plus(Load(Head(s)), Carried(Tail(s)))
           /\ \A f \in Frames : /\ Append(s, f) \in Seq(Frames) /\ Append(s, f) # <<>>
                                /\ Carried(Append(s, f)) = Plus(Carried(s), Load(f))
<1>1. ASSUME s # <<>>
      PROVE  /\ Head(s) \in Frames /\ Tail(s) \in Seq(Frames)
             /\ Carried(s) = Plus(Load(Head(s)), Carried(Tail(s)))
  <2>1. Head(s) \in Frames /\ Tail(s) \in Seq(Frames) BY <1>1
  <2>2. s = Cat(One(Head(s)), Tail(s)) BY <1>1 DEF Cat, One
  <2>3. One(Head(s)) \in Seq(Frames) /\ Carried(One(Head(s))) = Load(Head(s))
    BY <2>1, CarriedOne
  <2>4. Carried(Cat(One(Head(s)), Tail(s))) = Plus(Carried(One(Head(s))), Carried(Tail(s)))
    BY <2>1, <2>3, CarriedCat
  <2> QED BY <2>1, <2>2, <2>3, <2>4
<1>2. ASSUME NEW f \in Frames
      PROVE  /\ Append(s, f) \in Seq(Frames) /\ Append(s, f) # <<>>
             /\ Carried(Append(s, f)) = Plus(Carried(s), Load(f))
  <2>1. Append(s, f) \in Seq(Frames) /\ Append(s, f) # <<>> BY AppendProperties
  <2>2. Append(s, f) = Cat(s, One(f)) BY DEF Cat, One
  <2>3. One(f) \in Seq(Frames) /\ Carried(One(f)) = Load(f) BY CarriedOne
  <2>4. Carried(Cat(s, One(f))) = Plus(Carried(s), Carried(One(f))) BY <2>3, CarriedCat
  <2> QED BY <2>1, <2>2, <2>3, <2>4
<1> QED BY <1>1, <1>2

\* f merges the last results of a drain, the newest first.
Gathers(f, queued, m) ==
    f = [i \in 0 .. m |->
            IF i = 0 THEN queued[Len(queued)] ELSE Merge(queued[Len(queued) - i], f[i - 1])]

\* There is such a merge for every number of results.
LEMMA GathersExists ==
    ASSUME NEW queued, NEW N \in Nat
    PROVE  \E f : Gathers(f, queued, N)
<1> DEFINE last == queued[Len(queued)]
           at(i) == queued[Len(queued) - i]
           Bad == {m \in Nat : ~\E f : Gathers(f, queued, m)}
<1>1. SUFFICES ASSUME Bad # {} PROVE FALSE OBVIOUS
<1>2. PICK m \in Bad : \A n \in Bad : m <= n BY <1>1, LeastNumber
<1>3. CASE m = 0
  <2> DEFINE f == [i \in 0 .. 0 |-> last]
  <2>1. f = [i \in 0 .. 0 |-> IF i = 0 THEN last ELSE Merge(at(i), f[i - 1])] OBVIOUS
  <2> HIDE DEF f
  <2>2. Gathers(f, queued, 0) BY <2>1 DEF Gathers
  <2> QED BY <1>2, <1>3, <2>2
<1>4. CASE m # 0
  <2>1. m \in Nat /\ m - 1 \in Nat /\ m - 1 \notin Bad BY <1>2, <1>4
  <2>2. PICK f : Gathers(f, queued, m - 1) BY <2>1
  <2>3. f = [i \in 0 .. m - 1 |-> IF i = 0 THEN last ELSE Merge(at(i), f[i - 1])]
    BY <2>2 DEF Gathers
  <2> HIDE DEF last, at
  <2> DEFINE h == [i \in 0 .. m |-> IF i = m THEN Merge(at(m), f[m - 1]) ELSE f[i]]
  <2>4. \A i \in 0 .. m - 1 : h[i] = f[i] BY <2>1
  <2>5. ASSUME NEW i \in 0 .. m
        PROVE  h[i] = IF i = 0 THEN last ELSE Merge(at(i), h[i - 1])
    <3>1. CASE i = m
      <4>1. h[i] = Merge(at(m), f[m - 1]) BY <3>1
      <4>2. h[i - 1] = f[m - 1] BY <3>1, <2>1, <2>4
      <4> QED BY <3>1, <4>1, <4>2, <1>4
    <3>2. CASE i # m
      <4>1. i \in 0 .. m - 1 BY <3>2, <2>1
      <4>2. f[i] = IF i = 0 THEN last ELSE Merge(at(i), f[i - 1]) BY <4>1, <2>3
      <4>3. i # 0 => i - 1 \in 0 .. m - 1 BY <4>1
      <4> QED BY <4>1, <4>2, <4>3, <2>4
    <3> QED BY <3>1, <3>2
  <2>6. h = [i \in 0 .. m |-> IF i = 0 THEN last ELSE Merge(at(i), h[i - 1])]
    <3>1. h = [i \in 0 .. m |-> h[i]] OBVIOUS
    <3> HIDE DEF h
    <3> QED BY <3>1, <2>5
  <2> HIDE DEF h
  <2>7. Gathers(h, queued, m) BY <2>6 DEF Gathers, last, at
  <2> QED BY <2>7, <1>2
<1> QED BY <1>3, <1>4

\* merge_replaced_frame loses nothing of the two results.
LEMMA MergeCarries ==
    ASSUME NEW a \in Frames, NEW b \in Frames
    PROVE  Merge(a, b) \in Frames /\ Load(Merge(a, b)) = Plus(Load(a), Load(b))
<1>1. /\ a.ids \in Seq(Nat) /\ b.ids \in Seq(Nat) /\ a.steps \in Nat /\ b.steps \in Nat
  BY DEF Frames
<1>2. (b.fault \/ a.fault) \in BOOLEAN BY DEF Frames
<1>3. a.ids \o b.ids \in Seq(Nat) /\ b.steps + a.steps \in Nat BY <1>1
<1>4. b.steps + a.steps = a.steps + b.steps BY <1>1
<1>5. Merge(a, b).ids = a.ids \o b.ids /\ Merge(a, b).steps = b.steps + a.steps BY DEF Merge
<1>6. Merge(a, b) \in Frames BY <1>2, <1>3 DEF Merge, Frames
<1>7. Load(Merge(a, b)) = [ids |-> a.ids \o b.ids, steps |-> a.steps + b.steps]
  BY <1>4, <1>5 DEF Load
<1>8. Plus(Load(a), Load(b)) = [ids |-> a.ids \o b.ids, steps |-> a.steps + b.steps]
  BY DEF Plus, Load
<1> QED BY <1>6, <1>7, <1>8

\* The merge of all that was drained carries what they carried, in their order.
LEMMA GatheredCarries ==
    ASSUME NEW s \in Seq(Frames), s # <<>>
    PROVE  Gathered(s) \in Frames /\ Load(Gathered(s)) = Carried(s)
<1> DEFINE N == Len(s)
           f == CHOOSE x : Gathers(x, s, N - 1)
<1>1. N \in Nat /\ N - 1 \in Nat /\ N # 0 /\ \A n \in 1 .. N : s[n] \in Frames OBVIOUS
<1>2. Gathers(f, s, N - 1) BY <1>1, GathersExists
<1>3. Gathered(s) = f[N - 1] BY DEF Gathered, Gathers
<1> HIDE DEF f
<1>4. PICK u : Sums(u, s) /\ Carried(s) = u[N] BY CarriedSums
<1>5. f[0] = s[N]
  <2>1. 0 \in 0 .. N - 1 BY <1>1
  <2> QED BY <2>1, <1>2 DEF Gathers
<1>6. ASSUME NEW i \in 0 .. N - 1, i # 0 PROVE f[i] = Merge(s[N - i], f[i - 1])
  BY <1>2, <1>6 DEF Gathers
<1>7. \A n \in 0 .. N : u[n] \in Loads BY <1>4, SumsType
<1>8. \A n \in 1 .. N : u[n] = Plus(u[n - 1], Load(s[n])) BY <1>4 DEF Sums
<1>9. u[0] = Zero BY <1>4 DEF Sums
<1> HIDE DEF N
<1> DEFINE S == {i \in 0 .. N - 1 : f[i] \in Frames /\ Plus(u[(N - 1) - i], Load(f[i])) = u[N]}
<1>10. 0 \in S
  <2>1. N \in 1 .. N /\ (N - 1) - 0 = N - 1 /\ 0 \in 0 .. N - 1 BY <1>1
  <2>2. u[N] = Plus(u[N - 1], Load(s[N])) /\ s[N] \in Frames BY <2>1, <1>1, <1>8
  <2> QED BY <2>1, <2>2, <1>5
<1>11. ASSUME NEW n \in 0 .. (N - 1) - 1, n \in S PROVE n + 1 \in S
  <2> DEFINE i == n + 1
             m == N - i
  <2>1. /\ i \in 0 .. N - 1 /\ i # 0 /\ i - 1 = n /\ m \in 1 .. N /\ (N - 1) - n = m
        /\ (N - 1) - i = m - 1 /\ m \in 0 .. N /\ m - 1 \in 0 .. N
    BY <1>1
  <2> DEFINE a == s[m]
             b == f[n]
             v == u[m - 1]
  <2>2. b \in Frames /\ Plus(u[m], Load(b)) = u[N] BY <1>11, <2>1
  <2>3. a \in Frames /\ f[i] = Merge(a, b) BY <1>1, <1>6, <2>1
  <2>4. u[m] = Plus(v, Load(a)) BY <1>8, <2>1
  <2>5. v \in Loads BY <1>7, <2>1
  <2> HIDE DEF a, b, v, m, i
  <2>6. f[i] \in Frames /\ Load(f[i]) = Plus(Load(a), Load(b)) BY <2>2, <2>3, MergeCarries
  <2>7. Load(a) \in Loads /\ Load(b) \in Loads BY <2>2, <2>3, LoadAlgebra
  <2>8. Plus(Plus(v, Load(a)), Load(b)) = Plus(v, Plus(Load(a), Load(b)))
    BY <2>5, <2>7, LoadAlgebra
  <2>9. Plus(v, Load(f[i])) = u[N] BY <2>2, <2>4, <2>6, <2>8
  <2>10. Plus(u[(N - 1) - i], Load(f[i])) = u[N] BY <2>1, <2>9 DEF v
  <2>11. i \in S BY <2>1, <2>6, <2>10
  <2> QED BY <2>11 DEF i
<1> HIDE DEF S
<1>12. \A n \in 0 .. N - 1 : n \in S BY <1>1, <1>10, <1>11, Counting
<1>13. N - 1 \in 0 .. N - 1 /\ (N - 1) - (N - 1) = 0 BY <1>1
<1>14. f[N - 1] \in Frames /\ Plus(u[0], Load(f[N - 1])) = u[N] BY <1>12, <1>13 DEF S
<1>15. Plus(Zero, Load(f[N - 1])) = Load(f[N - 1]) BY <1>14, LoadAlgebra
<1> QED BY <1>3, <1>4, <1>9, <1>14, <1>15

\* What is sent after a drain carries what was drained, and then the new result.
LEMMA ResendCarries ==
    ASSUME NEW s \in Seq(Frames), NEW r \in Frames
    PROVE  /\ Resend(s, r) \in Seq(Frames) /\ Resend(s, r) # <<>>
           /\ Carried(Resend(s, r)) = Plus(Carried(s), Load(r))
<1>1. CASE Resend(s, r) = Append(s, r) BY <1>1, CarriedEnds
<1>2. CASE s # <<>> /\ Resend(s, r) = <<Merge(Gathered(s), r)>>
  <2>1. Gathered(s) \in Frames /\ Load(Gathered(s)) = Carried(s) BY <1>2, GatheredCarries
  <2> DEFINE m == Merge(Gathered(s), r)
  <2>2. m \in Frames /\ Load(m) = Plus(Carried(s), Load(r)) BY <2>1, MergeCarries
  <2>3. Resend(s, r) = One(m) BY <1>2 DEF One
  <2> HIDE DEF m
  <2>4. One(m) \in Seq(Frames) /\ Carried(One(m)) = Load(m) BY <2>2, CarriedOne
  <2>5. One(m) # <<>> BY DEF One
  <2> QED BY <2>2, <2>3, <2>4, <2>5
<1> QED BY <1>1, <1>2 DEF Resend
-----------------------------------------------------------------------------
(* The results on their way.                                               *)

Commands == StepCommands \cup {"uncap"}

\* The worker between the steps of send_frame.
IsWorker(w) ==
    /\ w \in [pc : {"loop", "try", "drain", "send", "exited"}, uncapped : BOOLEAN,
              fault : {"none", "told"}, result : Frames, queued : Seq(Frames),
              outbox : Seq(Frames)]
    /\ w.pc # "drain" => w.queued = <<>>
    /\ w.pc # "send" => w.outbox = <<>>
    /\ w.pc = "send" => w.outbox # <<>>
    /\ w.uncapped => w.fault = "none"

\* What is on its way when the worker is w and the channel c.
Way(w, c) ==
    w.queued \o c \o w.outbox \o (IF w.pc \in {"try", "drain"} THEN <<w.result>> ELSE <<>>)

\* What the result carries that the worker has not put into the channel.
Pending(w) == IF w.pc \in {"try", "drain"} THEN Load(w.result) ELSE Zero

\* What the results on their way carry, part by part.
LEMMA WayCarries ==
    ASSUME NEW w, IsWorker(w), NEW c \in Seq(Frames)
    PROVE  /\ Carried(w.queued) \in Loads /\ Carried(c) \in Loads /\ Carried(w.outbox) \in Loads
           /\ Pending(w) \in Loads /\ Carried(Way(w, c)) \in Loads
           /\ Carried(Way(w, c)) =
                Plus(Plus(Plus(Carried(w.queued), Carried(c)), Carried(w.outbox)), Pending(w))
<1> DEFINE q == w.queued
           o == w.outbox
           r == w.result
           e == IF w.pc \in {"try", "drain"} THEN One(r) ELSE <<>>
<1>1. q \in Seq(Frames) /\ o \in Seq(Frames) /\ r \in Frames BY DEF IsWorker
<1>2. One(r) \in Seq(Frames) /\ Carried(One(r)) = Load(r) BY <1>1, CarriedOne
<1>3. e \in Seq(Frames) /\ Carried(e) = Pending(w)
  <2>1. CASE w.pc \in {"try", "drain"} BY <2>1, <1>2 DEF Pending
  <2>2. CASE w.pc \notin {"try", "drain"} BY <2>2, CarriedNone DEF Pending
  <2> QED BY <2>1, <2>2
<1>4. Way(w, c) = Cat(Cat(Cat(q, c), o), e) BY DEF Way, Cat, One
<1> HIDE DEF q, o, r, e
<1>5. Cat(q, c) \in Seq(Frames) /\ Carried(Cat(q, c)) = Plus(Carried(q), Carried(c))
  BY <1>1, CarriedCat
<1>6. /\ Cat(Cat(q, c), o) \in Seq(Frames)
      /\ Carried(Cat(Cat(q, c), o)) = Plus(Carried(Cat(q, c)), Carried(o))
  BY <1>1, <1>5, CarriedCat
<1>7. /\ Cat(Cat(Cat(q, c), o), e) \in Seq(Frames)
      /\ Carried(Cat(Cat(Cat(q, c), o), e)) = Plus(Carried(Cat(Cat(q, c), o)), Carried(e))
  BY <1>3, <1>6, CarriedCat
<1>8. /\ Carried(q) \in Loads /\ Carried(c) \in Loads /\ Carried(o) \in Loads
      /\ Carried(e) \in Loads
  BY <1>1, <1>3, CarriedType
<1>9. Carried(Way(w, c)) \in Loads BY <1>4, <1>7, CarriedType
<1> QED BY <1>3, <1>4, <1>5, <1>6, <1>7, <1>8, <1>9 DEF q, o

\* NoFrame is a result.
LEMMA NoFrameType == NoFrame \in Frames /\ <<>> \in Seq(Frames)
<1>1. <<>> \in Seq(Nat) /\ 0 \in Nat /\ <<>> \in Seq(Frames) OBVIOUS
<1> QED BY <1>1 DEF NoFrame, Frame, Frames

\* A worker and a channel that carry the same as another.
Goes(x, y, w, c) ==
    IsWorker(x) /\ y \in Seq(Frames) /\ Carried(Way(x, y)) = Carried(Way(w, c))

\* send_frame takes a new result, to be tried or to be sent.
LEMMA DeliverGoes ==
    ASSUME NEW w, IsWorker(w), w.pc = "loop", NEW c \in Seq(Frames), NEW r \in Frames
    PROVE  /\ IsWorker(Deliver(w, r))
           /\ Carried(Way(Deliver(w, r), c)) = Plus(Carried(Way(w, c)), Load(r))
<1> DEFINE x == Deliver(w, r)
           b == Carried(c)
<1>1. w.queued = <<>> /\ w.outbox = <<>> /\ Pending(w) = Zero BY DEF IsWorker, Pending
<1>2. b \in Loads /\ Load(r) \in Loads BY CarriedType, LoadAlgebra
<1>3. Carried(Way(w, c)) = b
  <2>1. Carried(Way(w, c)) = Plus(Plus(Plus(Zero, b), Zero), Zero)
    BY <1>1, WayCarries, CarriedNone
  <2> HIDE DEF b
  <2> QED BY <2>1, <1>2, LoadAlgebra
<1>4. CASE Preserved(r)
  <2>1. x = [w EXCEPT !.pc = "send", !.outbox = <<r>>] BY <1>4 DEF Deliver
  <2>2. One(r) \in Seq(Frames) /\ Carried(One(r)) = Load(r) /\ One(r) # <<>>
    <3>1. One(r) # <<>> BY DEF One
    <3> QED BY <3>1, CarriedOne
  <2>3. x = [w EXCEPT !.pc = "send", !.outbox = One(r)] BY <2>1 DEF One
  <2>4. IsWorker(x) /\ x.queued = <<>> /\ x.outbox = One(r) /\ x.pc = "send"
    BY <1>1, <2>2, <2>3 DEF IsWorker
  <2> HIDE DEF x
  <2>5. Pending(x) = Zero BY <2>4 DEF Pending
  <2>6. Carried(Way(x, c)) = Plus(Plus(Plus(Zero, b), Load(r)), Zero)
    BY <2>2, <2>4, <2>5, WayCarries, CarriedNone
  <2> HIDE DEF b
  <2>7. Carried(Way(x, c)) = Plus(b, Load(r)) BY <2>6, <1>2, LoadAlgebra
  <2> QED BY <1>3, <2>4, <2>7 DEF x
<1>5. CASE ~Preserved(r)
  <2>1. x = [w EXCEPT !.pc = "try", !.result = r] BY <1>5 DEF Deliver
  <2>2. IsWorker(x) /\ x.queued = <<>> /\ x.outbox = <<>> /\ x.pc = "try" /\ x.result = r
    BY <1>1, <2>1 DEF IsWorker
  <2> HIDE DEF x
  <2>3. Pending(x) = Load(r) BY <2>2 DEF Pending
  <2>4. Carried(Way(x, c)) = Plus(Plus(Plus(Zero, b), Zero), Load(r))
    BY <2>2, <2>3, WayCarries, CarriedNone
  <2> HIDE DEF b
  <2>5. Carried(Way(x, c)) = Plus(b, Load(r)) BY <2>4, <1>2, LoadAlgebra
  <2> QED BY <1>3, <2>2, <2>5 DEF x
<1> QED BY <1>4, <1>5

\* try_send.
LEMMA TryGoes ==
    ASSUME NEW w, IsWorker(w), w.pc = "try", NEW c \in Seq(Frames)
    PROVE  /\ Goes([w EXCEPT !.pc = "drain"], c, w, c)
           /\ Goes([w EXCEPT !.pc = "loop", !.result = NoFrame], Append(c, w.result), w, c)
<1> DEFINE r == w.result
           b == Carried(c)
           x == [w EXCEPT !.pc = "drain"]
           z == [w EXCEPT !.pc = "loop", !.result = NoFrame]
           y == Append(c, r)
<1>1. w.queued = <<>> /\ w.outbox = <<>> /\ r \in Frames /\ Pending(w) = Load(r)
  BY DEF IsWorker, Pending
<1>2. Carried(Way(w, c)) = Plus(Plus(Plus(Zero, b), Zero), Load(r))
  BY <1>1, WayCarries, CarriedNone
<1>3. b \in Loads /\ Load(r) \in Loads BY <1>1, CarriedType, LoadAlgebra
<1>4. IsWorker(x) /\ x.pc = "drain" /\ x.queued = <<>> /\ x.outbox = <<>> /\ x.result = r
  BY <1>1 DEF IsWorker
<1>5. IsWorker(z) /\ z.pc = "loop" /\ z.queued = <<>> /\ z.outbox = <<>>
  BY <1>1, NoFrameType DEF IsWorker
<1>6. y \in Seq(Frames) /\ Carried(y) = Plus(b, Load(r)) BY <1>1, CarriedEnds
<1> HIDE DEF x, z, y, r
<1>7. Goes(x, c, w, c)
  <2>1. Pending(x) = Load(r) BY <1>4 DEF Pending
  <2>2. Carried(Way(x, c)) = Plus(Plus(Plus(Zero, b), Zero), Load(r))
    BY <2>1, <1>4, WayCarries, CarriedNone
  <2> QED BY <2>2, <1>2, <1>4 DEF Goes
<1>8. Goes(z, y, w, c)
  <2>1. Pending(z) = Zero BY <1>5 DEF Pending
  <2>2. Carried(Way(z, y)) = Plus(Plus(Plus(Zero, Plus(b, Load(r))), Zero), Zero)
    BY <2>1, <1>5, <1>6, WayCarries, CarriedNone
  <2>3. Carried(Way(z, y)) = Carried(Way(w, c))
    <3> HIDE DEF b
    <3> QED BY <2>2, <1>2, <1>3, LoadAlgebra
  <2> QED BY <2>3, <1>5, <1>6 DEF Goes
<1> QED BY <1>7, <1>8 DEF x, y, z, r
\* One try_recv of the drain.
LEMMA TakeGoes ==
    ASSUME NEW w, IsWorker(w), w.pc = "drain", NEW c \in Seq(Frames), c # <<>>
    PROVE  Goes([w EXCEPT !.queued = Append(w.queued, Head(c))], Tail(c), w, c)
<1> DEFINE r == w.result
           q == w.queued
           m == Head(c)
           t == Tail(c)
           x == [w EXCEPT !.queued = Append(q, m)]
           a == Carried(q)
           b == Carried(t)
           l == Load(m)
           n == Load(r)
<1>1. q \in Seq(Frames) /\ r \in Frames /\ w.outbox = <<>> /\ Pending(w) = n
  BY DEF IsWorker, Pending
<1>2. m \in Frames /\ t \in Seq(Frames) /\ Carried(c) = Plus(l, b) BY CarriedEnds
<1>3. Append(q, m) \in Seq(Frames) /\ Carried(Append(q, m)) = Plus(a, l) BY <1>1, <1>2, CarriedEnds
<1>4. /\ IsWorker(x) /\ x.queued = Append(q, m) /\ x.outbox = <<>> /\ x.pc = "drain"
      /\ x.result = r
  BY <1>1, <1>3 DEF IsWorker
<1>5. a \in Loads /\ b \in Loads /\ l \in Loads /\ n \in Loads
  BY <1>1, <1>2, CarriedType, LoadAlgebra
<1>6. Carried(Way(w, c)) = Plus(Plus(Plus(a, Plus(l, b)), Zero), n)
  BY <1>1, <1>2, WayCarries, CarriedNone
<1> HIDE DEF x
<1>7. Carried(Way(x, t)) = Plus(Plus(Plus(Plus(a, l), b), Zero), n)
  <2>1. Pending(x) = n BY <1>4 DEF Pending
  <2> HIDE DEF t, n
  <2> QED BY <2>1, <1>2, <1>3, <1>4, WayCarries, CarriedNone
<1>8. Plus(Plus(a, l), b) = Plus(a, Plus(l, b))
  <2> HIDE DEF a, b, l
  <2> QED BY <1>5, LoadAlgebra
<1>9. Goes(x, t, w, c) BY <1>2, <1>4, <1>6, <1>7, <1>8 DEF Goes
<1> QED BY <1>9 DEF x

\* The drain ends and its results are sent again.
LEMMA ResendGoes ==
    ASSUME NEW w, IsWorker(w), w.pc = "drain"
    PROVE  Goes([w EXCEPT !.pc = "send", !.queued = <<>>, !.result = NoFrame,
                          !.outbox = Resend(w.queued, w.result)], <<>>, w, <<>>)
<1> DEFINE r == w.result
           q == w.queued
           o == Resend(q, r)
           x == [w EXCEPT !.pc = "send", !.queued = <<>>, !.result = NoFrame, !.outbox = o]
           a == Carried(q)
           n == Load(r)
<1>1. q \in Seq(Frames) /\ r \in Frames /\ w.outbox = <<>> /\ Pending(w) = n
  BY DEF IsWorker, Pending
<1>2. o \in Seq(Frames) /\ o # <<>> /\ Carried(o) = Plus(a, n) BY <1>1, ResendCarries
<1>3. a \in Loads /\ n \in Loads BY <1>1, CarriedType, LoadAlgebra
<1>4. Carried(Way(w, <<>>)) = Plus(Plus(Plus(a, Zero), Zero), n)
  BY <1>1, WayCarries, CarriedNone
<1> HIDE DEF o
<1>5. IsWorker(x) /\ x.pc = "send" /\ x.queued = <<>> /\ x.outbox = o
  BY <1>2, NoFrameType DEF IsWorker
<1> HIDE DEF x
<1>6. Carried(Way(x, <<>>)) = Plus(Plus(Plus(Zero, Zero), Plus(a, n)), Zero)
  <2>1. Pending(x) = Zero BY <1>5 DEF Pending
  <2> QED BY <2>1, <1>2, <1>5, WayCarries, CarriedNone
<1>7. Carried(Way(x, <<>>)) = Carried(Way(w, <<>>))
  <2> HIDE DEF a, n
  <2> QED BY <1>3, <1>4, <1>6, LoadAlgebra
<1>8. Goes(x, <<>>, w, <<>>) BY <1>5, <1>7, NoFrameType DEF Goes
<1> QED BY <1>8 DEF x, o

\* A blocking send.
LEMMA SendGoes ==
    ASSUME NEW w, IsWorker(w), w.pc = "send", NEW c \in Seq(Frames)
    PROVE  Goes([w EXCEPT !.outbox = Tail(w.outbox),
                          !.pc = IF Len(w.outbox) = 1 THEN "loop" ELSE "send"],
                Append(c, Head(w.outbox)), w, c)
<1> DEFINE o == w.outbox
           m == Head(o)
           t == Tail(o)
           y == Append(c, m)
           pc == IF Len(o) = 1 THEN "loop" ELSE "send"
           x == [w EXCEPT !.outbox = t, !.pc = pc]
           b == Carried(c)
           d == Carried(t)
           l == Load(m)
<1>1. o \in Seq(Frames) /\ o # <<>> /\ w.queued = <<>> /\ Pending(w) = Zero
  BY DEF IsWorker, Pending
<1>2. m \in Frames /\ t \in Seq(Frames) /\ Carried(o) = Plus(l, d) BY <1>1, CarriedEnds
<1>3. y \in Seq(Frames) /\ Carried(y) = Plus(b, l) BY <1>2, CarriedEnds
<1>4. /\ (pc = "loop" => t = <<>>) /\ (pc = "send" => t # <<>>)
      /\ pc \in {"loop", "send"}
  <2>1. Len(o) \in Nat /\ Len(t) = Len(o) - 1 BY <1>1
  <2> HIDE DEF t
  <2>2. t = <<>> => Len(t) = 0 OBVIOUS
  <2>3. Len(t) = 0 => t = <<>> BY <1>2, EmptySeq
  <2> QED BY <2>1, <2>2, <2>3
<1>5. b \in Loads /\ d \in Loads /\ l \in Loads BY <1>2, CarriedType, LoadAlgebra
<1>6. Carried(Way(w, c)) = Plus(Plus(Plus(Zero, b), Plus(l, d)), Zero)
  BY <1>1, <1>2, WayCarries, CarriedNone
<1> HIDE DEF t, pc, m, y
<1>7. IsWorker(x) /\ x.pc = pc /\ x.outbox = t /\ x.queued = <<>>
  BY <1>1, <1>2, <1>4 DEF IsWorker
<1> HIDE DEF x, o
<1>8. Carried(Way(x, y)) = Plus(Plus(Plus(Zero, Plus(b, l)), d), Zero)
  <2>1. Pending(x) = Zero BY <1>4, <1>7 DEF Pending
  <2> QED BY <2>1, <1>3, <1>7, WayCarries, CarriedNone
<1>9. Carried(Way(x, y)) = Carried(Way(w, c))
  <2> HIDE DEF b, d, l
  <2>1. Plus(b, l) \in Loads /\ Plus(l, d) \in Loads BY <1>5, LoadAlgebra
  <2>2. Plus(Plus(b, l), d) = Plus(b, Plus(l, d)) /\ Plus(b, Plus(l, d)) \in Loads
    BY <1>5, <2>1, LoadAlgebra
  <2> QED BY <1>5, <1>6, <1>8, <2>1, <2>2, LoadAlgebra
<1>10. Goes(x, y, w, c) BY <1>3, <1>7, <1>9 DEF Goes
<1> QED BY <1>10 DEF x, y, t, pc, m, o

\* The interface takes the first result from between what the worker has drained
\* and the rest.
LEMMA ReceiveSplits ==
    ASSUME NEW w, IsWorker(w), NEW c \in Seq(Frames), c # <<>>
    PROVE  \E a, b \in Loads :
                /\ Carried(Way(w, c)) = Plus(a, Plus(Load(Head(c)), b))
                /\ Carried(Way(w, Tail(c))) = Plus(a, b)
                /\ w.queued = <<>> => a = Zero
<1> DEFINE a == Carried(w.queued)
           t == Carried(Tail(c))
           d == Carried(w.outbox)
           n == Pending(w)
           l == Load(Head(c))
           b == Plus(Plus(t, d), n)
<1>1. Head(c) \in Frames /\ Tail(c) \in Seq(Frames) /\ Carried(c) = Plus(l, t) BY CarriedEnds
<1>2. a \in Loads /\ t \in Loads /\ d \in Loads /\ n \in Loads /\ l \in Loads
  BY <1>1, WayCarries, LoadAlgebra
<1>3. Carried(Way(w, c)) = Plus(Plus(Plus(a, Plus(l, t)), d), n) BY <1>1, WayCarries
<1>4. Carried(Way(w, Tail(c))) = Plus(Plus(Plus(a, t), d), n) BY <1>1, WayCarries
<1>5. w.queued = <<>> => a = Zero BY CarriedNone
<1> HIDE DEF a, t, d, n, l
<1>6. Plus(t, d) \in Loads /\ b \in Loads BY <1>2, LoadAlgebra
<1>7. Plus(Plus(Plus(a, t), d), n) = Plus(a, b)
  <2>1. Plus(Plus(a, t), d) = Plus(a, Plus(t, d)) BY <1>2, LoadAlgebra
  <2>2. Plus(Plus(a, Plus(t, d)), n) = Plus(a, Plus(Plus(t, d), n)) BY <1>2, <1>6, LoadAlgebra
  <2> QED BY <2>1, <2>2
<1>8. Plus(Plus(Plus(a, Plus(l, t)), d), n) = Plus(a, Plus(l, b))
  <2>1. Plus(l, t) \in Loads /\ Plus(l, Plus(t, d)) \in Loads BY <1>2, <1>6, LoadAlgebra
  <2>2. Plus(Plus(a, Plus(l, t)), d) = Plus(a, Plus(Plus(l, t), d)) BY <1>2, <2>1, LoadAlgebra
  <2>3. Plus(Plus(l, t), d) = Plus(l, Plus(t, d)) BY <1>2, LoadAlgebra
  <2>4. Plus(Plus(a, Plus(l, Plus(t, d))), n) = Plus(a, Plus(Plus(l, Plus(t, d)), n))
    BY <1>2, <2>1, LoadAlgebra
  <2>5. Plus(Plus(l, Plus(t, d)), n) = Plus(l, b) BY <1>2, <1>6, LoadAlgebra
  <2> QED BY <2>2, <2>3, <2>4, <2>5
<1> HIDE DEF b
<1>9. /\ Carried(Way(w, c)) = Plus(a, Plus(l, b)) /\ Carried(Way(w, Tail(c))) = Plus(a, b)
  BY <1>3, <1>4, <1>7, <1>8
<1> QED BY <1>2, <1>5, <1>6, <1>9 DEF l
-----------------------------------------------------------------------------
(* What has arrived and what is on its way.                                *)

\* The payload the interface has, as a load.
Told(s) == [ids |-> s, steps |-> 0]
Total(s, w, c) == Plus(Told(s), Carried(Way(w, c)))

\* Every number up to n is in d once; and they are in their order.
Complete(d, n) == Len(d) = n /\ ToSet(d) = 1 .. n
Straight(d, n) == d = [i \in 1 .. n |-> i]

\* What a concatenation holds.
LEMMA JoinedSeq ==
    ASSUME NEW x \in Seq(Nat), NEW y \in Seq(Nat)
    PROVE  /\ x \o y \in Seq(Nat) /\ Len(x \o y) = Len(x) + Len(y)
           /\ ToSet(x \o y) = ToSet(x) \cup ToSet(y)
<1> DEFINE z == x \o y
<1>1. /\ z \in Seq(Nat) /\ Len(z) = Len(x) + Len(y) /\ Len(x) \in Nat /\ Len(y) \in Nat
      /\ \A i \in 1 .. Len(x) : z[i] = x[i]
      /\ \A i \in 1 .. Len(y) : z[Len(x) + i] = y[i]
  OBVIOUS
<1>2. DOMAIN x = 1 .. Len(x) /\ DOMAIN y = 1 .. Len(y) /\ DOMAIN z = 1 .. Len(z)
  BY <1>1
<1> HIDE DEF z
<1>3. ToSet(z) \subseteq ToSet(x) \cup ToSet(y)
  <2>1. ASSUME NEW i \in 1 .. Len(z) PROVE z[i] \in ToSet(x) \cup ToSet(y)
    <3>1. CASE i <= Len(x)
      <4>1. i \in 1 .. Len(x) BY <3>1, <1>1
      <4> QED BY <4>1, <1>1, <1>2 DEF ToSet
    <3>2. CASE ~(i <= Len(x))
      <4>1. i - Len(x) \in 1 .. Len(y) /\ Len(x) + (i - Len(x)) = i BY <3>2, <1>1
      <4>2. z[i] = y[i - Len(x)] BY <4>1, <1>1
      <4> QED BY <4>1, <4>2, <1>2 DEF ToSet
    <3> QED BY <3>1, <3>2
  <2> QED BY <2>1, <1>2 DEF ToSet
<1>4. ToSet(x) \subseteq ToSet(z)
  <2>1. \A i \in 1 .. Len(x) : i \in 1 .. Len(z) BY <1>1
  <2> QED BY <2>1, <1>1, <1>2 DEF ToSet
<1>5. ToSet(y) \subseteq ToSet(z)
  <2>1. \A i \in 1 .. Len(y) : Len(x) + i \in 1 .. Len(z) BY <1>1
  <2> QED BY <2>1, <1>1, <1>2 DEF ToSet
<1>6. ToSet(z) = ToSet(x) \cup ToSet(y) BY <1>3, <1>4, <1>5
<1> QED BY <1>1, <1>6 DEF z

\* The next result behind the others.
LEMMA NextMade ==
    ASSUME NEW d \in Seq(Nat), NEW n \in Nat
    PROVE  /\ Complete(d, n) => Complete(d \o <<n + 1>>, n + 1)
           /\ Straight(d, n) => Straight(d \o <<n + 1>>, n + 1)
<1> DEFINE y == <<n + 1>>
           z == d \o y
<1>1. y \in Seq(Nat) /\ Len(y) = 1 /\ ToSet(y) = {n + 1} BY DEF ToSet
<1>2. z \in Seq(Nat) /\ Len(z) = Len(d) + 1 /\ ToSet(z) = ToSet(d) \cup {n + 1}
  <2> HIDE DEF y
  <2> QED BY <1>1, JoinedSeq
<1>3. (1 .. n) \cup {n + 1} = 1 .. n + 1 OBVIOUS
<1>4. Complete(d, n) => Complete(z, n + 1)
  <2> HIDE DEF z
  <2> QED BY <1>2, <1>3 DEF Complete
<1>5. ASSUME Straight(d, n) PROVE Straight(z, n + 1)
  <2>1. Len(d) = n /\ \A i \in 1 .. n : d[i] = i BY <1>5 DEF Straight
  <2>2. \A i \in 1 .. n : z[i] = i BY <2>1
  <2>3. z[n + 1] = n + 1 BY <2>1
  <2>4. DOMAIN z = 1 .. n + 1 /\ z = [i \in 1 .. n + 1 |-> z[i]] BY <1>2, <2>1
  <2> HIDE DEF z
  <2>5. \A i \in 1 .. n + 1 : z[i] = i
    <3>1. \A i \in 1 .. n + 1 : i \in 1 .. n \/ i = n + 1 OBVIOUS
    <3> QED BY <3>1, <2>2, <2>3
  <2>6. z = [i \in 1 .. n + 1 |-> i] BY <2>4, <2>5
  <2> QED BY <2>6 DEF Straight
<1> QED BY <1>4, <1>5

\* How many results a load stands for, and which.
Size(load) == Len(load.ids)
Items(load) == ToSet(load.ids)

\* Two loads together stand for the results of both.
LEMMA PlusItems ==
    ASSUME NEW x \in Loads, NEW y \in Loads
    PROVE  /\ Plus(x, y) \in Loads /\ Size(x) \in Nat /\ Size(y) \in Nat
           /\ Size(Plus(x, y)) = Size(x) + Size(y) /\ Items(Plus(x, y)) = Items(x) \cup Items(y)
<1> DEFINE a == x.ids
           b == y.ids
<1>1. a \in Seq(Nat) /\ b \in Seq(Nat) BY DEF Loads
<1>2. Plus(x, y).ids = a \o b BY DEF Plus
<1>3. Plus(x, y) \in Loads BY LoadAlgebra
<1> HIDE DEF a, b
<1>4. Len(a) \in Nat /\ Len(b) \in Nat BY <1>1
<1>5. Len(a \o b) = Len(a) + Len(b) /\ ToSet(a \o b) = ToSet(a) \cup ToSet(b)
  BY <1>1, JoinedSeq
<1> QED BY <1>2, <1>3, <1>4, <1>5 DEF Size, Items, a, b

\* Payload received before an older one arrives all the same.
LEMMA Overtaken ==
    ASSUME NEW s \in Loads, NEW a \in Loads, NEW l \in Loads, NEW b \in Loads, NEW n,
           Complete(Plus(s, Plus(a, Plus(l, b))).ids, n)
    PROVE  Complete(Plus(Plus(s, l), Plus(a, b)).ids, n)
<1> DEFINE d == Plus(s, Plus(a, Plus(l, b)))
           e == Plus(Plus(s, l), Plus(a, b))
<1>1. Plus(l, b) \in Loads /\ Plus(s, l) \in Loads /\ Plus(a, b) \in Loads BY PlusItems
<1>2. Plus(a, Plus(l, b)) \in Loads BY <1>1, PlusItems
<1>3. /\ Size(s) \in Nat /\ Size(a) \in Nat /\ Size(l) \in Nat /\ Size(b) \in Nat
      /\ Size(Plus(l, b)) = Size(l) + Size(b) /\ Size(Plus(s, l)) = Size(s) + Size(l)
      /\ Size(Plus(a, b)) = Size(a) + Size(b)
  BY PlusItems
<1>4. /\ Size(d) = Size(s) + Size(Plus(a, Plus(l, b)))
      /\ Size(Plus(a, Plus(l, b))) = Size(a) + Size(Plus(l, b))
      /\ Size(e) = Size(Plus(s, l)) + Size(Plus(a, b))
  BY <1>1, <1>2, PlusItems
<1>5. Size(e) = Size(d) BY <1>3, <1>4
<1>6. /\ Items(Plus(l, b)) = Items(l) \cup Items(b) /\ Items(Plus(s, l)) = Items(s) \cup Items(l)
      /\ Items(Plus(a, b)) = Items(a) \cup Items(b)
  BY PlusItems
<1>7. /\ Items(d) = Items(s) \cup Items(Plus(a, Plus(l, b)))
      /\ Items(Plus(a, Plus(l, b))) = Items(a) \cup Items(Plus(l, b))
      /\ Items(e) = Items(Plus(s, l)) \cup Items(Plus(a, b))
  BY <1>1, <1>2, PlusItems
<1>8. Items(e) = Items(d) BY <1>6, <1>7
<1>9. Size(d) = n /\ Items(d) = 1 .. n BY DEF Complete, Size, Items
<1> HIDE DEF d, e
<1>10. Size(e) = n /\ Items(e) = 1 .. n BY <1>5, <1>8, <1>9
<1> QED BY <1>10 DEF Complete, Size, Items, e
\* The interface has not begun to shut the worker down.
IsOpen(u) == u.pc \notin {"closing", "joining", "closed"}

\* What holds of the interface u, the commands q, the worker w, the channel c, the
\* payload s processed, the number n of results made and the flag x of a race.
Kept(u, q, w, c, s, n, x) ==
    IsOpen(u) => /\ Complete(Total(s, w, c).ids, n)
                 /\ ~x => Straight(Total(s, w, c).ids, n)
                 /\ u.in_flight = Cardinality(Requests(q)) + Carried(Way(w, c)).steps

\* The loads in it.
LEMMA TotalFacts ==
    ASSUME NEW s \in Seq(Nat), NEW w, IsWorker(w), NEW c \in Seq(Frames)
    PROVE  /\ Told(s) \in Loads /\ Total(s, w, c) \in Loads
           /\ Total(s, w, c).ids = s \o Carried(Way(w, c)).ids
           /\ Total(s, w, c).ids \in Seq(Nat)
           /\ Carried(Way(w, c)) \in Loads /\ Carried(Way(w, c)).steps \in Nat
<1>1. Told(s) \in Loads BY DEF Told, Loads
<1>2. Carried(Way(w, c)) \in Loads BY WayCarries
<1>3. Total(s, w, c) \in Loads BY <1>1, <1>2, LoadAlgebra DEF Total
<1>4. Carried(Way(w, c)).steps \in Nat /\ Total(s, w, c).ids \in Seq(Nat) BY <1>2, <1>3 DEF Loads
<1>5. Total(s, w, c).ids = Told(s).ids \o Carried(Way(w, c)).ids BY DEF Total, Plus
<1>6. Told(s).ids = s BY DEF Told
<1> QED BY <1>1, <1>2, <1>3, <1>4, <1>5, <1>6

\* A step that carries on what was on its way.
LEMMA SameKept ==
    ASSUME NEW u, NEW q, NEW w, NEW c, NEW s, NEW n, NEW x, Kept(u, q, w, c, s, n, x),
           NEW u2, NEW q2, NEW w2, NEW c2, Carried(Way(w2, c2)) = Carried(Way(w, c)),
           IsOpen(u2) => IsOpen(u), NEW k \in Nat,
           Cardinality(Requests(q)) \in Nat, Carried(Way(w, c)).steps \in Nat,
           Cardinality(Requests(q2)) = Cardinality(Requests(q)) + k,
           u2.in_flight = u.in_flight + k
    PROVE  Kept(u2, q2, w2, c2, s, n, x)
<1>1. Total(s, w2, c2) = Total(s, w, c) BY DEF Total
<1> SUFFICES ASSUME IsOpen(u2)
             PROVE  /\ Complete(Total(s, w, c).ids, n)
                    /\ ~x => Straight(Total(s, w, c).ids, n)
                    /\ u2.in_flight = Cardinality(Requests(q2)) + Carried(Way(w, c)).steps
  BY <1>1 DEF Kept
<1>2. /\ Complete(Total(s, w, c).ids, n)
      /\ ~x => Straight(Total(s, w, c).ids, n)
      /\ u.in_flight = Cardinality(Requests(q)) + Carried(Way(w, c)).steps
  BY DEF Kept
<1> DEFINE a == Cardinality(Requests(q))
           b == Cardinality(Requests(q2))
           d == Carried(Way(w, c)).steps
<1>3. a \in Nat /\ d \in Nat /\ b = a + k /\ u.in_flight = a + d /\ u2.in_flight = u.in_flight + k
  BY <1>2
<1> HIDE DEF a, b, d
<1>4. u2.in_flight = b + d BY <1>3
<1> QED BY <1>2, <1>4 DEF b, d

\* A step that makes a result: the next payload, or none.
LEMMA MoreKept ==
    ASSUME NEW u, NEW q, NEW w, IsWorker(w), NEW c \in Seq(Frames), NEW s \in Seq(Nat),
           NEW n \in Nat, NEW x, Kept(u, q, w, c, s, n, x),
           NEW w2, NEW q2, NEW more \in BOOLEAN, NEW k \in Nat,
           Cardinality(Requests(q)) \in Nat, Cardinality(Requests(q2)) \in Nat,
           Cardinality(Requests(q)) = Cardinality(Requests(q2)) + k,
           Carried(Way(w2, c)) =
             Plus(Carried(Way(w, c)), [ids |-> IF more THEN <<n + 1>> ELSE <<>>, steps |-> k])
    PROVE  Kept(u, q2, w2, c, s, IF more THEN n + 1 ELSE n, x)
<1> DEFINE v == IF more THEN <<n + 1>> ELSE <<>>
           l == [ids |-> v, steps |-> k]
           a == Carried(Way(w, c))
           d == Total(s, w, c).ids
           e == Total(s, w2, c).ids
           i == IF more THEN n + 1 ELSE n
<1>1. v \in Seq(Nat) OBVIOUS
<1>2. l.ids = v /\ l.steps = k /\ l \in Loads
  <2> HIDE DEF v
  <2> QED BY <1>1 DEF Loads
<1>3. Told(s) \in Loads /\ a \in Loads /\ a.steps \in Nat /\ d \in Seq(Nat) BY TotalFacts
<1>4. Carried(Way(w2, c)) = Plus(a, l) OBVIOUS
<1>5. Carried(Way(w2, c)).steps = a.steps + k
  <2> HIDE DEF l, a
  <2> QED BY <1>2, <1>4 DEF Plus
<1>6. e = d \o v
  <2> HIDE DEF a, l
  <2>1. Plus(Told(s), Plus(a, l)) = Plus(Plus(Told(s), a), l) BY <1>2, <1>3, LoadAlgebra
  <2>2. Total(s, w2, c) = Plus(Total(s, w, c), l) BY <2>1, <1>4 DEF Total, a
  <2> HIDE DEF v
  <2>3. Total(s, w2, c).ids = Total(s, w, c).ids \o v BY <2>2, <1>2 DEF Plus
  <2> QED BY <2>3
<1> HIDE DEF d, e, a
<1>7. Complete(d, n) => Complete(e, i)
  <2>1. CASE more BY <2>1, <1>3, <1>6, NextMade
  <2>2. CASE ~more
    <3>1. e = d \o <<>> BY <2>2, <1>6
    <3>2. e = d BY <3>1, <1>3, ConcatEmptySeq
    <3> QED BY <3>2, <2>2
  <2> QED BY <2>1, <2>2
<1>8. Straight(d, n) => Straight(e, i)
  <2>1. CASE more BY <2>1, <1>3, <1>6, NextMade
  <2>2. CASE ~more
    <3>1. e = d \o <<>> BY <2>2, <1>6
    <3>2. e = d BY <3>1, <1>3, ConcatEmptySeq
    <3> QED BY <3>2, <2>2
  <2> QED BY <2>1, <2>2
<1> HIDE DEF i
<1>9. ASSUME IsOpen(u)
      PROVE  u.in_flight = Cardinality(Requests(q2)) + Carried(Way(w2, c)).steps
  <2> DEFINE y == Cardinality(Requests(q))
             z == Cardinality(Requests(q2))
             h == a.steps
  <2>1. y \in Nat /\ z \in Nat /\ h \in Nat /\ y = z + k /\ u.in_flight = y + h
    BY <1>3, <1>9 DEF Kept, a
  <2> HIDE DEF y, z, h
  <2>2. u.in_flight = z + (h + k) BY <2>1
  <2> QED BY <2>2, <1>5 DEF z, h
<1> QED BY <1>7, <1>8, <1>9 DEF Kept, d, e, i

\* The interface processes a result.
LEMMA ReceiveKept ==
    ASSUME NEW u, NEW q, NEW w, IsWorker(w), NEW c \in Seq(Frames), c # <<>>,
           NEW s \in Seq(Nat), NEW n \in Nat, NEW x \in BOOLEAN, Kept(u, q, w, c, s, n, x),
           IsOpen(u), NEW q2, NEW u2,
           Cardinality(Requests(q)) \in Nat, Cardinality(Requests(q2)) = Cardinality(Requests(q)),
           u2.in_flight = IF u.in_flight > Head(c).steps
                          THEN u.in_flight - Head(c).steps ELSE 0,
           NEW y \in BOOLEAN, ~y => ~x /\ w.queued = <<>>
    PROVE  Kept(u2, q2, w, Tail(c), s \o Head(c).ids, n, y)
<1> DEFINE m == Head(c)
           t == Tail(c)
           l == Load(m)
           s2 == s \o m.ids
           r == Carried(Way(w, t))
<1>1. PICK a \in Loads, b \in Loads :
            /\ Carried(Way(w, c)) = Plus(a, Plus(l, b)) /\ r = Plus(a, b)
            /\ w.queued = <<>> => a = Zero
  BY ReceiveSplits
<1>2. m \in Frames /\ t \in Seq(Frames) BY CarriedEnds
<1>3. m.ids \in Seq(Nat) /\ m.steps \in Nat /\ l.ids = m.ids /\ l.steps = m.steps
  BY <1>2 DEF Frames, Load
<1>4. l \in Loads /\ Told(s) \in Loads BY <1>2, LoadAlgebra, TotalFacts
<1>5. /\ Complete(Total(s, w, c).ids, n) /\ (~x => Straight(Total(s, w, c).ids, n))
      /\ u.in_flight = Cardinality(Requests(q)) + Carried(Way(w, c)).steps
  BY DEF Kept
<1>6. Total(s2, w, t).ids = Plus(Plus(Told(s), l), r).ids
  <2>1. /\ Total(s2, w, t).ids = s2 \o r.ids
        /\ Plus(Plus(Told(s), l), r).ids = (s \o l.ids) \o r.ids
    BY DEF Total, Plus, Told
  <2> HIDE DEF r, l
  <2> QED BY <2>1, <1>3
<1>7. Total(s, w, c).ids = Plus(Told(s), Plus(a, Plus(l, b))).ids BY <1>1 DEF Total
<1> HIDE DEF l, r, t
<1>8. Complete(Total(s2, w, t).ids, n)
  <2>1. Complete(Plus(Told(s), Plus(a, Plus(l, b))).ids, n) BY <1>5, <1>7
  <2>2. Complete(Plus(Plus(Told(s), l), Plus(a, b)).ids, n) BY <2>1, <1>1, <1>4, Overtaken
  <2> QED BY <2>2, <1>1, <1>6
<1>9. ASSUME ~y PROVE Straight(Total(s2, w, t).ids, n)
  <2>1. a = Zero /\ ~x BY <1>1, <1>9
  <2>2. r = b /\ Plus(a, Plus(l, b)) = Plus(l, b) /\ Plus(l, b) \in Loads
    BY <1>1, <1>4, <2>1, LoadAlgebra
  <2>3. Plus(Plus(Told(s), l), b) = Plus(Told(s), Plus(l, b)) BY <1>1, <1>4, LoadAlgebra
  <2>4. Total(s2, w, t).ids = Total(s, w, c).ids BY <1>6, <1>7, <2>2, <2>3
  <2> QED BY <2>1, <2>4, <1>5
<1>10. u2.in_flight = Cardinality(Requests(q2)) + r.steps
  <2> DEFINE i == Cardinality(Requests(q))
             j == a.steps
             k == b.steps
             h == m.steps
             v == Carried(Way(w, c)).steps
  <2>1. j \in Nat /\ k \in Nat BY <1>1 DEF Loads
  <2>2. r.steps = j + k BY <1>1 DEF Plus
  <2>3. v = j + (l.steps + k) BY <1>1 DEF Plus
  <2>4. /\ i \in Nat /\ h \in Nat /\ v = j + (h + k) /\ u.in_flight = i + v
        /\ u2.in_flight = IF u.in_flight > h THEN u.in_flight - h ELSE 0
    BY <1>3, <1>5, <2>3
  <2> HIDE DEF i, j, k, h, v
  <2>5. u2.in_flight = i + (j + k) BY <2>1, <2>4
  <2> QED BY <2>2, <2>5 DEF i
<1> QED BY <1>8, <1>9, <1>10 DEF Kept, r, t
-----------------------------------------------------------------------------
(* Nothing is lost, whatever the two threads do.                           *)

UiStates ==
    [pc : {"drain", "work", "ask", "wait", "closing", "joining", "closed"},
     in_flight : Nat, uncapped : BOOLEAN, fault : BOOLEAN]

DeliveryTypes ==
    /\ cmds \in Seq(Commands) /\ channel \in Seq(Frames) /\ IsWorker(worker)
    /\ ui \in UiStates /\ made \in Nat /\ seen \in Seq(Nat) /\ raced \in BOOLEAN

DeliveryInv == DeliveryTypes /\ Kept(ui, cmds, worker, channel, seen, made, raced)

\* The numbers in it.
LEMMA DeliveryFacts ==
    ASSUME DeliveryTypes
    PROVE  /\ Cardinality(Requests(cmds)) \in Nat /\ Carried(Way(worker, channel)).steps \in Nat
           /\ Carried(Way(worker, channel)) \in Loads
           /\ cmds # <<>> =>
                /\ Tail(cmds) \in Seq(Commands)
                /\ Cardinality(Requests(Tail(cmds))) \in Nat
                /\ Cardinality(Requests(cmds)) =
                     Cardinality(Requests(Tail(cmds))) + (IF Head(cmds) = "step" THEN 1 ELSE 0)
           /\ \A m \in Commands :
                /\ Append(cmds, m) \in Seq(Commands)
                /\ Cardinality(Requests(Append(cmds, m))) =
                     Cardinality(Requests(cmds)) + (IF m = "step" THEN 1 ELSE 0)
<1>1. cmds \in Seq(Commands) BY DEF DeliveryTypes
<1>2. Carried(Way(worker, channel)).steps \in Nat /\ Carried(Way(worker, channel)) \in Loads
  BY TotalFacts DEF DeliveryTypes
<1>3. Cardinality(Requests(cmds)) \in Nat BY <1>1, RequestsFinite
<1>4. ASSUME cmds # <<>>
      PROVE  /\ Tail(cmds) \in Seq(Commands)
             /\ Cardinality(Requests(Tail(cmds))) \in Nat
             /\ Cardinality(Requests(cmds)) =
                  Cardinality(Requests(Tail(cmds))) + (IF Head(cmds) = "step" THEN 1 ELSE 0)
  <2>1. Tail(cmds) \in Seq(Commands) BY <1>1, <1>4
  <2>2. Cardinality(Requests(Tail(cmds))) \in Nat BY <2>1, RequestsFinite
  <2> DEFINE a == Cardinality(Requests(cmds))
             b == Cardinality(Requests(Tail(cmds)))
             e == IF Head(cmds) = "step" THEN 1 ELSE 0
  <2>3. b = a - e BY <1>1, <1>4, RequestsTail
  <2>4. a \in Nat /\ b \in Nat /\ e \in Nat BY <1>3, <2>2
  <2> HIDE DEF a, b, e
  <2>5. a = b + e BY <2>3, <2>4
  <2> QED BY <2>1, <2>2, <2>5 DEF a, b, e
<1>5. ASSUME NEW m \in Commands
      PROVE  /\ Append(cmds, m) \in Seq(Commands)
             /\ Cardinality(Requests(Append(cmds, m))) =
                  Cardinality(Requests(cmds)) + (IF m = "step" THEN 1 ELSE 0)
  <2>1. Append(cmds, m) \in Seq(Commands) BY <1>1, AppendProperties
  <2> QED BY <2>1, <1>1, RequestsAppend
<1> QED BY <1>2, <1>3, <1>4, <1>5

\* A step that neither makes nor processes a result.
LEMMA SameInv ==
    ASSUME DeliveryInv, IsWorker(worker'), channel' \in Seq(Frames),
           Carried(Way(worker', channel')) = Carried(Way(worker, channel)),
           cmds' \in Seq(Commands), ui' \in UiStates, IsOpen(ui') => IsOpen(ui), NEW k \in Nat,
           Cardinality(Requests(cmds')) = Cardinality(Requests(cmds)) + k,
           ui'.in_flight = ui.in_flight + k, UNCHANGED <<made, seen, raced>>
    PROVE  DeliveryInv'
<1>1. DeliveryTypes' BY DEF DeliveryInv, DeliveryTypes
<1>2. made' = made /\ seen' = seen /\ raced' = raced OBVIOUS
<1>3. /\ Kept(ui, cmds, worker, channel, seen, made, raced)
      /\ Cardinality(Requests(cmds)) \in Nat /\ Carried(Way(worker, channel)).steps \in Nat
  BY DeliveryFacts DEF DeliveryInv
<1>4. Kept(ui', cmds', worker', channel', seen, made, raced) BY <1>3, SameKept
<1> QED BY <1>1, <1>2, <1>4 DEF DeliveryInv

\* A step of the worker alone that only moves results.
LEMMA MoveInv ==
    ASSUME DeliveryInv, Goes(worker', channel', worker, channel),
           UNCHANGED <<cmds, ui, made, seen, raced>>
    PROVE  DeliveryInv'
<1>1. /\ cmds' = cmds /\ ui' = ui /\ made' = made /\ seen' = seen /\ raced' = raced OBVIOUS
<1>2. /\ cmds \in Seq(Commands) /\ ui \in UiStates /\ Cardinality(Requests(cmds)) \in Nat
      /\ ui.in_flight \in Nat
  BY DeliveryFacts DEF DeliveryInv, DeliveryTypes, UiStates
<1>3. /\ IsWorker(worker') /\ channel' \in Seq(Frames)
      /\ Carried(Way(worker', channel')) = Carried(Way(worker, channel))
  BY DEF Goes
<1>4. /\ Cardinality(Requests(cmds')) = Cardinality(Requests(cmds)) + 0
      /\ ui'.in_flight = ui.in_flight + 0
  BY <1>1, <1>2
<1> QED BY <1>1, <1>2, <1>3, <1>4, SameInv

\* The machine has advanced, or could not.
LEMMA AdvancedGoes ==
    ASSUME NEW w, IsWorker(w), w.pc = "loop", NEW c \in Seq(Frames), made \in Nat,
           NEW faulty \in BOOLEAN, NEW k \in Nat
    PROVE  /\ IsWorker(Advanced(w, faulty, k))
           /\ Carried(Way(Advanced(w, faulty, k), c)) =
                Plus(Carried(Way(w, c)),
                     [ids |-> IF w.fault = "none" THEN <<made + 1>> ELSE <<>>, steps |-> k])
<1> DEFINE ids == IF w.fault = "none" THEN <<made + 1>> ELSE <<>>
           r == Frame(ids, k, faulty)
           x == [w EXCEPT !.fault = IF faulty THEN "told" ELSE w.fault,
                          !.uncapped = w.uncapped /\ ~faulty /\ w.fault = "none"]
<1>1. Advanced(w, faulty, k) = Deliver(x, r) BY DEF Advanced
<1>2. ids \in Seq(Nat) OBVIOUS
<1> HIDE DEF ids
<1>3. r \in Frames /\ Load(r) = [ids |-> ids, steps |-> k] BY <1>2 DEF Frame, Frames, Load
<1>4. IsWorker(x) /\ x.pc = "loop"
  <2> DEFINE f == IF faulty THEN "told" ELSE w.fault
             p == w.uncapped /\ ~faulty /\ w.fault = "none"
  <2>1. f \in {"none", "told"} BY DEF IsWorker
  <2>2. p \in BOOLEAN OBVIOUS
  <2>3. p => f = "none" OBVIOUS
  <2>4. x = [w EXCEPT !.fault = f, !.uncapped = p] OBVIOUS
  <2> HIDE DEF f, p, x
  <2> QED BY <2>1, <2>2, <2>3, <2>4 DEF IsWorker
<1>5. Way(x, c) = Way(w, c)
  <2>1. x.queued = w.queued /\ x.outbox = w.outbox /\ x.pc = w.pc /\ x.result = w.result
    BY DEF IsWorker
  <2> HIDE DEF x
  <2> QED BY <2>1 DEF Way
<1> HIDE DEF x, r
<1>6. /\ IsWorker(Deliver(x, r))
      /\ Carried(Way(Deliver(x, r), c)) = Plus(Carried(Way(x, c)), Load(r))
  BY <1>3, <1>4, DeliverGoes
<1> QED BY <1>1, <1>3, <1>5, <1>6 DEF ids

\* StepFrames, and an uncapped batch.
LEMMA AdvanceInv ==
    ASSUME DeliveryInv, worker.pc = "loop", NEW faulty \in BOOLEAN, NEW k \in Nat,
           worker' = Advanced(worker, faulty, k), cmds' \in Seq(Commands),
           Cardinality(Requests(cmds')) \in Nat,
           Cardinality(Requests(cmds)) = Cardinality(Requests(cmds')) + k,
           made' = IF worker.fault = "none" THEN made + 1 ELSE made,
           UNCHANGED <<channel, ui, seen, raced>>
    PROVE  DeliveryInv'
<1> DEFINE more == worker.fault = "none"
           l == [ids |-> IF more THEN <<made + 1>> ELSE <<>>, steps |-> k]
<1>1. /\ channel' = channel /\ ui' = ui /\ seen' = seen /\ raced' = raced OBVIOUS
<1>2. /\ IsWorker(worker) /\ channel \in Seq(Frames) /\ made \in Nat /\ seen \in Seq(Nat)
      /\ ui \in UiStates /\ raced \in BOOLEAN
      /\ Kept(ui, cmds, worker, channel, seen, made, raced)
      /\ Cardinality(Requests(cmds)) \in Nat
  BY DeliveryFacts DEF DeliveryInv, DeliveryTypes
<1>3. IsWorker(worker') /\ Carried(Way(worker', channel)) = Plus(Carried(Way(worker, channel)), l)
  BY <1>2, AdvancedGoes
<1>4. DeliveryTypes' BY <1>1, <1>2, <1>3 DEF DeliveryTypes
<1>5. more \in BOOLEAN OBVIOUS
<1>6. made' = IF more THEN made + 1 ELSE made OBVIOUS
<1> HIDE DEF more
<1>7. Kept(ui, cmds', worker', channel, seen, IF more THEN made + 1 ELSE made, raced)
  BY <1>2, <1>3, <1>5, MoreKept
<1> QED BY <1>1, <1>4, <1>6, <1>7 DEF DeliveryInv
\* StepFrames.
LEMMA StepDelivers == DeliveryInv /\ Step => DeliveryInv'
<1> SUFFICES ASSUME DeliveryInv, Step PROVE DeliveryInv' OBVIOUS
<1>1. PICK faulty \in MayFault(worker) : worker' = Advanced(worker, faulty, 1) BY DEF Step
<1>2. faulty \in BOOLEAN BY <1>1 DEF MayFault
<1>3. /\ worker.pc = "loop" /\ cmds # <<>> /\ Head(cmds) = "step" /\ cmds' = Tail(cmds)
      /\ made' = (IF worker.fault = "none" THEN made + 1 ELSE made)
      /\ UNCHANGED <<channel, ui, seen, raced>>
  BY DEF Step
<1>4. DeliveryTypes BY DEF DeliveryInv
<1>5. /\ cmds' \in Seq(Commands) /\ Cardinality(Requests(cmds')) \in Nat
      /\ Cardinality(Requests(cmds)) = Cardinality(Requests(cmds')) + 1
  BY <1>3, <1>4, DeliveryFacts
<1>6. 1 \in Nat OBVIOUS
<1> QED BY <1>1, <1>2, <1>3, <1>5, <1>6, AdvanceInv

\* run_uncapped_batch.
LEMMA BatchInv == DeliveryInv /\ Batch => DeliveryInv'
<1> SUFFICES ASSUME DeliveryInv, Batch PROVE DeliveryInv' OBVIOUS
<1>1. PICK faulty \in MayFault(worker) : worker' = Advanced(worker, faulty, 0) BY DEF Batch
<1>2. faulty \in BOOLEAN BY <1>1 DEF MayFault
<1>3. DeliveryTypes BY DEF DeliveryInv
<1>4. worker.fault = "none" BY <1>3 DEF Batch, DeliveryTypes, IsWorker
<1>5. /\ worker.pc = "loop" /\ cmds' = cmds
      /\ made' = (IF worker.fault = "none" THEN made + 1 ELSE made)
      /\ UNCHANGED <<channel, ui, seen, raced>>
  BY <1>4 DEF Batch
<1>6. cmds \in Seq(Commands) /\ Cardinality(Requests(cmds)) \in Nat
  BY <1>3, DeliveryFacts DEF DeliveryTypes
<1>7. /\ cmds' \in Seq(Commands) /\ Cardinality(Requests(cmds')) \in Nat
      /\ Cardinality(Requests(cmds)) = Cardinality(Requests(cmds')) + 0
  BY <1>5, <1>6
<1>8. 0 \in Nat OBVIOUS
<1> QED BY <1>1, <1>2, <1>5, <1>7, <1>8, AdvanceInv

\* The other commands the worker takes.
LEMMA CommandInv == DeliveryInv /\ (SetUncapped \/ Answer \/ Shutdown) => DeliveryInv'
<1> SUFFICES ASSUME DeliveryInv, SetUncapped \/ Answer \/ Shutdown PROVE DeliveryInv'
  OBVIOUS
<1>1. DeliveryTypes BY DEF DeliveryInv
<1>2. /\ worker.pc = "loop" /\ cmds # <<>> /\ Head(cmds) # "step" /\ cmds' = Tail(cmds)
      /\ channel' = channel /\ ui' = ui /\ made' = made /\ seen' = seen /\ raced' = raced
  BY DEF SetUncapped, Answer, Shutdown, history
<1>3. /\ cmds' \in Seq(Commands) /\ Cardinality(Requests(cmds')) \in Nat
      /\ Cardinality(Requests(cmds)) = Cardinality(Requests(cmds')) + 0
  BY <1>1, <1>2, DeliveryFacts
<1>4. Cardinality(Requests(cmds')) = Cardinality(Requests(cmds)) + 0 BY <1>3
<1>5. /\ IsWorker(worker) /\ channel \in Seq(Frames) /\ ui \in UiStates /\ ui.in_flight \in Nat
  BY <1>1 DEF DeliveryTypes, UiStates
<1>6. \/ \E b : worker' = [worker EXCEPT !.uncapped = b] /\ b \in BOOLEAN
                /\ (b => worker.fault = "none")
      \/ worker' = worker
      \/ worker' = [worker EXCEPT !.pc = "exited"]
  BY DEF SetUncapped, Answer, Shutdown
<1>7. /\ IsWorker(worker') /\ worker'.queued = worker.queued /\ worker'.outbox = worker.outbox
      /\ worker'.result = worker.result /\ worker'.pc \in {"loop", "exited"}
  <2>1. ASSUME NEW b \in BOOLEAN, worker' = [worker EXCEPT !.uncapped = b],
               b => worker.fault = "none"
        PROVE  <1>7
    BY <2>1, <1>2, <1>5 DEF IsWorker
  <2>2. CASE worker' = worker BY <2>2, <1>2, <1>5
  <2>3. CASE worker' = [worker EXCEPT !.pc = "exited"] BY <2>3, <1>2, <1>5 DEF IsWorker
  <2> QED BY <1>6, <2>1, <2>2, <2>3
<1>8. Carried(Way(worker', channel')) = Carried(Way(worker, channel))
  BY <1>2, <1>7 DEF Way
<1>9. ui'.in_flight = ui.in_flight + 0 /\ 0 \in Nat BY <1>2, <1>5
<1> QED BY <1>2, <1>3, <1>4, <1>5, <1>7, <1>8, <1>9, SameInv

\* send_frame.
LEMMA SendingInv == DeliveryInv /\ (TrySend \/ Drain \/ Send) => DeliveryInv'
<1> SUFFICES ASSUME DeliveryInv, TrySend \/ Drain \/ Send PROVE DeliveryInv' OBVIOUS
<1>1. /\ IsWorker(worker) /\ channel \in Seq(Frames) BY DEF DeliveryInv, DeliveryTypes
<1>2. UNCHANGED <<cmds, ui, made, seen, raced>> BY DEF TrySend, Drain, Send, history
<1>3. Goes(worker', channel', worker, channel)
  <2>1. CASE TrySend
    <3>1. CASE Full BY <3>1, <2>1, <1>1, TryGoes DEF TrySend
    <3>2. CASE ~Full BY <3>2, <2>1, <1>1, TryGoes DEF TrySend
    <3> QED BY <3>1, <3>2
  <2>2. CASE Drain
    <3>1. CASE channel # <<>> BY <3>1, <2>2, <1>1, TakeGoes DEF Drain
    <3>2. CASE channel = <<>> BY <3>2, <2>2, <1>1, ResendGoes DEF Drain
    <3> QED BY <3>1, <3>2
  <2>3. CASE Send BY <2>3, <1>1, SendGoes DEF Send
  <2> QED BY <2>1, <2>2, <2>3
<1> QED BY <1>2, <1>3, MoveInv

\* process_frame_result.
LEMMA ReceiveInv == DeliveryInv /\ Receive => DeliveryInv'
<1> SUFFICES ASSUME DeliveryInv, Receive PROVE DeliveryInv' OBVIOUS
<1> DEFINE m == Head(channel)
<1>1. DeliveryTypes BY DEF DeliveryInv
<1>2. /\ cmds \in Seq(Commands) /\ IsWorker(worker) /\ channel \in Seq(Frames) /\ ui \in UiStates
      /\ made \in Nat /\ seen \in Seq(Nat) /\ raced \in BOOLEAN
      /\ Kept(ui, cmds, worker, channel, seen, made, raced)
  BY DEF DeliveryInv, DeliveryTypes
<1>3. /\ ui.pc \in {"drain", "ask"} /\ channel # <<>> /\ channel' = Tail(channel)
      /\ ui' = Processed(ui, m) /\ cmds' = (IF m.fault THEN Append(cmds, "cap") ELSE cmds)
      /\ seen' = seen \o m.ids /\ worker' = worker /\ made' = made
      /\ raced' = (raced \/ (worker.pc = "drain" /\ worker.queued # <<>>))
  BY DEF Receive
<1>4. m \in Frames /\ Tail(channel) \in Seq(Frames) BY <1>2, <1>3, CarriedEnds
<1>5. m.ids \in Seq(Nat) /\ m.steps \in Nat /\ m.fault \in BOOLEAN BY <1>4 DEF Frames
<1> HIDE DEF m
<1>6. "cap" \in Commands /\ "cap" # "step" BY DEF Commands, StepCommands
<1>7. /\ cmds' \in Seq(Commands) /\ Cardinality(Requests(cmds)) \in Nat
      /\ Cardinality(Requests(cmds')) = Cardinality(Requests(cmds))
  <2> DEFINE k == Cardinality(Requests(cmds))
             l == Append(cmds, "cap")
             k1 == Cardinality(Requests(l))
  <2>1. k \in Nat BY <1>1, DeliveryFacts
  <2>2. l \in Seq(Commands) /\ k1 = k + 0
    BY <1>1, <1>6, DeliveryFacts
  <2> HIDE DEF k, l, k1
  <2>3. k1 = k BY <2>1, <2>2
  <2>4. CASE m.fault
    <3>1. cmds' = l BY <1>3, <2>4 DEF l
    <3> QED BY <2>1, <2>2, <2>3, <3>1 DEF k, k1
  <2>5. CASE ~m.fault
    <3>1. cmds' = cmds BY <1>3, <2>5
    <3> QED BY <1>2, <2>1, <3>1 DEF k
  <2> QED BY <2>4, <2>5
<1>8. /\ ui' \in UiStates /\ ui'.pc = ui.pc
      /\ ui'.in_flight = IF ui.in_flight > m.steps THEN ui.in_flight - m.steps ELSE 0
  <2> DEFINE i == IF ui.in_flight > m.steps THEN ui.in_flight - m.steps ELSE 0
             f == ui.fault \/ m.fault
             b == ui.uncapped /\ ~m.fault
  <2>1. ui' = [ui EXCEPT !.in_flight = i, !.fault = f, !.uncapped = b] BY <1>3 DEF Processed
  <2>2. ui.in_flight \in Nat BY <1>2 DEF UiStates
  <2>3. i \in Nat BY <1>5, <2>2
  <2>4. f \in BOOLEAN /\ b \in BOOLEAN BY <1>2, <1>5 DEF UiStates
  <2> HIDE DEF i, f, b
  <2>5. ui' \in UiStates /\ ui'.pc = ui.pc /\ ui'.in_flight = i
    BY <1>2, <2>1, <2>3, <2>4 DEF UiStates
  <2> QED BY <2>5 DEF i
<1>9. seen' \in Seq(Nat) BY <1>2, <1>3, <1>5, JoinedSeq
<1>10. raced' \in BOOLEAN BY <1>3
<1>11. ~raced' => ~raced /\ worker.queued = <<>> BY <1>2, <1>3 DEF IsWorker
<1>12. DeliveryTypes' BY <1>2, <1>3, <1>4, <1>7, <1>8, <1>9, <1>10 DEF DeliveryTypes
<1>13. IsOpen(ui) BY <1>3 DEF IsOpen
<1>14. Kept(ui', cmds', worker, Tail(channel), seen \o m.ids, made, raced')
  BY <1>2, <1>3, <1>7, <1>8, <1>10, <1>11, <1>13, ReceiveKept DEF m
<1> QED BY <1>3, <1>12, <1>14 DEF DeliveryInv

\* The interface sends a command or turns to something else.
LEMMA InterfaceInv ==
    DeliveryInv /\ (Drained \/ RequestStep \/ Idle \/ Toggle \/ Ask \/ Answered \/ Close \/ Join)
        => DeliveryInv'
<1> SUFFICES ASSUME DeliveryInv, Drained \/ RequestStep \/ Idle \/ Toggle \/ Ask \/ Answered
                                     \/ Close \/ Join
             PROVE  DeliveryInv'
  OBVIOUS
<1>1. DeliveryTypes BY DEF DeliveryInv
<1>2. /\ cmds \in Seq(Commands) /\ IsWorker(worker) /\ channel \in Seq(Frames) /\ ui \in UiStates
      /\ ui.in_flight \in Nat /\ Cardinality(Requests(cmds)) \in Nat
  BY <1>1, DeliveryFacts DEF DeliveryTypes, UiStates
<1>3. /\ channel' = channel /\ worker' = worker /\ made' = made /\ seen' = seen /\ raced' = raced
  BY DEF Drained, RequestStep, Idle, Toggle, Ask, Answered, Close, Join, history
<1>4. CASE RequestStep
  <2>1. /\ cmds' = Append(cmds, "step") /\ "step" \in Commands
        /\ ui' = [ui EXCEPT !.pc = "drain", !.in_flight = ui.in_flight + 1] /\ ui.pc = "work"
    BY <1>4 DEF RequestStep, Commands, StepCommands
  <2>2. /\ cmds' \in Seq(Commands)
        /\ Cardinality(Requests(cmds')) = Cardinality(Requests(cmds)) + 1
    BY <1>1, <2>1, DeliveryFacts
  <2> DEFINE i == ui.in_flight + 1
  <2>3. i \in Nat BY <1>2
  <2>4. ui' = [ui EXCEPT !.pc = "drain", !.in_flight = i] BY <2>1
  <2> HIDE DEF i
  <2>5. ui' \in UiStates /\ ui'.in_flight = i BY <1>2, <2>3, <2>4 DEF UiStates
  <2>6. IsOpen(ui) BY <2>1 DEF IsOpen
  <2>7. ui'.in_flight = ui.in_flight + 1 /\ 1 \in Nat BY <2>5 DEF i
  <2> QED BY <1>2, <1>3, <2>2, <2>5, <2>6, <2>7, SameInv
<1>5. CASE Drained \/ Idle \/ Toggle \/ Ask \/ Answered \/ Close \/ Join
  <2>1. \/ cmds' = cmds
        \/ \E m \in Commands : m # "step" /\ cmds' = Append(cmds, m)
    BY <1>5 DEF Drained, Idle, Toggle, Ask, Answered, Close, Join, Commands, StepCommands
  <2>2. /\ cmds' \in Seq(Commands)
        /\ Cardinality(Requests(cmds')) = Cardinality(Requests(cmds)) + 0
    <3>1. CASE cmds' = cmds BY <3>1, <1>2
    <3>2. CASE \E m \in Commands : m # "step" /\ cmds' = Append(cmds, m)
      <4>1. PICK m \in Commands : m # "step" /\ cmds' = Append(cmds, m) BY <3>2
      <4> QED BY <4>1, <1>1, DeliveryFacts
    <3> QED BY <2>1, <3>1, <3>2
  <2>3. ui' \in UiStates /\ ui'.in_flight = ui.in_flight
    BY <1>2, <1>5 DEF Drained, Idle, Toggle, Ask, Answered, Close, Join, UiStates
  <2>4. IsOpen(ui') => IsOpen(ui)
    BY <1>2, <1>5 DEF Drained, Idle, Toggle, Ask, Answered, Close, Join, UiStates, IsOpen
  <2>5. ui'.in_flight = ui.in_flight + 0 /\ 0 \in Nat BY <2>3, <1>2
  <2> QED BY <1>2, <1>3, <2>2, <2>3, <2>4, <2>5, SameInv
<1> QED BY <1>4, <1>5

\* The drain of a shutdown: from there on nothing is promised.
LEMMA DiscardInv == DeliveryInv /\ Discard => DeliveryInv'
<1> SUFFICES ASSUME DeliveryInv, Discard PROVE DeliveryInv' OBVIOUS
<1>1. DeliveryTypes BY DEF DeliveryInv
<1>2. /\ cmds' = cmds /\ worker' = worker /\ made' = made /\ seen' = seen /\ raced' = raced
      /\ ui.pc = "closing"
  BY DEF Discard, history
<1>3. channel' \in Seq(Frames) /\ ui' \in UiStates /\ ~IsOpen(ui')
  <2>1. CASE channel # <<>>
    <3>1. channel' = Tail(channel) /\ ui' = ui BY <2>1 DEF Discard
    <3>2. Tail(channel) \in Seq(Frames) BY <1>1, <2>1 DEF DeliveryTypes
    <3> QED BY <3>1, <3>2, <1>1, <1>2 DEF DeliveryTypes, IsOpen
  <2>2. CASE channel = <<>>
    <3>1. channel' = channel /\ ui' = [ui EXCEPT !.pc = "joining"] BY <2>2 DEF Discard
    <3> QED BY <3>1, <1>1 DEF DeliveryTypes, UiStates, IsOpen
  <2> QED BY <2>1, <2>2
<1>4. DeliveryTypes' BY <1>1, <1>2, <1>3 DEF DeliveryTypes
<1>5. Kept(ui', cmds', worker', channel', seen', made', raced') BY <1>3 DEF Kept
<1> QED BY <1>4, <1>5 DEF DeliveryInv

\* At the start nothing has been made and nothing is on its way.
LEMMA DeliveryStart == Init => DeliveryInv
<1> SUFFICES ASSUME Init PROVE DeliveryInv OBVIOUS
<1>1. /\ cmds = <<>> /\ channel = <<>> /\ made = 0 /\ seen = <<>> /\ raced = FALSE
      /\ worker = [pc |-> "loop", uncapped |-> FALSE, fault |-> "none",
                   result |-> NoFrame, queued |-> <<>>, outbox |-> <<>>]
      /\ ui = [pc |-> "drain", in_flight |-> 0, uncapped |-> FALSE, fault |-> FALSE]
  BY DEF Init
<1>2. <<>> \in Seq(Frames) /\ <<>> \in Seq(Commands) /\ <<>> \in Seq(Nat) /\ NoFrame \in Frames
  BY NoFrameType
<1>3. /\ IsWorker(worker) /\ worker.pc = "loop" /\ worker.queued = <<>> /\ worker.outbox = <<>>
  BY <1>1, <1>2 DEF IsWorker
<1>4. ui \in UiStates /\ ui.in_flight = 0 BY <1>1 DEF UiStates
<1>5. DeliveryTypes BY <1>1, <1>2, <1>3, <1>4 DEF DeliveryTypes
<1>6. Carried(Way(worker, channel)) = Zero
  <2>1. Pending(worker) = Zero BY <1>3 DEF Pending
  <2>2. Carried(Way(worker, channel)) = Plus(Plus(Plus(Zero, Zero), Zero), Zero)
    BY <2>1, <1>1, <1>2, <1>3, WayCarries, CarriedNone
  <2> QED BY <2>2, LoadAlgebra
<1>7. Total(seen, worker, channel).ids = <<>>
  <2>1. Told(<<>>) = Zero BY DEF Told, Zero
  <2>2. Total(seen, worker, channel) = Zero BY <2>1, <1>1, <1>6, LoadAlgebra DEF Total
  <2> QED BY <2>2 DEF Zero
<1>8. Complete(<<>>, 0) /\ Straight(<<>>, 0)
  <2>1. Len(<<>>) = 0 /\ ToSet(<<>>) = {} /\ 1 .. 0 = {} BY DEF ToSet
  <2>2. <<>> = [i \in 1 .. 0 |-> i] OBVIOUS
  <2> QED BY <2>1, <2>2 DEF Complete, Straight
<1>9. Carried(Way(worker, channel)).steps = 0 BY <1>6 DEF Zero
<1>10. Kept(ui, cmds, worker, channel, seen, made, raced)
  BY <1>1, <1>4, <1>7, <1>8, <1>9, RequestsNone DEF Kept
<1> QED BY <1>5, <1>10 DEF DeliveryInv

\* Every step of the two threads keeps the invariant.
LEMMA DeliveryNext == DeliveryInv /\ [Next]_vars => DeliveryInv'
<1> SUFFICES ASSUME DeliveryInv, [Next]_vars PROVE DeliveryInv' OBVIOUS
<1>1. CASE Step BY <1>1, StepDelivers
<1>2. CASE SetUncapped \/ Answer \/ Shutdown BY <1>2, CommandInv
<1>3. CASE Batch BY <1>3, BatchInv
<1>4. CASE TrySend \/ Drain \/ Send BY <1>4, SendingInv
<1>5. CASE Receive BY <1>5, ReceiveInv
<1>6. CASE Drained \/ RequestStep \/ Idle \/ Toggle \/ Ask \/ Answered \/ Close \/ Join
  BY <1>6, InterfaceInv
<1>7. CASE Discard BY <1>7, DiscardInv
<1>8. CASE UNCHANGED vars
  <2>1. /\ cmds' = cmds /\ channel' = channel /\ worker' = worker /\ ui' = ui
        /\ made' = made /\ seen' = seen /\ raced' = raced
    BY <1>8 DEF vars
  <2> QED BY <2>1 DEF DeliveryInv, DeliveryTypes
<1>9. CASE Worker BY <1>1, <1>2, <1>3, <1>4, <1>9 DEF Worker
<1>10. CASE Interface BY <1>5, <1>6, <1>7, <1>10 DEF Interface
<1> QED BY <1>8, <1>9, <1>10 DEF Next

\* What the invariant says of the state in the words of the properties.
LEMMA DeliveryHolds == DeliveryInv => NothingLost /\ InOrder /\ InFlightExact
<1> SUFFICES ASSUME DeliveryInv PROVE NothingLost /\ InOrder /\ InFlightExact OBVIOUS
<1>1. OnItsWay = Way(worker, channel) BY DEF OnItsWay, Way
<1>2. /\ seen \in Seq(Nat) /\ IsWorker(worker) /\ channel \in Seq(Frames)
      /\ Kept(ui, cmds, worker, channel, seen, made, raced)
  BY DEF DeliveryInv, DeliveryTypes
<1>3. Delivered = seen \o Carried(Way(worker, channel)).ids BY <1>1 DEF Delivered
<1>4. Delivered = Total(seen, worker, channel).ids BY <1>2, <1>3, TotalFacts
<1>5. Open <=> IsOpen(ui) BY DEF Open, IsOpen
<1>6. Open => /\ Complete(Delivered, made)
              /\ ~raced => Straight(Delivered, made)
              /\ ui.in_flight = Cardinality(Requests(cmds)) + Carried(OnItsWay).steps
  BY <1>1, <1>2, <1>4, <1>5 DEF Kept
<1>7. NothingLost BY <1>6 DEF NothingLost, Complete
<1>8. InOrder BY <1>6 DEF InOrder, Straight
<1>9. InFlightExact BY <1>6 DEF InFlightExact
<1> QED BY <1>7, <1>8, <1>9

\* The invariant behind the three theorems below: the states of both threads are
\* well formed, and until the interface closes the worker what it has processed
\* together with what is on its way holds every result made, once, and the step
\* requests open are those queued and those carried.
THEOREM DeliveryInvariant == Spec => []DeliveryInv
<1>1. Init => DeliveryInv BY DeliveryStart
<1>2. DeliveryInv /\ [Next]_vars => DeliveryInv' BY DeliveryNext
<1> QED BY <1>1, <1>2, PTL DEF Spec

\* send_frame loses and doubles no payload, for every capacity of the channel, every
\* bound on open requests and every interleaving of its try_send, drain and sends
\* with the receives of the interface.
THEOREM NothingIsLost == Spec => []NothingLost
<1>1. DeliveryInv => NothingLost BY DeliveryHolds
<1> QED BY <1>1, DeliveryInvariant, PTL

\* The payloads arrive in the order they were made as long as the interface has not
\* received in the middle of a drain.
THEOREM ArriveInOrder == Spec => []InOrder
<1>1. DeliveryInv => InOrder BY DeliveryHolds
<1> QED BY <1>1, DeliveryInvariant, PTL

\* frames_in_flight counts exactly the step requests that wait in the command queue
\* and those a result on its way completes, through every merge of merge_replaced_frame.
THEOREM InFlightIsExact == Spec => []InFlightExact
<1>1. DeliveryInv => InFlightExact BY DeliveryHolds
<1> QED BY <1>1, DeliveryInvariant, PTL
=============================================================================
