--------------------------- MODULE FrameDelivery ----------------------------
(***************************************************************************)
(* How frame results travel from the emulation thread to the interface     *)
(* (src/emu_thread/runner.rs, emu_loop.rs, native.rs, the tick of src/app).*)
(* The channel between them is bounded.  The worker, which also holds a    *)
(* receiver, merges what the interface has not fetched into its newest     *)
(* result rather than wait, once; after that, and for a result that must   *)
(* not be merged, it blocks until there is room.                           *)
(*                                                                         *)
(* A frame result is reduced to its payload (the numbers of the results    *)
(* whose replay events, printer jobs, semantic audio and counts it carries,*)
(* in order; audio samples are dropped when the playback speed changes),   *)
(* the step requests it completes, whether it was merged, and whether it   *)
(* reports the runtime fault.  Only commands that touch the delivery are   *)
(* kept: StepFrames, SetUncapped, one standing for all that the interface  *)
(* waits for in recv_cold_response, and Shutdown.                          *)
(***************************************************************************)
EXTENDS Integers, Sequences, SequencesExt, FiniteSets

CONSTANTS
    FRAME_CHANNEL_CAPACITY,
    MAX_IN_FLIGHT,
    Recordings,   \* whether audio is being recorded, from the start
    Faults,       \* whether the machine may fault
    MaxSteps,     \* bound: step requests the interface makes
    MaxBatches,   \* bound: batches before the uncapped machine is suspended
    MaxCommands   \* bound: SetUncapped and waiting requests in the queue

ASSUME DeliveryAssumption ==
    /\ FRAME_CHANNEL_CAPACITY \in Nat \ {0}
    /\ MAX_IN_FLIGHT \in Nat \ {0}
    /\ Recordings \subseteq BOOLEAN /\ Faults \in BOOLEAN
    /\ MaxSteps \in Nat /\ MaxBatches \in Nat /\ MaxCommands \in Nat

VARIABLES
    cmds,      \* the command channel (unbounded)
    channel,   \* the frame channel
    answers,   \* responses the interface has not taken
    worker,    \* the emulation thread
    ui,        \* the interface thread
    recording, \* audio_recording_capture.active
    made,      \* history: the results with a payload made so far
    batches,   \* history: how many of them were autonomous batches
    steps,     \* history: step requests made so far
    seen,      \* history: the payload the interface has processed, in order
    raced,     \* history: the interface received in the middle of a drain
    freed      \* history: the interface has asked for uncapped mode

vars == <<cmds, channel, answers, worker, ui, recording,
          made, batches, steps, seen, raced, freed>>
history == <<made, batches, steps, seen, raced, freed>>

Frame(ids, step, fault) ==
    [ids |-> ids, steps |-> step, merged |-> FALSE, fault |-> fault]
NoFrame == Frame(<<>>, 0, FALSE)

Init ==
    /\ cmds = <<>> /\ channel = <<>> /\ answers = 0
    /\ worker = [pc |-> "loop", uncapped |-> FALSE, fault |-> "none",
                 result |-> NoFrame, queued |-> <<>>, outbox |-> <<>>]
    /\ ui = [pc |-> "drain", in_flight |-> 0, uncapped |-> FALSE,
             fault |-> FALSE]
    /\ recording \in Recordings
    /\ made = 0 /\ batches = 0 /\ steps = 0 /\ seen = <<>>
    /\ raced = FALSE /\ freed = FALSE

-----------------------------------------------------------------------------
(* The worker makes a result.                                              *)

\* frame_requires_preserved_delivery (printer jobs behave as a recording).
Preserved(result) == recording \/ result.fault

\* The start of send_frame.
Deliver(w, result) ==
    IF Preserved(result)
    THEN [w EXCEPT !.pc = "send", !.outbox = <<result>>]
    ELSE [w EXCEPT !.pc = "try", !.result = result]

\* WorkerRuntimeFault: a fault is latched once and reported by the next
\* result; after it the machine does not advance and uncapped mode ends.
Advanced(w, faulty, step) ==
    LET result == Frame(IF w.fault = "none" THEN <<made + 1>> ELSE <<>>,
                        step, faulty)
    IN  Deliver([w EXCEPT !.fault = IF faulty THEN "told" ELSE @,
                          !.uncapped = @ /\ ~faulty /\ w.fault = "none"],
                result)

MayFault(w) == IF Faults /\ w.fault = "none" THEN BOOLEAN ELSE {FALSE}

-----------------------------------------------------------------------------
(* The worker's loop (EmuLoop::run and handle_command).                    *)

\* StepFrames: also a machine that does not advance answers.
Step ==
    /\ worker.pc = "loop"
    /\ cmds # <<>> /\ Head(cmds) = "step"
    /\ cmds' = Tail(cmds)
    /\ \E faulty \in MayFault(worker) : worker' = Advanced(worker, faulty, 1)
    /\ made' = IF worker.fault = "none" THEN made + 1 ELSE made
    /\ UNCHANGED <<channel, answers, ui, recording, batches, steps, seen,
                   raced, freed>>

SetUncapped ==
    /\ worker.pc = "loop"
    /\ cmds # <<>> /\ Head(cmds) \in {"uncap", "cap"}
    /\ cmds' = Tail(cmds)
    /\ worker' = [worker EXCEPT !.uncapped =
                    Head(cmds) = "uncap" /\ worker.fault = "none"]
    /\ UNCHANGED <<channel, answers, ui, recording, history>>

\* A command the interface waits for (CaptureStateBytes and the like).
Answer ==
    /\ worker.pc = "loop"
    /\ cmds # <<>> /\ Head(cmds) = "ask"
    /\ cmds' = Tail(cmds)
    /\ answers' = answers + 1
    /\ UNCHANGED <<channel, worker, ui, recording, history>>

Shutdown ==
    /\ worker.pc = "loop"
    /\ cmds # <<>> /\ Head(cmds) = "shutdown"
    /\ cmds' = Tail(cmds)
    /\ worker' = [worker EXCEPT !.pc = "exited"]
    /\ UNCHANGED <<channel, answers, ui, recording, history>>

\* run_uncapped_batch, when no command is waiting.
Batch ==
    /\ worker.pc = "loop"
    /\ cmds = <<>>
    /\ worker.uncapped
    /\ batches < MaxBatches
    /\ \E faulty \in MayFault(worker) : worker' = Advanced(worker, faulty, 0)
    /\ made' = made + 1
    /\ batches' = batches + 1
    /\ UNCHANGED <<cmds, channel, answers, ui, recording, steps, seen, raced,
                   freed>>

-----------------------------------------------------------------------------
(* send_frame.                                                             *)

Full == Len(channel) >= FRAME_CHANNEL_CAPACITY

TrySend ==
    /\ worker.pc = "try"
    /\ IF Full
       THEN /\ worker' = [worker EXCEPT !.pc = "drain"]
            /\ UNCHANGED channel
       ELSE /\ channel' = Append(channel, worker.result)
            /\ worker' = [worker EXCEPT !.pc = "loop", !.result = NoFrame]
    /\ UNCHANGED <<cmds, answers, ui, recording, history>>

\* Fault: the replaced result's step requests are forgotten.
MergeForgetting(replaced, replacement) ==
    [ids |-> replaced.ids \o replacement.ids,
     steps |-> replacement.steps,
     merged |-> TRUE,
     fault |-> replacement.fault \/ replaced.fault]

\* Fault: the older payload is put behind the newer one.
MergeReversed(replaced, replacement) ==
    [ids |-> replacement.ids \o replaced.ids,
     steps |-> replacement.steps + replaced.steps,
     merged |-> TRUE,
     fault |-> replacement.fault \/ replaced.fault]

\* Fault: a fault the replaced result reports is dropped.
MergeFaultless(replaced, replacement) ==
    [ids |-> replaced.ids \o replacement.ids,
     steps |-> replacement.steps + replaced.steps,
     merged |-> TRUE,
     fault |-> replacement.fault]

\* merge_replaced_frame
Merge(replaced, replacement) ==
    [ids |-> replaced.ids \o replacement.ids,
     steps |-> replacement.steps + replaced.steps,
     merged |-> TRUE,
     fault |-> replacement.fault \/ replaced.fault]

\* The drained results merged into the newest of them, from the back.
Gathered(queued) ==
    LET from[i \in 0 .. Len(queued) - 1] ==
            IF i = 0 THEN queued[Len(queued)]
            ELSE Merge(queued[Len(queued) - i], from[i - 1])
    IN  from[Len(queued) - 1]

\* Fault: what was drained is dropped when one of it was merged before.
ResendDropping(queued, result) ==
    IF queued = <<>> THEN <<result>>
    ELSE IF \E i \in DOMAIN queued : queued[i].merged
         THEN <<Last(queued), result>>
         ELSE <<Merge(Gathered(queued), result)>>

\* What is sent after the drain: everything again if one of the results had
\* been merged before, else one merged result.
Resend(queued, result) ==
    IF queued = <<>> \/ \E i \in DOMAIN queued : queued[i].merged
    THEN Append(queued, result)
    ELSE <<Merge(Gathered(queued), result)>>

\* One try_recv of the drain; the interface may receive in between.
Drain ==
    /\ worker.pc = "drain"
    /\ IF channel # <<>>
       THEN /\ worker' = [worker EXCEPT !.queued = Append(@, Head(channel))]
            /\ channel' = Tail(channel)
       ELSE /\ worker' = [worker EXCEPT
                !.pc = "send", !.queued = <<>>, !.result = NoFrame,
                !.outbox = Resend(worker.queued, worker.result)]
            /\ UNCHANGED channel
    /\ UNCHANGED <<cmds, answers, ui, recording, history>>

\* A blocking send.  It never fails: the worker holds a receiver itself.
Send ==
    /\ worker.pc = "send"
    /\ ~Full
    /\ channel' = Append(channel, Head(worker.outbox))
    /\ worker' = [worker EXCEPT
            !.outbox = Tail(@),
            !.pc = IF Len(worker.outbox) = 1 THEN "loop" ELSE "send"]
    /\ UNCHANGED <<cmds, answers, ui, recording, history>>

Worker ==
    \/ Step \/ SetUncapped \/ Answer \/ Shutdown \/ Batch
    \/ TrySend \/ Drain \/ Send
-----------------------------------------------------------------------------
(* The interface.                                                          *)

\* process_frame_result; a fault makes the interface leave uncapped mode.
Processed(u, frame) ==
    [u EXCEPT
        !.in_flight = IF @ > frame.steps THEN @ - frame.steps ELSE 0,
        !.fault = @ \/ frame.fault,
        !.uncapped = @ /\ ~frame.fault]

\* try_recv_frame in a tick's drain, or in that of recv_cold_response.
Receive ==
    /\ ui.pc \in {"drain", "ask"}
    /\ channel # <<>>
    /\ channel' = Tail(channel)
    /\ ui' = Processed(ui, Head(channel))
    /\ cmds' = IF Head(channel).fault THEN Append(cmds, "cap") ELSE cmds
    /\ seen' = seen \o Head(channel).ids
    /\ raced' = (raced \/ (worker.pc = "drain" /\ worker.queued # <<>>))
    /\ UNCHANGED <<answers, worker, recording, made, batches, steps, freed>>

\* The drain has found the channel empty.
Drained ==
    /\ ui.pc \in {"drain", "ask"}
    /\ channel = <<>>
    /\ ui' = [ui EXCEPT !.pc = IF @ = "drain" THEN "work" ELSE "wait"]
    /\ UNCHANGED <<cmds, channel, answers, worker, recording, history>>

\* Fault: one request more than the limit.
MayStepOver == ui.in_flight <= MAX_IN_FLIGHT
MayStep == ui.in_flight < MAX_IN_FLIGHT

\* The rest of a tick: a step request, if not too many are open.
RequestStep ==
    /\ ui.pc = "work"
    /\ MayStep
    /\ steps < MaxSteps
    /\ cmds' = Append(cmds, "step")
    /\ ui' = [ui EXCEPT !.pc = "drain", !.in_flight = @ + 1]
    /\ steps' = steps + 1
    /\ UNCHANGED <<channel, answers, worker, recording, made, batches, seen,
                   raced, freed>>

Idle ==
    /\ ui.pc = "work"
    /\ ui' = [ui EXCEPT !.pc = "drain"]
    /\ UNCHANGED <<cmds, channel, answers, worker, recording, history>>

\* sync_uncapped_worker
Toggle ==
    /\ ui.pc = "work"
    /\ Len(cmds) < MaxCommands
    /\ cmds' = Append(cmds, IF ui.uncapped THEN "cap" ELSE "uncap")
    /\ ui' = [ui EXCEPT !.uncapped = ~@]
    /\ freed' = TRUE
    /\ UNCHANGED <<channel, answers, worker, recording, made, batches, steps,
                   seen, raced>>

\* A command is sent and recv_cold_response entered.
Ask ==
    /\ ui.pc = "work"
    /\ Len(cmds) < MaxCommands
    /\ cmds' = Append(cmds, "ask")
    /\ ui' = [ui EXCEPT !.pc = "ask"]
    /\ UNCHANGED <<channel, answers, worker, recording, history>>

\* The blocking receive of recv_cold_response.
Answered ==
    /\ ui.pc = "wait"
    /\ answers > 0
    /\ answers' = answers - 1
    /\ ui' = [ui EXCEPT !.pc = "work"]
    /\ UNCHANGED <<cmds, channel, worker, recording, history>>

\* EmuThread::shutdown: the command, one drain, a wait of at most
\* SHUTDOWN_TIMEOUT_SECS for the completion, and a join without limit.
Close ==
    /\ ui.pc = "work"
    /\ cmds' = Append(cmds, "shutdown")
    /\ ui' = [ui EXCEPT !.pc = "closing"]
    /\ UNCHANGED <<channel, answers, worker, recording, history>>

Discard ==
    /\ ui.pc = "closing"
    /\ IF channel # <<>>
       THEN channel' = Tail(channel) /\ UNCHANGED ui
       ELSE ui' = [ui EXCEPT !.pc = "joining"] /\ UNCHANGED channel
    /\ UNCHANGED <<cmds, answers, worker, recording, history>>

Join ==
    /\ ui.pc = "joining"
    /\ worker.pc = "exited"
    /\ ui' = [ui EXCEPT !.pc = "closed"]
    /\ UNCHANGED <<cmds, channel, answers, worker, recording, history>>

Interface ==
    \/ Receive \/ Drained \/ RequestStep \/ Idle \/ Toggle \/ Ask \/ Answered
    \/ Close \/ Discard \/ Join

Next == Worker \/ Interface

Spec == Init /\ [][Next]_vars

\* Both threads run whenever they are not blocked, and a tick ends.
FairSpec ==
    Spec /\ WF_vars(Worker) /\ WF_vars(Interface) /\ WF_vars(RequestStep \/ Idle)
-----------------------------------------------------------------------------
(* Properties.                                                             *)

\* What a sequence of results carries together: the payload and the number of step
\* requests completed.
Carried(frames) ==
    LET upto[n \in 0 .. Len(frames)] ==
            IF n = 0 THEN [ids |-> <<>>, steps |-> 0]
            ELSE [ids |-> upto[n - 1].ids \o frames[n].ids,
                  steps |-> upto[n - 1].steps + frames[n].steps]
    IN  upto[Len(frames)]

\* Everything on its way, in the order in which the interface will get it if
\* it does not receive in the middle of a drain.
OnItsWay ==
    worker.queued \o channel \o worker.outbox
        \o (IF worker.pc \in {"try", "drain"} THEN <<worker.result>> ELSE <<>>)

Delivered == seen \o Carried(OnItsWay).ids

\* The step requests in a queue of commands.
Requests(queue) == {i \in 1 .. Len(queue) : queue[i] = "step"}

Open == ui.pc \notin {"closing", "joining", "closed"}

\* No payload is lost or shown twice, however the interface's receives fall
\* between the worker's try_send, its drain and its sends: until the interface
\* shuts the worker down, every result made is processed or on its way, once.
NothingLost ==
    Open => /\ Len(Delivered) = made
            /\ ToSet(Delivered) = 1 .. made

\* The payloads arrive in the order they were made, unless the interface has
\* received while the worker had taken only a part of the channel: then an
\* older result is merged into one that comes after a newer one.
InOrder == Open /\ ~raced => Delivered = [i \in 1 .. made |-> i]

\* frames_in_flight is exact: it counts the step requests still queued and
\* those a result on its way completes.  A request lost in a merge would slow
\* the interface down for ever, one counted twice would lift its limit.  (The
\* end of a netplay session also sets the counter, to 0; netplay has no part in
\* this module.)
InFlightExact ==
    Open => ui.in_flight = Cardinality(Requests(cmds)) + Carried(OnItsWay).steps

\* Until the interface asks for uncapped mode its limit on open step requests
\* keeps the channel from filling up: nothing is merged, the worker never
\* blocks, so every wait for an answer and every shutdown ends.
SteppingNeverFull == worker.pc \in {"try", "send"} /\ ~freed => ~Full

\* A machine fault is shown to the player, unless the interface is shutting
\* the worker down or stays blocked in a wait for an answer.
FaultShown ==
    (worker.fault = "told") ~>
        (ui.fault \/ [](ui.pc = "wait") \/ ~Open)

\* A shutdown comes to its end: it does not wait for the worker for ever.
ShutdownReturns == (ui.pc = "closing") ~> (ui.pc = "closed")
=============================================================================
