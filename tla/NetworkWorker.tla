--------------------------- MODULE NetworkWorker ---------------------------
(***************************************************************************)
(* The TCP transport of a netplay session (src/netplay/network.rs) at both *)
(* ends of one connection: the owner (the session), the worker thread that *)
(* admits the peer and then writes, and the reader thread it spawns.  They *)
(* share two bounded queues, a cancellation flag, the socket, the state of *)
(* the split connection (crates/zeff-netplay/src/wire/split.rs) and the    *)
(* slot for the first failure.                                             *)
(*                                                                         *)
(* A message is "Input" (anything but Close) or "Close".  TCP is a FIFO    *)
(* per direction; an end that shuts its socket down with data unread may   *)
(* reset the connection, which takes what the other has not read.          *)
(***************************************************************************)
EXTENDS Integers, Sequences

CONSTANTS
    OUTBOUND_CAPACITY, INBOUND_CAPACITY,
    MaxSends,  \* MaxSends[p], a bound: gameplay messages p's session sends
    Prompt     \* timers run out only when what they wait for cannot come soon

ASSUME WorkerAssumption ==
    /\ OUTBOUND_CAPACITY \in Nat \ {0} /\ INBOUND_CAPACITY \in Nat \ {0}
    /\ MaxSends \in [{0, 1} -> Nat] /\ Prompt \in BOOLEAN

VARIABLES
    owner,     \* owner[p]: where p's session is, what it sent and why it ended
    outbound,  \* outbound[p]: messages for p's worker
    inbound,   \* inbound[p]: events for p's session
    flags,     \* flags[p]: the shared flags of p's threads
    failure,   \* failure[p]: the first failure recorded, or "none"
    writer,    \* writer[p]: p's worker thread
    reader,    \* reader[p]: p's reader thread
    wire       \* wire[p]: the messages under way to p

vars == <<owner, outbound, inbound, flags, failure, writer, reader, wire>>

Peers == {0, 1}
Other(p) == 1 - p

\* What run and its reader fail with, and what the session's own send adds.
Errors == {"refused", "cancelled", "terminated", "only close", "broken", "eof",
           "reset", "timeout", "late", "inbound overflow"}
Failures == Errors \cup {"outbound overflow", "outbound disconnected"}

Init ==
    /\ owner = [p \in Peers |-> [at |-> "playing", ready |-> FALSE,
                                 sends |-> 0, reason |-> "none"]]
    /\ outbound = [p \in Peers |-> <<>>]
    /\ inbound = [p \in Peers |-> <<>>]
    /\ flags = [p \in Peers |->
        [cancelled |-> FALSE, ownerCancelled |-> FALSE, shut |-> FALSE,
         reset |-> FALSE, terminal |-> FALSE, sentClose |-> FALSE,
         receivedClose |-> FALSE]]
    /\ failure = [p \in Peers |-> "none"]
    /\ writer = [p \in Peers |-> [at |-> "admit", item |-> "none",
                                  result |-> "ok", intentional |-> FALSE]]
    /\ reader = [p \in Peers |-> [at |-> "off", item |-> "none",
                                  result |-> "ok", completion |-> "none"]]
    /\ wire = [p \in Peers |-> <<>>]

\* record_failure: the first one stays.
RecordFailure(p, cause) ==
    failure' = [failure EXCEPT ![p] = IF @ = "none" THEN cause ELSE @]

\* run has returned, and the receiving end of the outbound queue with it.
Returned(p) == writer[p].at \in {"exit", "done"}

\* JoinHandle::is_finished.
Stopped(p) == writer[p].at = "done"

-----------------------------------------------------------------------------
(* The owner: Network::send, poll, close, cancel as a session calls them.  *)

To(p, place) == owner' = [owner EXCEPT ![p].at = place]

Ending(p, reason) ==
    owner' = [owner EXCEPT ![p].at = "ending", ![p].reason = reason]

\* Network::send of a message of the game looks at the flag first.
Send(p) ==
    /\ owner[p].at = "playing"
    /\ owner[p].ready
    /\ \/ flags[p].cancelled /\ To(p, "asking")
       \/ ~flags[p].cancelled /\ owner[p].sends < MaxSends[p] /\ To(p, "sending")
    /\ UNCHANGED <<outbound, inbound, flags, failure, writer, reader, wire>>

\* Then try_send, by which time the worker may have left: the error.
TrySendError(p) ==
    IF Returned(p) THEN "outbound disconnected"
    ELSE IF Len(outbound[p]) >= OUTBOUND_CAPACITY THEN "outbound overflow"
    ELSE "none"

\* try_send fails: the connection ends here.
TrySendFails(p) ==
    /\ TrySendError(p) # "none"
    /\ RecordFailure(p, TrySendError(p))
    /\ flags' = [flags EXCEPT ![p].cancelled = TRUE, ![p].shut = TRUE]
    /\ UNCHANGED <<outbound, inbound, writer, reader, wire>>

\* Fault: the queue takes one message more than it holds.
QueuedBeyond(p, message) ==
    /\ TrySendError(p) # "outbound disconnected"
    /\ outbound' = [outbound EXCEPT ![p] = Append(@, message)]
    /\ UNCHANGED <<inbound, flags, failure, writer, reader, wire>>

\* try_send finds room.
Queued(p, message) ==
    /\ TrySendError(p) = "none"
    /\ outbound' = [outbound EXCEPT ![p] = Append(@, message)]
    /\ UNCHANGED <<inbound, flags, failure, writer, reader, wire>>

TrySend(p) ==
    /\ owner[p].at = "sending"
    /\ \/ TrySendFails(p) /\ Ending(p, TrySendError(p))
       \/ /\ Queued(p, "Input")
          /\ owner' = [owner EXCEPT ![p].at = "playing", ![p].sends = @ + 1]

\* cancelled_reason, when the flag was up: the failure, if one is recorded.
AskFailure(p) ==
    /\ owner[p].at = "asking"
    /\ IF failure[p] = "none" THEN To(p, "asked") ELSE Ending(p, failure[p])
    /\ UNCHANGED <<outbound, inbound, flags, failure, writer, reader, wire>>

\* The lock is free again when it looks whether the worker has finished: if
\* not, and within 100 ms, it parks and asks once more.
AskStopped(p) ==
    /\ owner[p].at = "asked"
    /\ \/ /\ Stopped(p) \/ ~Prompt
          /\ Ending(p, "closed")
       \/ ~Stopped(p) /\ To(p, "asking")
    /\ UNCHANGED <<outbound, inbound, flags, failure, writer, reader, wire>>

\* Network::poll and what Session::handle_event makes of the event.
Poll(p) ==
    /\ owner[p].at = "playing"
    /\ inbound[p] # <<>>
    /\ inbound' = [inbound EXCEPT ![p] = Tail(@)]
    /\ CASE Head(inbound[p]) = "Ready" ->
                owner' = [owner EXCEPT ![p].ready = TRUE]
         [] Head(inbound[p]) = "Input" -> UNCHANGED owner
         [] Head(inbound[p]) = "Close" -> Ending(p, "peer closed")
         [] Head(inbound[p]) = "Failed" -> Ending(p, failure[p])
    /\ UNCHANGED <<outbound, flags, failure, writer, reader, wire>>

\* Fault: an empty queue is never more than empty.
PollDisconnectedIgnored(p) == FALSE /\ UNCHANGED vars

\* The worker has gone and nothing is left to read.
PollDisconnected(p) ==
    /\ owner[p].at = "playing"
    /\ inbound[p] = <<>>
    /\ Stopped(p)
    /\ Ending(p, IF failure[p] = "none" THEN "disconnected" ELSE failure[p])
    /\ UNCHANGED <<outbound, inbound, flags, failure, writer, reader, wire>>

\* The player ends the session.
Stop(p) ==
    /\ owner[p].at = "playing"
    /\ Ending(p, "stop")
    /\ UNCHANGED <<outbound, inbound, flags, failure, writer, reader, wire>>

\* Session::restore: cancel, or once admitted Network::close, whose send of
\* Close looks at the flag first too; what cancelled_reason says is dropped.
Close(p) ==
    /\ owner[p].at = "ending"
    /\ To(p, IF owner[p].ready /\ ~flags[p].cancelled THEN "saying" ELSE "cancel")
    /\ UNCHANGED <<outbound, inbound, flags, failure, writer, reader, wire>>

TrySendClose(p) ==
    /\ owner[p].at = "saying"
    /\ \/ TrySendFails(p) /\ To(p, "cancel")
       \/ Queued(p, "Close") /\ To(p, "closing")

\* The 500 ms in which the worker may finish.
CloseWait(p) ==
    /\ owner[p].at = "closing"
    /\ Stopped(p) \/ ~Prompt
    /\ To(p, "cancel")
    /\ UNCHANGED <<outbound, inbound, flags, failure, writer, reader, wire>>

\* Network::cancel raises its two flags in this order.
CancelOwner(p) ==
    /\ owner[p].at = "cancel"
    /\ flags' = [flags EXCEPT ![p].ownerCancelled = TRUE]
    /\ To(p, "shutdown")
    /\ UNCHANGED <<outbound, inbound, failure, writer, reader, wire>>

Cancel(p) ==
    /\ owner[p].at = "shutdown"
    /\ flags' = [flags EXCEPT ![p].cancelled = TRUE, ![p].shut = TRUE]
    /\ To(p, "joining")
    /\ UNCHANGED <<outbound, inbound, failure, writer, reader, wire>>

Joined(p) ==
    /\ owner[p].at = "joining"
    /\ Stopped(p)
    /\ To(p, "gone")
    /\ UNCHANGED <<outbound, inbound, flags, failure, writer, reader, wire>>

-----------------------------------------------------------------------------
(* The worker thread: run.                                                 *)

\* Leave the loop with a result.
Leave(p, result, intentional) ==
    writer' = [writer EXCEPT ![p].at = "leave", ![p].result = result,
                             ![p].intentional = intentional]

\* Admission, then Event::Ready and the reader.
Admit(p) ==
    /\ writer[p].at = "admit"
    /\ ~flags[p].cancelled
    /\ inbound' = [inbound EXCEPT ![p] = Append(@, "Ready")]
    /\ reader' = [reader EXCEPT ![p].at = "read"]
    /\ writer' = [writer EXCEPT ![p].at = "select"]
    /\ UNCHANGED <<owner, outbound, flags, failure, wire>>

\* run returns: its queues are dropped and the thread's closure goes on.
Return(p, result) ==
    writer' = [writer EXCEPT ![p].at = "exit", ![p].result = result]

AdmitFails(p) ==
    /\ writer[p].at = "admit"
    /\ Return(p, IF flags[p].cancelled THEN "cancelled" ELSE "refused")
    /\ UNCHANGED <<owner, outbound, inbound, flags, failure, reader, wire>>

\* The loop sees the cancellation.
SelectCancelled(p) ==
    /\ writer[p].at = "select"
    /\ flags[p].cancelled
    /\ Leave(p, "ok", flags[p].ownerCancelled)
    /\ UNCHANGED <<owner, outbound, inbound, flags, failure, reader, wire>>

\* Fault: the reader's error is dropped.
SelectCompletionQuiet(p) ==
    /\ writer[p].at = "select"
    /\ reader[p].completion # "none"
    /\ reader' = [reader EXCEPT ![p].completion = "none"]
    /\ Leave(p, "ok", FALSE)
    /\ UNCHANGED <<owner, outbound, inbound, flags, failure, wire>>

\* The reader has ended.
SelectCompletion(p) ==
    /\ writer[p].at = "select"
    /\ reader[p].completion # "none"
    /\ reader' = [reader EXCEPT ![p].completion = "none"]
    /\ IF flags[p].ownerCancelled THEN Leave(p, "ok", TRUE)
       ELSE Leave(p, reader[p].completion, FALSE)
    /\ UNCHANGED <<owner, outbound, inbound, flags, failure, wire>>

\* The next message, unless the owner has cancelled.
SelectRequest(p) ==
    /\ writer[p].at = "select"
    /\ reader[p].completion = "none"
    /\ outbound[p] # <<>>
    /\ outbound' = [outbound EXCEPT ![p] = Tail(@)]
    /\ IF flags[p].ownerCancelled THEN Leave(p, "ok", TRUE)
       ELSE writer' = [writer EXCEPT ![p].at = "send", ![p].item = Head(outbound[p])]
    /\ UNCHANGED <<owner, inbound, flags, failure, reader, wire>>

\* What Sender::send can fail with now.
SendErrors(p) ==
    IF flags[p].terminal THEN {"terminated"}
    ELSE IF flags[p].receivedClose /\ writer[p].item # "Close" THEN {"only close"}
    ELSE IF flags[p].cancelled THEN {"cancelled"}
    ELSE IF flags[Other(p)].shut THEN {"broken", "none"}
    ELSE {"none"}

\* After Close the worker lingers so that the peer can read it.
AfterSend(p) == IF writer[p].item = "Close" THEN "grace" ELSE "select"

SendPacket(p) ==
    /\ writer[p].at = "send"
    /\ "none" \in SendErrors(p)
    /\ wire' = [wire EXCEPT ![Other(p)] = Append(@, writer[p].item)]
    /\ LET sent == flags[p].sentClose \/ writer[p].item = "Close"
       IN  flags' = [flags EXCEPT ![p].sentClose = sent,
                                  ![p].terminal = sent /\ flags[p].receivedClose]
    /\ writer' = [writer EXCEPT ![p].at = AfterSend(p)]
    /\ UNCHANGED <<owner, outbound, inbound, failure, reader>>

SendFails(p) ==
    /\ writer[p].at = "send"
    /\ \E error \in SendErrors(p) \ {"none"} : Leave(p, error, FALSE)
    /\ flags' = [flags EXCEPT ![p].terminal = TRUE]
    /\ UNCHANGED <<owner, outbound, inbound, failure, reader, wire>>

\* Fault: an error of the reader ends the grace.
GraceAnsweredByError(p) ==
    /\ writer[p].at = "grace"
    /\ reader[p].completion # "none"
    /\ reader' = [reader EXCEPT ![p].completion = "none"]
    /\ Leave(p, "ok", TRUE)
    /\ UNCHANGED <<owner, outbound, inbound, flags, failure, wire>>

\* The reader has answered before the grace is over.
GraceAnswered(p) ==
    /\ writer[p].at = "grace"
    /\ reader[p].completion # "none"
    /\ reader' = [reader EXCEPT ![p].completion = "none"]
    /\ IF reader[p].completion = "ok" THEN Leave(p, "ok", TRUE)
       ELSE writer' = [writer EXCEPT ![p].at = "linger"]
    /\ UNCHANGED <<owner, outbound, inbound, flags, failure, wire>>

\* The peer has read what was sent, or reads no more.
PeerRead(p) ==
    \/ wire[Other(p)] = <<>>
    \/ reader[Other(p)].at = "done"
    \/ Stopped(Other(p))

\* The 250 ms are over: long enough for the peer to read what was sent.
GraceOver(p) ==
    /\ writer[p].at \in {"grace", "linger"}
    /\ \/ ~Prompt \/ PeerRead(p)
       \/ writer[p].at = "linger" /\ flags[p].cancelled
    /\ Leave(p, "ok", TRUE)
    /\ UNCHANGED <<owner, outbound, inbound, flags, failure, reader, wire>>

\* The end of run: the flag, for the reader and the owner.
Shutdown(p) ==
    /\ writer[p].at = "leave"
    /\ flags' = [flags EXCEPT ![p].cancelled = TRUE]
    /\ writer' = [writer EXCEPT ![p].at = "drop"]
    /\ UNCHANGED <<owner, outbound, inbound, failure, reader, wire>>

\* Sender::drop, then JoinedReader::drop shuts the socket.
DropSender(p) ==
    /\ writer[p].at = "drop"
    /\ flags' = [flags EXCEPT ![p].terminal = TRUE, ![p].shut = TRUE]
    /\ writer' = [writer EXCEPT ![p].at = "join"]
    /\ UNCHANGED <<owner, outbound, inbound, failure, reader, wire>>

\* Fault: the worker's own result always wins.
FinishConnectionOwn(result, completion, intentional) == result

\* finish_connection: the reader's error goes before a secondary one.
FinishConnection(result, completion, intentional) ==
    IF /\ ~intentional
       /\ result \in {"ok", "terminated"}
       /\ completion \in Errors
    THEN completion
    ELSE result

\* JoinedReader::drop has waited for the reader.
ReaderJoined(p) == reader[p].at = "done"

Finish(p) ==
    /\ writer[p].at = "join"
    /\ ReaderJoined(p)
    /\ Return(p, FinishConnection(writer[p].result, reader[p].completion,
                                  writer[p].intentional))
    /\ UNCHANGED <<owner, outbound, inbound, flags, failure, reader, wire>>

\* The closure after run: publish the failure, once more cancel, and go.
Depart(p) ==
    LET failed == writer[p].result # "ok"
    IN  /\ writer[p].at = "exit"
        /\ IF failed THEN RecordFailure(p, writer[p].result) ELSE UNCHANGED failure
        /\ inbound' = [inbound EXCEPT ![p] =
            IF failed /\ Len(@) < INBOUND_CAPACITY THEN Append(@, "Failed") ELSE @]
        /\ flags' = [flags EXCEPT ![p].cancelled = TRUE, ![p].terminal = TRUE,
                                  ![p].shut = TRUE]
        /\ writer' = [writer EXCEPT ![p].at = "done"]
        /\ UNCHANGED <<owner, outbound, reader, wire>>

-----------------------------------------------------------------------------
(* The reader thread.                                                      *)

ReadEnds(p, result) ==
    reader' = [reader EXCEPT ![p].at = "finish", ![p].result = result]

\* Receiver::receive takes a packet.
Receive(p) ==
    LET message == Head(wire[p])
        got     == flags[p].receivedClose \/ message = "Close"
    IN  /\ reader[p].at = "read"
        /\ ~flags[p].terminal /\ ~flags[p].cancelled
        /\ wire[p] # <<>>
        /\ wire' = [wire EXCEPT ![p] = Tail(@)]
        /\ IF flags[p].sentClose /\ message # "Close"
           THEN /\ ReadEnds(p, "late")
                /\ flags' = [flags EXCEPT ![p].terminal = TRUE]
           ELSE /\ reader' = [reader EXCEPT ![p].at = "publish", ![p].item = message]
                /\ flags' = [flags EXCEPT ![p].receivedClose = got,
                                          ![p].terminal = got /\ flags[p].sentClose]
        /\ UNCHANGED <<owner, outbound, inbound, failure, writer>>

ReceiveErrors(p) ==
    IF flags[p].terminal THEN {"terminated"}
    ELSE IF flags[p].cancelled THEN {"cancelled"}
    ELSE IF wire[p] # <<>> THEN {}
    ELSE IF flags[p].reset THEN {"reset"}
    ELSE IF flags[Other(p)].shut THEN {"eof"}
    ELSE {"timeout"}

ReceiveFails(p) ==
    /\ reader[p].at = "read"
    /\ \E error \in ReceiveErrors(p) : ReadEnds(p, error)
    /\ flags' = [flags EXCEPT ![p].terminal = TRUE]
    /\ UNCHANGED <<owner, outbound, inbound, failure, writer, wire>>

\* publish: a full queue ends the connection.
Publish(p) ==
    /\ reader[p].at = "publish"
    /\ IF Len(inbound[p]) >= INBOUND_CAPACITY
       THEN ReadEnds(p, "inbound overflow") /\ UNCHANGED inbound
       ELSE /\ inbound' = [inbound EXCEPT ![p] = Append(@, reader[p].item)]
            /\ IF reader[p].item = "Close" THEN ReadEnds(p, "ok")
               ELSE reader' = [reader EXCEPT ![p].at = "read"]
    /\ UNCHANGED <<owner, outbound, flags, failure, writer, wire>>

\* The result goes to the worker and the receiver is dropped.
Complete(p) ==
    /\ reader[p].at = "finish"
    /\ reader' = [reader EXCEPT ![p].at = "done",
                                ![p].completion = reader[p].result]
    /\ flags' = [flags EXCEPT ![p].terminal = TRUE]
    /\ UNCHANGED <<owner, outbound, inbound, failure, writer, wire>>

\* TCP: data that meets a socket shut down resets the connection.
Reset(p) ==
    /\ flags[p].shut
    /\ wire[p] # <<>>
    /\ flags' = [flags EXCEPT ![Other(p)].reset = TRUE]
    /\ wire' = [q \in Peers |-> <<>>]
    /\ UNCHANGED <<owner, outbound, inbound, failure, writer, reader>>

-----------------------------------------------------------------------------

Owner(p) ==
    \/ TrySend(p) \/ AskFailure(p) \/ AskStopped(p) \/ Poll(p) \/ PollDisconnected(p)
    \/ Close(p) \/ TrySendClose(p) \/ CloseWait(p) \/ CancelOwner(p) \/ Cancel(p)
    \/ Joined(p)
Worker(p) ==
    \/ Admit(p) \/ AdmitFails(p) \/ SelectCancelled(p) \/ SelectCompletion(p)
    \/ SelectRequest(p) \/ SendPacket(p) \/ SendFails(p) \/ GraceAnswered(p)
    \/ GraceOver(p) \/ Shutdown(p) \/ DropSender(p) \/ Finish(p) \/ Depart(p)
Reader(p) ==
    \/ Receive(p) \/ ReceiveFails(p) \/ Publish(p) \/ Complete(p)

Next ==
    \E p \in Peers : Send(p) \/ Stop(p) \/ Owner(p) \/ Worker(p) \/ Reader(p) \/ Reset(p)

Spec == Init /\ [][Next]_vars

\* Threads run, the session keeps polling, timers run out.
Fairness ==
    \A p \in Peers : WF_vars(Owner(p)) /\ WF_vars(Worker(p)) /\ WF_vars(Reader(p))

FairSpec == Spec /\ Fairness

-----------------------------------------------------------------------------

Events == {"Ready", "Input", "Close", "Failed"}
Messages == {"Input", "Close"}

TypeOK ==
    /\ owner \in [Peers -> [at : {"playing", "sending", "asking", "asked",
                                   "ending", "saying", "closing", "cancel",
                                   "shutdown", "joining", "gone"},
                            ready : BOOLEAN, sends : Nat,
                            reason : Failures \cup {"none", "stop", "closed",
                                "peer closed", "disconnected"}]]
    /\ outbound \in [Peers -> Seq(Messages)]
    /\ inbound \in [Peers -> Seq(Events)]
    /\ flags \in [Peers -> [cancelled : BOOLEAN, ownerCancelled : BOOLEAN,
                            shut : BOOLEAN, reset : BOOLEAN, terminal : BOOLEAN,
                            sentClose : BOOLEAN, receivedClose : BOOLEAN]]
    /\ failure \in [Peers -> Failures \cup {"none"}]
    /\ writer \in [Peers -> [at : {"admit", "select", "send", "grace", "linger",
                                    "leave", "drop", "join", "exit", "done"},
                             item : Messages \cup {"none"},
                             result : Errors \cup {"ok"}, intentional : BOOLEAN]]
    /\ reader \in [Peers -> [at : {"off", "read", "publish", "finish", "done"},
                             item : Messages \cup {"none"},
                             result : Errors \cup {"ok"},
                             completion : Errors \cup {"ok", "none"}]]
    /\ wire \in [Peers -> Seq(Messages)]
    /\ \A p \in Peers : /\ Len(outbound[p]) <= OUTBOUND_CAPACITY
                        /\ Len(inbound[p]) <= INBOUND_CAPACITY

\* A session whose peer said Close never takes it for a broken connection: the
\* worker lingers after Close even when its own reader has already failed on
\* the gameplay still under way, so no reset overtakes the Close.
CloseArrives ==
    \A p \in Peers : flags[Other(p)].sentClose =>
        owner[p].reason \notin {"eof", "reset", "broken"}

\* No thread's second-hand error is reported for the first, whichever of the
\* three came first: that the connection was already terminated or cancelled
\* is only said after the peer's Close.  What Network::send says of its own,
\* "closed" and "outbound disconnected", is NoSilentEnd's.
PrimaryCause ==
    \A p \in Peers :
        owner[p].reason \in {"terminated", "cancelled"} => flags[p].receivedClose

\* The worker has returned with an error that says why.
CauseKept(p) ==
    Returned(p) /\ writer[p].result \in Errors \ {"terminated", "cancelled"}

\* No session ends without a cause.  The worker may go between the two looks
\* of Network::send or of cancelled_reason, and the session then says only
\* "closed" or "outbound disconnected": never unless the peer's Close has come
\* or the worker returned the first cause, which Event::Failed or the failure
\* slot was too late to tell.
NoSilentEnd ==
    \A p \in Peers :
        /\ owner[p].reason # "disconnected"
        /\ owner[p].reason \in {"closed", "outbound disconnected"} =>
                flags[p].receivedClose \/ CauseKept(p)

\* When one session ends, both do and all their threads are joined, also when
\* the queue had no room for the event that says so.
EndsTogether ==
    (\E p \in Peers : owner[p].at \notin {"playing", "sending"})
        ~> \A p \in Peers : owner[p].at = "gone"
=============================================================================
