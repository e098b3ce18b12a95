------------------------ MODULE NetworkWorkerProofs ------------------------
(***************************************************************************)
(* Proofs about the TCP transport worker: what a session gives as the      *)
(* reason of its end, for every capacity of the queues and every number of *)
(* messages.  WorkerInv says for each end in which order its three threads *)
(* raise the shared flags (FlagOrder), where a Close can be (CloseOrder),  *)
(* what the result each thread leaves says about the cause (Completion,    *)
(* Causes, Primary, Reason), and for both ends together that a Close sent  *)
(* reaches the peer before the socket is shut (CloseComes).                *)
(*                                                                         *)
(* A step changes the state of one end only (Touches), except what it puts *)
(* on the wire, so each action has one lemma: its effect on its own end,   *)
(* from which the invariant of that end follows, and the two CloseComes.   *)
(***************************************************************************)
EXTENDS NetworkWorker, SequenceTheorems, TLAPS

\* The message is somewhere in the queue.
Holds(s, message) == \E i \in DOMAIN s : s[i] = message

\* What a thread reports when another ended the connection before it.
Secondary == {"terminated", "cancelled"}
\* What the peer's shut socket makes of a read or a write.
Broken == {"eof", "reset", "broken"}

\* The worker has left its loop; the reader has ended.
Left == {"leave", "drop", "join", "exit", "done"}
Ended == {"finish", "done"}

\* The session plays, be it in the middle of a send.
Playing(p) == owner[p].at \in {"playing", "sending", "asking", "asked"}

\* The order in which the threads of one end raise the shared flags.  While
\* the session plays, or waits for its Close, only the worker cancels.
FlagOrder(p) ==
    /\ flags[p].shut => flags[p].cancelled
    /\ flags[p].shut /\ Playing(p) => flags[p].terminal
    /\ reader[p].at = "done" => flags[p].terminal
    /\ writer[p].at = "drop" => flags[p].cancelled
    /\ writer[p].at \in {"join", "done"} =>
            flags[p].terminal /\ flags[p].cancelled /\ flags[p].shut
    /\ writer[p].at = "admit" =>
            reader[p].at = "off" /\ inbound[p] = <<>> /\ ~flags[p].terminal
    /\ writer[p].at = "send" => writer[p].item # "none"
    /\ reader[p].at = "publish" => reader[p].item # "none"
    /\ flags[p].ownerCancelled => owner[p].at \in {"shutdown", "joining", "gone"}
    /\ flags[p].cancelled /\ (Playing(p) \/ owner[p].at \in {"saying", "closing"}) =>
            writer[p].at \in {"drop", "join", "exit", "done"}

\* A Close is queued, sent, received and published in this order.
CloseOrder(p) ==
    /\ Playing(p) \/ owner[p].at \in {"ending", "saying"} =>
            /\ ~Holds(outbound[p], "Close") /\ writer[p].item # "Close"
            /\ ~flags[p].sentClose /\ ~writer[p].intentional
            /\ writer[p].at \notin {"grace", "linger"}
    /\ flags[p].sentClose => writer[p].at \in Left \cup {"grace", "linger"}
    /\ writer[p].at \in {"grace", "linger"} => writer[p].item = "Close"
    /\ flags[p].receivedClose =>
            /\ reader[p].at \in Ended \cup {"publish"}
            /\ reader[p].at = "publish" => reader[p].item = "Close"
    /\ reader[p].item = "Close" \/ Holds(inbound[p], "Close") => flags[p].receivedClose
    /\ reader[p].at \in Ended /\ reader[p].result = "ok" => flags[p].receivedClose

\* The completion not yet taken is the reader's result.
Completion(p) == reader[p].completion # "none" =>
    reader[p].at = "done" /\ reader[p].completion = reader[p].result

\* While the session plays, a thread that ended without an error has left the
\* peer's Close in the queue of events, a worker in its loop has not taken the
\* reader's completion, and only the worker has recorded a failure.
Causes(p) == Playing(p) =>
    /\ reader[p].at \in Ended /\ reader[p].result = "ok" => Holds(inbound[p], "Close")
    /\ writer[p].at \in Left /\ writer[p].result = "ok" => Holds(inbound[p], "Close")
    /\ writer[p].at = "done" /\ failure[p] = "none" => writer[p].result = "ok"
    /\ failure[p] \in Errors \cup {"none"}
    /\ reader[p].at = "done" /\ writer[p].at \in {"select", "send"} =>
            reader[p].completion # "none"

\* Before the peer's Close, one of the two threads holds the first cause: a
\* reader stopped by the flags finds a worker with a cause of its own, a worker
\* stopped by the flags finds the reader's, and run returns the first.
Primary(p) == Playing(p) /\ ~flags[p].receivedClose =>
    /\ flags[p].terminal => writer[p].at \in Left \/ reader[p].at \in Ended
    /\ reader[p].at \in Ended /\ reader[p].result \in Secondary =>
            writer[p].at \in Left /\ writer[p].result \notin Secondary
    /\ writer[p].at \in {"leave", "drop", "join"} =>
            /\ writer[p].result # "cancelled"
            /\ writer[p].result = "terminated" =>
                    /\ reader[p].at \in Ended
                    /\ reader[p].at = "done" => reader[p].completion # "none"
    /\ writer[p].at \in {"exit", "done"} => writer[p].result \notin Secondary
    /\ failure[p] \notin Secondary

\* What the session has reported.
Reason(p) ==
    /\ owner[p].reason \in Secondary => flags[p].receivedClose
    /\ owner[p].reason # "disconnected"
    /\ \/ owner[p].reason = "outbound disconnected"
       \/ Prompt /\ owner[p].reason = "closed"
       => flags[p].receivedClose \/ CauseKept(p)

\* The reader has seen the peer's Close, or this end is over.
Told(p) == flags[p].receivedClose \/ flags[p].terminal

\* A thread of this end has met the peer's shut socket.
Breaks(p) ==
    \/ failure[p] \in Broken \/ writer[p].result \in Broken
    \/ reader[p].result \in Broken \/ reader[p].completion \in Broken

\* Only a shut socket breaks the connection.
BrokenByPeer(p) ==
    Breaks(p) \/ flags[p].reset \/ owner[p].reason \in Broken => flags[Other(p)].shut

\* Only a sent Close is received.
CloseSent(p) ==
    flags[p].receivedClose \/ Holds(wire[p], "Close") => flags[Other(p)].sentClose

\* When timers are prompt the owner waits while its Close is queued or sent.
CloseAwaited(p) == Prompt /\ ~Stopped(p) =>
    (Holds(outbound[p], "Close") \/ writer[p].item = "Close" => owner[p].at = "closing")

\* When timers are prompt an end that sent Close leaves its loop only when the
\* peer has been told; until then the Close is on the wire.
CloseHeard(p) == Prompt /\ flags[Other(p)].sentClose =>
    /\ Playing(p) =>
        /\ ~Breaks(p)
        /\ Holds(wire[p], "Close") \/ Told(p)
        /\ writer[Other(p)].at \in Left => Told(p)
    /\ owner[p].reason \notin Broken

CloseComes(p) == BrokenByPeer(p) /\ CloseSent(p) /\ CloseAwaited(p) /\ CloseHeard(p)

\* What holds at one end, whatever the other does.
Local(p) ==
    /\ FlagOrder(p) /\ CloseOrder(p) /\ Completion(p) /\ Causes(p)
    /\ Primary(p) /\ Reason(p)

\* The inductive invariant.
WorkerInv == TypeOK /\ \A p \in Peers : Local(p) /\ CloseComes(p)

\* The states of the owner, the flags and the two threads.
Owners ==
    [at : {"playing", "sending", "asking", "asked", "ending", "saying", "closing",
           "cancel", "shutdown", "joining", "gone"},
     ready : BOOLEAN, sends : Nat,
     reason : Failures \cup {"none", "stop", "closed", "peer closed", "disconnected"}]

Flags ==
    [cancelled : BOOLEAN, ownerCancelled : BOOLEAN, shut : BOOLEAN, reset : BOOLEAN,
     terminal : BOOLEAN, sentClose : BOOLEAN, receivedClose : BOOLEAN]

Writers ==
    [at : {"admit", "select", "send", "grace", "linger", "leave", "drop", "join",
           "exit", "done"},
     item : Messages \cup {"none"}, result : Errors \cup {"ok"}, intentional : BOOLEAN]

Readers ==
    [at : {"off", "read", "publish", "finish", "done"}, item : Messages \cup {"none"},
     result : Errors \cup {"ok"}, completion : Errors \cup {"ok", "none"}]

\* TypeOK with its record sets named.
LEMMA Types ==
    TypeOK <=>
    /\ owner \in [Peers -> Owners]
    /\ outbound \in [Peers -> Seq(Messages)]
    /\ inbound \in [Peers -> Seq(Events)]
    /\ flags \in [Peers -> Flags]
    /\ failure \in [Peers -> Failures \cup {"none"}]
    /\ writer \in [Peers -> Writers]
    /\ reader \in [Peers -> Readers]
    /\ wire \in [Peers -> Seq(Messages)]
    /\ \A p \in Peers : /\ Len(outbound[p]) <= OUTBOUND_CAPACITY
                        /\ Len(inbound[p]) <= INBOUND_CAPACITY
BY DEF TypeOK, Owners, Flags, Writers, Readers

\* A message appended is held.
LEMMA HoldsAppend ==
    ASSUME NEW S, NEW s \in Seq(S), NEW x \in S, NEW m
    PROVE  Holds(Append(s, x), m) <=> Holds(s, m) \/ x = m
<1>1. DOMAIN s = 1..Len(s) /\ DOMAIN Append(s, x) = 1..(Len(s) + 1) OBVIOUS
<1>2. \A i \in 1..Len(s) : Append(s, x)[i] = s[i] OBVIOUS
<1>3. Append(s, x)[Len(s) + 1] = x OBVIOUS
<1>4. Len(s) \in Nat OBVIOUS
<1> QED BY <1>1, <1>2, <1>3, <1>4 DEF Holds

\* A message taken from the front was held.
LEMMA HoldsTail ==
    ASSUME NEW S, NEW s \in Seq(S), s # <<>>, NEW m
    PROVE  Holds(s, m) <=> Holds(Tail(s), m) \/ Head(s) = m
<1>1. Len(s) \in Nat \ {0} /\ DOMAIN s = 1..Len(s) OBVIOUS
<1>2. Tail(s) \in Seq(S) /\ Len(Tail(s)) = Len(s) - 1 OBVIOUS
<1>3. DOMAIN Tail(s) = 1..(Len(s) - 1) BY <1>2
<1>4. \A i \in 1..(Len(s) - 1) : Tail(s)[i] = s[i + 1] OBVIOUS
<1>5. Head(s) = s[1] OBVIOUS
<1>6. ASSUME Holds(s, m) PROVE Holds(Tail(s), m) \/ Head(s) = m
  <2>1. PICK i \in 1..Len(s) : s[i] = m BY <1>1, <1>6 DEF Holds
  <2>2. CASE i = 1 BY <1>5, <2>1, <2>2
  <2>3. CASE i # 1
    <3>1. i - 1 \in 1..(Len(s) - 1) /\ (i - 1) + 1 = i BY <1>1, <2>3
    <3>2. Tail(s)[i - 1] = m BY <1>4, <2>1, <3>1
    <3> QED BY <1>3, <3>1, <3>2 DEF Holds
  <2> QED BY <2>2, <2>3
<1>7. ASSUME Holds(Tail(s), m) PROVE Holds(s, m)
  <2>1. PICK i \in 1..(Len(s) - 1) : Tail(s)[i] = m BY <1>3, <1>7 DEF Holds
  <2>2. i + 1 \in 1..Len(s) /\ s[i + 1] = m BY <1>1, <1>4, <2>1
  <2> QED BY <1>1, <2>2 DEF Holds
<1>8. Head(s) = m => Holds(s, m) BY <1>1, <1>5 DEF Holds
<1> QED BY <1>6, <1>7, <1>8

\* What finish_connection returns at this end.
Verdict(p) ==
    FinishConnection(writer[p].result, reader[p].completion, writer[p].intentional)

\* The step changes the state of end r only.
Touches(r) ==
    /\ owner' = [owner EXCEPT ![r] = owner'[r]]
    /\ outbound' = [outbound EXCEPT ![r] = outbound'[r]]
    /\ inbound' = [inbound EXCEPT ![r] = inbound'[r]]
    /\ flags' = [flags EXCEPT ![r] = flags'[r]]
    /\ failure' = [failure EXCEPT ![r] = failure'[r]]
    /\ writer' = [writer EXCEPT ![r] = writer'[r]]
    /\ reader' = [reader EXCEPT ![r] = reader'[r]]

\* The type of one end.
PeerType(p) ==
    /\ owner[p] \in Owners
    /\ outbound[p] \in Seq(Messages) /\ Len(outbound[p]) <= OUTBOUND_CAPACITY
    /\ inbound[p] \in Seq(Events) /\ Len(inbound[p]) <= INBOUND_CAPACITY
    /\ flags[p] \in Flags
    /\ failure[p] \in Failures \cup {"none"}
    /\ writer[p] \in Writers
    /\ reader[p] \in Readers

\* The two ends.
LEMMA Peer ==
    ASSUME NEW r \in Peers
    PROVE  /\ Other(r) \in Peers /\ Other(r) # r /\ Other(Other(r)) = r
           /\ \A p \in Peers : p = r \/ p = Other(r)
BY DEF Peers, Other

\* The type of one end follows from the type of both.
LEMMA PeerTypes == ASSUME TypeOK, NEW p \in Peers PROVE PeerType(p)
BY Types DEF PeerType

\* A step of one end keeps the type when it keeps that end's.
LEMMA TouchType ==
    ASSUME TypeOK, NEW r \in Peers,
           Touches(r), PeerType(r)', wire' \in [Peers -> Seq(Messages)]
    PROVE  TypeOK'
<1>1. owner' \in [Peers -> Owners] BY Types DEF Touches, PeerType
<1>2. outbound' \in [Peers -> Seq(Messages)] BY Types DEF Touches, PeerType
<1>3. inbound' \in [Peers -> Seq(Events)] BY Types DEF Touches, PeerType
<1>4. flags' \in [Peers -> Flags] BY Types DEF Touches, PeerType
<1>5. failure' \in [Peers -> Failures \cup {"none"}] BY Types DEF Touches, PeerType
<1>6. writer' \in [Peers -> Writers] BY Types DEF Touches, PeerType
<1>7. reader' \in [Peers -> Readers] BY Types DEF Touches, PeerType
<1>8. \A p \in Peers : /\ Len(outbound'[p]) <= OUTBOUND_CAPACITY
                         /\ Len(inbound'[p]) <= INBOUND_CAPACITY
  BY Types DEF Touches, PeerType
<1> QED BY <1>1, <1>2, <1>3, <1>4, <1>5, <1>6, <1>7, <1>8
  DEF TypeOK, Owners, Flags, Writers, Readers

\* A step of one end keeps what holds at the other.
LEMMA Beside ==
    ASSUME TypeOK, NEW r \in Peers, Touches(r), Local(Other(r))
    PROVE  Local(Other(r))'
<1> DEFINE q == Other(r)
<1>1. q \in Peers /\ q # r BY Peer
<1>2. /\ owner'[q] = owner[q] /\ outbound'[q] = outbound[q] /\ inbound'[q] = inbound[q]
      /\ failure'[q] = failure[q] /\ writer'[q] = writer[q] /\ reader'[q] = reader[q]
      /\ flags'[q] = flags[q]
  BY <1>1, Types DEF Touches
<1>3. FlagOrder(q)' BY <1>2 DEF Local, FlagOrder, Playing
<1>4. CloseOrder(q)' BY <1>2 DEF Local, CloseOrder, Playing
<1>5. Completion(q)' BY <1>2 DEF Local, Completion
<1>6. Causes(q)' BY <1>2 DEF Local, Causes, Playing
<1>7. Primary(q)' BY <1>2 DEF Local, Primary, Playing
<1>8. Reason(q)' BY <1>2 DEF Local, Reason, CauseKept, Returned
<1> QED BY <1>3, <1>4, <1>5, <1>6, <1>7, <1>8 DEF Local

\* A step of one end leaves the other's state alone.
LEMMA Apart ==
    ASSUME TypeOK, NEW r \in Peers, Touches(r)
    PROVE  /\ owner'[Other(r)] = owner[Other(r)] /\ failure'[Other(r)] = failure[Other(r)]
           /\ writer'[Other(r)] = writer[Other(r)]
           /\ reader'[Other(r)] = reader[Other(r)]
           /\ flags'[Other(r)] = flags[Other(r)] /\ outbound'[Other(r)] = outbound[Other(r)]
BY Types, Peer DEF Touches

\* While the session plays, a worker that has returned holds the first cause,
\* or the peer's Close has come.
LEMMA CauseAtReturn ==
    ASSUME TypeOK, NEW p \in Peers, Local(p), Playing(p), Returned(p)
    PROVE  flags[p].receivedClose \/ CauseKept(p)
<1>1. writer[p].result \in Errors \cup {"ok"} BY Types DEF Writers
<1>2. writer[p].result = "ok" => flags[p].receivedClose
  BY DEF Local, Causes, CloseOrder, Returned, Left
<1>3. ~flags[p].receivedClose => writer[p].result \notin Secondary
  BY DEF Local, Primary, Returned
<1> QED BY <1>1, <1>2, <1>3 DEF CauseKept, Secondary

\* Network::send looks at the flag.
LEMMA SendKeeps ==
    ASSUME WorkerInv, NEW r \in Peers, Send(r)
    PROVE  WorkerInv'
<1> DEFINE q == Other(r)
<1> TypeOK BY DEF WorkerInv
<1>1. Local(r) BY DEF WorkerInv
<1>2. PeerType(r) BY PeerTypes
<1>3. owner[r].at = "playing"
  BY Types DEF Send, To
<1>4. /\ owner' = [owner EXCEPT ![r] = owner'[r]]
      /\ \/ owner'[r] = [owner[r] EXCEPT !.at = "asking"]
         \/ owner'[r] = [owner[r] EXCEPT !.at = "sending"]
  BY Types DEF Send, To
<1>5. UNCHANGED <<outbound, inbound, flags, failure, writer, reader, wire>>
  BY DEF Send, To
<1>6. Touches(r) BY <1>4, <1>5, Types DEF Touches
<1>7. failure[r] \in Failures \cup {"none"} BY <1>2 DEF PeerType
<1>8. owner'[r] \in Owners
  <2>1. owner[r] \in Owners BY <1>2 DEF PeerType
  <2> QED BY <1>4, <1>7, <2>1 DEF Owners
<1>9. PeerType(r)' BY <1>2, <1>5, <1>8 DEF PeerType
<1>10. TypeOK' BY <1>5, <1>6, <1>9, Types, TouchType
<1>11. owner'[r].at \in {"asking", "sending"} /\ owner'[r].reason = owner[r].reason
  <2>1. owner[r] \in Owners BY <1>2 DEF PeerType
  <2> QED BY <1>4, <2>1 DEF Owners
<1>12. Local(r)'
  <2>1. FlagOrder(r)'
    BY <1>1, <1>3, <1>5, <1>7, <1>11
      DEF Local, FlagOrder, Playing
  <2>2. CloseOrder(r)'
    BY <1>1, <1>3, <1>5, <1>7, <1>11
      DEF Local, FlagOrder, CloseOrder, Playing, Left, Ended
  <2>3. Completion(r)'
    BY <1>1, <1>3, <1>5, <1>7, <1>11
      DEF Local, Completion
  <2>4. Causes(r)'
    BY <1>1, <1>3, <1>5, <1>7, <1>11
      DEF Local, FlagOrder, CloseOrder, Completion, Causes, Playing, Left, Ended
  <2>5. Primary(r)'
    BY <1>1, <1>3, <1>5, <1>7, <1>11
      DEF Local, FlagOrder, CloseOrder, Completion, Causes, Primary, Playing, Left,
          Ended, Secondary
  <2>6. Reason(r)'
    BY <1>1, <1>3, <1>5, <1>7, <1>11
      DEF Local, Reason, CauseKept, Returned, Secondary
  <2> QED BY <2>1, <2>2, <2>3, <2>4, <2>5, <2>6 DEF Local
<1>13. Local(q)' BY <1>6, Beside, Peer DEF WorkerInv
<1>14. /\ Local(q) /\ CloseComes(r) /\ CloseComes(q) /\ Other(q) = r /\ q # r
       /\ owner'[q] = owner[q] /\ failure'[q] = failure[q] /\ writer'[q] = writer[q]
       /\ reader'[q] = reader[q] /\ flags'[q] = flags[q] /\ outbound'[q] = outbound[q]
  BY <1>6, Apart, Peer DEF WorkerInv
<1>15. CloseComes(r)'
  BY <1>1, <1>3, <1>5, <1>7, <1>11, <1>14
    DEF CloseComes, BrokenByPeer, CloseSent, CloseAwaited, CloseHeard, Told, Breaks,
        Broken, Stopped, Local, FlagOrder, CloseOrder, Completion, Causes, Primary,
        Reason, CauseKept, Returned, Playing, Left, Ended, Secondary
<1>16. CloseComes(q)'
  <2>1. BrokenByPeer(q)'
    BY <1>1, <1>3, <1>5, <1>7, <1>11, <1>14
      DEF CloseComes, BrokenByPeer, Breaks, Broken
  <2>2. CloseSent(q)'
    BY <1>1, <1>3, <1>5, <1>7, <1>11, <1>14
      DEF CloseComes, CloseSent
  <2>3. CloseAwaited(q)'
    BY <1>1, <1>3, <1>5, <1>7, <1>11, <1>14
      DEF CloseComes, CloseAwaited, Stopped, Local, CloseOrder, Playing
  <2>4. CloseHeard(q)'
    BY <1>1, <1>3, <1>5, <1>7, <1>11, <1>14
      DEF CloseComes, CloseHeard, CloseSent, BrokenByPeer, Told, Breaks, Broken,
          Stopped, Local, FlagOrder, CloseOrder, Playing, Left, Ended
  <2> QED BY <2>1, <2>2, <2>3, <2>4 DEF CloseComes
<1> QED BY <1>10, <1>12, <1>13, <1>15, <1>16, Peer DEF WorkerInv

\* cancelled_reason looks at the failure: what the worker has recorded is given.
LEMMA AskFailureKeeps ==
    ASSUME WorkerInv, NEW r \in Peers, AskFailure(r)
    PROVE  WorkerInv'
<1> DEFINE q == Other(r)
<1> TypeOK BY DEF WorkerInv
<1>1. Local(r) BY DEF WorkerInv
<1>2. PeerType(r) BY PeerTypes
<1>3. owner[r].at = "asking"
  BY Types DEF AskFailure, To, Ending
<1>4. /\ owner' = [owner EXCEPT ![r] = owner'[r]]
      /\ IF failure[r] = "none" THEN owner'[r] = [owner[r] EXCEPT !.at = "asked"]
         ELSE owner'[r] = [owner[r] EXCEPT !.at = "ending", !.reason = failure[r]]
  BY Types DEF AskFailure, To, Ending
<1>5. UNCHANGED <<outbound, inbound, flags, failure, writer, reader, wire>>
  BY DEF AskFailure, To, Ending
<1>6. Touches(r) BY <1>4, <1>5, Types DEF Touches
<1>7. failure[r] \in Failures \cup {"none"} BY <1>2 DEF PeerType
<1>8. owner'[r] \in Owners
  <2>1. owner[r] \in Owners BY <1>2 DEF PeerType
  <2> QED BY <1>4, <1>7, <2>1 DEF Owners
<1>9. PeerType(r)' BY <1>2, <1>5, <1>8 DEF PeerType
<1>10. TypeOK' BY <1>5, <1>6, <1>9, Types, TouchType
<1>11. \/ owner'[r].at = "asked" /\ owner'[r].reason = owner[r].reason
       \/ owner'[r].at = "ending" /\ owner'[r].reason = failure[r] /\ failure[r] # "none"
  <2>1. owner[r] \in Owners BY <1>2 DEF PeerType
  <2> QED BY <1>4, <2>1 DEF Owners
<1>12. Local(r)'
  <2>1. FlagOrder(r)'
    BY <1>1, <1>3, <1>5, <1>7, <1>11
      DEF Local, FlagOrder, Playing, Errors, Failures
  <2>2. CloseOrder(r)'
    BY <1>1, <1>3, <1>5, <1>7, <1>11
      DEF Local, FlagOrder, CloseOrder, Playing, Left, Ended, Errors, Failures
  <2>3. Completion(r)'
    BY <1>1, <1>3, <1>5, <1>7, <1>11
      DEF Local, Completion, Errors, Failures
  <2>4. Causes(r)'
    BY <1>1, <1>3, <1>5, <1>7, <1>11
      DEF Local, FlagOrder, CloseOrder, Completion, Causes, Playing, Left, Ended,
          Errors, Failures
  <2>5. Primary(r)'
    BY <1>1, <1>3, <1>5, <1>7, <1>11
      DEF Local, FlagOrder, CloseOrder, Completion, Causes, Primary, Playing, Left,
          Ended, Secondary, Errors, Failures
  <2>6. Reason(r)'
    BY <1>1, <1>3, <1>5, <1>7, <1>11
      DEF Local, CloseOrder, Causes, Primary, Playing, Reason, CauseKept, Returned,
          Secondary, Errors, Failures
  <2> QED BY <2>1, <2>2, <2>3, <2>4, <2>5, <2>6 DEF Local
<1>13. Local(q)' BY <1>6, Beside, Peer DEF WorkerInv
<1>14. /\ Local(q) /\ CloseComes(r) /\ CloseComes(q) /\ Other(q) = r /\ q # r
       /\ owner'[q] = owner[q] /\ failure'[q] = failure[q] /\ writer'[q] = writer[q]
       /\ reader'[q] = reader[q] /\ flags'[q] = flags[q] /\ outbound'[q] = outbound[q]
  BY <1>6, Apart, Peer DEF WorkerInv
<1>15. CloseComes(r)'
  <2>1. BrokenByPeer(r)'
    BY <1>1, <1>3, <1>5, <1>7, <1>11, <1>14
      DEF CloseComes, BrokenByPeer, Breaks, Broken, Errors, Failures
  <2>2. CloseSent(r)'
    BY <1>1, <1>3, <1>5, <1>7, <1>11, <1>14
      DEF CloseComes, CloseSent, Errors, Failures
  <2>3. CloseAwaited(r)'
    BY <1>1, <1>3, <1>5, <1>7, <1>11, <1>14
      DEF CloseComes, CloseAwaited, Stopped, Local, CloseOrder, Playing, Errors,
          Failures
  <2>4. CloseHeard(r)'
    BY <1>1, <1>3, <1>5, <1>7, <1>11, <1>14
      DEF CloseComes, CloseHeard, CloseSent, BrokenByPeer, Told, Breaks, Broken,
          Stopped, Local, FlagOrder, CloseOrder, Playing, Left, Ended, Errors, Failures
  <2> QED BY <2>1, <2>2, <2>3, <2>4 DEF CloseComes
<1>16. CloseComes(q)'
  <2>1. BrokenByPeer(q)'
    BY <1>1, <1>3, <1>5, <1>7, <1>11, <1>14
      DEF CloseComes, BrokenByPeer, Breaks, Broken, Errors, Failures
  <2>2. CloseSent(q)'
    BY <1>1, <1>3, <1>5, <1>7, <1>11, <1>14
      DEF CloseComes, CloseSent, Errors, Failures
  <2>3. CloseAwaited(q)'
    BY <1>1, <1>3, <1>5, <1>7, <1>11, <1>14
      DEF CloseComes, CloseAwaited, Stopped, Local, CloseOrder, Playing, Errors,
          Failures
  <2>4. CloseHeard(q)'
    BY <1>1, <1>3, <1>5, <1>7, <1>11, <1>14
      DEF CloseComes, CloseHeard, CloseSent, BrokenByPeer, Told, Breaks, Broken,
          Stopped, Local, FlagOrder, CloseOrder, Playing, Left, Ended, Errors, Failures
  <2> QED BY <2>1, <2>2, <2>3, <2>4 DEF CloseComes
<1> QED BY <1>10, <1>12, <1>13, <1>15, <1>16, Peer DEF WorkerInv

\* cancelled_reason looks at the thread: when it has gone by now, what it
\* returned is the cause, or the peer's Close is waiting.
LEMMA AskStoppedKeeps ==
    ASSUME WorkerInv, NEW r \in Peers, AskStopped(r)
    PROVE  WorkerInv'
<1> DEFINE q == Other(r)
<1> TypeOK BY DEF WorkerInv
<1>1. Local(r) BY DEF WorkerInv
<1>2. PeerType(r) BY PeerTypes
<1>3. /\ owner[r].at = "asked"
      /\ Prompt /\ owner'[r].at = "ending" => writer[r].at = "done"
  BY Types DEF AskStopped, To, Ending, Stopped, Owners
<1>4. /\ owner' = [owner EXCEPT ![r] = owner'[r]]
      /\ \/ owner'[r] = [owner[r] EXCEPT !.at = "ending", !.reason = "closed"]
         \/ owner'[r] = [owner[r] EXCEPT !.at = "asking"]
  BY Types DEF AskStopped, To, Ending, Stopped, Owners
<1>5. UNCHANGED <<outbound, inbound, flags, failure, writer, reader, wire>>
  BY DEF AskStopped, To, Ending, Stopped, Owners
<1>6. Touches(r) BY <1>4, <1>5, Types DEF Touches
<1>7. failure[r] \in Failures \cup {"none"} BY <1>2 DEF PeerType
<1>8. owner'[r] \in Owners
  <2>1. owner[r] \in Owners BY <1>2 DEF PeerType
  <2> QED BY <1>4, <1>7, <2>1 DEF Owners
<1>9. PeerType(r)' BY <1>2, <1>5, <1>8 DEF PeerType
<1>10. TypeOK' BY <1>5, <1>6, <1>9, Types, TouchType
<1>11. \/ owner'[r].at = "asking" /\ owner'[r].reason = owner[r].reason
       \/ owner'[r].at = "ending" /\ owner'[r].reason = "closed"
  <2>1. owner[r] \in Owners BY <1>2 DEF PeerType
  <2> QED BY <1>4, <2>1 DEF Owners
<1>12. Local(r)'
  <2>1. FlagOrder(r)'
    BY <1>1, <1>3, <1>5, <1>7, <1>11
      DEF Local, FlagOrder, Playing, Errors, Failures
  <2>2. CloseOrder(r)'
    BY <1>1, <1>3, <1>5, <1>7, <1>11
      DEF Local, FlagOrder, CloseOrder, Playing, Left, Ended, Errors, Failures
  <2>3. Completion(r)'
    BY <1>1, <1>3, <1>5, <1>7, <1>11
      DEF Local, Completion, Errors, Failures
  <2>4. Causes(r)'
    BY <1>1, <1>3, <1>5, <1>7, <1>11
      DEF Local, FlagOrder, CloseOrder, Completion, Causes, Playing, Left, Ended,
          Errors, Failures
  <2>5. Primary(r)'
    BY <1>1, <1>3, <1>5, <1>7, <1>11
      DEF Local, FlagOrder, CloseOrder, Completion, Causes, Primary, Playing, Left,
          Ended, Secondary, Errors, Failures
  <2>6. Reason(r)'
    <3>1. Prompt /\ owner'[r].at = "ending" => flags[r].receivedClose \/ CauseKept(r)
      BY <1>1, <1>3, CauseAtReturn DEF Playing, Returned
    <3>2. (CauseKept(r))' <=> CauseKept(r) BY <1>5 DEF CauseKept, Returned
    <3> QED BY <1>1, <1>5, <1>11, <3>1, <3>2 DEF Local, Reason, Secondary
  <2> QED BY <2>1, <2>2, <2>3, <2>4, <2>5, <2>6 DEF Local
<1>13. Local(q)' BY <1>6, Beside, Peer DEF WorkerInv
<1>14. /\ Local(q) /\ CloseComes(r) /\ CloseComes(q) /\ Other(q) = r /\ q # r
       /\ owner'[q] = owner[q] /\ failure'[q] = failure[q] /\ writer'[q] = writer[q]
       /\ reader'[q] = reader[q] /\ flags'[q] = flags[q] /\ outbound'[q] = outbound[q]
  BY <1>6, Apart, Peer DEF WorkerInv
<1>15. CloseComes(r)'
  <2>1. BrokenByPeer(r)'
    BY <1>1, <1>3, <1>5, <1>7, <1>11, <1>14
      DEF CloseComes, BrokenByPeer, Breaks, Broken, Errors, Failures
  <2>2. CloseSent(r)'
    BY <1>1, <1>3, <1>5, <1>7, <1>11, <1>14
      DEF CloseComes, CloseSent, Errors, Failures
  <2>3. CloseAwaited(r)'
    BY <1>1, <1>3, <1>5, <1>7, <1>11, <1>14
      DEF CloseComes, CloseAwaited, Stopped, Local, CloseOrder, Playing, Errors,
          Failures
  <2>4. CloseHeard(r)'
    BY <1>1, <1>3, <1>5, <1>7, <1>11, <1>14
      DEF CloseComes, CloseHeard, CloseSent, BrokenByPeer, Told, Breaks, Broken,
          Stopped, Local, FlagOrder, CloseOrder, Playing, Left, Ended, Errors, Failures
  <2> QED BY <2>1, <2>2, <2>3, <2>4 DEF CloseComes
<1>16. CloseComes(q)'
  <2>1. BrokenByPeer(q)'
    BY <1>1, <1>3, <1>5, <1>7, <1>11, <1>14
      DEF CloseComes, BrokenByPeer, Breaks, Broken, Errors, Failures
  <2>2. CloseSent(q)'
    BY <1>1, <1>3, <1>5, <1>7, <1>11, <1>14
      DEF CloseComes, CloseSent, Errors, Failures
  <2>3. CloseAwaited(q)'
    BY <1>1, <1>3, <1>5, <1>7, <1>11, <1>14
      DEF CloseComes, CloseAwaited, Stopped, Local, CloseOrder, Playing, Errors,
          Failures
  <2>4. CloseHeard(q)'
    BY <1>1, <1>3, <1>5, <1>7, <1>11, <1>14
      DEF CloseComes, CloseHeard, CloseSent, BrokenByPeer, Told, Breaks, Broken,
          Stopped, Local, FlagOrder, CloseOrder, Playing, Left, Ended, Errors, Failures
  <2> QED BY <2>1, <2>2, <2>3, <2>4 DEF CloseComes
<1> QED BY <1>10, <1>12, <1>13, <1>15, <1>16, Peer DEF WorkerInv

\* try_send fails: the overflow is the first cause; of a worker that has left,
\* what run returned is, or the peer's Close is waiting.
LEMMA TrySendFailsKeeps ==
    ASSUME WorkerInv, NEW r \in Peers,
           owner[r].at = "sending", TrySendFails(r), Ending(r, TrySendError(r))
    PROVE  WorkerInv'
<1> DEFINE q == Other(r)
<1> TypeOK BY DEF WorkerInv
<1>1. Local(r) BY DEF WorkerInv
<1>2. PeerType(r) BY PeerTypes
<1>3. owner[r].at = "sending" BY Types DEF TrySendFails, Ending, RecordFailure
<1>4. /\ TrySendError(r) \in {"outbound overflow", "outbound disconnected"}
      /\ TrySendError(r) = "outbound disconnected" => writer[r].at \in {"exit", "done"}
  BY DEF TrySendFails, TrySendError, Returned
<1>5. /\ failure' = [failure EXCEPT ![r] = failure'[r]]
      /\ failure'[r] = (IF failure[r] = "none" THEN TrySendError(r) ELSE failure[r])
  BY Types DEF TrySendFails, Ending, RecordFailure
<1>6. /\ flags' = [flags EXCEPT ![r] = flags'[r]]
      /\ flags'[r] = [flags[r] EXCEPT !.cancelled = TRUE, !.shut = TRUE]
  BY Types DEF TrySendFails, Ending, RecordFailure
<1>7. /\ owner' = [owner EXCEPT ![r] = owner'[r]]
      /\ owner'[r] = [owner[r] EXCEPT !.at = "ending", !.reason = TrySendError(r)]
  BY Types DEF TrySendFails, Ending, RecordFailure
<1>8. UNCHANGED <<outbound, inbound, writer, reader, wire>>
  BY DEF TrySendFails, Ending, RecordFailure
<1>9. Touches(r) BY <1>5, <1>6, <1>7, <1>8, Types DEF Touches
<1>10. failure'[r] \in Failures \cup {"none"}
  <2>1. failure[r] \in Failures \cup {"none"} BY <1>2 DEF PeerType
  <2> QED BY <1>4, <1>5, <2>1 DEF Failures
<1>11. flags'[r] \in Flags
  <2>1. flags[r] \in Flags BY <1>2 DEF PeerType
  <2> QED BY <1>6, <2>1 DEF Flags
<1>12. owner'[r] \in Owners
  <2>1. owner[r] \in Owners BY <1>2 DEF PeerType
  <2> QED BY <1>4, <1>7, <2>1 DEF Owners, Failures
<1>13. PeerType(r)' BY <1>2, <1>8, <1>10, <1>11, <1>12 DEF PeerType
<1>14. TypeOK' BY <1>8, <1>9, <1>13, Types, TouchType
<1>15. /\ owner'[r].at = "ending" /\ owner'[r].reason = TrySendError(r)
  <2>1. owner[r] \in Owners BY <1>2 DEF PeerType
  <2> QED BY <1>7, <2>1 DEF Owners
<1>16. /\ flags'[r].cancelled = TRUE
       /\ flags'[r].ownerCancelled = flags[r].ownerCancelled
       /\ flags'[r].shut = TRUE /\ flags'[r].terminal = flags[r].terminal
       /\ flags'[r].sentClose = flags[r].sentClose
       /\ flags'[r].receivedClose = flags[r].receivedClose
       /\ flags'[r].reset = flags[r].reset
  <2>1. flags[r] \in Flags BY <1>2 DEF PeerType
  <2> QED BY <1>6, <2>1 DEF Flags
<1>17. Local(r)'
  <2>1. FlagOrder(r)'
    BY <1>4, <1>1, <1>3, <1>5, <1>8, <1>15, <1>16
      DEF Local, FlagOrder, Playing, Errors, Failures
  <2>2. CloseOrder(r)'
    BY <1>4, <1>1, <1>3, <1>5, <1>8, <1>15, <1>16
      DEF Local, FlagOrder, CloseOrder, Playing, Left, Ended, Errors, Failures
  <2>3. Completion(r)'
    BY <1>4, <1>1, <1>3, <1>5, <1>8, <1>15, <1>16
      DEF Local, Completion, Errors, Failures
  <2>4. Causes(r)'
    BY <1>4, <1>1, <1>3, <1>5, <1>8, <1>15, <1>16
      DEF Local, FlagOrder, CloseOrder, Completion, Causes, Playing, Left, Ended,
          Errors, Failures
  <2>5. Primary(r)'
    BY <1>4, <1>1, <1>3, <1>5, <1>8, <1>15, <1>16
      DEF Local, FlagOrder, CloseOrder, Completion, Causes, Primary, Playing, Left,
          Ended, Secondary, Errors, Failures
  <2>6. Reason(r)'
    <3>1. TrySendError(r) = "outbound disconnected" =>
            flags[r].receivedClose \/ CauseKept(r)
      BY <1>4, <1>1, <1>3, CauseAtReturn DEF Playing, Returned
    <3>2. (CauseKept(r))' <=> CauseKept(r) BY <1>8 DEF CauseKept, Returned
    <3> QED BY <1>4, <1>15, <1>16, <3>1, <3>2 DEF Reason, Secondary
  <2> QED BY <2>1, <2>2, <2>3, <2>4, <2>5, <2>6 DEF Local
<1>18. Local(q)' BY <1>9, Beside, Peer DEF WorkerInv
<1>19. /\ Local(q) /\ CloseComes(r) /\ CloseComes(q) /\ Other(q) = r /\ q # r
       /\ owner'[q] = owner[q] /\ failure'[q] = failure[q] /\ writer'[q] = writer[q]
       /\ reader'[q] = reader[q] /\ flags'[q] = flags[q] /\ outbound'[q] = outbound[q]
  BY <1>9, Apart, Peer DEF WorkerInv
<1>20. CloseComes(r)'
  BY <1>4, <1>1, <1>3, <1>5, <1>8, <1>15, <1>16, <1>19
    DEF CloseComes, BrokenByPeer, CloseSent, CloseAwaited, CloseHeard, Told, Breaks,
        Broken, Stopped, Local, FlagOrder, CloseOrder, Completion, Causes, Primary,
        Reason, CauseKept, Returned, Playing, Left, Ended, Secondary
<1>21. CloseComes(q)'
  <2>1. BrokenByPeer(q)'
    BY <1>4, <1>1, <1>3, <1>5, <1>8, <1>15, <1>16, <1>19
      DEF CloseComes, BrokenByPeer, Breaks, Broken
  <2>2. CloseSent(q)'
    BY <1>4, <1>1, <1>3, <1>5, <1>8, <1>15, <1>16, <1>19
      DEF CloseComes, CloseSent
  <2>3. CloseAwaited(q)'
    BY <1>4, <1>1, <1>3, <1>5, <1>8, <1>15, <1>16, <1>19
      DEF CloseComes, CloseAwaited, Stopped, Local, CloseOrder, Playing
  <2>4. CloseHeard(q)'
    BY <1>4, <1>1, <1>3, <1>5, <1>8, <1>15, <1>16, <1>19
      DEF CloseComes, CloseHeard, CloseSent, BrokenByPeer, Told, Breaks, Broken,
          Stopped, Local, FlagOrder, CloseOrder, Playing, Left, Ended
  <2> QED BY <2>1, <2>2, <2>3, <2>4 DEF CloseComes
<1> QED BY <1>14, <1>17, <1>18, <1>20, <1>21, Peer DEF WorkerInv

\* Network::send finds room.
LEMMA SendQueuedKeeps ==
    ASSUME WorkerInv, NEW r \in Peers,
           owner[r].at = "sending", Queued(r, "Input"),
           owner' = [owner EXCEPT ![r].at = "playing", ![r].sends = @ + 1]
    PROVE  WorkerInv'
<1> DEFINE q == Other(r)
<1> TypeOK BY DEF WorkerInv
<1>1. Local(r) BY DEF WorkerInv
<1>2. PeerType(r) BY PeerTypes
<1>3. owner[r].at = "sending" /\ Len(outbound[r]) < OUTBOUND_CAPACITY
  BY Types, WorkerAssumption DEF Queued, TrySendError, PeerType
<1>4. /\ outbound' = [outbound EXCEPT ![r] = outbound'[r]]
      /\ outbound'[r] = Append(outbound[r], "Input")
  BY Types DEF Queued
<1>5. /\ owner' = [owner EXCEPT ![r] = owner'[r]]
      /\ owner'[r] = [owner[r] EXCEPT !.at = "playing", !.sends = owner[r].sends + 1]
  BY Types DEF Queued
<1>6. UNCHANGED <<inbound, flags, failure, writer, reader, wire>> BY DEF Queued
<1>7. Touches(r) BY <1>4, <1>5, <1>6, Types DEF Touches
<1>8. "Input" \in Messages BY DEF Messages
<1>9. owner[r] \in Owners BY Types
<1>10. owner[r].sends \in Nat BY <1>9 DEF Owners
<1>11. owner[r].sends + 1 \in Nat BY <1>10
<1>12. outbound'[r] \in Seq(Messages) /\ Len(outbound'[r]) <= OUTBOUND_CAPACITY
  BY <1>2, <1>3, <1>4, <1>8, <1>9, <1>10, <1>11, WorkerAssumption DEF PeerType
<1>13. owner'[r] \in Owners
  <2>1. owner[r] \in Owners BY <1>2 DEF PeerType
  <2>2. PICK n \in Nat : owner'[r] = [owner[r] EXCEPT !.at = "playing", !.sends = n]
    BY <1>5, <1>11
  <2>3. \A S, R, A, B : \A o \in [at : S, ready : R, sends : A, reason : B] :
            \A a \in S, k \in A : [o EXCEPT !.at = a, !.sends = k]
                                     \in [at : S, ready : R, sends : A, reason : B]
    OBVIOUS
  <2>4. [owner[r] EXCEPT !.at = "playing", !.sends = n] \in Owners
    BY <2>1, <2>3, Zenon DEF Owners
  <2> QED BY <2>2, <2>4
<1>14. PeerType(r)' BY <1>2, <1>6, <1>12, <1>13 DEF PeerType
<1>15. TypeOK' BY <1>6, <1>7, <1>14, Types, TouchType
<1>16. /\ owner'[r].at = "playing" /\ owner'[r].reason = owner[r].reason
  <2>1. owner[r] \in Owners BY <1>2 DEF PeerType
  <2> QED BY ZenonT(30), <1>5, <2>1 DEF Owners
<1>17. Holds(outbound'[r], "Close") <=> Holds(outbound[r], "Close")
  BY <1>2, <1>3, <1>4, HoldsAppend DEF PeerType, Messages
<1>18. Local(r)'
  <2>1. FlagOrder(r)'
    BY <1>1, <1>3, <1>6, <1>16, <1>17
      DEF Local, FlagOrder, Playing
  <2>2. CloseOrder(r)'
    BY <1>1, <1>3, <1>6, <1>16, <1>17
      DEF Local, FlagOrder, CloseOrder, Playing, Left, Ended
  <2>3. Completion(r)'
    BY <1>1, <1>3, <1>6, <1>16, <1>17
      DEF Local, Completion
  <2>4. Causes(r)'
    BY <1>1, <1>3, <1>6, <1>16, <1>17
      DEF Local, FlagOrder, CloseOrder, Completion, Causes, Playing, Left, Ended
  <2>5. Primary(r)'
    BY <1>1, <1>3, <1>6, <1>16, <1>17
      DEF Local, FlagOrder, CloseOrder, Completion, Causes, Primary, Playing, Left,
          Ended, Secondary
  <2>6. Reason(r)'
    BY <1>1, <1>3, <1>6, <1>16, <1>17
      DEF Local, Reason, CauseKept, Returned, Secondary
  <2> QED BY <2>1, <2>2, <2>3, <2>4, <2>5, <2>6 DEF Local
<1>19. Local(q)' BY <1>7, Beside, Peer DEF WorkerInv
<1>20. /\ Local(q) /\ CloseComes(r) /\ CloseComes(q) /\ Other(q) = r /\ q # r
       /\ owner'[q] = owner[q] /\ failure'[q] = failure[q] /\ writer'[q] = writer[q]
       /\ reader'[q] = reader[q] /\ flags'[q] = flags[q] /\ outbound'[q] = outbound[q]
  BY <1>7, Apart, Peer DEF WorkerInv
<1>21. CloseComes(r)'
  BY <1>1, <1>3, <1>6, <1>20, <1>16, <1>17
    DEF CloseComes, BrokenByPeer, CloseSent, CloseAwaited, CloseHeard, Told, Breaks,
        Broken, Stopped, Local, FlagOrder, CloseOrder, Completion, Causes, Primary,
        Reason, CauseKept, Returned, Playing, Left, Ended, Secondary
<1>22. CloseComes(q)'
  <2>1. BrokenByPeer(q)'
    BY <1>1, <1>3, <1>6, <1>20, <1>16, <1>17
      DEF CloseComes, BrokenByPeer, Breaks, Broken
  <2>2. CloseSent(q)'
    BY <1>1, <1>3, <1>6, <1>20, <1>16, <1>17
      DEF CloseComes, CloseSent
  <2>3. CloseAwaited(q)'
    BY <1>1, <1>3, <1>6, <1>20, <1>16, <1>17
      DEF CloseComes, CloseAwaited, Stopped, Local, CloseOrder, Playing
  <2>4. CloseHeard(q)'
    BY <1>1, <1>3, <1>6, <1>20, <1>16, <1>17
      DEF CloseComes, CloseHeard, CloseSent, BrokenByPeer, Told, Breaks, Broken,
          Stopped, Local, FlagOrder, CloseOrder, Playing, Left, Ended
  <2> QED BY <2>1, <2>2, <2>3, <2>4 DEF CloseComes
<1> QED BY <1>19, <1>21, <1>15, <1>18, <1>22, Peer DEF WorkerInv

\* Network::poll takes an event: the Close stays in the queue until the
\* session has ended on it.
LEMMA PollKeeps ==
    ASSUME WorkerInv, NEW r \in Peers, Poll(r)
    PROVE  WorkerInv'
<1> DEFINE q == Other(r)
<1> TypeOK BY DEF WorkerInv
<1>1. Local(r) BY DEF WorkerInv
<1>2. PeerType(r) BY PeerTypes
<1>3. /\ owner[r].at = "playing"
      /\ inbound[r] # <<>>
  BY Types DEF Poll, Ending
<1>4. /\ inbound' = [inbound EXCEPT ![r] = inbound'[r]]
      /\ inbound'[r] = Tail(inbound[r])
  BY Types DEF Poll, Ending
<1>5. Head(inbound[r]) \in Events BY <1>3, Types
<1>6. /\ owner' = [owner EXCEPT ![r] = owner'[r]]
      /\ Head(inbound[r]) = "Ready" => owner'[r] = [owner[r] EXCEPT !.ready = TRUE]
      /\ Head(inbound[r]) = "Input" => owner'[r] = owner[r]
      /\ Head(inbound[r]) = "Close" =>
            owner'[r] = [owner[r] EXCEPT !.at = "ending", !.reason = "peer closed"]
      /\ Head(inbound[r]) = "Failed" =>
            owner'[r] = [owner[r] EXCEPT !.at = "ending", !.reason = failure[r]]
  <2>1. CASE Head(inbound[r]) = "Ready" BY <2>1, Types DEF Poll
  <2>2. CASE Head(inbound[r]) = "Input" BY <2>2, Types DEF Poll
  <2>3. CASE Head(inbound[r]) = "Close" BY <2>3, Types DEF Poll, Ending
  <2>4. CASE Head(inbound[r]) = "Failed" BY <2>4, Types DEF Poll, Ending
  <2> QED BY <1>5, <2>1, <2>2, <2>3, <2>4 DEF Events
<1>7. UNCHANGED <<outbound, flags, failure, writer, reader, wire>> BY DEF Poll, Ending
<1>8. Touches(r) BY <1>4, <1>6, <1>7, Types DEF Touches
<1>9. failure[r] \in Failures \cup {"none"} BY Types
<1>10. inbound'[r] \in Seq(Events) /\ Len(inbound'[r]) <= INBOUND_CAPACITY
  BY <1>2, <1>3, <1>4, <1>5, <1>9, WorkerAssumption DEF PeerType
<1>11. owner'[r] \in Owners
  <2>1. owner[r] \in Owners BY <1>2 DEF PeerType
  <2> QED BY <1>5, <1>6, <1>9, <2>1 DEF Owners, Events
<1>12. PeerType(r)' BY <1>2, <1>7, <1>10, <1>11 DEF PeerType
<1>13. TypeOK' BY <1>7, <1>8, <1>12, Types, TouchType
<1>14. \/ owner'[r].at = "playing" /\ owner'[r].reason = owner[r].reason
       \/ owner'[r].at = "ending" /\ owner'[r].reason = "peer closed"
       \/ owner'[r].at = "ending" /\ owner'[r].reason = failure[r]
  <2>1. owner[r] \in Owners BY <1>2 DEF PeerType
  <2> QED BY <1>3, <1>5, <1>6, <2>1 DEF Owners, Events
<1>15. owner'[r].at = "playing" =>
         (Holds(inbound'[r], "Close") <=> Holds(inbound[r], "Close"))
  <2>1. owner[r] \in Owners BY <1>2 DEF PeerType
  <2>2. Head(inbound[r]) = "Close" => owner'[r].at = "ending" BY <1>6, <2>1 DEF Owners
  <2> QED BY <1>2, <1>3, <1>4, <2>2, HoldsTail DEF PeerType
<1>16. Holds(inbound'[r], "Close") => Holds(inbound[r], "Close")
  BY <1>2, <1>3, <1>4, HoldsTail DEF PeerType
<1>17. failure[r] \in Failures \cup {"none"} BY <1>2 DEF PeerType
<1>18. Local(r)'
  <2>1. FlagOrder(r)'
    BY <1>1, <1>3, <1>4, <1>5, <1>7, <1>14, <1>15, <1>16, <1>17
      DEF Local, FlagOrder, Playing, Errors, Failures
  <2>2. CloseOrder(r)'
    BY <1>1, <1>3, <1>4, <1>5, <1>7, <1>14, <1>15, <1>16, <1>17
      DEF Local, FlagOrder, CloseOrder, Playing, Left, Ended, Errors, Failures
  <2>3. Completion(r)'
    BY <1>1, <1>3, <1>4, <1>5, <1>7, <1>14, <1>15, <1>16, <1>17
      DEF Local, Completion, Errors, Failures
  <2>4. Causes(r)'
    BY <1>1, <1>3, <1>4, <1>5, <1>7, <1>14, <1>15, <1>16, <1>17
      DEF Local, FlagOrder, CloseOrder, Completion, Causes, Playing, Left, Ended,
          Errors, Failures
  <2>5. Primary(r)'
    BY <1>1, <1>3, <1>4, <1>5, <1>7, <1>14, <1>15, <1>16, <1>17
      DEF Local, FlagOrder, CloseOrder, Completion, Causes, Primary, Playing, Left,
          Ended, Secondary, Errors, Failures
  <2>6. Reason(r)'
    BY <1>1, <1>3, <1>4, <1>5, <1>7, <1>14, <1>15, <1>16, <1>17
      DEF Local, CloseOrder, Causes, Primary, Playing, Reason, CauseKept, Returned,
          Secondary, Errors, Failures
  <2> QED BY <2>1, <2>2, <2>3, <2>4, <2>5, <2>6 DEF Local
<1>19. Local(q)' BY <1>8, Beside, Peer DEF WorkerInv
<1>20. /\ Local(q) /\ CloseComes(r) /\ CloseComes(q) /\ Other(q) = r /\ q # r
       /\ owner'[q] = owner[q] /\ failure'[q] = failure[q] /\ writer'[q] = writer[q]
       /\ reader'[q] = reader[q] /\ flags'[q] = flags[q] /\ outbound'[q] = outbound[q]
  BY <1>8, Apart, Peer DEF WorkerInv
<1>21. CloseComes(r)'
  <2>1. BrokenByPeer(r)'
    BY <1>1, <1>3, <1>4, <1>5, <1>7, <1>14, <1>15, <1>16, <1>17, <1>20
      DEF CloseComes, BrokenByPeer, Breaks, Broken, Errors, Failures
  <2>2. CloseSent(r)'
    BY <1>1, <1>3, <1>4, <1>5, <1>7, <1>14, <1>15, <1>16, <1>17, <1>20
      DEF CloseComes, CloseSent, Errors, Failures
  <2>3. CloseAwaited(r)'
    BY <1>1, <1>3, <1>4, <1>5, <1>7, <1>14, <1>15, <1>16, <1>17, <1>20
      DEF CloseComes, CloseAwaited, Stopped, Local, CloseOrder, Playing, Errors,
          Failures
  <2>4. CloseHeard(r)'
    BY <1>1, <1>3, <1>4, <1>5, <1>7, <1>14, <1>15, <1>16, <1>17, <1>20
      DEF CloseComes, CloseHeard, CloseSent, BrokenByPeer, Told, Breaks, Broken,
          Stopped, Local, FlagOrder, CloseOrder, Playing, Left, Ended, Errors, Failures
  <2> QED BY <2>1, <2>2, <2>3, <2>4 DEF CloseComes
<1>22. CloseComes(q)'
  <2>1. BrokenByPeer(q)'
    BY <1>1, <1>3, <1>4, <1>5, <1>7, <1>14, <1>15, <1>16, <1>17, <1>20
      DEF CloseComes, BrokenByPeer, Breaks, Broken, Errors, Failures
  <2>2. CloseSent(q)'
    BY <1>1, <1>3, <1>4, <1>5, <1>7, <1>14, <1>15, <1>16, <1>17, <1>20
      DEF CloseComes, CloseSent, Errors, Failures
  <2>3. CloseAwaited(q)'
    BY <1>1, <1>3, <1>4, <1>5, <1>7, <1>14, <1>15, <1>16, <1>17, <1>20
      DEF CloseComes, CloseAwaited, Stopped, Local, CloseOrder, Playing, Errors,
          Failures
  <2>4. CloseHeard(q)'
    BY <1>1, <1>3, <1>4, <1>5, <1>7, <1>14, <1>15, <1>16, <1>17, <1>20
      DEF CloseComes, CloseHeard, CloseSent, BrokenByPeer, Told, Breaks, Broken,
          Stopped, Local, FlagOrder, CloseOrder, Playing, Left, Ended, Errors, Failures
  <2> QED BY <2>1, <2>2, <2>3, <2>4 DEF CloseComes
<1> QED BY <1>13, <1>18, <1>19, <1>21, <1>22, Peer DEF WorkerInv

\* Network::poll finds the worker gone: it has left a cause, or the queue
\* would still hold the peer's Close.
LEMMA PollDisconnectedKeeps ==
    ASSUME WorkerInv, NEW r \in Peers, PollDisconnected(r)
    PROVE  WorkerInv'
<1> DEFINE q == Other(r)
<1> TypeOK BY DEF WorkerInv
<1>1. Local(r) BY DEF WorkerInv
<1>2. PeerType(r) BY PeerTypes
<1>3. /\ owner[r].at = "playing"
      /\ inbound[r] = <<>>
      /\ writer[r].at = "done"
  BY Types DEF PollDisconnected, Ending, Stopped
<1>4. /\ owner' = [owner EXCEPT ![r] = owner'[r]]
      /\ owner'[r] = [owner[r] EXCEPT !.at = "ending",
                                      !.reason = IF failure[r] = "none" THEN "disconnected"
                                                 ELSE failure[r]]
  BY Types DEF PollDisconnected, Ending, Stopped
<1>5. UNCHANGED <<outbound, inbound, flags, failure, writer, reader, wire>>
  BY DEF PollDisconnected, Ending, Stopped
<1>6. Touches(r) BY <1>4, <1>5, Types DEF Touches
<1>7. failure[r] \in Failures \cup {"none"} BY Types
<1>8. owner'[r] \in Owners
  <2>1. owner[r] \in Owners BY <1>2 DEF PeerType
  <2> QED BY <1>4, <1>7, <2>1 DEF Owners
<1>9. PeerType(r)' BY <1>2, <1>5, <1>8 DEF PeerType
<1>10. TypeOK' BY <1>5, <1>6, <1>9, Types, TouchType
<1>11. /\ owner'[r].at = "ending"
       /\ owner'[r].reason = (IF failure[r] = "none" THEN "disconnected" ELSE failure[r])
  <2>1. owner[r] \in Owners BY <1>2 DEF PeerType
  <2> QED BY <1>4, <2>1 DEF Owners
<1>12. failure[r] \in Failures \cup {"none"} BY <1>2 DEF PeerType
<1>13. ~Holds(inbound[r], "Close") BY <1>3 DEF Holds
<1>14. Local(r)'
  BY <1>1, <1>3, <1>5, <1>11, <1>12, <1>13
    DEF Local, FlagOrder, CloseOrder, Completion, Causes, Primary, Reason, CauseKept,
        Returned, Playing, Left, Ended, Secondary, Errors, Failures
<1>15. Local(q)' BY <1>6, Beside, Peer DEF WorkerInv
<1>16. /\ Local(q) /\ CloseComes(r) /\ CloseComes(q) /\ Other(q) = r /\ q # r
       /\ owner'[q] = owner[q] /\ failure'[q] = failure[q] /\ writer'[q] = writer[q]
       /\ reader'[q] = reader[q] /\ flags'[q] = flags[q] /\ outbound'[q] = outbound[q]
  BY <1>6, Apart, Peer DEF WorkerInv
<1>17. CloseComes(r)'
  BY <1>1, <1>3, <1>5, <1>11, <1>12, <1>13, <1>16
    DEF CloseComes, BrokenByPeer, CloseSent, CloseAwaited, CloseHeard, Told, Breaks,
        Broken, Stopped, Local, FlagOrder, CloseOrder, Completion, Causes, Primary,
        Reason, CauseKept, Returned, Playing, Left, Ended, Secondary, Errors, Failures
<1>18. CloseComes(q)'
  BY ZenonT(30), <1>1, <1>3, <1>5, <1>11, <1>12, <1>13, <1>16
    DEF CloseComes, BrokenByPeer, CloseSent, CloseAwaited, CloseHeard, Told, Breaks,
        Broken, Stopped, Local, FlagOrder, CloseOrder, Completion, Causes, Primary,
        Reason, CauseKept, Returned, Playing, Left, Ended, Secondary, Errors, Failures
<1> QED BY <1>10, <1>14, <1>15, <1>17, <1>18, Peer DEF WorkerInv

\* The player stops.
LEMMA StopKeeps ==
    ASSUME WorkerInv, NEW r \in Peers, Stop(r)
    PROVE  WorkerInv'
<1> DEFINE q == Other(r)
<1> TypeOK BY DEF WorkerInv
<1>1. Local(r) BY DEF WorkerInv
<1>2. PeerType(r) BY PeerTypes
<1>3. owner[r].at = "playing" BY Types DEF Stop, Ending
<1>4. /\ owner' = [owner EXCEPT ![r] = owner'[r]]
      /\ owner'[r] = [owner[r] EXCEPT !.at = "ending", !.reason = "stop"]
  BY Types DEF Stop, Ending
<1>5. UNCHANGED <<outbound, inbound, flags, failure, writer, reader, wire>>
  BY DEF Stop, Ending
<1>6. Touches(r) BY <1>4, <1>5, Types DEF Touches
<1>7. owner'[r] \in Owners
  <2>1. owner[r] \in Owners BY <1>2 DEF PeerType
  <2> QED BY <1>4, <2>1 DEF Owners
<1>8. PeerType(r)' BY <1>2, <1>5, <1>7 DEF PeerType
<1>9. TypeOK' BY <1>5, <1>6, <1>8, Types, TouchType
<1>10. /\ owner'[r].at = "ending" /\ owner'[r].reason = "stop"
  <2>1. owner[r] \in Owners BY <1>2 DEF PeerType
  <2> QED BY <1>4, <2>1 DEF Owners
<1>11. Local(r)'
  BY <1>1, <1>3, <1>5, <1>10
    DEF Local, FlagOrder, CloseOrder, Completion, Causes, Primary, Reason, CauseKept,
        Returned, Playing, Left, Ended, Secondary
<1>12. Local(q)' BY <1>6, Beside, Peer DEF WorkerInv
<1>13. /\ Local(q) /\ CloseComes(r) /\ CloseComes(q) /\ Other(q) = r /\ q # r
       /\ owner'[q] = owner[q] /\ failure'[q] = failure[q] /\ writer'[q] = writer[q]
       /\ reader'[q] = reader[q] /\ flags'[q] = flags[q] /\ outbound'[q] = outbound[q]
  BY <1>6, Apart, Peer DEF WorkerInv
<1>14. CloseComes(r)'
  BY <1>1, <1>3, <1>5, <1>10, <1>13
    DEF CloseComes, BrokenByPeer, CloseSent, CloseAwaited, CloseHeard, Told, Breaks,
        Broken, Stopped, Local, FlagOrder, CloseOrder, Completion, Causes, Primary,
        Reason, CauseKept, Returned, Playing, Left, Ended, Secondary
<1>15. CloseComes(q)'
  <2>1. BrokenByPeer(q)'
    BY <1>1, <1>3, <1>5, <1>10, <1>13
      DEF CloseComes, BrokenByPeer, Breaks, Broken
  <2>2. CloseSent(q)'
    BY <1>1, <1>3, <1>5, <1>10, <1>13
      DEF CloseComes, CloseSent
  <2>3. CloseAwaited(q)'
    BY <1>1, <1>3, <1>5, <1>10, <1>13
      DEF CloseComes, CloseAwaited, Stopped, Local, CloseOrder, Playing
  <2>4. CloseHeard(q)'
    BY <1>1, <1>3, <1>5, <1>10, <1>13
      DEF CloseComes, CloseHeard, CloseSent, BrokenByPeer, Told, Breaks, Broken,
          Stopped, Local, FlagOrder, CloseOrder, Playing, Left, Ended
  <2> QED BY <2>1, <2>2, <2>3, <2>4 DEF CloseComes
<1> QED BY <1>9, <1>11, <1>12, <1>14, <1>15, Peer DEF WorkerInv

\* The session ends its network: with a Close if the flag is down.
LEMMA CloseKeeps ==
    ASSUME WorkerInv, NEW r \in Peers, Close(r)
    PROVE  WorkerInv'
<1> DEFINE q == Other(r)
<1> TypeOK BY DEF WorkerInv
<1>1. Local(r) BY DEF WorkerInv
<1>2. PeerType(r) BY PeerTypes
<1>3. owner[r].at = "ending" /\ (flags[r].cancelled => owner'[r].at = "cancel")
  BY Types DEF Close, To, Owners
<1>4. /\ owner' = [owner EXCEPT ![r] = owner'[r]]
      /\ \/ owner'[r] = [owner[r] EXCEPT !.at = "saying"]
         \/ owner'[r] = [owner[r] EXCEPT !.at = "cancel"]
  BY Types DEF Close, To, Owners
<1>5. UNCHANGED <<outbound, inbound, flags, failure, writer, reader, wire>>
  BY DEF Close, To, Owners
<1>6. Touches(r) BY <1>4, <1>5, Types DEF Touches
<1>7. failure[r] \in Failures \cup {"none"} BY <1>2 DEF PeerType
<1>8. owner'[r] \in Owners
  <2>1. owner[r] \in Owners BY <1>2 DEF PeerType
  <2> QED BY <1>4, <1>7, <2>1 DEF Owners
<1>9. PeerType(r)' BY <1>2, <1>5, <1>8 DEF PeerType
<1>10. TypeOK' BY <1>5, <1>6, <1>9, Types, TouchType
<1>11. owner'[r].at \in {"saying", "cancel"} /\ owner'[r].reason = owner[r].reason
  <2>1. owner[r] \in Owners BY <1>2 DEF PeerType
  <2> QED BY <1>4, <2>1 DEF Owners
<1>12. Local(r)'
  <2>1. FlagOrder(r)'
    BY <1>1, <1>3, <1>5, <1>7, <1>11
      DEF Local, FlagOrder, Playing
  <2>2. CloseOrder(r)'
    BY <1>1, <1>3, <1>5, <1>7, <1>11
      DEF Local, FlagOrder, CloseOrder, Playing, Left, Ended
  <2>3. Completion(r)'
    BY <1>1, <1>3, <1>5, <1>7, <1>11
      DEF Local, Completion
  <2>4. Causes(r)'
    BY <1>1, <1>3, <1>5, <1>7, <1>11
      DEF Local, FlagOrder, CloseOrder, Completion, Causes, Playing, Left, Ended
  <2>5. Primary(r)'
    BY <1>1, <1>3, <1>5, <1>7, <1>11
      DEF Local, FlagOrder, CloseOrder, Completion, Causes, Primary, Playing, Left,
          Ended, Secondary
  <2>6. Reason(r)'
    BY <1>1, <1>3, <1>5, <1>7, <1>11
      DEF Local, Reason, CauseKept, Returned, Secondary
  <2> QED BY <2>1, <2>2, <2>3, <2>4, <2>5, <2>6 DEF Local
<1>13. Local(q)' BY <1>6, Beside, Peer DEF WorkerInv
<1>14. /\ Local(q) /\ CloseComes(r) /\ CloseComes(q) /\ Other(q) = r /\ q # r
       /\ owner'[q] = owner[q] /\ failure'[q] = failure[q] /\ writer'[q] = writer[q]
       /\ reader'[q] = reader[q] /\ flags'[q] = flags[q] /\ outbound'[q] = outbound[q]
  BY <1>6, Apart, Peer DEF WorkerInv
<1>15. CloseComes(r)'
  BY <1>1, <1>3, <1>5, <1>7, <1>11, <1>14
    DEF CloseComes, BrokenByPeer, CloseSent, CloseAwaited, CloseHeard, Told, Breaks,
        Broken, Stopped, Local, FlagOrder, CloseOrder, Completion, Causes, Primary,
        Reason, CauseKept, Returned, Playing, Left, Ended, Secondary
<1>16. CloseComes(q)'
  <2>1. BrokenByPeer(q)'
    BY <1>1, <1>3, <1>5, <1>7, <1>11, <1>14
      DEF CloseComes, BrokenByPeer, Breaks, Broken
  <2>2. CloseSent(q)'
    BY <1>1, <1>3, <1>5, <1>7, <1>11, <1>14
      DEF CloseComes, CloseSent
  <2>3. CloseAwaited(q)'
    BY <1>1, <1>3, <1>5, <1>7, <1>11, <1>14
      DEF CloseComes, CloseAwaited, Stopped, Local, CloseOrder, Playing
  <2>4. CloseHeard(q)'
    BY <1>1, <1>3, <1>5, <1>7, <1>11, <1>14
      DEF CloseComes, CloseHeard, CloseSent, BrokenByPeer, Told, Breaks, Broken,
          Stopped, Local, FlagOrder, CloseOrder, Playing, Left, Ended
  <2> QED BY <2>1, <2>2, <2>3, <2>4 DEF CloseComes
<1> QED BY <1>10, <1>12, <1>13, <1>15, <1>16, Peer DEF WorkerInv

\* try_send of the Close fails.
LEMMA TrySendCloseFailsKeeps ==
    ASSUME WorkerInv, NEW r \in Peers,
           owner[r].at = "saying", TrySendFails(r), To(r, "cancel")
    PROVE  WorkerInv'
<1> DEFINE q == Other(r)
<1> TypeOK BY DEF WorkerInv
<1>1. Local(r) BY DEF WorkerInv
<1>2. PeerType(r) BY PeerTypes
<1>3. owner[r].at = "saying" BY Types DEF To, TrySendFails, RecordFailure
<1>4. /\ TrySendError(r) \in {"outbound overflow", "outbound disconnected"}
      /\ TrySendError(r) = "outbound disconnected" => writer[r].at \in {"exit", "done"}
  BY DEF TrySendFails, TrySendError, Returned
<1>5. /\ failure' = [failure EXCEPT ![r] = failure'[r]]
      /\ failure'[r] = (IF failure[r] = "none" THEN TrySendError(r) ELSE failure[r])
  BY Types DEF To, TrySendFails, RecordFailure
<1>6. /\ flags' = [flags EXCEPT ![r] = flags'[r]]
      /\ flags'[r] = [flags[r] EXCEPT !.cancelled = TRUE, !.shut = TRUE]
  BY Types DEF To, TrySendFails, RecordFailure
<1>7. /\ owner' = [owner EXCEPT ![r] = owner'[r]]
      /\ owner'[r] = [owner[r] EXCEPT !.at = "cancel"]
  BY Types DEF To, TrySendFails, RecordFailure
<1>8. UNCHANGED <<outbound, inbound, writer, reader, wire>>
  BY DEF To, TrySendFails, RecordFailure
<1>9. Touches(r) BY <1>5, <1>6, <1>7, <1>8, Types DEF Touches
<1>10. failure'[r] \in Failures \cup {"none"}
  <2>1. failure[r] \in Failures \cup {"none"} BY <1>2 DEF PeerType
  <2> QED BY <1>4, <1>5, <2>1 DEF Failures
<1>11. flags'[r] \in Flags
  <2>1. flags[r] \in Flags BY <1>2 DEF PeerType
  <2> QED BY <1>6, <2>1 DEF Flags
<1>12. owner'[r] \in Owners
  <2>1. owner[r] \in Owners BY <1>2 DEF PeerType
  <2> QED BY <1>7, <2>1 DEF Owners
<1>13. PeerType(r)' BY <1>2, <1>8, <1>10, <1>11, <1>12 DEF PeerType
<1>14. TypeOK' BY <1>8, <1>9, <1>13, Types, TouchType
<1>15. /\ owner'[r].at = "cancel" /\ owner'[r].reason = owner[r].reason
  <2>1. owner[r] \in Owners BY <1>2 DEF PeerType
  <2> QED BY <1>7, <2>1 DEF Owners
<1>16. /\ flags'[r].cancelled = TRUE
       /\ flags'[r].ownerCancelled = flags[r].ownerCancelled
       /\ flags'[r].shut = TRUE /\ flags'[r].terminal = flags[r].terminal
       /\ flags'[r].sentClose = flags[r].sentClose
       /\ flags'[r].receivedClose = flags[r].receivedClose
       /\ flags'[r].reset = flags[r].reset
  <2>1. flags[r] \in Flags BY <1>2 DEF PeerType
  <2> QED BY <1>6, <2>1 DEF Flags
<1>17. Local(r)'
  <2>1. FlagOrder(r)'
    BY <1>4, <1>1, <1>3, <1>5, <1>8, <1>15, <1>16
      DEF Local, FlagOrder, Playing, Errors, Failures
  <2>2. CloseOrder(r)'
    BY <1>4, <1>1, <1>3, <1>5, <1>8, <1>15, <1>16
      DEF Local, FlagOrder, CloseOrder, Playing, Left, Ended, Errors, Failures
  <2>3. Completion(r)'
    BY <1>4, <1>1, <1>3, <1>5, <1>8, <1>15, <1>16
      DEF Local, Completion, Errors, Failures
  <2>4. Causes(r)'
    BY <1>4, <1>1, <1>3, <1>5, <1>8, <1>15, <1>16
      DEF Local, FlagOrder, CloseOrder, Completion, Causes, Playing, Left, Ended,
          Errors, Failures
  <2>5. Primary(r)'
    BY <1>4, <1>1, <1>3, <1>5, <1>8, <1>15, <1>16
      DEF Local, FlagOrder, CloseOrder, Completion, Causes, Primary, Playing, Left,
          Ended, Secondary, Errors, Failures
  <2>6. Reason(r)'
    BY <1>4, <1>1, <1>3, <1>5, <1>8, <1>15, <1>16
      DEF Local, Reason, CauseKept, Returned, Secondary, Errors, Failures
  <2> QED BY <2>1, <2>2, <2>3, <2>4, <2>5, <2>6 DEF Local
<1>18. Local(q)' BY <1>9, Beside, Peer DEF WorkerInv
<1>19. /\ Local(q) /\ CloseComes(r) /\ CloseComes(q) /\ Other(q) = r /\ q # r
       /\ owner'[q] = owner[q] /\ failure'[q] = failure[q] /\ writer'[q] = writer[q]
       /\ reader'[q] = reader[q] /\ flags'[q] = flags[q] /\ outbound'[q] = outbound[q]
  BY <1>9, Apart, Peer DEF WorkerInv
<1>20. CloseComes(r)'
  BY <1>4, <1>1, <1>3, <1>5, <1>8, <1>15, <1>16, <1>19
    DEF CloseComes, BrokenByPeer, CloseSent, CloseAwaited, CloseHeard, Told, Breaks,
        Broken, Stopped, Local, FlagOrder, CloseOrder, Completion, Causes, Primary,
        Reason, CauseKept, Returned, Playing, Left, Ended, Secondary
<1>21. CloseComes(q)'
  BY <1>4, <1>1, <1>3, <1>5, <1>8, <1>15, <1>16, <1>19
    DEF CloseComes, BrokenByPeer, CloseSent, CloseAwaited, CloseHeard, Told, Breaks,
        Broken, Stopped, Local, FlagOrder, CloseOrder, Completion, Causes, Primary,
        Reason, CauseKept, Returned, Playing, Left, Ended, Secondary
<1> QED BY <1>14, <1>17, <1>18, <1>20, <1>21, Peer DEF WorkerInv

\* try_send queues the Close: run has not returned.
LEMMA CloseQueuedKeeps ==
    ASSUME WorkerInv, NEW r \in Peers,
           owner[r].at = "saying", Queued(r, "Close"), To(r, "closing")
    PROVE  WorkerInv'
<1> DEFINE q == Other(r)
<1> TypeOK BY DEF WorkerInv
<1>1. Local(r) BY DEF WorkerInv
<1>2. PeerType(r) BY PeerTypes
<1>3. /\ owner[r].at = "saying"
      /\ Len(outbound[r]) < OUTBOUND_CAPACITY
  BY Types, WorkerAssumption DEF To, Queued, TrySendError, PeerType
<1>4. /\ outbound' = [outbound EXCEPT ![r] = outbound'[r]]
      /\ outbound'[r] = Append(outbound[r], "Close")
  BY Types DEF To, Queued
<1>5. /\ owner' = [owner EXCEPT ![r] = owner'[r]]
      /\ owner'[r] = [owner[r] EXCEPT !.at = "closing"]
  BY Types DEF To, Queued
<1>6. UNCHANGED <<inbound, flags, failure, writer, reader, wire>> BY DEF To, Queued
<1>7. Touches(r) BY <1>4, <1>5, <1>6, Types DEF Touches
<1>8. "Close" \in Messages BY DEF Messages
<1>9. outbound'[r] \in Seq(Messages) /\ Len(outbound'[r]) <= OUTBOUND_CAPACITY
  BY <1>2, <1>3, <1>4, <1>8, WorkerAssumption DEF PeerType
<1>10. owner'[r] \in Owners
  <2>1. owner[r] \in Owners BY <1>2 DEF PeerType
  <2> QED BY <1>5, <1>8, <2>1 DEF Owners
<1>11. PeerType(r)' BY <1>2, <1>6, <1>9, <1>10 DEF PeerType
<1>12. TypeOK' BY <1>6, <1>7, <1>11, Types, TouchType
<1>13. /\ owner'[r].at = "closing" /\ owner'[r].reason = owner[r].reason
  <2>1. owner[r] \in Owners BY <1>2 DEF PeerType
  <2> QED BY <1>5, <2>1 DEF Owners
<1>14. Local(r)'
  <2>1. FlagOrder(r)'
    BY <1>1, <1>3, <1>6, <1>13
      DEF Local, FlagOrder, Playing
  <2>2. CloseOrder(r)'
    BY <1>1, <1>3, <1>6, <1>13
      DEF Local, FlagOrder, CloseOrder, Playing, Left, Ended
  <2>3. Completion(r)'
    BY <1>1, <1>3, <1>6, <1>13
      DEF Local, Completion
  <2>4. Causes(r)'
    BY <1>1, <1>3, <1>6, <1>13
      DEF Local, FlagOrder, CloseOrder, Completion, Causes, Playing, Left, Ended
  <2>5. Primary(r)'
    BY <1>1, <1>3, <1>6, <1>13
      DEF Local, FlagOrder, CloseOrder, Completion, Causes, Primary, Playing, Left,
          Ended, Secondary
  <2>6. Reason(r)'
    BY <1>1, <1>3, <1>6, <1>13
      DEF Local, Reason, CauseKept, Returned, Secondary
  <2> QED BY <2>1, <2>2, <2>3, <2>4, <2>5, <2>6 DEF Local
<1>15. Local(q)' BY <1>7, Beside, Peer DEF WorkerInv
<1>16. /\ Local(q) /\ CloseComes(r) /\ CloseComes(q) /\ Other(q) = r /\ q # r
       /\ owner'[q] = owner[q] /\ failure'[q] = failure[q] /\ writer'[q] = writer[q]
       /\ reader'[q] = reader[q] /\ flags'[q] = flags[q] /\ outbound'[q] = outbound[q]
  BY <1>7, Apart, Peer DEF WorkerInv
<1>17. CloseComes(r)'
  BY <1>1, <1>3, <1>6, <1>13, <1>16
    DEF CloseComes, BrokenByPeer, CloseSent, CloseAwaited, CloseHeard, Told, Breaks,
        Broken, Stopped, Local, FlagOrder, CloseOrder, Completion, Causes, Primary,
        Reason, CauseKept, Returned, Playing, Left, Ended, Secondary
<1>18. CloseComes(q)'
  <2>1. BrokenByPeer(q)'
    BY <1>1, <1>3, <1>6, <1>13, <1>16
      DEF CloseComes, BrokenByPeer, Breaks, Broken
  <2>2. CloseSent(q)'
    BY <1>1, <1>3, <1>6, <1>13, <1>16
      DEF CloseComes, CloseSent
  <2>3. CloseAwaited(q)'
    BY <1>1, <1>3, <1>6, <1>13, <1>16
      DEF CloseComes, CloseAwaited, Stopped, Local, CloseOrder, Playing
  <2>4. CloseHeard(q)'
    BY <1>1, <1>3, <1>6, <1>13, <1>16
      DEF CloseComes, CloseHeard, CloseSent, BrokenByPeer, Told, Breaks, Broken,
          Stopped, Local, FlagOrder, CloseOrder, Playing, Left, Ended
  <2> QED BY <2>1, <2>2, <2>3, <2>4 DEF CloseComes
<1> QED BY <1>15, <1>12, <1>14, <1>17, <1>18, Peer DEF WorkerInv

\* The wait after Close: when timers are prompt the worker has gone.
LEMMA CloseWaitKeeps ==
    ASSUME WorkerInv, NEW r \in Peers, CloseWait(r)
    PROVE  WorkerInv'
<1> DEFINE q == Other(r)
<1> TypeOK BY DEF WorkerInv
<1>1. Local(r) BY DEF WorkerInv
<1>2. PeerType(r) BY PeerTypes
<1>3. /\ owner[r].at = "closing"
      /\ writer[r].at = "done" \/ ~Prompt
  BY Types DEF CloseWait, To, Stopped
<1>4. /\ owner' = [owner EXCEPT ![r] = owner'[r]]
      /\ owner'[r] = [owner[r] EXCEPT !.at = "cancel"]
  BY Types DEF CloseWait, To, Stopped
<1>5. UNCHANGED <<outbound, inbound, flags, failure, writer, reader, wire>>
  BY DEF CloseWait, To, Stopped
<1>6. Touches(r) BY <1>4, <1>5, Types DEF Touches
<1>7. owner'[r] \in Owners
  <2>1. owner[r] \in Owners BY <1>2 DEF PeerType
  <2> QED BY <1>4, <2>1 DEF Owners
<1>8. PeerType(r)' BY <1>2, <1>5, <1>7 DEF PeerType
<1>9. TypeOK' BY <1>5, <1>6, <1>8, Types, TouchType
<1>10. /\ owner'[r].at = "cancel" /\ owner'[r].reason = owner[r].reason
  <2>1. owner[r] \in Owners BY <1>2 DEF PeerType
  <2> QED BY <1>4, <2>1 DEF Owners
<1>11. Local(r)'
  <2>1. FlagOrder(r)'
    BY <1>1, <1>3, <1>5, <1>10
      DEF Local, FlagOrder, Playing
  <2>2. CloseOrder(r)'
    BY <1>1, <1>3, <1>5, <1>10
      DEF Local, FlagOrder, CloseOrder, Playing, Left, Ended
  <2>3. Completion(r)'
    BY <1>1, <1>3, <1>5, <1>10
      DEF Local, Completion
  <2>4. Causes(r)'
    BY <1>1, <1>3, <1>5, <1>10
      DEF Local, FlagOrder, CloseOrder, Completion, Causes, Playing, Left, Ended
  <2>5. Primary(r)'
    BY <1>1, <1>3, <1>5, <1>10
      DEF Local, FlagOrder, CloseOrder, Completion, Causes, Primary, Playing, Left,
          Ended, Secondary
  <2>6. Reason(r)'
    BY <1>1, <1>3, <1>5, <1>10
      DEF Local, Reason, CauseKept, Returned, Secondary
  <2> QED BY <2>1, <2>2, <2>3, <2>4, <2>5, <2>6 DEF Local
<1>12. Local(q)' BY <1>6, Beside, Peer DEF WorkerInv
<1>13. /\ Local(q) /\ CloseComes(r) /\ CloseComes(q) /\ Other(q) = r /\ q # r
       /\ owner'[q] = owner[q] /\ failure'[q] = failure[q] /\ writer'[q] = writer[q]
       /\ reader'[q] = reader[q] /\ flags'[q] = flags[q] /\ outbound'[q] = outbound[q]
  BY <1>6, Apart, Peer DEF WorkerInv
<1>14. CloseComes(r)'
  BY <1>1, <1>3, <1>5, <1>10, <1>13
    DEF CloseComes, BrokenByPeer, CloseSent, CloseAwaited, CloseHeard, Told, Breaks,
        Broken, Stopped, Local, FlagOrder, CloseOrder, Completion, Causes, Primary,
        Reason, CauseKept, Returned, Playing, Left, Ended, Secondary
<1>15. CloseComes(q)'
  <2>1. BrokenByPeer(q)'
    BY <1>1, <1>3, <1>5, <1>10, <1>13
      DEF CloseComes, BrokenByPeer, Breaks, Broken
  <2>2. CloseSent(q)'
    BY <1>1, <1>3, <1>5, <1>10, <1>13
      DEF CloseComes, CloseSent
  <2>3. CloseAwaited(q)'
    BY <1>1, <1>3, <1>5, <1>10, <1>13
      DEF CloseComes, CloseAwaited, Stopped, Local, CloseOrder, Playing
  <2>4. CloseHeard(q)'
    BY <1>1, <1>3, <1>5, <1>10, <1>13
      DEF CloseComes, CloseHeard, CloseSent, BrokenByPeer, Told, Breaks, Broken,
          Stopped, Local, FlagOrder, CloseOrder, Playing, Left, Ended
  <2> QED BY <2>1, <2>2, <2>3, <2>4 DEF CloseComes
<1> QED BY <1>9, <1>11, <1>12, <1>14, <1>15, Peer DEF WorkerInv

\* Network::cancel raises the owner's flag first.
LEMMA CancelOwnerKeeps ==
    ASSUME WorkerInv, NEW r \in Peers, CancelOwner(r)
    PROVE  WorkerInv'
<1> DEFINE q == Other(r)
<1> TypeOK BY DEF WorkerInv
<1>1. Local(r) BY DEF WorkerInv
<1>2. PeerType(r) BY PeerTypes
<1>3. owner[r].at = "cancel" BY Types DEF CancelOwner, To
<1>4. /\ owner' = [owner EXCEPT ![r] = owner'[r]]
      /\ owner'[r] = [owner[r] EXCEPT !.at = "shutdown"]
  BY Types DEF CancelOwner, To
<1>5. /\ flags' = [flags EXCEPT ![r] = flags'[r]]
      /\ flags'[r] = [flags[r] EXCEPT !.ownerCancelled = TRUE]
  BY Types DEF CancelOwner, To
<1>6. UNCHANGED <<outbound, inbound, failure, writer, reader, wire>>
  BY DEF CancelOwner, To
<1>7. Touches(r) BY <1>4, <1>5, <1>6, Types DEF Touches
<1>8. owner'[r] \in Owners
  <2>1. owner[r] \in Owners BY <1>2 DEF PeerType
  <2> QED BY <1>4, <2>1 DEF Owners
<1>9. flags'[r] \in Flags
  <2>1. flags[r] \in Flags BY <1>2 DEF PeerType
  <2> QED BY <1>5, <2>1 DEF Flags
<1>10. PeerType(r)' BY <1>2, <1>6, <1>8, <1>9 DEF PeerType
<1>11. TypeOK' BY <1>6, <1>7, <1>10, Types, TouchType
<1>12. /\ owner'[r].at = "shutdown" /\ owner'[r].reason = owner[r].reason
  <2>1. owner[r] \in Owners BY <1>2 DEF PeerType
  <2> QED BY <1>4, <2>1 DEF Owners
<1>13. /\ flags'[r].cancelled = flags[r].cancelled /\ flags'[r].ownerCancelled = TRUE
       /\ flags'[r].shut = flags[r].shut /\ flags'[r].terminal = flags[r].terminal
       /\ flags'[r].sentClose = flags[r].sentClose
       /\ flags'[r].receivedClose = flags[r].receivedClose
       /\ flags'[r].reset = flags[r].reset
  <2>1. flags[r] \in Flags BY <1>2 DEF PeerType
  <2> QED BY <1>5, <2>1 DEF Flags
<1>14. Local(r)'
  <2>1. FlagOrder(r)'
    BY <1>1, <1>3, <1>6, <1>12, <1>13
      DEF Local, FlagOrder, Playing
  <2>2. CloseOrder(r)'
    BY <1>1, <1>3, <1>6, <1>12, <1>13
      DEF Local, FlagOrder, CloseOrder, Playing, Left, Ended
  <2>3. Completion(r)'
    BY <1>1, <1>3, <1>6, <1>12, <1>13
      DEF Local, Completion
  <2>4. Causes(r)'
    BY <1>1, <1>3, <1>6, <1>12, <1>13
      DEF Local, FlagOrder, CloseOrder, Completion, Causes, Playing, Left, Ended
  <2>5. Primary(r)'
    BY <1>1, <1>3, <1>6, <1>12, <1>13
      DEF Local, FlagOrder, CloseOrder, Completion, Causes, Primary, Playing, Left,
          Ended, Secondary
  <2>6. Reason(r)'
    BY <1>1, <1>3, <1>6, <1>12, <1>13
      DEF Local, Reason, CauseKept, Returned, Secondary
  <2> QED BY <2>1, <2>2, <2>3, <2>4, <2>5, <2>6 DEF Local
<1>15. Local(q)' BY <1>7, Beside, Peer DEF WorkerInv
<1>16. /\ Local(q) /\ CloseComes(r) /\ CloseComes(q) /\ Other(q) = r /\ q # r
       /\ owner'[q] = owner[q] /\ failure'[q] = failure[q] /\ writer'[q] = writer[q]
       /\ reader'[q] = reader[q] /\ flags'[q] = flags[q] /\ outbound'[q] = outbound[q]
  BY <1>7, Apart, Peer DEF WorkerInv
<1>17. CloseComes(r)'
  BY <1>1, <1>3, <1>6, <1>12, <1>13, <1>16
    DEF CloseComes, BrokenByPeer, CloseSent, CloseAwaited, CloseHeard, Told, Breaks,
        Broken, Stopped, Local, FlagOrder, CloseOrder, Completion, Causes, Primary,
        Reason, CauseKept, Returned, Playing, Left, Ended, Secondary
<1>18. CloseComes(q)'
  <2>1. BrokenByPeer(q)'
    BY <1>1, <1>3, <1>6, <1>12, <1>13, <1>16
      DEF CloseComes, BrokenByPeer, Breaks, Broken
  <2>2. CloseSent(q)'
    BY <1>1, <1>3, <1>6, <1>12, <1>13, <1>16
      DEF CloseComes, CloseSent
  <2>3. CloseAwaited(q)'
    BY <1>1, <1>3, <1>6, <1>12, <1>13, <1>16
      DEF CloseComes, CloseAwaited, Stopped, Local, CloseOrder, Playing
  <2>4. CloseHeard(q)'
    BY <1>1, <1>3, <1>6, <1>12, <1>13, <1>16
      DEF CloseComes, CloseHeard, CloseSent, BrokenByPeer, Told, Breaks, Broken,
          Stopped, Local, FlagOrder, CloseOrder, Playing, Left, Ended
  <2> QED BY <2>1, <2>2, <2>3, <2>4 DEF CloseComes
<1> QED BY <1>11, <1>14, <1>15, <1>17, <1>18, Peer DEF WorkerInv

\* Network::cancel shuts the socket.
LEMMA CancelKeeps ==
    ASSUME WorkerInv, NEW r \in Peers, Cancel(r)
    PROVE  WorkerInv'
<1> DEFINE q == Other(r)
<1> TypeOK BY DEF WorkerInv
<1>1. Local(r) BY DEF WorkerInv
<1>2. PeerType(r) BY PeerTypes
<1>3. owner[r].at = "shutdown" BY Types DEF Cancel, To
<1>4. /\ owner' = [owner EXCEPT ![r] = owner'[r]]
      /\ owner'[r] = [owner[r] EXCEPT !.at = "joining"]
  BY Types DEF Cancel, To
<1>5. /\ flags' = [flags EXCEPT ![r] = flags'[r]]
      /\ flags'[r] = [flags[r] EXCEPT !.cancelled = TRUE, !.shut = TRUE]
  BY Types DEF Cancel, To
<1>6. UNCHANGED <<outbound, inbound, failure, writer, reader, wire>> BY DEF Cancel, To
<1>7. Touches(r) BY <1>4, <1>5, <1>6, Types DEF Touches
<1>8. owner'[r] \in Owners
  <2>1. owner[r] \in Owners BY <1>2 DEF PeerType
  <2> QED BY <1>4, <2>1 DEF Owners
<1>9. flags'[r] \in Flags
  <2>1. flags[r] \in Flags BY <1>2 DEF PeerType
  <2> QED BY <1>5, <2>1 DEF Flags
<1>10. PeerType(r)' BY <1>2, <1>6, <1>8, <1>9 DEF PeerType
<1>11. TypeOK' BY <1>6, <1>7, <1>10, Types, TouchType
<1>12. /\ owner'[r].at = "joining" /\ owner'[r].reason = owner[r].reason
  <2>1. owner[r] \in Owners BY <1>2 DEF PeerType
  <2> QED BY <1>4, <2>1 DEF Owners
<1>13. /\ flags'[r].cancelled = TRUE
       /\ flags'[r].ownerCancelled = flags[r].ownerCancelled
       /\ flags'[r].shut = TRUE /\ flags'[r].terminal = flags[r].terminal
       /\ flags'[r].sentClose = flags[r].sentClose
       /\ flags'[r].receivedClose = flags[r].receivedClose
       /\ flags'[r].reset = flags[r].reset
  <2>1. flags[r] \in Flags BY <1>2 DEF PeerType
  <2> QED BY <1>5, <2>1 DEF Flags
<1>14. Local(r)'
  <2>1. FlagOrder(r)'
    BY <1>1, <1>3, <1>6, <1>12, <1>13
      DEF Local, FlagOrder, Playing
  <2>2. CloseOrder(r)'
    BY <1>1, <1>3, <1>6, <1>12, <1>13
      DEF Local, FlagOrder, CloseOrder, Playing, Left, Ended
  <2>3. Completion(r)'
    BY <1>1, <1>3, <1>6, <1>12, <1>13
      DEF Local, Completion
  <2>4. Causes(r)'
    BY <1>1, <1>3, <1>6, <1>12, <1>13
      DEF Local, FlagOrder, CloseOrder, Completion, Causes, Playing, Left, Ended
  <2>5. Primary(r)'
    BY <1>1, <1>3, <1>6, <1>12, <1>13
      DEF Local, FlagOrder, CloseOrder, Completion, Causes, Primary, Playing, Left,
          Ended, Secondary
  <2>6. Reason(r)'
    BY <1>1, <1>3, <1>6, <1>12, <1>13
      DEF Local, Reason, CauseKept, Returned, Secondary
  <2> QED BY <2>1, <2>2, <2>3, <2>4, <2>5, <2>6 DEF Local
<1>15. Local(q)' BY <1>7, Beside, Peer DEF WorkerInv
<1>16. /\ Local(q) /\ CloseComes(r) /\ CloseComes(q) /\ Other(q) = r /\ q # r
       /\ owner'[q] = owner[q] /\ failure'[q] = failure[q] /\ writer'[q] = writer[q]
       /\ reader'[q] = reader[q] /\ flags'[q] = flags[q] /\ outbound'[q] = outbound[q]
  BY <1>7, Apart, Peer DEF WorkerInv
<1>17. CloseComes(r)'
  BY <1>1, <1>3, <1>6, <1>12, <1>13, <1>16
    DEF CloseComes, BrokenByPeer, CloseSent, CloseAwaited, CloseHeard, Told, Breaks,
        Broken, Stopped, Local, FlagOrder, CloseOrder, Completion, Causes, Primary,
        Reason, CauseKept, Returned, Playing, Left, Ended, Secondary
<1>18. CloseComes(q)'
  <2>1. BrokenByPeer(q)'
    BY <1>1, <1>3, <1>6, <1>12, <1>13, <1>16
      DEF CloseComes, BrokenByPeer, Breaks, Broken
  <2>2. CloseSent(q)'
    BY <1>1, <1>3, <1>6, <1>12, <1>13, <1>16
      DEF CloseComes, CloseSent
  <2>3. CloseAwaited(q)'
    BY <1>1, <1>3, <1>6, <1>12, <1>13, <1>16
      DEF CloseComes, CloseAwaited, Stopped, Local, CloseOrder, Playing
  <2>4. CloseHeard(q)'
    BY <1>1, <1>3, <1>6, <1>12, <1>13, <1>16
      DEF CloseComes, CloseHeard, CloseSent, BrokenByPeer, Told, Breaks, Broken,
          Stopped, Local, FlagOrder, CloseOrder, Playing, Left, Ended
  <2> QED BY <2>1, <2>2, <2>3, <2>4 DEF CloseComes
<1> QED BY <1>11, <1>14, <1>15, <1>17, <1>18, Peer DEF WorkerInv

\* The worker is joined.
LEMMA JoinedKeeps ==
    ASSUME WorkerInv, NEW r \in Peers, Joined(r)
    PROVE  WorkerInv'
<1> DEFINE q == Other(r)
<1> TypeOK BY DEF WorkerInv
<1>1. Local(r) BY DEF WorkerInv
<1>2. PeerType(r) BY PeerTypes
<1>3. owner[r].at = "joining" BY Types DEF Joined, To
<1>4. /\ owner' = [owner EXCEPT ![r] = owner'[r]]
      /\ owner'[r] = [owner[r] EXCEPT !.at = "gone"]
  BY Types DEF Joined, To
<1>5. UNCHANGED <<outbound, inbound, flags, failure, writer, reader, wire>>
  BY DEF Joined, To
<1>6. Touches(r) BY <1>4, <1>5, Types DEF Touches
<1>7. owner'[r] \in Owners
  <2>1. owner[r] \in Owners BY <1>2 DEF PeerType
  <2> QED BY <1>4, <2>1 DEF Owners
<1>8. PeerType(r)' BY <1>2, <1>5, <1>7 DEF PeerType
<1>9. TypeOK' BY <1>5, <1>6, <1>8, Types, TouchType
<1>10. /\ owner'[r].at = "gone" /\ owner'[r].reason = owner[r].reason
  <2>1. owner[r] \in Owners BY <1>2 DEF PeerType
  <2> QED BY <1>4, <2>1 DEF Owners
<1>11. Local(r)'
  <2>1. FlagOrder(r)'
    BY <1>1, <1>3, <1>5, <1>10
      DEF Local, FlagOrder, Playing
  <2>2. CloseOrder(r)'
    BY <1>1, <1>3, <1>5, <1>10
      DEF Local, FlagOrder, CloseOrder, Playing, Left, Ended
  <2>3. Completion(r)'
    BY <1>1, <1>3, <1>5, <1>10
      DEF Local, Completion
  <2>4. Causes(r)'
    BY <1>1, <1>3, <1>5, <1>10
      DEF Local, FlagOrder, CloseOrder, Completion, Causes, Playing, Left, Ended
  <2>5. Primary(r)'
    BY <1>1, <1>3, <1>5, <1>10
      DEF Local, FlagOrder, CloseOrder, Completion, Causes, Primary, Playing, Left,
          Ended, Secondary
  <2>6. Reason(r)'
    BY <1>1, <1>3, <1>5, <1>10
      DEF Local, Reason, CauseKept, Returned, Secondary
  <2> QED BY <2>1, <2>2, <2>3, <2>4, <2>5, <2>6 DEF Local
<1>12. Local(q)' BY <1>6, Beside, Peer DEF WorkerInv
<1>13. /\ Local(q) /\ CloseComes(r) /\ CloseComes(q) /\ Other(q) = r /\ q # r
       /\ owner'[q] = owner[q] /\ failure'[q] = failure[q] /\ writer'[q] = writer[q]
       /\ reader'[q] = reader[q] /\ flags'[q] = flags[q] /\ outbound'[q] = outbound[q]
  BY <1>6, Apart, Peer DEF WorkerInv
<1>14. CloseComes(r)'
  BY <1>1, <1>3, <1>5, <1>10, <1>13
    DEF CloseComes, BrokenByPeer, CloseSent, CloseAwaited, CloseHeard, Told, Breaks,
        Broken, Stopped, Local, FlagOrder, CloseOrder, Completion, Causes, Primary,
        Reason, CauseKept, Returned, Playing, Left, Ended, Secondary
<1>15. CloseComes(q)'
  <2>1. BrokenByPeer(q)'
    BY <1>1, <1>3, <1>5, <1>10, <1>13
      DEF CloseComes, BrokenByPeer, Breaks, Broken
  <2>2. CloseSent(q)'
    BY <1>1, <1>3, <1>5, <1>10, <1>13
      DEF CloseComes, CloseSent
  <2>3. CloseAwaited(q)'
    BY <1>1, <1>3, <1>5, <1>10, <1>13
      DEF CloseComes, CloseAwaited, Stopped, Local, CloseOrder, Playing
  <2>4. CloseHeard(q)'
    BY <1>1, <1>3, <1>5, <1>10, <1>13
      DEF CloseComes, CloseHeard, CloseSent, BrokenByPeer, Told, Breaks, Broken,
          Stopped, Local, FlagOrder, CloseOrder, Playing, Left, Ended
  <2> QED BY <2>1, <2>2, <2>3, <2>4 DEF CloseComes
<1> QED BY <1>9, <1>11, <1>12, <1>14, <1>15, Peer DEF WorkerInv

\* Admission succeeds.
LEMMA AdmitKeeps ==
    ASSUME WorkerInv, NEW r \in Peers, Admit(r)
    PROVE  WorkerInv'
<1> DEFINE q == Other(r)
<1> TypeOK BY DEF WorkerInv
<1>1. Local(r) BY DEF WorkerInv
<1>2. PeerType(r) BY PeerTypes
<1>3. /\ writer[r].at = "admit"
      /\ ~flags[r].cancelled
  BY Types DEF Admit
<1>4. /\ inbound' = [inbound EXCEPT ![r] = inbound'[r]]
      /\ inbound'[r] = Append(inbound[r], "Ready")
  BY Types DEF Admit
<1>5. /\ reader' = [reader EXCEPT ![r] = reader'[r]]
      /\ reader'[r] = [reader[r] EXCEPT !.at = "read"]
  BY Types DEF Admit
<1>6. /\ writer' = [writer EXCEPT ![r] = writer'[r]]
      /\ writer'[r] = [writer[r] EXCEPT !.at = "select"]
  BY Types DEF Admit
<1>7. UNCHANGED <<owner, outbound, flags, failure, wire>> BY DEF Admit
<1>8. Touches(r) BY <1>4, <1>5, <1>6, <1>7, Types DEF Touches
<1>9. "Ready" \in Events BY DEF Events
<1>10. inbound[r] = <<>> BY <1>1, <1>3 DEF Local, FlagOrder
<1>11. inbound'[r] \in Seq(Events) /\ Len(inbound'[r]) <= INBOUND_CAPACITY
  BY <1>2, <1>3, <1>4, <1>9, <1>10, WorkerAssumption DEF PeerType
<1>12. reader'[r] \in Readers
  <2>1. reader[r] \in Readers BY <1>2 DEF PeerType
  <2> QED BY <1>5, <1>9, <1>10, <2>1 DEF Readers
<1>13. writer'[r] \in Writers
  <2>1. writer[r] \in Writers BY <1>2 DEF PeerType
  <2> QED BY <1>6, <1>9, <1>10, <2>1 DEF Writers, AfterSend
<1>14. PeerType(r)' BY <1>2, <1>7, <1>11, <1>12, <1>13 DEF PeerType
<1>15. TypeOK' BY <1>7, <1>8, <1>14, Types, TouchType
<1>16. /\ writer'[r].at = "select" /\ writer'[r].item = writer[r].item
       /\ writer'[r].result = writer[r].result
       /\ writer'[r].intentional = writer[r].intentional
  <2>1. writer[r] \in Writers BY <1>2 DEF PeerType
  <2> QED BY <1>6, <2>1 DEF Writers
<1>17. /\ reader'[r].at = "read" /\ reader'[r].item = reader[r].item
       /\ reader'[r].result = reader[r].result
       /\ reader'[r].completion = reader[r].completion
  <2>1. reader[r] \in Readers BY <1>2 DEF PeerType
  <2> QED BY <1>5, <2>1 DEF Readers
<1>18. inbound[r] \in Seq(Events) /\ "Ready" \in Events BY <1>2 DEF PeerType, Events
<1>19. Holds(inbound'[r], "Close") <=> Holds(inbound[r], "Close")
  BY <1>4, <1>18, HoldsAppend
<1>20. Local(r)'
  BY <1>1, <1>3, <1>7, <1>16, <1>17, <1>18, <1>19
    DEF Local, FlagOrder, CloseOrder, Completion, Causes, Primary, Reason, CauseKept,
        Returned, Playing, Left, Ended, Secondary
<1>21. Local(q)' BY <1>8, Beside, Peer DEF WorkerInv
<1>22. /\ Local(q) /\ CloseComes(r) /\ CloseComes(q) /\ Other(q) = r /\ q # r
       /\ owner'[q] = owner[q] /\ failure'[q] = failure[q] /\ writer'[q] = writer[q]
       /\ reader'[q] = reader[q] /\ flags'[q] = flags[q] /\ outbound'[q] = outbound[q]
  BY <1>8, Apart, Peer DEF WorkerInv
<1>23. CloseComes(r)'
  BY <1>1, <1>3, <1>7, <1>16, <1>17, <1>18, <1>19, <1>22
    DEF CloseComes, BrokenByPeer, CloseSent, CloseAwaited, CloseHeard, Told, Breaks,
        Broken, Stopped, Local, FlagOrder, CloseOrder, Completion, Causes, Primary,
        Reason, CauseKept, Returned, Playing, Left, Ended, Secondary
<1>24. CloseComes(q)'
  <2>1. BrokenByPeer(q)'
    BY <1>1, <1>3, <1>7, <1>16, <1>17, <1>18, <1>19, <1>22
      DEF CloseComes, BrokenByPeer, Breaks, Broken
  <2>2. CloseSent(q)'
    BY <1>1, <1>3, <1>7, <1>16, <1>17, <1>18, <1>19, <1>22
      DEF CloseComes, CloseSent
  <2>3. CloseAwaited(q)'
    BY <1>1, <1>3, <1>7, <1>16, <1>17, <1>18, <1>19, <1>22
      DEF CloseComes, CloseAwaited, Stopped, Local, CloseOrder, Playing
  <2>4. CloseHeard(q)'
    BY <1>1, <1>3, <1>7, <1>16, <1>17, <1>18, <1>19, <1>22
      DEF CloseComes, CloseHeard, CloseSent, BrokenByPeer, Told, Breaks, Broken,
          Stopped, Local, FlagOrder, CloseOrder, Playing, Left, Ended
  <2> QED BY <2>1, <2>2, <2>3, <2>4 DEF CloseComes
<1> QED BY <1>21, <1>15, <1>20, <1>23, <1>24, Peer DEF WorkerInv

\* Admission fails: only an owner that has ended has cancelled it.
LEMMA AdmitFailsKeeps ==
    ASSUME WorkerInv, NEW r \in Peers, AdmitFails(r)
    PROVE  WorkerInv'
<1> DEFINE q == Other(r)
<1> TypeOK BY DEF WorkerInv
<1>1. Local(r) BY DEF WorkerInv
<1>2. PeerType(r) BY PeerTypes
<1>3. writer[r].at = "admit"
  BY Types DEF AdmitFails, Return
<1>4. /\ writer' = [writer EXCEPT ![r] = writer'[r]]
      /\ writer'[r] = [writer[r] EXCEPT !.at = "exit",
            !.result = (IF flags[r].cancelled THEN "cancelled" ELSE "refused")]
  BY Types DEF AdmitFails, Return
<1>5. UNCHANGED <<owner, outbound, inbound, flags, failure, reader, wire>>
  BY DEF AdmitFails, Return
<1>6. Touches(r) BY <1>4, <1>5, Types DEF Touches
<1>7. (IF flags[r].cancelled THEN "cancelled" ELSE "refused") \in Errors BY DEF Errors
<1>8. writer'[r] \in Writers
  <2>1. writer[r] \in Writers BY <1>2 DEF PeerType
  <2> QED BY <1>4, <1>7, <2>1 DEF Writers
<1>9. PeerType(r)' BY <1>2, <1>5, <1>8 DEF PeerType
<1>10. TypeOK' BY <1>5, <1>6, <1>9, Types, TouchType
<1>11. /\ writer'[r].at = "exit" /\ writer'[r].item = writer[r].item
       /\ writer'[r].result = (IF flags[r].cancelled THEN "cancelled" ELSE "refused")
       /\ writer'[r].intentional = writer[r].intentional
  <2>1. writer[r] \in Writers BY <1>2 DEF PeerType
  <2> QED BY <1>4, <2>1 DEF Writers
<1>12. Local(r)'
  BY <1>1, <1>3, <1>5, <1>7, <1>11
    DEF Local, FlagOrder, CloseOrder, Completion, Causes, Primary, Reason, CauseKept,
        Returned, Playing, Left, Ended, Secondary
<1>13. Local(q)' BY <1>6, Beside, Peer DEF WorkerInv
<1>14. /\ Local(q) /\ CloseComes(r) /\ CloseComes(q) /\ Other(q) = r /\ q # r
       /\ owner'[q] = owner[q] /\ failure'[q] = failure[q] /\ writer'[q] = writer[q]
       /\ reader'[q] = reader[q] /\ flags'[q] = flags[q] /\ outbound'[q] = outbound[q]
  BY <1>6, Apart, Peer DEF WorkerInv
<1>15. CloseComes(r)'
  BY <1>1, <1>3, <1>5, <1>7, <1>11, <1>14
    DEF CloseComes, BrokenByPeer, CloseSent, CloseAwaited, CloseHeard, Told, Breaks,
        Broken, Stopped, Local, FlagOrder, CloseOrder, Completion, Causes, Primary,
        Reason, CauseKept, Returned, Playing, Left, Ended, Secondary
<1>16. CloseComes(q)'
  <2>1. BrokenByPeer(q)'
    BY <1>1, <1>3, <1>5, <1>7, <1>11, <1>14
      DEF CloseComes, BrokenByPeer, Breaks, Broken
  <2>2. CloseSent(q)'
    BY <1>1, <1>3, <1>5, <1>7, <1>11, <1>14
      DEF CloseComes, CloseSent
  <2>3. CloseAwaited(q)'
    BY <1>1, <1>3, <1>5, <1>7, <1>11, <1>14
      DEF CloseComes, CloseAwaited, Stopped, Local, CloseOrder, Playing
  <2>4. CloseHeard(q)'
    BY <1>1, <1>3, <1>5, <1>7, <1>11, <1>14
      DEF CloseComes, CloseHeard, CloseSent, BrokenByPeer, Told, Breaks, Broken,
          Stopped, Local, FlagOrder, CloseOrder, Playing, Left, Ended
  <2> QED BY <2>1, <2>2, <2>3, <2>4 DEF CloseComes
<1> QED BY <1>10, <1>12, <1>13, <1>15, <1>16, Peer DEF WorkerInv

\* The loop sees the cancellation of an owner that has ended.
LEMMA SelectCancelledKeeps ==
    ASSUME WorkerInv, NEW r \in Peers, SelectCancelled(r)
    PROVE  WorkerInv'
<1> DEFINE q == Other(r)
<1> TypeOK BY DEF WorkerInv
<1>1. Local(r) BY DEF WorkerInv
<1>2. PeerType(r) BY PeerTypes
<1>3. /\ writer[r].at = "select"
      /\ flags[r].cancelled
  BY Types DEF SelectCancelled, Leave
<1>4. /\ writer' = [writer EXCEPT ![r] = writer'[r]]
      /\ writer'[r] = [writer[r] EXCEPT !.at = "leave", !.result = "ok",
                                        !.intentional = flags[r].ownerCancelled]
  BY Types DEF SelectCancelled, Leave
<1>5. UNCHANGED <<owner, outbound, inbound, flags, failure, reader, wire>>
  BY DEF SelectCancelled, Leave
<1>6. Touches(r) BY <1>4, <1>5, Types DEF Touches
<1>7. flags[r].ownerCancelled \in BOOLEAN BY Types DEF Flags
<1>8. writer'[r] \in Writers
  <2>1. writer[r] \in Writers BY <1>2 DEF PeerType
  <2> QED BY <1>4, <1>7, <2>1 DEF Writers, AfterSend
<1>9. PeerType(r)' BY <1>2, <1>5, <1>8 DEF PeerType
<1>10. TypeOK' BY <1>5, <1>6, <1>9, Types, TouchType
<1>11. /\ writer'[r].at = "leave" /\ writer'[r].item = writer[r].item
       /\ writer'[r].result = "ok" /\ writer'[r].intentional = flags[r].ownerCancelled
  <2>1. writer[r] \in Writers BY <1>2 DEF PeerType
  <2> QED BY <1>4, <2>1 DEF Writers
<1>12. Local(r)'
  BY <1>1, <1>3, <1>5, <1>11
    DEF Local, FlagOrder, CloseOrder, Completion, Causes, Primary, Reason, CauseKept,
        Returned, Playing, Left, Ended, Secondary
<1>13. Local(q)' BY <1>6, Beside, Peer DEF WorkerInv
<1>14. /\ Local(q) /\ CloseComes(r) /\ CloseComes(q) /\ Other(q) = r /\ q # r
       /\ owner'[q] = owner[q] /\ failure'[q] = failure[q] /\ writer'[q] = writer[q]
       /\ reader'[q] = reader[q] /\ flags'[q] = flags[q] /\ outbound'[q] = outbound[q]
  BY <1>6, Apart, Peer DEF WorkerInv
<1>15. CloseComes(r)'
  BY <1>1, <1>3, <1>5, <1>11, <1>14
    DEF CloseComes, BrokenByPeer, CloseSent, CloseAwaited, CloseHeard, Told, Breaks,
        Broken, Stopped, Local, FlagOrder, CloseOrder, Completion, Causes, Primary,
        Reason, CauseKept, Returned, Playing, Left, Ended, Secondary
<1>16. CloseComes(q)'
  <2>1. BrokenByPeer(q)'
    BY <1>1, <1>3, <1>5, <1>11, <1>14
      DEF CloseComes, BrokenByPeer, Breaks, Broken
  <2>2. CloseSent(q)'
    BY <1>1, <1>3, <1>5, <1>11, <1>14
      DEF CloseComes, CloseSent
  <2>3. CloseAwaited(q)'
    BY <1>1, <1>3, <1>5, <1>11, <1>14
      DEF CloseComes, CloseAwaited, Stopped, Local, CloseOrder, Playing
  <2>4. CloseHeard(q)'
    BY <1>1, <1>3, <1>5, <1>11, <1>14
      DEF CloseComes, CloseHeard, CloseSent, BrokenByPeer, Told, Breaks, Broken,
          Stopped, Local, FlagOrder, CloseOrder, Playing, Left, Ended
  <2> QED BY <2>1, <2>2, <2>3, <2>4 DEF CloseComes
<1> QED BY <1>10, <1>12, <1>13, <1>15, <1>16, Peer DEF WorkerInv

\* The loop takes the reader's completion, which becomes its result.
LEMMA SelectCompletionKeeps ==
    ASSUME WorkerInv, NEW r \in Peers, SelectCompletion(r)
    PROVE  WorkerInv'
<1> DEFINE q == Other(r)
<1> TypeOK BY DEF WorkerInv
<1>1. Local(r) BY DEF WorkerInv
<1>2. PeerType(r) BY PeerTypes
<1>3. /\ writer[r].at = "select"
      /\ reader[r].completion # "none"
  BY Types DEF SelectCompletion, Leave
<1>4. /\ reader' = [reader EXCEPT ![r] = reader'[r]]
      /\ reader'[r] = [reader[r] EXCEPT !.completion = "none"]
  BY Types DEF SelectCompletion, Leave
<1>5. /\ writer' = [writer EXCEPT ![r] = writer'[r]]
      /\ writer'[r] = (IF flags[r].ownerCancelled
                       THEN [writer[r] EXCEPT !.at = "leave", !.result = "ok",
                                !.intentional = TRUE]
                       ELSE [writer[r] EXCEPT !.at = "leave",
                                !.result = reader[r].completion, !.intentional = FALSE])
  BY Types DEF SelectCompletion, Leave
<1>6. UNCHANGED <<owner, outbound, inbound, flags, failure, wire>>
  BY DEF SelectCompletion, Leave
<1>7. Touches(r) BY <1>4, <1>5, <1>6, Types DEF Touches
<1>8. reader[r].completion \in Errors \cup {"ok"} BY <1>3, Types DEF Readers
<1>9. reader'[r] \in Readers
  <2>1. reader[r] \in Readers BY <1>2 DEF PeerType
  <2> QED BY <1>4, <1>8, <2>1 DEF Readers
<1>10. writer'[r] \in Writers
  <2>1. writer[r] \in Writers BY <1>2 DEF PeerType
  <2> QED BY <1>5, <1>8, <2>1 DEF Writers, AfterSend
<1>11. PeerType(r)' BY <1>2, <1>6, <1>9, <1>10 DEF PeerType
<1>12. TypeOK' BY <1>6, <1>7, <1>11, Types, TouchType
<1>13. /\ flags[r].ownerCancelled =>
             /\ writer'[r].at = "leave" /\ writer'[r].item = writer[r].item
             /\ writer'[r].result = "ok" /\ writer'[r].intentional = TRUE
       /\ ~(flags[r].ownerCancelled) =>
             /\ writer'[r].at = "leave" /\ writer'[r].item = writer[r].item
             /\ writer'[r].result = reader[r].completion
             /\ writer'[r].intentional = FALSE
  <2>1. writer[r] \in Writers BY <1>2 DEF PeerType
  <2> QED BY <1>5, <2>1 DEF Writers
<1>14. /\ reader'[r].at = reader[r].at /\ reader'[r].item = reader[r].item
       /\ reader'[r].result = reader[r].result /\ reader'[r].completion = "none"
  <2>1. reader[r] \in Readers BY <1>2 DEF PeerType
  <2> QED BY <1>4, <2>1 DEF Readers
<1>15. Local(r)'
  BY <1>1, <1>3, <1>6, <1>13, <1>14
    DEF Local, FlagOrder, CloseOrder, Completion, Causes, Primary, Reason, CauseKept,
        Returned, Playing, Left, Ended, Secondary
<1>16. Local(q)' BY <1>7, Beside, Peer DEF WorkerInv
<1>17. /\ Local(q) /\ CloseComes(r) /\ CloseComes(q) /\ Other(q) = r /\ q # r
       /\ owner'[q] = owner[q] /\ failure'[q] = failure[q] /\ writer'[q] = writer[q]
       /\ reader'[q] = reader[q] /\ flags'[q] = flags[q] /\ outbound'[q] = outbound[q]
  BY <1>7, Apart, Peer DEF WorkerInv
<1>18. CloseComes(r)'
  BY <1>1, <1>3, <1>6, <1>13, <1>14, <1>17
    DEF CloseComes, BrokenByPeer, CloseSent, CloseAwaited, CloseHeard, Told, Breaks,
        Broken, Stopped, Local, FlagOrder, CloseOrder, Completion, Causes, Primary,
        Reason, CauseKept, Returned, Playing, Left, Ended, Secondary
<1>19. CloseComes(q)'
  <2>1. BrokenByPeer(q)'
    BY <1>1, <1>3, <1>6, <1>13, <1>14, <1>17
      DEF CloseComes, BrokenByPeer, Breaks, Broken
  <2>2. CloseSent(q)'
    BY <1>1, <1>3, <1>6, <1>13, <1>14, <1>17
      DEF CloseComes, CloseSent
  <2>3. CloseAwaited(q)'
    BY <1>1, <1>3, <1>6, <1>13, <1>14, <1>17
      DEF CloseComes, CloseAwaited, Stopped, Local, CloseOrder, Playing
  <2>4. CloseHeard(q)'
    BY <1>1, <1>3, <1>6, <1>13, <1>14, <1>17
      DEF CloseComes, CloseHeard, CloseSent, BrokenByPeer, Told, Breaks, Broken,
          Stopped, Local, FlagOrder, CloseOrder, Playing, Left, Ended
  <2> QED BY <2>1, <2>2, <2>3, <2>4 DEF CloseComes
<1> QED BY <1>12, <1>15, <1>16, <1>18, <1>19, Peer DEF WorkerInv

\* The loop takes the next message.
LEMMA SelectRequestKeeps ==
    ASSUME WorkerInv, NEW r \in Peers, SelectRequest(r)
    PROVE  WorkerInv'
<1> DEFINE q == Other(r)
<1> TypeOK BY DEF WorkerInv
<1>1. Local(r) BY DEF WorkerInv
<1>2. PeerType(r) BY PeerTypes
<1>3. /\ writer[r].at = "select"
      /\ outbound[r] # <<>>
      /\ reader[r].completion = "none"
  BY Types DEF SelectRequest, Leave
<1>4. /\ outbound' = [outbound EXCEPT ![r] = outbound'[r]]
      /\ outbound'[r] = Tail(outbound[r])
  BY Types DEF SelectRequest, Leave
<1>5. /\ writer' = [writer EXCEPT ![r] = writer'[r]]
      /\ writer'[r] = (IF flags[r].ownerCancelled
                       THEN [writer[r] EXCEPT !.at = "leave", !.result = "ok",
                                !.intentional = TRUE]
                       ELSE [writer[r] EXCEPT !.at = "send", !.item = Head(outbound[r])])
  BY Types DEF SelectRequest, Leave
<1>6. UNCHANGED <<owner, inbound, flags, failure, reader, wire>>
  BY DEF SelectRequest, Leave
<1>7. Touches(r) BY <1>4, <1>5, <1>6, Types DEF Touches
<1>8. Head(outbound[r]) \in Messages BY <1>3, Types
<1>9. outbound'[r] \in Seq(Messages) /\ Len(outbound'[r]) <= OUTBOUND_CAPACITY
  BY <1>2, <1>3, <1>4, <1>8, WorkerAssumption DEF PeerType
<1>10. writer'[r] \in Writers
  <2>1. writer[r] \in Writers BY <1>2 DEF PeerType
  <2> QED BY <1>5, <1>8, <2>1 DEF Writers, AfterSend
<1>11. PeerType(r)' BY <1>2, <1>6, <1>9, <1>10 DEF PeerType
<1>12. TypeOK' BY <1>6, <1>7, <1>11, Types, TouchType
<1>13. /\ flags[r].ownerCancelled =>
             /\ writer'[r].at = "leave" /\ writer'[r].item = writer[r].item
             /\ writer'[r].result = "ok" /\ writer'[r].intentional = TRUE
       /\ ~(flags[r].ownerCancelled) =>
             /\ writer'[r].at = "send" /\ writer'[r].item = Head(outbound[r])
             /\ writer'[r].result = writer[r].result
             /\ writer'[r].intentional = writer[r].intentional
  <2>1. writer[r] \in Writers BY <1>2 DEF PeerType
  <2> QED BY <1>5, <2>1 DEF Writers
<1>14. Head(outbound[r]) \in Messages BY <1>2, <1>3, <1>4 DEF PeerType
<1>15. Holds(outbound'[r], "Close") \/ Head(outbound[r]) = "Close" =>
         Holds(outbound[r], "Close")
  BY <1>2, <1>3, <1>4, HoldsTail DEF PeerType
<1>16. Local(r)'
  <2>1. FlagOrder(r)'
    BY <1>1, <1>3, <1>6, <1>13, <1>14, <1>15
      DEF Local, FlagOrder, Playing, Messages
  <2>2. CloseOrder(r)'
    BY <1>1, <1>3, <1>6, <1>13, <1>14, <1>15
      DEF Local, FlagOrder, CloseOrder, Playing, Left, Ended, Messages
  <2>3. Completion(r)'
    BY <1>1, <1>3, <1>6, <1>13, <1>14, <1>15
      DEF Local, Completion, Messages
  <2>4. Causes(r)'
    BY <1>1, <1>3, <1>6, <1>13, <1>14, <1>15
      DEF Local, FlagOrder, CloseOrder, Completion, Causes, Playing, Left, Ended,
          Messages
  <2>5. Primary(r)'
    BY <1>1, <1>3, <1>6, <1>13, <1>14, <1>15
      DEF Local, FlagOrder, CloseOrder, Completion, Causes, Primary, Playing, Left,
          Ended, Secondary, Messages
  <2>6. Reason(r)'
    BY <1>1, <1>3, <1>6, <1>13, <1>14, <1>15
      DEF Local, Reason, CauseKept, Returned, Secondary, Messages
  <2> QED BY <2>1, <2>2, <2>3, <2>4, <2>5, <2>6 DEF Local
<1>17. Local(q)' BY <1>7, Beside, Peer DEF WorkerInv
<1>18. /\ Local(q) /\ CloseComes(r) /\ CloseComes(q) /\ Other(q) = r /\ q # r
       /\ owner'[q] = owner[q] /\ failure'[q] = failure[q] /\ writer'[q] = writer[q]
       /\ reader'[q] = reader[q] /\ flags'[q] = flags[q] /\ outbound'[q] = outbound[q]
  BY <1>7, Apart, Peer DEF WorkerInv
<1>19. CloseComes(r)'
  BY <1>1, <1>3, <1>6, <1>13, <1>14, <1>15, <1>18
    DEF CloseComes, BrokenByPeer, CloseSent, CloseAwaited, CloseHeard, Told, Breaks,
        Broken, Stopped, Local, FlagOrder, CloseOrder, Completion, Causes, Primary,
        Reason, CauseKept, Returned, Playing, Left, Ended, Secondary, Messages
<1>20. CloseComes(q)'
  <2>1. BrokenByPeer(q)'
    BY <1>1, <1>3, <1>6, <1>13, <1>14, <1>15, <1>18
      DEF CloseComes, BrokenByPeer, Breaks, Broken, Messages
  <2>2. CloseSent(q)'
    BY <1>1, <1>3, <1>6, <1>13, <1>14, <1>15, <1>18
      DEF CloseComes, CloseSent, Messages
  <2>3. CloseAwaited(q)'
    BY <1>1, <1>3, <1>6, <1>13, <1>14, <1>15, <1>18
      DEF CloseComes, CloseAwaited, Stopped, Local, CloseOrder, Playing, Messages
  <2>4. CloseHeard(q)'
    BY <1>1, <1>3, <1>6, <1>13, <1>14, <1>15, <1>18
      DEF CloseComes, CloseHeard, CloseSent, BrokenByPeer, Told, Breaks, Broken,
          Stopped, Local, FlagOrder, CloseOrder, Playing, Left, Ended, Messages
  <2> QED BY <2>1, <2>2, <2>3, <2>4 DEF CloseComes
<1> QED BY <1>12, <1>16, <1>17, <1>19, <1>20, Peer DEF WorkerInv

\* Sender::send fails: on a broken pipe the peer has not said Close, else this
\* end would have been told and the first test would have ended the send.
LEMMA SendFailsKeeps ==
    ASSUME WorkerInv, NEW r \in Peers, SendFails(r)
    PROVE  WorkerInv'
<1> DEFINE q == Other(r)
<1> TypeOK BY DEF WorkerInv
<1>1. Local(r) BY DEF WorkerInv
<1>2. PeerType(r) BY PeerTypes
<1>3. /\ writer[r].at = "send"
      /\ writer'[r].result \in SendErrors(r) \ {"none"}
  BY Types DEF SendFails, Leave, Writers
<1>4. /\ flags' = [flags EXCEPT ![r] = flags'[r]]
      /\ flags'[r] = [flags[r] EXCEPT !.terminal = TRUE]
  BY Types DEF SendFails, Leave, Writers
<1>5. /\ writer' = [writer EXCEPT ![r] = writer'[r]]
      /\ writer'[r] = [writer[r] EXCEPT !.at = "leave", !.result = writer'[r].result,
                                        !.intentional = FALSE]
  <2>1. PICK error \in SendErrors(r) \ {"none"} : Leave(r, error, FALSE)
    BY DEF SendFails
  <2>2. writer[r] \in Writers BY Types
  <2>3. writer'[r] = [writer[r] EXCEPT !.at = "leave", !.result = error,
                                      !.intentional = FALSE]
    BY <2>1, Types DEF Leave
  <2>4. writer'[r].result = error BY <2>2, <2>3 DEF Writers
  <2> QED BY <2>1, <2>3, <2>4, Types DEF Leave
<1>6. UNCHANGED <<owner, outbound, inbound, failure, reader, wire>>
  BY DEF SendFails, Leave
<1>7. Touches(r) BY <1>4, <1>5, <1>6, Types DEF Touches
<1>8. writer'[r].result \in Errors BY <1>3 DEF SendErrors, Errors, Failures
<1>9. flags'[r] \in Flags
  <2>1. flags[r] \in Flags BY <1>2 DEF PeerType
  <2> QED BY <1>4, <1>8, <2>1 DEF Flags
<1>10. writer'[r] \in Writers
  <2>1. writer[r] \in Writers BY <1>2 DEF PeerType
  <2> QED BY <1>5, <1>8, <2>1 DEF Writers, AfterSend
<1>11. PeerType(r)' BY <1>2, <1>6, <1>9, <1>10 DEF PeerType
<1>12. TypeOK' BY <1>6, <1>7, <1>11, Types, TouchType
<1>13. /\ flags'[r].cancelled = flags[r].cancelled
       /\ flags'[r].ownerCancelled = flags[r].ownerCancelled
       /\ flags'[r].shut = flags[r].shut /\ flags'[r].terminal = TRUE
       /\ flags'[r].sentClose = flags[r].sentClose
       /\ flags'[r].receivedClose = flags[r].receivedClose
       /\ flags'[r].reset = flags[r].reset
  <2>1. flags[r] \in Flags BY <1>2 DEF PeerType
  <2> QED BY <1>4, <2>1 DEF Flags
<1>14. /\ writer'[r].at = "leave" /\ writer'[r].item = writer[r].item
       /\ writer'[r].result = writer'[r].result /\ writer'[r].intentional = FALSE
  <2>1. writer[r] \in Writers BY <1>2 DEF PeerType
  <2> QED BY <1>5, <2>1 DEF Writers
<1>15. Local(r)'
  BY ZenonT(30), <1>1, <1>3, <1>6, <1>13, <1>14
    DEF Local, FlagOrder, CloseOrder, Completion, Causes, Primary, Reason, CauseKept,
        Returned, Playing, Left, Ended, Secondary, SendErrors
<1>16. Local(q)' BY <1>7, Beside, Peer DEF WorkerInv
<1>17. /\ Local(q) /\ CloseComes(r) /\ CloseComes(q) /\ Other(q) = r /\ q # r
       /\ owner'[q] = owner[q] /\ failure'[q] = failure[q] /\ writer'[q] = writer[q]
       /\ reader'[q] = reader[q] /\ flags'[q] = flags[q] /\ outbound'[q] = outbound[q]
  BY <1>7, Apart, Peer DEF WorkerInv
<1>18. CloseComes(r)'
  <2>1. BrokenByPeer(r)'
    BY <1>1, <1>3, <1>6, <1>13, <1>14, <1>17
      DEF CloseComes, BrokenByPeer, Breaks, Broken, SendErrors
  <2>2. CloseSent(r)'
    BY <1>1, <1>3, <1>6, <1>13, <1>14, <1>17
      DEF CloseComes, CloseSent, SendErrors
  <2>3. CloseAwaited(r)'
    BY <1>1, <1>3, <1>6, <1>13, <1>14, <1>17
      DEF CloseComes, CloseAwaited, Stopped, Local, CloseOrder, Playing, SendErrors
  <2>4. CloseHeard(r)'
    BY <1>1, <1>3, <1>6, <1>13, <1>14, <1>17
      DEF CloseComes, CloseHeard, CloseSent, BrokenByPeer, CloseAwaited, Told, Breaks,
          Broken, Stopped, Local, FlagOrder, CloseOrder, Playing, Left, Ended,
          SendErrors
  <2> QED BY <2>1, <2>2, <2>3, <2>4 DEF CloseComes
<1>19. CloseComes(q)'
  BY ZenonT(30), <1>1, <1>3, <1>6, <1>13, <1>14, <1>17
    DEF CloseComes, BrokenByPeer, CloseSent, CloseAwaited, CloseHeard, Told, Breaks,
        Broken, Stopped, Local, FlagOrder, CloseOrder, Completion, Causes, Primary,
        Reason, CauseKept, Returned, Playing, Left, Ended, Secondary, SendErrors
<1> QED BY <1>12, <1>15, <1>16, <1>18, <1>19, Peer DEF WorkerInv

\* The reader answers during the grace: a clean answer is the peer's Close.
LEMMA GraceAnsweredKeeps ==
    ASSUME WorkerInv, NEW r \in Peers, GraceAnswered(r)
    PROVE  WorkerInv'
<1> DEFINE q == Other(r)
<1> TypeOK BY DEF WorkerInv
<1>1. Local(r) BY DEF WorkerInv
<1>2. PeerType(r) BY PeerTypes
<1>3. /\ writer[r].at = "grace"
      /\ reader[r].completion # "none"
  BY Types DEF GraceAnswered, Leave
<1>4. /\ reader' = [reader EXCEPT ![r] = reader'[r]]
      /\ reader'[r] = [reader[r] EXCEPT !.completion = "none"]
  BY Types DEF GraceAnswered, Leave
<1>5. /\ writer' = [writer EXCEPT ![r] = writer'[r]]
      /\ writer'[r] = (IF reader[r].completion = "ok"
                       THEN [writer[r] EXCEPT !.at = "leave", !.result = "ok",
                                !.intentional = TRUE]
                       ELSE [writer[r] EXCEPT !.at = "linger"])
  BY Types DEF GraceAnswered, Leave
<1>6. UNCHANGED <<owner, outbound, inbound, flags, failure, wire>>
  BY DEF GraceAnswered, Leave
<1>7. Touches(r) BY <1>4, <1>5, <1>6, Types DEF Touches
<1>8. reader'[r] \in Readers
  <2>1. reader[r] \in Readers BY <1>2 DEF PeerType
  <2> QED BY <1>4, <2>1 DEF Readers
<1>9. writer'[r] \in Writers
  <2>1. writer[r] \in Writers BY <1>2 DEF PeerType
  <2> QED BY <1>5, <2>1 DEF Writers, AfterSend
<1>10. PeerType(r)' BY <1>2, <1>6, <1>8, <1>9 DEF PeerType
<1>11. TypeOK' BY <1>6, <1>7, <1>10, Types, TouchType
<1>12. /\ reader[r].completion = "ok" =>
             /\ writer'[r].at = "leave" /\ writer'[r].item = writer[r].item
             /\ writer'[r].result = "ok" /\ writer'[r].intentional = TRUE
       /\ ~(reader[r].completion = "ok") =>
             /\ writer'[r].at = "linger" /\ writer'[r].item = writer[r].item
             /\ writer'[r].result = writer[r].result
             /\ writer'[r].intentional = writer[r].intentional
  <2>1. writer[r] \in Writers BY <1>2 DEF PeerType
  <2> QED BY <1>5, <2>1 DEF Writers
<1>13. /\ reader'[r].at = reader[r].at /\ reader'[r].item = reader[r].item
       /\ reader'[r].result = reader[r].result /\ reader'[r].completion = "none"
  <2>1. reader[r] \in Readers BY <1>2 DEF PeerType
  <2> QED BY <1>4, <2>1 DEF Readers
<1>14. Local(r)'
  BY <1>1, <1>3, <1>6, <1>12, <1>13
    DEF Local, FlagOrder, CloseOrder, Completion, Causes, Primary, Reason, CauseKept,
        Returned, Playing, Left, Ended, Secondary
<1>15. Local(q)' BY <1>7, Beside, Peer DEF WorkerInv
<1>16. /\ Local(q) /\ CloseComes(r) /\ CloseComes(q) /\ Other(q) = r /\ q # r
       /\ owner'[q] = owner[q] /\ failure'[q] = failure[q] /\ writer'[q] = writer[q]
       /\ reader'[q] = reader[q] /\ flags'[q] = flags[q] /\ outbound'[q] = outbound[q]
  BY <1>7, Apart, Peer DEF WorkerInv
<1>17. CloseComes(r)'
  BY <1>1, <1>3, <1>6, <1>12, <1>13, <1>16
    DEF CloseComes, BrokenByPeer, CloseSent, CloseAwaited, CloseHeard, Told, Breaks,
        Broken, Stopped, Local, FlagOrder, CloseOrder, Completion, Causes, Primary,
        Reason, CauseKept, Returned, Playing, Left, Ended, Secondary
<1>18. CloseComes(q)'
  <2>1. BrokenByPeer(q)'
    BY <1>1, <1>3, <1>6, <1>12, <1>13, <1>16
      DEF CloseComes, BrokenByPeer, Breaks, Broken
  <2>2. CloseSent(q)'
    BY <1>1, <1>3, <1>6, <1>12, <1>13, <1>16
      DEF CloseComes, CloseSent
  <2>3. CloseAwaited(q)'
    BY <1>1, <1>3, <1>6, <1>12, <1>13, <1>16
      DEF CloseComes, CloseAwaited, Stopped, Local, CloseOrder, Playing
  <2>4. CloseHeard(q)'
    BY ZenonT(30), <1>1, <1>3, <1>6, <1>12, <1>13, <1>16
      DEF CloseComes, CloseHeard, CloseSent, Told, Breaks, Broken, Stopped, Local,
          FlagOrder, CloseOrder, Completion, Causes, Primary, Reason, CauseKept,
          Returned, Playing, Left, Ended, Secondary
  <2> QED BY <2>1, <2>2, <2>3, <2>4 DEF CloseComes
<1> QED BY <1>11, <1>14, <1>15, <1>17, <1>18, Peer DEF WorkerInv

\* The grace is over: the peer has read the Close or reads no more.
LEMMA GraceOverKeeps ==
    ASSUME WorkerInv, NEW r \in Peers, GraceOver(r)
    PROVE  WorkerInv'
<1> DEFINE q == Other(r)
<1> TypeOK BY DEF WorkerInv
<1>1. Local(r) BY DEF WorkerInv
<1>2. PeerType(r) BY PeerTypes
<1>3. /\ writer[r].at \in {"grace", "linger"}
      /\ ~Prompt \/ PeerRead(r) \/ flags[r].cancelled
  BY Types DEF GraceOver, Leave
<1>4. /\ writer' = [writer EXCEPT ![r] = writer'[r]]
      /\ writer'[r] = [writer[r] EXCEPT !.at = "leave", !.result = "ok",
                                        !.intentional = TRUE]
  BY Types DEF GraceOver, Leave
<1>5. UNCHANGED <<owner, outbound, inbound, flags, failure, reader, wire>>
  BY DEF GraceOver, Leave
<1>6. Touches(r) BY <1>4, <1>5, Types DEF Touches
<1>7. writer'[r] \in Writers
  <2>1. writer[r] \in Writers BY <1>2 DEF PeerType
  <2> QED BY <1>4, <2>1 DEF Writers, AfterSend
<1>8. PeerType(r)' BY <1>2, <1>5, <1>7 DEF PeerType
<1>9. TypeOK' BY <1>5, <1>6, <1>8, Types, TouchType
<1>10. /\ writer'[r].at = "leave" /\ writer'[r].item = writer[r].item
       /\ writer'[r].result = "ok" /\ writer'[r].intentional = TRUE
  <2>1. writer[r] \in Writers BY <1>2 DEF PeerType
  <2> QED BY <1>4, <2>1 DEF Writers
<1>11. Local(r)'
  <2>1. FlagOrder(r)'
    BY <1>1, <1>3, <1>5, <1>10
      DEF Local, FlagOrder, Playing
  <2>2. CloseOrder(r)'
    BY <1>1, <1>3, <1>5, <1>10
      DEF Local, FlagOrder, CloseOrder, Playing, Left, Ended
  <2>3. Completion(r)'
    BY <1>1, <1>3, <1>5, <1>10
      DEF Local, Completion
  <2>4. Causes(r)'
    BY <1>1, <1>3, <1>5, <1>10
      DEF Local, FlagOrder, CloseOrder, Completion, Causes, Playing, Left, Ended
  <2>5. Primary(r)'
    BY <1>1, <1>3, <1>5, <1>10
      DEF Local, FlagOrder, CloseOrder, Completion, Causes, Primary, Playing, Left,
          Ended, Secondary
  <2>6. Reason(r)'
    BY <1>1, <1>3, <1>5, <1>10
      DEF Local, Reason, CauseKept, Returned, Secondary
  <2> QED BY <2>1, <2>2, <2>3, <2>4, <2>5, <2>6 DEF Local
<1>12. Local(q)' BY <1>6, Beside, Peer DEF WorkerInv
<1>13. /\ Local(q) /\ CloseComes(r) /\ CloseComes(q) /\ Other(q) = r /\ q # r
       /\ owner'[q] = owner[q] /\ failure'[q] = failure[q] /\ writer'[q] = writer[q]
       /\ reader'[q] = reader[q] /\ flags'[q] = flags[q] /\ outbound'[q] = outbound[q]
  BY <1>6, Apart, Peer DEF WorkerInv
<1>14. wire[q] = <<>> => ~Holds(wire[q], "Close") BY DEF Holds
<1>15. CloseComes(r)'
  BY <1>1, <1>3, <1>5, <1>10, <1>13, <1>14
    DEF CloseComes, BrokenByPeer, CloseSent, CloseAwaited, CloseHeard, Told, Breaks,
        Broken, Stopped, Local, FlagOrder, CloseOrder, Completion, Causes, Primary,
        Reason, CauseKept, Returned, Playing, Left, Ended, Secondary, PeerRead
<1>16. CloseComes(q)'
  <2>1. BrokenByPeer(q)'
    BY <1>1, <1>3, <1>5, <1>10, <1>13, <1>14
      DEF CloseComes, BrokenByPeer, Breaks, Broken, PeerRead
  <2>2. CloseSent(q)'
    BY <1>1, <1>3, <1>5, <1>10, <1>13, <1>14
      DEF CloseComes, CloseSent, PeerRead
  <2>3. CloseAwaited(q)'
    BY <1>1, <1>3, <1>5, <1>10, <1>13, <1>14
      DEF CloseComes, CloseAwaited, Stopped, Local, CloseOrder, Playing, PeerRead
  <2>4. CloseHeard(q)'
    BY <1>1, <1>3, <1>5, <1>10, <1>13, <1>14
      DEF CloseComes, CloseHeard, CloseSent, BrokenByPeer, CloseAwaited, Told, Breaks,
          Broken, Stopped, Local, FlagOrder, CloseOrder, Playing, Left, Ended, PeerRead
  <2> QED BY <2>1, <2>2, <2>3, <2>4 DEF CloseComes
<1> QED BY <1>9, <1>11, <1>12, <1>15, <1>16, Peer DEF WorkerInv

\* The worker leaves and cancels.
LEMMA ShutdownKeeps ==
    ASSUME WorkerInv, NEW r \in Peers, Shutdown(r)
    PROVE  WorkerInv'
<1> DEFINE q == Other(r)
<1> TypeOK BY DEF WorkerInv
<1>1. Local(r) BY DEF WorkerInv
<1>2. PeerType(r) BY PeerTypes
<1>3. writer[r].at = "leave" BY Types DEF Shutdown
<1>4. /\ writer' = [writer EXCEPT ![r] = writer'[r]]
      /\ writer'[r] = [writer[r] EXCEPT !.at = "drop"]
  BY Types DEF Shutdown
<1>5. /\ flags' = [flags EXCEPT ![r] = flags'[r]]
      /\ flags'[r] = [flags[r] EXCEPT !.cancelled = TRUE]
  BY Types DEF Shutdown
<1>6. UNCHANGED <<owner, outbound, inbound, failure, reader, wire>> BY DEF Shutdown
<1>7. Touches(r) BY <1>4, <1>5, <1>6, Types DEF Touches
<1>8. writer'[r] \in Writers
  <2>1. writer[r] \in Writers BY <1>2 DEF PeerType
  <2> QED BY <1>4, <2>1 DEF Writers, AfterSend
<1>9. flags'[r] \in Flags
  <2>1. flags[r] \in Flags BY <1>2 DEF PeerType
  <2> QED BY <1>5, <2>1 DEF Flags
<1>10. PeerType(r)' BY <1>2, <1>6, <1>8, <1>9 DEF PeerType
<1>11. TypeOK' BY <1>6, <1>7, <1>10, Types, TouchType
<1>12. /\ flags'[r].cancelled = TRUE
       /\ flags'[r].ownerCancelled = flags[r].ownerCancelled
       /\ flags'[r].shut = flags[r].shut /\ flags'[r].terminal = flags[r].terminal
       /\ flags'[r].sentClose = flags[r].sentClose
       /\ flags'[r].receivedClose = flags[r].receivedClose
       /\ flags'[r].reset = flags[r].reset
  <2>1. flags[r] \in Flags BY <1>2 DEF PeerType
  <2> QED BY <1>5, <2>1 DEF Flags
<1>13. /\ writer'[r].at = "drop" /\ writer'[r].item = writer[r].item
       /\ writer'[r].result = writer[r].result
       /\ writer'[r].intentional = writer[r].intentional
  <2>1. writer[r] \in Writers BY <1>2 DEF PeerType
  <2> QED BY <1>4, <2>1 DEF Writers
<1>14. Local(r)'
  <2>1. FlagOrder(r)'
    BY <1>1, <1>3, <1>6, <1>12, <1>13
      DEF Local, FlagOrder, Playing
  <2>2. CloseOrder(r)'
    BY <1>1, <1>3, <1>6, <1>12, <1>13
      DEF Local, FlagOrder, CloseOrder, Playing, Left, Ended
  <2>3. Completion(r)'
    BY <1>1, <1>3, <1>6, <1>12, <1>13
      DEF Local, Completion
  <2>4. Causes(r)'
    BY <1>1, <1>3, <1>6, <1>12, <1>13
      DEF Local, FlagOrder, CloseOrder, Completion, Causes, Playing, Left, Ended
  <2>5. Primary(r)'
    BY <1>1, <1>3, <1>6, <1>12, <1>13
      DEF Local, FlagOrder, CloseOrder, Completion, Causes, Primary, Playing, Left,
          Ended, Secondary
  <2>6. Reason(r)'
    BY <1>1, <1>3, <1>6, <1>12, <1>13
      DEF Local, Reason, CauseKept, Returned, Secondary
  <2> QED BY <2>1, <2>2, <2>3, <2>4, <2>5, <2>6 DEF Local
<1>15. Local(q)' BY <1>7, Beside, Peer DEF WorkerInv
<1>16. /\ Local(q) /\ CloseComes(r) /\ CloseComes(q) /\ Other(q) = r /\ q # r
       /\ owner'[q] = owner[q] /\ failure'[q] = failure[q] /\ writer'[q] = writer[q]
       /\ reader'[q] = reader[q] /\ flags'[q] = flags[q] /\ outbound'[q] = outbound[q]
  BY <1>7, Apart, Peer DEF WorkerInv
<1>17. CloseComes(r)'
  <2>1. BrokenByPeer(r)'
    BY <1>1, <1>3, <1>6, <1>12, <1>13, <1>16
      DEF CloseComes, BrokenByPeer, Breaks, Broken
  <2>2. CloseSent(r)'
    BY <1>1, <1>3, <1>6, <1>12, <1>13, <1>16
      DEF CloseComes, CloseSent
  <2>3. CloseAwaited(r)'
    BY <1>1, <1>3, <1>6, <1>12, <1>13, <1>16
      DEF CloseComes, CloseAwaited, Stopped, Local, CloseOrder, Playing
  <2>4. CloseHeard(r)'
    BY <1>1, <1>3, <1>6, <1>12, <1>13, <1>16
      DEF CloseComes, CloseHeard, CloseSent, BrokenByPeer, Told, Breaks, Broken,
          Stopped, Local, FlagOrder, CloseOrder, Playing, Left, Ended
  <2> QED BY <2>1, <2>2, <2>3, <2>4 DEF CloseComes
<1>18. CloseComes(q)'
  <2>1. BrokenByPeer(q)'
    BY <1>1, <1>3, <1>6, <1>12, <1>13, <1>16
      DEF CloseComes, BrokenByPeer, Breaks, Broken
  <2>2. CloseSent(q)'
    BY <1>1, <1>3, <1>6, <1>12, <1>13, <1>16
      DEF CloseComes, CloseSent
  <2>3. CloseAwaited(q)'
    BY <1>1, <1>3, <1>6, <1>12, <1>13, <1>16
      DEF CloseComes, CloseAwaited, Stopped, Local, CloseOrder, Playing
  <2>4. CloseHeard(q)'
    BY <1>1, <1>3, <1>6, <1>12, <1>13, <1>16
      DEF CloseComes, CloseHeard, CloseSent, BrokenByPeer, Told, Breaks, Broken,
          Stopped, Local, FlagOrder, CloseOrder, Playing, Left, Ended
  <2> QED BY <2>1, <2>2, <2>3, <2>4 DEF CloseComes
<1> QED BY <1>11, <1>14, <1>15, <1>17, <1>18, Peer DEF WorkerInv

\* The worker ends the connection and shuts the socket.
LEMMA DropSenderKeeps ==
    ASSUME WorkerInv, NEW r \in Peers, DropSender(r)
    PROVE  WorkerInv'
<1> DEFINE q == Other(r)
<1> TypeOK BY DEF WorkerInv
<1>1. Local(r) BY DEF WorkerInv
<1>2. PeerType(r) BY PeerTypes
<1>3. writer[r].at = "drop" BY Types DEF DropSender
<1>4. /\ writer' = [writer EXCEPT ![r] = writer'[r]]
      /\ writer'[r] = [writer[r] EXCEPT !.at = "join"]
  BY Types DEF DropSender
<1>5. /\ flags' = [flags EXCEPT ![r] = flags'[r]]
      /\ flags'[r] = [flags[r] EXCEPT !.terminal = TRUE, !.shut = TRUE]
  BY Types DEF DropSender
<1>6. UNCHANGED <<owner, outbound, inbound, failure, reader, wire>> BY DEF DropSender
<1>7. Touches(r) BY <1>4, <1>5, <1>6, Types DEF Touches
<1>8. writer'[r] \in Writers
  <2>1. writer[r] \in Writers BY <1>2 DEF PeerType
  <2> QED BY <1>4, <2>1 DEF Writers, AfterSend
<1>9. flags'[r] \in Flags
  <2>1. flags[r] \in Flags BY <1>2 DEF PeerType
  <2> QED BY <1>5, <2>1 DEF Flags
<1>10. PeerType(r)' BY <1>2, <1>6, <1>8, <1>9 DEF PeerType
<1>11. TypeOK' BY <1>6, <1>7, <1>10, Types, TouchType
<1>12. /\ flags'[r].cancelled = flags[r].cancelled
       /\ flags'[r].ownerCancelled = flags[r].ownerCancelled
       /\ flags'[r].shut = TRUE /\ flags'[r].terminal = TRUE
       /\ flags'[r].sentClose = flags[r].sentClose
       /\ flags'[r].receivedClose = flags[r].receivedClose
       /\ flags'[r].reset = flags[r].reset
  <2>1. flags[r] \in Flags BY <1>2 DEF PeerType
  <2> QED BY <1>5, <2>1 DEF Flags
<1>13. /\ writer'[r].at = "join" /\ writer'[r].item = writer[r].item
       /\ writer'[r].result = writer[r].result
       /\ writer'[r].intentional = writer[r].intentional
  <2>1. writer[r] \in Writers BY <1>2 DEF PeerType
  <2> QED BY <1>4, <2>1 DEF Writers
<1>14. Local(r)'
  <2>1. FlagOrder(r)'
    BY <1>1, <1>3, <1>6, <1>12, <1>13
      DEF Local, FlagOrder, Playing
  <2>2. CloseOrder(r)'
    BY <1>1, <1>3, <1>6, <1>12, <1>13
      DEF Local, FlagOrder, CloseOrder, Playing, Left, Ended
  <2>3. Completion(r)'
    BY <1>1, <1>3, <1>6, <1>12, <1>13
      DEF Local, Completion
  <2>4. Causes(r)'
    BY <1>1, <1>3, <1>6, <1>12, <1>13
      DEF Local, FlagOrder, CloseOrder, Completion, Causes, Playing, Left, Ended
  <2>5. Primary(r)'
    BY <1>1, <1>3, <1>6, <1>12, <1>13
      DEF Local, FlagOrder, CloseOrder, Completion, Causes, Primary, Playing, Left,
          Ended, Secondary
  <2>6. Reason(r)'
    BY <1>1, <1>3, <1>6, <1>12, <1>13
      DEF Local, Reason, CauseKept, Returned, Secondary
  <2> QED BY <2>1, <2>2, <2>3, <2>4, <2>5, <2>6 DEF Local
<1>15. Local(q)' BY <1>7, Beside, Peer DEF WorkerInv
<1>16. /\ Local(q) /\ CloseComes(r) /\ CloseComes(q) /\ Other(q) = r /\ q # r
       /\ owner'[q] = owner[q] /\ failure'[q] = failure[q] /\ writer'[q] = writer[q]
       /\ reader'[q] = reader[q] /\ flags'[q] = flags[q] /\ outbound'[q] = outbound[q]
  BY <1>7, Apart, Peer DEF WorkerInv
<1>17. CloseComes(r)'
  BY <1>1, <1>3, <1>6, <1>12, <1>13, <1>16
    DEF CloseComes, BrokenByPeer, CloseSent, CloseAwaited, CloseHeard, Told, Breaks,
        Broken, Stopped, Local, FlagOrder, CloseOrder, Completion, Causes, Primary,
        Reason, CauseKept, Returned, Playing, Left, Ended, Secondary
<1>18. CloseComes(q)'
  <2>1. BrokenByPeer(q)'
    BY <1>1, <1>3, <1>6, <1>12, <1>13, <1>16
      DEF CloseComes, BrokenByPeer, Breaks, Broken
  <2>2. CloseSent(q)'
    BY <1>1, <1>3, <1>6, <1>12, <1>13, <1>16
      DEF CloseComes, CloseSent
  <2>3. CloseAwaited(q)'
    BY <1>1, <1>3, <1>6, <1>12, <1>13, <1>16
      DEF CloseComes, CloseAwaited, Stopped, Local, CloseOrder, Playing
  <2>4. CloseHeard(q)'
    BY <1>1, <1>3, <1>6, <1>12, <1>13, <1>16
      DEF CloseComes, CloseHeard, CloseSent, BrokenByPeer, Told, Breaks, Broken,
          Stopped, Local, FlagOrder, CloseOrder, Playing, Left, Ended
  <2> QED BY <2>1, <2>2, <2>3, <2>4 DEF CloseComes
<1> QED BY <1>11, <1>14, <1>15, <1>17, <1>18, Peer DEF WorkerInv

\* publish: the Close is queued before the reader ends well.
LEMMA PublishKeeps ==
    ASSUME WorkerInv, NEW r \in Peers, Publish(r)
    PROVE  WorkerInv'
<1> DEFINE q == Other(r)
<1> TypeOK BY DEF WorkerInv
<1>1. Local(r) BY DEF WorkerInv
<1>2. PeerType(r) BY PeerTypes
<1>3. reader[r].at = "publish" BY Types DEF Publish, ReadEnds
<1>4. /\ inbound' = [inbound EXCEPT ![r] = inbound'[r]]
      /\ inbound'[r] = (IF Len(inbound[r]) >= INBOUND_CAPACITY
                        THEN inbound[r]
                        ELSE Append(inbound[r], reader[r].item))
  BY Types DEF Publish, ReadEnds
<1>5. /\ reader' = [reader EXCEPT ![r] = reader'[r]]
      /\ reader'[r] = (IF Len(inbound[r]) >= INBOUND_CAPACITY
                       THEN [reader[r] EXCEPT !.at = "finish",
                                !.result = "inbound overflow"]
                       ELSE IF reader[r].item = "Close"
                       THEN [reader[r] EXCEPT !.at = "finish", !.result = "ok"]
                       ELSE [reader[r] EXCEPT !.at = "read"])
  BY Types DEF Publish, ReadEnds
<1>6. UNCHANGED <<owner, outbound, flags, failure, writer, wire>>
  BY DEF Publish, ReadEnds
<1>7. Touches(r) BY <1>4, <1>5, <1>6, Types DEF Touches
<1>8. reader[r].item \in Events /\ reader[r].item \in Messages
  BY <1>1, <1>3, Types DEF Local, FlagOrder, Readers, Messages, Events
<1>9. inbound'[r] \in Seq(Events) /\ Len(inbound'[r]) <= INBOUND_CAPACITY
  BY <1>2, <1>3, <1>4, <1>8, WorkerAssumption DEF PeerType
<1>10. reader'[r] \in Readers
  <2>1. reader[r] \in Readers BY <1>2 DEF PeerType
  <2> QED BY ZenonT(30), <1>5, <1>8, <2>1 DEF Readers, Errors, Failures
<1>11. PeerType(r)' BY <1>2, <1>6, <1>9, <1>10 DEF PeerType
<1>12. TypeOK' BY <1>6, <1>7, <1>11, Types, TouchType
<1>13. /\ Len(inbound[r]) >= INBOUND_CAPACITY =>
             /\ reader'[r].at = "finish" /\ reader'[r].item = reader[r].item
             /\ reader'[r].result = "inbound overflow"
             /\ reader'[r].completion = reader[r].completion
       /\ ~(Len(inbound[r]) >= INBOUND_CAPACITY) /\ reader[r].item = "Close" =>
             /\ reader'[r].at = "finish" /\ reader'[r].item = reader[r].item
             /\ reader'[r].result = "ok" /\ reader'[r].completion = reader[r].completion
       /\ ~(Len(inbound[r]) >= INBOUND_CAPACITY) /\ ~(reader[r].item = "Close") =>
             /\ reader'[r].at = "read" /\ reader'[r].item = reader[r].item
             /\ reader'[r].result = reader[r].result
             /\ reader'[r].completion = reader[r].completion
  <2>1. reader[r] \in Readers BY <1>2 DEF PeerType
  <2> QED BY <1>5, <2>1 DEF Readers
<1>14. inbound[r] \in Seq(Events) /\ reader[r].item \in Events
  BY <1>1, <1>2, <1>3 DEF PeerType, Events, Messages, Readers, Local, FlagOrder
<1>15. Holds(inbound'[r], "Close") <=>
          \/ Holds(inbound[r], "Close")
          \/ ~(Len(inbound[r]) >= INBOUND_CAPACITY) /\ reader[r].item = "Close"
  BY <1>4, <1>14, HoldsAppend, WorkerAssumption
<1>16. Local(r)'
  <2>1. FlagOrder(r)'
    BY <1>1, <1>3, <1>6, <1>13, <1>14, <1>15
      DEF Local, FlagOrder, Playing
  <2>2. CloseOrder(r)'
    BY <1>1, <1>3, <1>6, <1>13, <1>14, <1>15
      DEF Local, FlagOrder, CloseOrder, Playing, Left, Ended
  <2>3. Completion(r)'
    BY <1>1, <1>3, <1>6, <1>13, <1>14, <1>15
      DEF Local, Completion
  <2>4. Causes(r)'
    BY <1>1, <1>3, <1>6, <1>13, <1>14, <1>15
      DEF Local, FlagOrder, CloseOrder, Completion, Causes, Playing, Left, Ended
  <2>5. Primary(r)'
    BY <1>1, <1>3, <1>6, <1>13, <1>14, <1>15
      DEF Local, FlagOrder, CloseOrder, Completion, Causes, Primary, Playing, Left,
          Ended, Secondary
  <2>6. Reason(r)'
    BY <1>1, <1>3, <1>6, <1>13, <1>14, <1>15
      DEF Local, Reason, CauseKept, Returned, Secondary
  <2> QED BY <2>1, <2>2, <2>3, <2>4, <2>5, <2>6 DEF Local
<1>17. Local(q)' BY <1>7, Beside, Peer DEF WorkerInv
<1>18. /\ Local(q) /\ CloseComes(r) /\ CloseComes(q) /\ Other(q) = r /\ q # r
       /\ owner'[q] = owner[q] /\ failure'[q] = failure[q] /\ writer'[q] = writer[q]
       /\ reader'[q] = reader[q] /\ flags'[q] = flags[q] /\ outbound'[q] = outbound[q]
  BY <1>7, Apart, Peer DEF WorkerInv
<1>19. CloseComes(r)'
  <2>1. BrokenByPeer(r)'
    BY <1>1, <1>3, <1>6, <1>13, <1>14, <1>15, <1>18
      DEF CloseComes, BrokenByPeer, Breaks, Broken
  <2>2. CloseSent(r)'
    BY <1>1, <1>3, <1>6, <1>13, <1>14, <1>15, <1>18
      DEF CloseComes, CloseSent
  <2>3. CloseAwaited(r)'
    BY <1>1, <1>3, <1>6, <1>13, <1>14, <1>15, <1>18
      DEF CloseComes, CloseAwaited, Stopped, Local, CloseOrder, Playing
  <2>4. CloseHeard(r)'
    BY <1>1, <1>3, <1>6, <1>13, <1>14, <1>15, <1>18
      DEF CloseComes, CloseHeard, CloseSent, BrokenByPeer, Told, Breaks, Broken,
          Stopped, Local, FlagOrder, CloseOrder, Playing, Left, Ended
  <2> QED BY <2>1, <2>2, <2>3, <2>4 DEF CloseComes
<1>20. CloseComes(q)'
  <2>1. BrokenByPeer(q)'
    BY <1>1, <1>3, <1>6, <1>13, <1>14, <1>15, <1>18
      DEF CloseComes, BrokenByPeer, Breaks, Broken
  <2>2. CloseSent(q)'
    BY <1>1, <1>3, <1>6, <1>13, <1>14, <1>15, <1>18
      DEF CloseComes, CloseSent
  <2>3. CloseAwaited(q)'
    BY <1>1, <1>3, <1>6, <1>13, <1>14, <1>15, <1>18
      DEF CloseComes, CloseAwaited, Stopped, Local, CloseOrder, Playing
  <2>4. CloseHeard(q)'
    BY <1>1, <1>3, <1>6, <1>13, <1>14, <1>15, <1>18
      DEF CloseComes, CloseHeard, CloseSent, BrokenByPeer, Told, Breaks, Broken,
          Stopped, Local, FlagOrder, CloseOrder, Playing, Left, Ended
  <2> QED BY <2>1, <2>2, <2>3, <2>4 DEF CloseComes
<1> QED BY <1>12, <1>16, <1>17, <1>19, <1>20, Peer DEF WorkerInv

\* The reader ends and its half of the connection is dropped.
LEMMA CompleteKeeps ==
    ASSUME WorkerInv, NEW r \in Peers, Complete(r)
    PROVE  WorkerInv'
<1> DEFINE q == Other(r)
<1> TypeOK BY DEF WorkerInv
<1>1. Local(r) BY DEF WorkerInv
<1>2. PeerType(r) BY PeerTypes
<1>3. reader[r].at = "finish" BY Types DEF Complete
<1>4. /\ reader' = [reader EXCEPT ![r] = reader'[r]]
      /\ reader'[r] = [reader[r] EXCEPT !.at = "done", !.completion = reader[r].result]
  BY Types DEF Complete
<1>5. /\ flags' = [flags EXCEPT ![r] = flags'[r]]
      /\ flags'[r] = [flags[r] EXCEPT !.terminal = TRUE]
  BY Types DEF Complete
<1>6. UNCHANGED <<owner, outbound, inbound, failure, writer, wire>> BY DEF Complete
<1>7. Touches(r) BY <1>4, <1>5, <1>6, Types DEF Touches
<1>8. reader[r].result \in Errors \cup {"ok"} BY Types DEF Readers
<1>9. reader'[r] \in Readers
  <2>1. reader[r] \in Readers BY <1>2 DEF PeerType
  <2> QED BY <1>4, <1>8, <2>1 DEF Readers
<1>10. flags'[r] \in Flags
  <2>1. flags[r] \in Flags BY <1>2 DEF PeerType
  <2> QED BY <1>5, <1>8, <2>1 DEF Flags
<1>11. PeerType(r)' BY <1>2, <1>6, <1>9, <1>10 DEF PeerType
<1>12. TypeOK' BY <1>6, <1>7, <1>11, Types, TouchType
<1>13. /\ flags'[r].cancelled = flags[r].cancelled
       /\ flags'[r].ownerCancelled = flags[r].ownerCancelled
       /\ flags'[r].shut = flags[r].shut /\ flags'[r].terminal = TRUE
       /\ flags'[r].sentClose = flags[r].sentClose
       /\ flags'[r].receivedClose = flags[r].receivedClose
       /\ flags'[r].reset = flags[r].reset
  <2>1. flags[r] \in Flags BY <1>2 DEF PeerType
  <2> QED BY <1>5, <2>1 DEF Flags
<1>14. /\ reader'[r].at = "done" /\ reader'[r].item = reader[r].item
       /\ reader'[r].result = reader[r].result
       /\ reader'[r].completion = reader[r].result
  <2>1. reader[r] \in Readers BY <1>2 DEF PeerType
  <2> QED BY <1>4, <2>1 DEF Readers
<1>15. reader[r].result # "none" BY <1>2 DEF PeerType, Readers, Errors, Failures
<1>16. Local(r)'
  <2>1. FlagOrder(r)'
    BY <1>1, <1>3, <1>6, <1>13, <1>14, <1>15
      DEF Local, FlagOrder, Playing
  <2>2. CloseOrder(r)'
    BY <1>1, <1>3, <1>6, <1>13, <1>14, <1>15
      DEF Local, FlagOrder, CloseOrder, Playing, Left, Ended
  <2>3. Completion(r)'
    BY <1>1, <1>3, <1>6, <1>13, <1>14, <1>15
      DEF Local, Completion
  <2>4. Causes(r)'
    BY <1>1, <1>3, <1>6, <1>13, <1>14, <1>15
      DEF Local, FlagOrder, CloseOrder, Completion, Causes, Playing, Left, Ended
  <2>5. Primary(r)'
    BY <1>1, <1>3, <1>6, <1>13, <1>14, <1>15
      DEF Local, FlagOrder, CloseOrder, Completion, Causes, Primary, Playing, Left,
          Ended, Secondary
  <2>6. Reason(r)'
    BY <1>1, <1>3, <1>6, <1>13, <1>14, <1>15
      DEF Local, Reason, CauseKept, Returned, Secondary
  <2> QED BY <2>1, <2>2, <2>3, <2>4, <2>5, <2>6 DEF Local
<1>17. Local(q)' BY <1>7, Beside, Peer DEF WorkerInv
<1>18. /\ Local(q) /\ CloseComes(r) /\ CloseComes(q) /\ Other(q) = r /\ q # r
       /\ owner'[q] = owner[q] /\ failure'[q] = failure[q] /\ writer'[q] = writer[q]
       /\ reader'[q] = reader[q] /\ flags'[q] = flags[q] /\ outbound'[q] = outbound[q]
  BY <1>7, Apart, Peer DEF WorkerInv
<1>19. CloseComes(r)'
  BY <1>1, <1>3, <1>6, <1>13, <1>14, <1>15, <1>18
    DEF CloseComes, BrokenByPeer, CloseSent, CloseAwaited, CloseHeard, Told, Breaks,
        Broken, Stopped, Local, FlagOrder, CloseOrder, Completion, Causes, Primary,
        Reason, CauseKept, Returned, Playing, Left, Ended, Secondary
<1>20. CloseComes(q)'
  <2>1. BrokenByPeer(q)'
    BY <1>1, <1>3, <1>6, <1>13, <1>14, <1>15, <1>18
      DEF CloseComes, BrokenByPeer, Breaks, Broken
  <2>2. CloseSent(q)'
    BY <1>1, <1>3, <1>6, <1>13, <1>14, <1>15, <1>18
      DEF CloseComes, CloseSent
  <2>3. CloseAwaited(q)'
    BY <1>1, <1>3, <1>6, <1>13, <1>14, <1>15, <1>18
      DEF CloseComes, CloseAwaited, Stopped, Local, CloseOrder, Playing
  <2>4. CloseHeard(q)'
    BY ZenonT(30), <1>1, <1>3, <1>6, <1>13, <1>14, <1>15, <1>18
      DEF CloseComes, CloseHeard, Told, Breaks, Broken, Stopped, Local, FlagOrder,
          CloseOrder, Completion, Causes, Primary, Reason, CauseKept, Returned, Playing,
          Left, Ended, Secondary
  <2> QED BY <2>1, <2>2, <2>3, <2>4 DEF CloseComes
<1> QED BY <1>12, <1>16, <1>17, <1>19, <1>20, Peer DEF WorkerInv

\* Sender::send succeeds: the socket is open, so the peer has not broken.
LEMMA SendPacketKeeps ==
    ASSUME WorkerInv, NEW r \in Peers, SendPacket(r)
    PROVE  WorkerInv'
<1> DEFINE q == Other(r)
<1> TypeOK BY DEF WorkerInv
<1>1. Local(r) BY DEF WorkerInv
<1>2. PeerType(r) BY PeerTypes
<1>3. /\ writer[r].at = "send"
      /\ "none" \in SendErrors(r)
  BY Types DEF SendPacket
<1>4. /\ writer' = [writer EXCEPT ![r] = writer'[r]]
      /\ writer'[r] = [writer[r] EXCEPT !.at = AfterSend(r)]
  BY Types DEF SendPacket
<1>5. /\ flags' = [flags EXCEPT ![r] = flags'[r]]
      /\ flags'[r] =
           [flags[r] EXCEPT !.sentClose = flags[r].sentClose \/ writer[r].item = "Close",
                            !.terminal = (flags[r].sentClose \/ writer[r].item = "Close")
                                           /\ flags[r].receivedClose]
  BY Types DEF SendPacket
<1>6. wire' = [wire EXCEPT ![Other(r)] = Append(wire[Other(r)], writer[r].item)]
  BY DEF SendPacket
<1>7. UNCHANGED <<owner, outbound, inbound, failure, reader>> BY DEF SendPacket
<1>8. Touches(r) BY <1>4, <1>5, <1>6, <1>7, Types DEF Touches
<1>9. writer[r].item \in Messages BY <1>1, <1>3, Types DEF Local, FlagOrder, Writers
<1>10. writer'[r] \in Writers
  <2>1. writer[r] \in Writers BY <1>2 DEF PeerType
  <2> QED BY <1>4, <1>9, <2>1 DEF Writers, AfterSend
<1>11. flags'[r] \in Flags
  <2>1. flags[r] \in Flags BY <1>2 DEF PeerType
  <2> QED BY <1>5, <1>9, <2>1 DEF Flags
<1>12. wire' \in [Peers -> Seq(Messages)]
  <2>1. wire \in [Peers -> Seq(Messages)] BY Types
  <2>2. Append(wire[Other(r)], writer[r].item) \in Seq(Messages) BY <1>9, <2>1, Peer
  <2> QED BY <1>6, <2>1, <2>2, Peer
<1>13. PeerType(r)' BY <1>2, <1>7, <1>10, <1>11, <1>12 DEF PeerType
<1>14. TypeOK' BY <1>8, <1>12, <1>13, TouchType
<1>15. /\ flags'[r].cancelled = flags[r].cancelled
       /\ flags'[r].ownerCancelled = flags[r].ownerCancelled
       /\ flags'[r].shut = flags[r].shut
       /\ flags'[r].terminal = ((flags[r].sentClose \/ writer[r].item = "Close")
                                    /\ flags[r].receivedClose)
       /\ flags'[r].sentClose = (flags[r].sentClose \/ writer[r].item = "Close")
       /\ flags'[r].receivedClose = flags[r].receivedClose
       /\ flags'[r].reset = flags[r].reset
  <2>1. flags[r] \in Flags BY <1>2 DEF PeerType
  <2> QED BY <1>5, <2>1 DEF Flags
<1>16. /\ writer'[r].at = AfterSend(r) /\ writer'[r].item = writer[r].item
       /\ writer'[r].result = writer[r].result
       /\ writer'[r].intentional = writer[r].intentional
  <2>1. writer[r] \in Writers BY <1>2 DEF PeerType
  <2> QED BY <1>4, <2>1 DEF Writers
<1>17. Local(r)'
  BY ZenonT(30), <1>1, <1>3, <1>7, <1>15, <1>16
    DEF Local, FlagOrder, CloseOrder, Completion, Causes, Primary, Reason, CauseKept,
        Returned, Playing, Left, Ended, Secondary, AfterSend, SendErrors
<1>18. Local(q)' BY <1>8, Beside, Peer DEF WorkerInv
<1>19. /\ Local(q) /\ CloseComes(r) /\ CloseComes(q) /\ Other(q) = r /\ q # r
       /\ owner'[q] = owner[q] /\ failure'[q] = failure[q] /\ writer'[q] = writer[q]
       /\ reader'[q] = reader[q] /\ flags'[q] = flags[q] /\ outbound'[q] = outbound[q]
  BY <1>8, Apart, Peer DEF WorkerInv
<1>20. /\ wire'[r] = wire[r]
       /\ Holds(wire'[q], "Close") <=> Holds(wire[q], "Close") \/ writer[r].item = "Close"
  <2>1. wire \in [Peers -> Seq(Messages)] BY Types
  <2> QED BY <1>6, <1>9, <2>1, Peer, HoldsAppend
<1>21. CloseComes(r)'
  <2>1. BrokenByPeer(r)'
    BY <1>1, <1>3, <1>7, <1>15, <1>16, <1>19, <1>20
      DEF CloseComes, BrokenByPeer, Breaks, Broken, AfterSend, SendErrors
  <2>2. CloseSent(r)'
    BY <1>1, <1>3, <1>7, <1>15, <1>16, <1>19, <1>20
      DEF CloseComes, CloseSent, AfterSend, SendErrors
  <2>3. CloseAwaited(r)'
    BY <1>1, <1>3, <1>7, <1>15, <1>16, <1>19, <1>20
      DEF CloseComes, CloseAwaited, Stopped, Local, CloseOrder, Playing, AfterSend,
          SendErrors
  <2>4. CloseHeard(r)'
    BY <1>1, <1>3, <1>7, <1>15, <1>16, <1>19, <1>20
      DEF CloseComes, CloseHeard, CloseSent, BrokenByPeer, Told, Breaks, Broken,
          Stopped, Local, FlagOrder, CloseOrder, Playing, Left, Ended, AfterSend,
          SendErrors
  <2> QED BY <2>1, <2>2, <2>3, <2>4 DEF CloseComes
<1>22. CloseComes(q)'
  <2>1. BrokenByPeer(q)'
    BY <1>1, <1>3, <1>7, <1>15, <1>16, <1>19, <1>20
      DEF CloseComes, BrokenByPeer, Breaks, Broken, AfterSend, SendErrors
  <2>2. CloseSent(q)'
    BY <1>1, <1>3, <1>7, <1>15, <1>16, <1>19, <1>20
      DEF CloseComes, CloseSent, AfterSend, SendErrors
  <2>3. CloseAwaited(q)'
    BY <1>1, <1>3, <1>7, <1>15, <1>16, <1>19, <1>20
      DEF CloseComes, CloseAwaited, Stopped, Local, CloseOrder, Playing, AfterSend,
          SendErrors
  <2>4. CloseHeard(q)'
    BY <1>1, <1>3, <1>7, <1>15, <1>16, <1>19, <1>20
      DEF CloseComes, CloseHeard, CloseSent, BrokenByPeer, Told, Breaks, Broken,
          Stopped, Local, FlagOrder, CloseOrder, Playing, Left, Ended, AfterSend,
          SendErrors
  <2> QED BY <2>1, <2>2, <2>3, <2>4 DEF CloseComes
<1> QED BY <1>14, <1>17, <1>18, <1>21, <1>22, Peer DEF WorkerInv

\* finish_connection: the verdict is no secondary error unless the peer has
\* closed, and none at all only if its Close waits.
LEMMA FinishKeeps ==
    ASSUME WorkerInv, NEW r \in Peers, Finish(r)
    PROVE  WorkerInv'
<1> DEFINE q == Other(r)
<1> TypeOK BY DEF WorkerInv
<1>1. Local(r) BY DEF WorkerInv
<1>2. PeerType(r) BY PeerTypes
<1>3. /\ writer[r].at = "join"
      /\ reader[r].at = "done"
  BY Types DEF Finish, Return, ReaderJoined, Verdict
<1>4. /\ writer' = [writer EXCEPT ![r] = writer'[r]]
      /\ writer'[r] = [writer[r] EXCEPT !.at = "exit", !.result = Verdict(r)]
  BY Types DEF Finish, Return, ReaderJoined, Verdict
<1>5. UNCHANGED <<owner, outbound, inbound, flags, failure, reader, wire>>
  BY DEF Finish, Return, ReaderJoined, Verdict
<1>6. Touches(r) BY <1>4, <1>5, Types DEF Touches
<1>7. /\ Verdict(r) \in Errors \cup {"ok"}
      /\ Verdict(r) = "ok" => writer[r].result = "ok"
      /\ Verdict(r) \in Broken => Breaks(r)
  BY Types DEF Verdict, FinishConnection, Writers, Readers, Breaks, Errors
<1>8. Playing(r) /\ ~flags[r].receivedClose => Verdict(r) \notin Secondary
  <2>1. reader[r].completion \in Errors \cup {"ok", "none"}
    BY <1>2 DEF PeerType, Readers
  <2>2. writer[r].result \in Errors \cup {"ok"} BY <1>2 DEF PeerType, Writers
  <2> QED BY <1>1, <1>3, <2>1, <2>2
       DEF Local, CloseOrder, Completion, Causes, Primary, Playing, Left, Ended,
           Secondary, Verdict, FinishConnection
<1>9. writer'[r] \in Writers
  <2>1. writer[r] \in Writers BY <1>2 DEF PeerType
  <2> QED BY <1>4, <1>7, <2>1 DEF Writers
<1>10. PeerType(r)' BY <1>2, <1>5, <1>9 DEF PeerType
<1>11. TypeOK' BY <1>5, <1>6, <1>10, Types, TouchType
<1>12. /\ writer'[r].at = "exit" /\ writer'[r].item = writer[r].item
       /\ writer'[r].result = Verdict(r)
       /\ writer'[r].intentional = writer[r].intentional
  <2>1. writer[r] \in Writers BY <1>2 DEF PeerType
  <2> QED BY <1>4, <2>1 DEF Writers
<1>13. Local(r)'
  BY <1>1, <1>3, <1>5, <1>7, <1>12, <1>8
    DEF Local, FlagOrder, CloseOrder, Completion, Causes, Primary, Reason, CauseKept,
        Returned, Playing, Left, Ended, Secondary
<1>14. Local(q)' BY <1>6, Beside, Peer DEF WorkerInv
<1>15. /\ Local(q) /\ CloseComes(r) /\ CloseComes(q) /\ Other(q) = r /\ q # r
       /\ owner'[q] = owner[q] /\ failure'[q] = failure[q] /\ writer'[q] = writer[q]
       /\ reader'[q] = reader[q] /\ flags'[q] = flags[q] /\ outbound'[q] = outbound[q]
  BY <1>6, Apart, Peer DEF WorkerInv
<1>16. CloseComes(r)'
  BY <1>1, <1>3, <1>5, <1>7, <1>12, <1>15, <1>8
    DEF CloseComes, BrokenByPeer, CloseSent, CloseAwaited, CloseHeard, Told, Breaks,
        Broken, Stopped, Local, FlagOrder, CloseOrder, Completion, Causes, Primary,
        Reason, CauseKept, Returned, Playing, Left, Ended, Secondary
<1>17. CloseComes(q)'
  <2>1. BrokenByPeer(q)'
    BY <1>1, <1>3, <1>5, <1>7, <1>12, <1>15, <1>8
      DEF CloseComes, BrokenByPeer, Breaks, Broken
  <2>2. CloseSent(q)'
    BY <1>1, <1>3, <1>5, <1>7, <1>12, <1>15, <1>8
      DEF CloseComes, CloseSent
  <2>3. CloseAwaited(q)'
    BY <1>1, <1>3, <1>5, <1>7, <1>12, <1>15, <1>8
      DEF CloseComes, CloseAwaited, Stopped, Local, CloseOrder, Playing
  <2>4. CloseHeard(q)'
    BY <1>1, <1>3, <1>5, <1>7, <1>12, <1>15, <1>8
      DEF CloseComes, CloseHeard, CloseSent, BrokenByPeer, Told, Breaks, Broken,
          Stopped, Local, FlagOrder, CloseOrder, Playing, Left, Ended
  <2> QED BY <2>1, <2>2, <2>3, <2>4 DEF CloseComes
<1> QED BY <1>11, <1>13, <1>14, <1>16, <1>17, Peer DEF WorkerInv

\* The closure after run: the failure is recorded, the first one stays.
LEMMA DepartKeeps ==
    ASSUME WorkerInv, NEW r \in Peers, Depart(r)
    PROVE  WorkerInv'
<1> DEFINE q == Other(r)
<1> TypeOK BY DEF WorkerInv
<1>1. Local(r) BY DEF WorkerInv
<1>2. PeerType(r) BY PeerTypes
<1>3. writer[r].at = "exit"
  BY Types DEF Depart, RecordFailure
<1>4. /\ flags' = [flags EXCEPT ![r] = flags'[r]]
      /\ flags'[r] = [flags[r] EXCEPT !.cancelled = TRUE, !.terminal = TRUE,
                                      !.shut = TRUE]
  BY Types DEF Depart, RecordFailure
<1>5. /\ writer' = [writer EXCEPT ![r] = writer'[r]]
      /\ writer'[r] = [writer[r] EXCEPT !.at = "done"]
  BY Types DEF Depart, RecordFailure
<1>6. /\ failure' = [failure EXCEPT ![r] = failure'[r]]
      /\ failure'[r] = (IF writer[r].result # "ok" /\ failure[r] = "none"
                        THEN writer[r].result
                        ELSE failure[r])
  BY Types DEF Depart, RecordFailure
<1>7. /\ inbound' = [inbound EXCEPT ![r] = inbound'[r]]
      /\ inbound'[r] = (IF writer[r].result # "ok" /\ Len(inbound[r]) < INBOUND_CAPACITY
                        THEN Append(inbound[r], "Failed")
                        ELSE inbound[r])
  BY Types DEF Depart, RecordFailure
<1>8. UNCHANGED <<owner, outbound, reader, wire>>
  BY DEF Depart, RecordFailure
<1>9. Touches(r) BY <1>4, <1>5, <1>6, <1>7, <1>8, Types DEF Touches
<1>10. "Failed" \in Events BY DEF Events
<1>11. writer[r].result \in Errors \cup {"ok"} BY <1>2 DEF PeerType, Writers
<1>12. flags'[r] \in Flags
  <2>1. flags[r] \in Flags BY <1>2 DEF PeerType
  <2> QED BY <1>4, <1>10, <1>11, <2>1 DEF Flags
<1>13. writer'[r] \in Writers
  <2>1. writer[r] \in Writers BY <1>2 DEF PeerType
  <2> QED BY <1>5, <1>10, <1>11, <2>1 DEF Writers, AfterSend
<1>14. failure'[r] \in Failures \cup {"none"}
  <2>1. failure[r] \in Failures \cup {"none"} BY <1>2 DEF PeerType
  <2> QED BY <1>6, <1>11, <2>1 DEF Failures
<1>15. inbound'[r] \in Seq(Events) /\ Len(inbound'[r]) <= INBOUND_CAPACITY
  BY <1>2, <1>3, <1>7, <1>10, <1>11, WorkerAssumption DEF PeerType
<1>16. PeerType(r)' BY <1>2, <1>8, <1>12, <1>13, <1>14, <1>15 DEF PeerType
<1>17. TypeOK' BY <1>8, <1>9, <1>16, Types, TouchType
<1>18. /\ flags'[r].cancelled = TRUE
       /\ flags'[r].ownerCancelled = flags[r].ownerCancelled
       /\ flags'[r].shut = TRUE /\ flags'[r].terminal = TRUE
       /\ flags'[r].sentClose = flags[r].sentClose
       /\ flags'[r].receivedClose = flags[r].receivedClose
       /\ flags'[r].reset = flags[r].reset
  <2>1. flags[r] \in Flags BY <1>2 DEF PeerType
  <2> QED BY <1>4, <2>1 DEF Flags
<1>19. /\ writer'[r].at = "done" /\ writer'[r].item = writer[r].item
       /\ writer'[r].result = writer[r].result
       /\ writer'[r].intentional = writer[r].intentional
  <2>1. writer[r] \in Writers BY <1>2 DEF PeerType
  <2> QED BY <1>5, <2>1 DEF Writers
<1>20. inbound[r] \in Seq(Events) /\ "Failed" \in Events BY <1>2 DEF PeerType, Events
<1>21. Holds(inbound'[r], "Close") <=> Holds(inbound[r], "Close")
  BY <1>7, <1>20, HoldsAppend
<1>22. Local(r)'
  <2>1. writer[r].result \in Errors \cup {"ok"} BY <1>11
  <2>2. FlagOrder(r)'
    BY <1>1, <1>3, <1>6, <1>8, <1>18, <1>19, <1>20, <1>21, <2>1
      DEF Local, FlagOrder, Playing, Errors, Failures
  <2>3. CloseOrder(r)'
    BY <1>1, <1>3, <1>6, <1>8, <1>18, <1>19, <1>20, <1>21, <2>1
      DEF Local, FlagOrder, CloseOrder, Playing, Left, Ended, Errors, Failures
  <2>4. Completion(r)'
    BY <1>1, <1>3, <1>6, <1>8, <1>18, <1>19, <1>20, <1>21, <2>1
      DEF Local, Completion, Errors, Failures
  <2>5. Causes(r)'
    BY <1>1, <1>3, <1>6, <1>8, <1>18, <1>19, <1>20, <1>21, <2>1
      DEF Local, FlagOrder, CloseOrder, Completion, Causes, Playing, Left, Ended,
          Errors, Failures
  <2>6. Primary(r)'
    BY <1>1, <1>3, <1>6, <1>8, <1>18, <1>19, <1>20, <1>21, <2>1
      DEF Local, FlagOrder, CloseOrder, Completion, Causes, Primary, Playing, Left,
          Ended, Secondary, Errors, Failures
  <2>7. Reason(r)'
    BY <1>1, <1>3, <1>6, <1>8, <1>18, <1>19, <1>20, <1>21, <2>1
      DEF Local, Reason, CauseKept, Returned, Secondary, Errors, Failures
  <2> QED BY <2>2, <2>3, <2>4, <2>5, <2>6, <2>7 DEF Local
<1>23. Local(q)' BY <1>9, Beside, Peer DEF WorkerInv
<1>24. /\ Local(q) /\ CloseComes(r) /\ CloseComes(q) /\ Other(q) = r /\ q # r
       /\ owner'[q] = owner[q] /\ failure'[q] = failure[q] /\ writer'[q] = writer[q]
       /\ reader'[q] = reader[q] /\ flags'[q] = flags[q] /\ outbound'[q] = outbound[q]
  BY <1>9, Apart, Peer DEF WorkerInv
<1>25. CloseComes(r)'
  <2>1. BrokenByPeer(r)'
    BY <1>1, <1>3, <1>6, <1>8, <1>18, <1>19, <1>20, <1>21, <1>24
      DEF CloseComes, BrokenByPeer, Breaks, Broken, Errors, Failures
  <2>2. CloseSent(r)'
    BY <1>1, <1>3, <1>6, <1>8, <1>18, <1>19, <1>20, <1>21, <1>24
      DEF CloseComes, CloseSent, Errors, Failures
  <2>3. CloseAwaited(r)'
    BY <1>1, <1>3, <1>6, <1>8, <1>18, <1>19, <1>20, <1>21, <1>24
      DEF CloseComes, CloseAwaited, Stopped, Local, CloseOrder, Playing, Errors,
          Failures
  <2>4. CloseHeard(r)'
    BY <1>1, <1>3, <1>6, <1>8, <1>18, <1>19, <1>20, <1>21, <1>24
      DEF CloseComes, CloseHeard, CloseSent, BrokenByPeer, Told, Breaks, Broken,
          Stopped, Local, FlagOrder, CloseOrder, Playing, Left, Ended, Errors, Failures
  <2> QED BY <2>1, <2>2, <2>3, <2>4 DEF CloseComes
<1>26. CloseComes(q)'
  <2>1. BrokenByPeer(q)'
    BY <1>1, <1>3, <1>6, <1>8, <1>18, <1>19, <1>20, <1>21, <1>24
      DEF CloseComes, BrokenByPeer, Breaks, Broken, Errors, Failures
  <2>2. CloseSent(q)'
    BY <1>1, <1>3, <1>6, <1>8, <1>18, <1>19, <1>20, <1>21, <1>24
      DEF CloseComes, CloseSent, Errors, Failures
  <2>3. CloseAwaited(q)'
    BY <1>1, <1>3, <1>6, <1>8, <1>18, <1>19, <1>20, <1>21, <1>24
      DEF CloseComes, CloseAwaited, Stopped, Local, CloseOrder, Playing, Errors,
          Failures
  <2>4. CloseHeard(q)'
    BY <1>1, <1>3, <1>6, <1>8, <1>18, <1>19, <1>20, <1>21, <1>24
      DEF CloseComes, CloseHeard, CloseSent, BrokenByPeer, Told, Breaks, Broken,
          Stopped, Local, FlagOrder, CloseOrder, Playing, Left, Ended, Errors, Failures
  <2> QED BY <2>1, <2>2, <2>3, <2>4 DEF CloseComes
<1> QED BY <1>23, <1>17, <1>22, <1>25, <1>26, Peer DEF WorkerInv

\* Receiver::receive takes a packet.
LEMMA ReceiveKeeps ==
    ASSUME WorkerInv, NEW r \in Peers, Receive(r)
    PROVE  WorkerInv'
<1> DEFINE q == Other(r)
<1> TypeOK BY DEF WorkerInv
<1>1. Local(r) BY DEF WorkerInv
<1>2. PeerType(r) BY PeerTypes
<1>3. /\ reader[r].at = "read"
      /\ ~flags[r].terminal
      /\ ~flags[r].cancelled
      /\ wire[r] # <<>>
  BY Types DEF Receive, ReadEnds
<1>4. wire' = [wire EXCEPT ![r] = Tail(wire[r])] BY DEF Receive, ReadEnds
<1>5. /\ reader' = [reader EXCEPT ![r] = reader'[r]]
      /\ reader'[r] = (IF flags[r].sentClose /\ Head(wire[r]) # "Close"
                       THEN [reader[r] EXCEPT !.at = "finish", !.result = "late"]
                       ELSE [reader[r] EXCEPT !.at = "publish", !.item = Head(wire[r])])
  BY Types DEF Receive, ReadEnds
<1>6. /\ flags' = [flags EXCEPT ![r] = flags'[r]]
      /\ flags'[r] = (IF flags[r].sentClose /\ Head(wire[r]) # "Close"
                      THEN [flags[r] EXCEPT !.terminal = TRUE]
                      ELSE [flags[r] EXCEPT
                              !.receivedClose = flags[r].receivedClose \/ Head(wire[r]) = "Close",
                              !.terminal = (flags[r].receivedClose \/ Head(wire[r]) = "Close")
                                             /\ flags[r].sentClose])
  BY Types DEF Receive, ReadEnds
<1>7. UNCHANGED <<owner, outbound, inbound, failure, writer>> BY DEF Receive, ReadEnds
<1>8. Touches(r) BY <1>4, <1>5, <1>6, <1>7, Types DEF Touches
<1>9. Head(wire[r]) \in Messages BY <1>3, Types
<1>10. wire' \in [Peers -> Seq(Messages)]
  <2>1. wire \in [Peers -> Seq(Messages)] BY Types
  <2>2. Tail(wire[r]) \in Seq(Messages) BY <1>3, <2>1
  <2> QED BY <1>4, <2>1, <2>2
<1>11. reader'[r] \in Readers
  <2>1. reader[r] \in Readers BY <1>2 DEF PeerType
  <2>2. CASE flags[r].sentClose /\ Head(wire[r]) # "Close"
    BY <1>5, <2>1, <2>2 DEF Readers, Errors, Failures
  <2>3. CASE ~(flags[r].sentClose /\ Head(wire[r]) # "Close")
    <3>1. reader'[r] = [reader[r] EXCEPT !.at = "publish", !.item = Head(wire[r])]
      BY <1>5, <2>3
    <3> QED BY <1>9, <2>1, <3>1 DEF Readers
  <2> QED BY <2>2, <2>3
<1>12. flags'[r] \in Flags
  <2>1. flags[r] \in Flags BY <1>2 DEF PeerType
  <2> QED BY <1>6, <1>9, <2>1 DEF Flags
<1>13. PeerType(r)' BY <1>2, <1>7, <1>10, <1>11, <1>12 DEF PeerType
<1>14. TypeOK' BY <1>8, <1>10, <1>13, TouchType
<1>15. /\ flags[r].sentClose /\ Head(wire[r]) # "Close" =>
             /\ flags'[r].cancelled = flags[r].cancelled
             /\ flags'[r].ownerCancelled = flags[r].ownerCancelled
             /\ flags'[r].shut = flags[r].shut /\ flags'[r].terminal = TRUE
             /\ flags'[r].sentClose = flags[r].sentClose
             /\ flags'[r].receivedClose = flags[r].receivedClose
             /\ flags'[r].reset = flags[r].reset
       /\ ~(flags[r].sentClose /\ Head(wire[r]) # "Close") =>
             /\ flags'[r].cancelled = flags[r].cancelled
             /\ flags'[r].ownerCancelled = flags[r].ownerCancelled
             /\ flags'[r].shut = flags[r].shut
             /\ flags'[r].terminal = ((flags[r].receivedClose \/ Head(wire[r]) = "Close")
                                          /\ flags[r].sentClose)
             /\ flags'[r].sentClose = flags[r].sentClose
             /\ flags'[r].receivedClose = (flags[r].receivedClose \/ Head(wire[r]) = "Close")
             /\ flags'[r].reset = flags[r].reset
  <2>1. flags[r] \in Flags BY <1>2 DEF PeerType
  <2> QED BY <1>6, <2>1 DEF Flags
<1>16. /\ flags[r].sentClose /\ Head(wire[r]) # "Close" =>
             /\ reader'[r].at = "finish" /\ reader'[r].item = reader[r].item
             /\ reader'[r].result = "late"
             /\ reader'[r].completion = reader[r].completion
       /\ ~(flags[r].sentClose /\ Head(wire[r]) # "Close") =>
             /\ reader'[r].at = "publish" /\ reader'[r].item = Head(wire[r])
             /\ reader'[r].result = reader[r].result
             /\ reader'[r].completion = reader[r].completion
  <2>1. reader[r] \in Readers BY <1>2 DEF PeerType
  <2> QED BY <1>5, <2>1 DEF Readers
<1>17. Head(wire[r]) \in Messages BY <1>3, Types
<1>18. Local(r)'
  BY ZenonT(30), <1>1, <1>3, <1>7, <1>15, <1>16, <1>17
    DEF Local, FlagOrder, CloseOrder, Completion, Causes, Primary, Reason, CauseKept,
        Returned, Playing, Left, Ended, Secondary, Messages
<1>19. Local(q)' BY <1>8, Beside, Peer DEF WorkerInv
<1>20. /\ Local(q) /\ CloseComes(r) /\ CloseComes(q) /\ Other(q) = r /\ q # r
       /\ owner'[q] = owner[q] /\ failure'[q] = failure[q] /\ writer'[q] = writer[q]
       /\ reader'[q] = reader[q] /\ flags'[q] = flags[q] /\ outbound'[q] = outbound[q]
  BY <1>8, Apart, Peer DEF WorkerInv
<1>21. /\ wire'[q] = wire[q]
       /\ Holds(wire[r], "Close") <=> Holds(wire'[r], "Close") \/ Head(wire[r]) = "Close"
  <2>1. wire \in [Peers -> Seq(Messages)] BY Types
  <2> QED BY <1>3, <1>4, <2>1, Peer, HoldsTail
<1>22. CloseComes(r)'
  BY ZenonT(30), <1>1, <1>3, <1>7, <1>15, <1>16, <1>17, <1>20, <1>21
    DEF CloseComes, BrokenByPeer, CloseSent, CloseAwaited, CloseHeard, Told, Breaks,
        Broken, Stopped, Local, FlagOrder, CloseOrder, Completion, Causes, Primary,
        Reason, CauseKept, Returned, Playing, Left, Ended, Secondary, Messages
<1>23. CloseComes(q)'
  <2>1. BrokenByPeer(q)'
    BY <1>1, <1>3, <1>7, <1>15, <1>16, <1>17, <1>20, <1>21
      DEF CloseComes, BrokenByPeer, Breaks, Broken, Messages
  <2>2. CloseSent(q)'
    BY <1>1, <1>3, <1>7, <1>15, <1>16, <1>17, <1>20, <1>21
      DEF CloseComes, CloseSent, Messages
  <2>3. CloseAwaited(q)'
    BY <1>1, <1>3, <1>7, <1>15, <1>16, <1>17, <1>20, <1>21
      DEF CloseComes, CloseAwaited, Stopped, Local, CloseOrder, Playing, Messages
  <2>4. CloseHeard(q)'
    BY ZenonT(30), <1>1, <1>3, <1>7, <1>15, <1>16, <1>17, <1>20, <1>21
      DEF CloseComes, CloseHeard, Told, Breaks, Broken, Stopped, Local, FlagOrder,
          CloseOrder, Completion, Causes, Primary, Reason, CauseKept, Returned, Playing,
          Left, Ended, Secondary, Messages
  <2> QED BY <2>1, <2>2, <2>3, <2>4 DEF CloseComes
<1> QED BY <1>14, <1>18, <1>19, <1>22, <1>23, Peer DEF WorkerInv

\* Receiver::receive fails: on the peer's shut socket the peer has not said
\* Close, else this end would have been told.
LEMMA ReceiveFailsKeeps ==
    ASSUME WorkerInv, NEW r \in Peers, ReceiveFails(r)
    PROVE  WorkerInv'
<1> DEFINE q == Other(r)
<1> TypeOK BY DEF WorkerInv
<1>1. Local(r) BY DEF WorkerInv
<1>2. PeerType(r) BY PeerTypes
<1>3. /\ reader[r].at = "read"
      /\ reader'[r].result \in ReceiveErrors(r)
  BY Types DEF ReceiveFails, ReadEnds, Readers
<1>4. /\ flags' = [flags EXCEPT ![r] = flags'[r]]
      /\ flags'[r] = [flags[r] EXCEPT !.terminal = TRUE]
  BY Types DEF ReceiveFails, ReadEnds, Readers
<1>5. /\ reader' = [reader EXCEPT ![r] = reader'[r]]
      /\ reader'[r] = [reader[r] EXCEPT !.at = "finish", !.result = reader'[r].result]
  <2>1. PICK error \in ReceiveErrors(r) : ReadEnds(r, error) BY DEF ReceiveFails
  <2>2. reader[r] \in Readers BY Types
  <2>3. reader'[r] = [reader[r] EXCEPT !.at = "finish", !.result = error]
    BY <2>1, Types DEF ReadEnds
  <2>4. reader'[r].result = error BY <2>2, <2>3 DEF Readers
  <2> QED BY <2>1, <2>3, <2>4, Types DEF ReadEnds
<1>6. UNCHANGED <<owner, outbound, inbound, failure, writer, wire>>
  BY DEF ReceiveFails, ReadEnds
<1>7. Touches(r) BY <1>4, <1>5, <1>6, Types DEF Touches
<1>8. reader'[r].result \in Errors BY <1>3 DEF ReceiveErrors, Errors, Failures
<1>9. flags'[r] \in Flags
  <2>1. flags[r] \in Flags BY <1>2 DEF PeerType
  <2> QED BY <1>4, <1>8, <2>1 DEF Flags
<1>10. reader'[r] \in Readers
  <2>1. reader[r] \in Readers BY <1>2 DEF PeerType
  <2> QED BY <1>5, <1>8, <2>1 DEF Readers
<1>11. PeerType(r)' BY <1>2, <1>6, <1>9, <1>10 DEF PeerType
<1>12. TypeOK' BY <1>6, <1>7, <1>11, Types, TouchType
<1>13. /\ flags'[r].cancelled = flags[r].cancelled
       /\ flags'[r].ownerCancelled = flags[r].ownerCancelled
       /\ flags'[r].shut = flags[r].shut /\ flags'[r].terminal = TRUE
       /\ flags'[r].sentClose = flags[r].sentClose
       /\ flags'[r].receivedClose = flags[r].receivedClose
       /\ flags'[r].reset = flags[r].reset
  <2>1. flags[r] \in Flags BY <1>2 DEF PeerType
  <2> QED BY <1>4, <2>1 DEF Flags
<1>14. /\ reader'[r].at = "finish" /\ reader'[r].item = reader[r].item
       /\ reader'[r].result = reader'[r].result
       /\ reader'[r].completion = reader[r].completion
  <2>1. reader[r] \in Readers BY <1>2 DEF PeerType
  <2> QED BY <1>5, <2>1 DEF Readers
<1>15. Local(r)'
  <2>1. FlagOrder(r)'
    BY <1>1, <1>3, <1>6, <1>13, <1>14
      DEF Local, FlagOrder, Playing, ReceiveErrors
  <2>2. CloseOrder(r)'
    BY <1>1, <1>3, <1>6, <1>13, <1>14
      DEF Local, FlagOrder, CloseOrder, Playing, Left, Ended, ReceiveErrors
  <2>3. Completion(r)'
    BY <1>1, <1>3, <1>6, <1>13, <1>14
      DEF Local, Completion, ReceiveErrors
  <2>4. Causes(r)'
    BY <1>1, <1>3, <1>6, <1>13, <1>14
      DEF Local, FlagOrder, CloseOrder, Completion, Causes, Playing, Left, Ended,
          ReceiveErrors
  <2>5. Primary(r)'
    BY <1>1, <1>3, <1>6, <1>13, <1>14
      DEF Local, FlagOrder, CloseOrder, Completion, Causes, Primary, Playing, Left,
          Ended, Secondary, ReceiveErrors
  <2>6. Reason(r)'
    BY <1>1, <1>3, <1>6, <1>13, <1>14
      DEF Local, Reason, CauseKept, Returned, Secondary, ReceiveErrors
  <2> QED BY <2>1, <2>2, <2>3, <2>4, <2>5, <2>6 DEF Local
<1>16. Local(q)' BY <1>7, Beside, Peer DEF WorkerInv
<1>17. /\ Local(q) /\ CloseComes(r) /\ CloseComes(q) /\ Other(q) = r /\ q # r
       /\ owner'[q] = owner[q] /\ failure'[q] = failure[q] /\ writer'[q] = writer[q]
       /\ reader'[q] = reader[q] /\ flags'[q] = flags[q] /\ outbound'[q] = outbound[q]
  BY <1>7, Apart, Peer DEF WorkerInv
<1>18. CloseComes(r)'
  BY <1>1, <1>3, <1>6, <1>13, <1>14, <1>17
    DEF CloseComes, BrokenByPeer, CloseSent, CloseAwaited, CloseHeard, Told, Breaks,
        Broken, Stopped, Local, FlagOrder, CloseOrder, Completion, Causes, Primary,
        Reason, CauseKept, Returned, Playing, Left, Ended, Secondary, ReceiveErrors
<1>19. CloseComes(q)'
  <2>1. BrokenByPeer(q)'
    BY <1>1, <1>3, <1>6, <1>13, <1>14, <1>17
      DEF CloseComes, BrokenByPeer, Breaks, Broken, ReceiveErrors
  <2>2. CloseSent(q)'
    BY <1>1, <1>3, <1>6, <1>13, <1>14, <1>17
      DEF CloseComes, CloseSent, ReceiveErrors
  <2>3. CloseAwaited(q)'
    BY <1>1, <1>3, <1>6, <1>13, <1>14, <1>17
      DEF CloseComes, CloseAwaited, Stopped, Local, CloseOrder, Playing, ReceiveErrors
  <2>4. CloseHeard(q)'
    BY ZenonT(30), <1>1, <1>3, <1>6, <1>13, <1>14, <1>17
      DEF CloseComes, CloseHeard, Told, Breaks, Broken, Stopped, Local, FlagOrder,
          CloseOrder, Completion, Causes, Primary, Reason, CauseKept, Returned, Playing,
          Left, Ended, Secondary, ReceiveErrors
  <2> QED BY <2>1, <2>2, <2>3, <2>4 DEF CloseComes
<1> QED BY <1>12, <1>15, <1>16, <1>18, <1>19, Peer DEF WorkerInv

\* A reset takes what is on the wire: the Close on it was no longer needed.
LEMMA ResetKeeps ==
    ASSUME WorkerInv, NEW r \in Peers, Reset(r)
    PROVE  WorkerInv'
<1> DEFINE q == Other(r)
<1>1. TypeOK /\ q \in Peers /\ q # r /\ Other(q) = r BY Peer DEF WorkerInv
<1>2. /\ flags[r].shut
      /\ flags' = [flags EXCEPT ![q] = [flags[q] EXCEPT !.reset = TRUE]]
      /\ wire' = [p \in Peers |-> <<>>]
      /\ UNCHANGED <<owner, outbound, inbound, failure, writer, reader>>
  BY <1>1, Types DEF Reset
<1>3. flags \in [Peers -> Flags] BY <1>1, Types
<1>4. flags'[q] = [flags[q] EXCEPT !.reset = TRUE] /\ flags'[r] = flags[r]
  BY <1>1, <1>2, <1>3
<1>5. TypeOK'
  <2>1. [flags[q] EXCEPT !.reset = TRUE] \in Flags BY <1>1, <1>3 DEF Flags
  <2>2. flags' \in [Peers -> Flags] BY <1>1, <1>2, <1>3, <2>1
  <2>3. wire' \in [Peers -> Seq(Messages)] BY <1>2
  <2> QED BY <1>1, <1>2, <2>2, <2>3, Types
          DEF TypeOK, Owners, Flags, Writers, Readers
<1>6. /\ flags'[q].cancelled = flags[q].cancelled /\ flags'[q].shut = flags[q].shut
      /\ flags'[q].ownerCancelled = flags[q].ownerCancelled
      /\ flags'[q].terminal = flags[q].terminal
      /\ flags'[q].sentClose = flags[q].sentClose
      /\ flags'[q].receivedClose = flags[q].receivedClose
  BY <1>1, <1>3, <1>4 DEF Flags
<1>7. Local(r) /\ Local(q) /\ CloseComes(r) /\ CloseComes(q) BY <1>1 DEF WorkerInv
<1>8. ASSUME NEW p \in {r, q} PROVE Local(p)'
  <2>1. FlagOrder(p)' BY <1>2, <1>4, <1>6, <1>7 DEF Local, FlagOrder, Playing
  <2>2. CloseOrder(p)' BY <1>2, <1>4, <1>6, <1>7 DEF Local, CloseOrder, Playing
  <2>3. Completion(p)' BY <1>2, <1>7 DEF Local, Completion
  <2>4. Causes(p)' BY <1>2, <1>4, <1>6, <1>7 DEF Local, Causes, Playing
  <2>5. Primary(p)' BY <1>2, <1>4, <1>6, <1>7 DEF Local, Primary, Playing
  <2>6. Reason(p)' BY <1>2, <1>4, <1>6, <1>7 DEF Local, Reason, CauseKept, Returned
  <2> QED BY <2>1, <2>2, <2>3, <2>4, <2>5, <2>6 DEF Local
<1>9. ~Holds(wire'[r], "Close") /\ ~Holds(wire'[q], "Close") BY <1>1, <1>2 DEF Holds
<1>10. CloseComes(r)'
  <2>1. BrokenByPeer(r)'
    BY <1>1, <1>2, <1>4, <1>6, <1>7, <1>9
      DEF CloseComes, BrokenByPeer, Breaks, Broken
  <2>2. CloseSent(r)'
    BY <1>1, <1>2, <1>4, <1>6, <1>7, <1>9
      DEF CloseComes, CloseSent
  <2>3. CloseAwaited(r)'
    BY <1>1, <1>2, <1>4, <1>6, <1>7, <1>9
      DEF CloseComes, CloseAwaited, Stopped, Local, CloseOrder, Playing
  <2>4. CloseHeard(r)'
    BY <1>1, <1>2, <1>4, <1>6, <1>7, <1>9
      DEF CloseComes, CloseHeard, CloseSent, BrokenByPeer, Told, Breaks, Broken,
          Stopped, Local, FlagOrder, CloseOrder, Playing, Left, Ended
  <2> QED BY <2>1, <2>2, <2>3, <2>4 DEF CloseComes
<1>11. CloseComes(q)'
  BY <1>1, <1>2, <1>4, <1>6, <1>7, <1>9
    DEF CloseComes, BrokenByPeer, CloseSent, CloseAwaited, CloseHeard, Told, Breaks,
        Stopped, Local, FlagOrder, CloseOrder, Playing, Left
<1> QED BY <1>1, <1>5, <1>8, <1>10, <1>11, Peer DEF WorkerInv

\* Before admission nothing has ended.
LEMMA WorkerInit == Init => WorkerInv
<1> SUFFICES ASSUME Init PROVE WorkerInv OBVIOUS
<1>1. TypeOK
  <2>1. owner \in [Peers -> Owners] BY DEF Init, Owners
  <2>2. outbound \in [Peers -> Seq(Messages)] /\ inbound \in [Peers -> Seq(Events)]
        /\ wire \in [Peers -> Seq(Messages)]
    BY DEF Init
  <2>3. flags \in [Peers -> Flags] BY DEF Init, Flags
  <2>4. failure \in [Peers -> Failures \cup {"none"}] BY DEF Init
  <2>5. writer \in [Peers -> Writers] BY DEF Init, Writers
  <2>6. reader \in [Peers -> Readers] BY DEF Init, Readers
  <2>7. \A p \in Peers : Len(outbound[p]) <= OUTBOUND_CAPACITY
                         /\ Len(inbound[p]) <= INBOUND_CAPACITY
    BY WorkerAssumption DEF Init
  <2> QED BY <2>1, <2>2, <2>3, <2>4, <2>5, <2>6, <2>7, Types
<1>2. ASSUME NEW p \in Peers PROVE Local(p) /\ CloseComes(p)
  <2>1. /\ owner[p].at = "playing" /\ owner[p].reason = "none"
        /\ failure[p] = "none"
        /\ writer[p].at = "admit" /\ writer[p].item = "none"
        /\ writer[p].result = "ok" /\ writer[p].intentional = FALSE
        /\ reader[p].at = "off" /\ reader[p].item = "none"
        /\ reader[p].result = "ok" /\ reader[p].completion = "none"
    BY DEF Init
  <2>2. \A r \in Peers :
          /\ flags[r].cancelled = FALSE /\ flags[r].ownerCancelled = FALSE
          /\ flags[r].shut = FALSE /\ flags[r].reset = FALSE
          /\ flags[r].terminal = FALSE /\ flags[r].sentClose = FALSE
          /\ flags[r].receivedClose = FALSE
    BY DEF Init
  <2>3. /\ inbound[p] = <<>> /\ ~Holds(inbound[p], "Close")
        /\ ~Holds(outbound[p], "Close") /\ ~Holds(wire[p], "Close")
    BY DEF Init, Holds
  <2>4. Local(p)
    BY <2>1, <2>2, <2>3
      DEF Local, FlagOrder, CloseOrder, Completion, Causes, Primary, Reason, CauseKept,
          Returned, Playing, Left, Ended, Secondary
  <2>5. CloseComes(p)
    BY <2>1, <2>2, <2>3, Peer
    DEF CloseComes, BrokenByPeer, CloseSent, CloseAwaited, CloseHeard, Told, Breaks,
        Broken, Playing, Left
  <2> QED BY <2>4, <2>5
<1> QED BY <1>1, <1>2 DEF WorkerInv

\* The order of the flags, the place of the Close and the causes are invariant.
THEOREM WorkerInvariant == Spec => []WorkerInv
<1>1. WorkerInv /\ [Next]_vars => WorkerInv'
  <2> SUFFICES ASSUME WorkerInv, [Next]_vars PROVE WorkerInv' OBVIOUS
  <2>1. CASE UNCHANGED vars
    <3>1. UNCHANGED <<owner, outbound, inbound, flags, failure, writer, reader, wire>>
      BY <2>1 DEF vars
    <3>2. TypeOK' BY <3>1 DEF WorkerInv, TypeOK
    <3>3. ASSUME NEW p \in Peers PROVE Local(p)'
      BY <3>1 DEF WorkerInv, Local, FlagOrder, CloseOrder, Completion, Causes, Primary,
                  Reason, CauseKept, Returned, Playing
    <3>4. ASSUME NEW p \in Peers PROVE CloseComes(p)'
      BY <3>1
      DEF WorkerInv, CloseComes, BrokenByPeer, CloseSent, CloseAwaited, CloseHeard,
          Told, Breaks, Playing, Stopped
    <3> QED BY <3>2, <3>3, <3>4 DEF WorkerInv
  <2>2. ASSUME NEW r \in Peers,
               Send(r) \/ Stop(r) \/ Owner(r) \/ Worker(r) \/ Reader(r) \/ Reset(r)
        PROVE  WorkerInv'
    <3>1. CASE Send(r) BY <3>1, SendKeeps
    <3>2. CASE Stop(r) BY <3>2, StopKeeps
    <3>3. CASE TrySend(r)
      BY <3>3, TrySendFailsKeeps, SendQueuedKeeps DEF TrySend
    <3>4. CASE TrySendClose(r)
      BY <3>4, TrySendCloseFailsKeeps, CloseQueuedKeeps DEF TrySendClose
    <3>5. CASE Owner(r)
      BY <3>3, <3>5, <3>4, AskFailureKeeps, AskStoppedKeeps, PollKeeps,
         PollDisconnectedKeeps, CloseKeeps, CloseWaitKeeps, CancelOwnerKeeps, CancelKeeps,
         JoinedKeeps DEF Owner
    <3>6. CASE Worker(r)
      BY <3>6, AdmitKeeps, AdmitFailsKeeps, SelectCancelledKeeps, SelectCompletionKeeps,
         SelectRequestKeeps, SendPacketKeeps, SendFailsKeeps, GraceAnsweredKeeps,
         GraceOverKeeps, ShutdownKeeps, DropSenderKeeps, FinishKeeps, DepartKeeps
      DEF Worker
    <3>7. CASE Reader(r)
      BY <3>7, ReceiveKeeps, ReceiveFailsKeeps, PublishKeeps, CompleteKeeps DEF Reader
    <3>8. CASE Reset(r) BY <3>8, ResetKeeps
    <3> QED BY <2>2, <3>1, <3>2, <3>5, <3>6, <3>7, <3>8
  <2> QED BY <2>1, <2>2 DEF Next
<1> QED BY <1>1, WorkerInit, PTL DEF Spec

\* The threads, flags and messages have their types, and the two queues never
\* hold more than OUTBOUND_CAPACITY and INBOUND_CAPACITY.
THEOREM WorkerTypes == Spec => []TypeOK
<1>1. WorkerInv => TypeOK BY DEF WorkerInv
<1> QED BY <1>1, WorkerInvariant, PTL

\* A session reports "terminated" or "cancelled", which only say that another
\* thread of run ended the connection, only after the peer's Close; also when
\* timers run out at any moment.
THEOREM CauseIsPrimary == Spec => []PrimaryCause
<1>1. WorkerInv => PrimaryCause BY DEF WorkerInv, Local, Reason, Secondary, PrimaryCause
<1> QED BY <1>1, WorkerInvariant, PTL

\* No session ends without a cause: when it says no more than that the network
\* is closed or its worker gone, the peer's Close has come or run has returned
\* the first cause; as long as the 100 ms of cancelled_reason are enough for
\* the worker to end.
THEOREM EndHasCause ==
    ASSUME Prompt
    PROVE  Spec => []NoSilentEnd
<1>1. WorkerInv => NoSilentEnd BY DEF WorkerInv, Local, Reason, NoSilentEnd
<1> QED BY <1>1, WorkerInvariant, PTL

\* A session whose peer sent Close reports neither the end of the stream nor a
\* reset nor a broken pipe, as long as the 250 ms of grace are enough for the
\* peer's reader to read or to end.
THEOREM CloseIsHeard ==
    ASSUME Prompt
    PROVE  Spec => []CloseArrives
<1>1. WorkerInv => CloseArrives
  BY DEF WorkerInv, CloseComes, CloseHeard, Broken, CloseArrives
<1> QED BY <1>1, WorkerInvariant, PTL
=============================================================================
