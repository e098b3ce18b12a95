# Zeff-Boy: a TLA+ model of its netplay, its saves and its threads

Zeff-Boy is a multi-system emulator. Most of it is sequential: hardware cores,
ROM analysis, user interface. Three parts are not, and they are what this project
models: netplay, where two emulators predict, roll back and replay so that both
players see one game; the saving of battery RAM, which must survive failed writes
and power failures; and the emulation thread, which hands its results to the
interface over a channel that is often full. A mistake in any of them needs a
particular order of steps to show, and then shows as two games that silently
differ, a save that is gone, or a program that does not end.

Paths are relative to the repository root. `PROJECT.json` maps every definition
that models code to the lines it models.

## 1. Inventory

| Component | State | Operations | Interacts with |
|---|---|---|---|
| Rollback timeline, `crates/zeff-netplay/src/rollback.rs` | frame, confirmed frame, inputs per frame and port, executed inputs, first misprediction (`dirty`) | `sample_local`, `receive_remote`, `next_frame`, `advance`, `correction`, `corrected`, `retire` | called by the session |
| Session execution, `src/netplay/session/execution.rs` | snapshots, output buckets, committed frame | `execute`, `correct`, `commit` | timeline, emulator core, checkpoints |
| Checkpoints, `session/checks.rs` | own hashes not yet answered, the peer's not yet reached, last match | `local`, `remote` | execution, messages |
| Pause agreement, `session/pause.rs` | two votes, the episode's barrier, request numbers, what was reported | `request`, `reconcile`, `observe`, `acknowledge`, `status` | session, messages |
| Session, `session.rs` | the four above, peer progress, stall and heartbeat clocks | `step`, `poll`, `accept_event`, `request_pause`, `restore` | emulation thread, network |
| Datagram input channel, `crates/zeff-netplay/src/datagram.rs` | next frame to send, acknowledged, received, pending, waiting, history | `push`, `encode`, `receive` | direct transport |
| Direct transport, `src/netplay/network/rtc.rs` | input channel, control codec, clocks | worker loop: send, retry, receive, close | session by two queues |
| TCP transport, `src/netplay/network.rs` | two bounded queues, cancellation flags, first failure | writer loop, reader thread, `send`, `poll`, `cancel`, `close` | session, wire |
| Wire and admission, `crates/zeff-netplay/src/wire*` | handshake step, sequence numbers | `hello`, `receive`, `encode`, `decode` | both transports |
| Lockstep, `crates/zeff-netplay/src/lockstep.rs` | the older scheme without prediction | | proof harness |
| Lobby, `crates/zeff-netplay-lobby` | rooms, sockets | create, join, relay, expire | connection setup |
| Frame delivery, `src/emu_thread/runner.rs`, `emu_loop.rs`, `native.rs`, `src/app/frame_result.rs`, `src/app/tick` | frame channel of two results, command and response queues, `frames_in_flight`, runtime fault, uncapped mode | `send_frame`, `merge_replaced_frame`, `run_uncapped_batch`, `process_frame_result`, `recv_cold_response`, `shutdown` | emulation thread, interface |
| Rest of the emulation thread, `src/emu_thread` | speculation, shared framebuffer, rewind | | interface, session |
| Atomic files, `src/platform/atomic_file.rs` | a target and its staged sibling | stage, sync, rename, sync of the directory | file system, everything that saves |
| Save store, `src/save_paths/sram_recovery.rs`, `recovery_state.rs`, `src/emu_thread/recovery.rs` | the save, `session-start.sav`, the history, what is pending for it, the battery generation, the recovery state | `write_locked`, `drain_pending`, `write_generation`, `write_recovery_state`, `inspect` | atomic files, emulation thread |
| Audio queue, `src/audio/native/queue.rs` | bounded queue | push, drain | emulation thread, audio callback |

What is hard here, and what makes each part correct:

* *Prediction and rollback.* Inputs arrive after the frame they belong to was
  simulated, several at once, in any order over the direct transport. A frame may
  reach the player's ears (`Response::Audio`) only when both inputs are known, in
  order and once; a correction must find its snapshot; memory must stay bounded.
* *Agreement.* The two machines must run the same inputs, and no check that guards
  against a faulty peer may fire for an honest one. Several are exactly tight.
* *Pausing.* Two players vote concurrently while both machines run on
  predictions, and must stop at the same frame.
* *Unreliable delivery.* Datagrams are lost, repeated and reordered, and
  acknowledgments too.
* *Progress.* Both sides stop at the prediction window and wait for the other.
* *Ending.* Owner, writer and reader of a connection may each be the first to end it,
  on both sides at once. The player must be told the primary cause, a Close must
  not be taken for a broken connection, and all threads must be joined.
* *Saving.* Save, history, generation and recovery state are separate files written
  one after the other. Any step may fail, the power may fail between any two, and a
  recovery state must never be resumed over other battery data.
* *Delivery.* Worker and interface both receive from the same bounded channel. No
  replay event, printer job or fault may be lost or shown twice, and neither thread
  may wait for the other for ever.

`PROJECT.json` lists each of these as a hazard, at its line, with the properties
that would catch it, and the hazards no property covers yet.

## 2. Modules

```
Timeline ---- Execution ---- Rollback ------- MCRollback
    |             |              |
    |             |        RollbackProofs
    |             |
    +-- PauseControl -- PausePlay ----------- MCPausePlay
    |             |         |
    |             |    PausePlayProofs
    |             |
    +-------------+---- Session (implements SharedGame) -- MCSession
    |             |         |
    |             |    SessionProofs
    |             |
    SessionLemmas (used by RollbackProofs, PausePlayProofs, SessionProofs)

InputChannel (implements InputStream) ------- MCInputChannel
      |
InputChannelProofs

NetworkWorker ------------------------------- MCNetworkWorker
      |
NetworkWorkerProofs

AtomicFile ---- SaveStore ------------------- MCSaveStore
                    |
              SaveStoreProofs

FrameDelivery ------------------------------- MCFrameDelivery
      |
FrameDeliveryProofs
```

**Timeline** and **PauseControl** are libraries. A Rust struct is a record, a
method is an operator from record to record, and its `ensure!`s are a predicate
`...Err`. A `BTreeMap` keyed by frame is a function whose domain is the set of
frames held. **Execution** adds the emulated machine. The machine is
deterministic, so its state after n frames is represented by the n port words it
was given, its *trajectory*; a snapshot, an output bucket and a state hash are the
trajectory they stand for. Two machines are equal exactly when their trajectories
are. That the cores are deterministic and that snapshots restore exactly is
assumed.

**Rollback** is one peer against a remote player who may send anything: any frame,
any word, any order, repeated or rewritten. Actions: `Receive` and `Reject` (one
`Message::Input`), `Poll` (the end of a batch: `correct`, `commit`), `Step` (batch,
sample, simulate, commit). The history variable `truth` holds the word accepted
for each frame and port.

**Session** is two peers over an ordered connection, the whole of `session.rs`
after admission: one action per call, `Step`, `Poll`, `RequestPause`, and `Stop` for
the player who ends the session. A call first handles any number of the messages
under way (`batch`), so a message may be delayed for as long as the bounds allow.
An error ends the session and tells the peer (`restore`). **SharedGame** is what
the session promises: each player is shown a growing sequence of final frames, and
a frame shown to both is the same. `OneGame` states that `Session` implements it.

**PausePlay** is the pause agreement with the timeline reduced to counters, so that
long sequences of votes can be explored. It keeps every guard that depends on the
counters. A batch is a run of `Receive` steps (`busy` until the last).

**InputChannel** is the datagram channel and the input path of the direct
transport's worker. `net` is a set of packets: receiving does not remove a packet
(repetition), any packet may be taken next (reordering), `Lose` removes one.
**InputStream** is its abstract specification: two ordered streams without loss,
at most WINDOW ahead of delivery.

**NetworkWorker** is the TCP transport at both ends of a connection, three threads
each. The owner's actions are `Send`, `Poll`, `Stop`, `Close`, `Cancel` and the waits
between them; the worker's are admission, the branches of its `select_biased!`, the grace
after Close and the end of `run`; the reader's are `Receive`, `Publish` and `Complete`.

Two looks at what another thread changes are two actions wherever that can change the outcome.
`Network::send` loads the flag (`Send`, `Close`) and only then calls `try_send` (`TrySend`,
`TrySendClose`), which fails on a full queue and also when `run` has returned meanwhile and
taken the receiver with it. `cancelled_reason` reads the failure under its lock (`AskFailure`),
releases it, and only then asks whether the worker has finished (`AskStopped`). The end of
`run` raises the flag, drops the sender and the reader, joins the reader, returns, and then the
thread's closure publishes the failure: `Shutdown`, `DropSender`, `Finish`, `Depart`. What is
one action although it is several stores: the failure, the flag and the socket after a
`try_send` that failed; the flag and the socket in `cancel`; the sender's terminal flag and
the socket in `DropSender`; the failure, its event, the flag and the socket in `Depart`. In each
of these nothing is read between the stores, the stores only raise flags or fill the slot, and
whoever sees the first and not yet the second behaves as one who came before the action, or
takes a step that it may also take after it. A look at a flag that only rises, as the worker's at
`owner_cancelled` after a receive, is taken at the instant of the receive.

A message is gameplay or Close. TCP is a FIFO that a socket shut down with unread data may
reset (`Reset`). The constant `Prompt` says that the three timers (100 ms for a cause, 250 ms
of grace, 500 ms of close) are long against a thread's steps: they run out only when what
they wait for cannot come. With `Prompt` a peer that lingers for the other's end therefore waits
until the other's reader is done: a thread about to drop its receiver comes soon.

**AtomicFile** is `write_file_atomically`, one action per step. A file has a content that
reads return (`now`) and one that a power failure would leave (`disk`): from the rename
until the directory is synced `disk` is the old or the new content, and it is torn if the
staged data were not synced. `Stage` begins with `create_dir_all`: the directories that are
missing become *new*, and a new directory may be gone after a power failure, with all
that it holds, until the directory above it is synced. `SyncParent` has both branches of
`sync_parent`: on unix it syncs the directory of the file, that is the entries in it and not its own
entry further up; on other builds it syncs the file again and no directory (`host.unix`). The
history variable `kept` holds for each file what a power failure may leave it with: the content
of the last write that reported success, and what was put in place since. The directories are a
parameter (`Folders`, `Holder`, `Above`): in the runs the save lies in the ROM's directory, which
is there, and everything else below `recovery/<media>`, which the program creates.

**SaveStore** writes all its files with it. One thread writes,
so the control point (`machine.at`) is where that thread stands in
`commit_battery_generation` or in the shutdown: drain what is pending for the history,
compare, write the save, drain again, write the generation, write the recovery state. A hash
is the content it stands for. The directory of the history is one file holding the
sequence of its entries, since entries are added and pruned one at a time.

**FrameDelivery** is the frame channel. The worker's `send_frame` is split at every point
where the interface can be seen: `TrySend`, each `try_recv` of its `Drain`, each blocking
`Send`. The interface's actions are those of a tick (drain, request a step, toggle uncapped
mode), of `recv_cold_response` (`Ask`, drain, `Answered`) and of `shutdown` (`Close`, `Discard`,
`Join`). A result carries the numbers of the results whose payload it holds; the histories
`made` and `seen` compare what was made with what was processed.

Operators commented *Fault* are the mutated forms used to show that each property
can fail; no specification uses them.

## 3. Runs

All runs disable the deadlock check: the models stop at their bounds. That real
play does not stop is what the liveness runs check.

| Run | Bounds | Shows |
|---|---|---|
| `rollback` | window 2, 1 retained, delay 1, two words, frames to 3 | all safety properties of a peer and the inductive invariant |
| `input_channel` | window 2, batch 2, two packets in flight each way, 3 and 1 inputs, one word per frame | never refused, refinement of InputStream, pending covers what may be missing, everything is acknowledged |
| `pause_play` | window 1, delay 1, frames to 6, three votes against one | no false alarm, same barrier, stopped together |
| `pause_play_live` | frames to 3, batches of one message | pauses take effect and are lifted |
| `pause_zero_delay` | window 2, delay 0, one vote | **violated**, see below |
| `session` | window 1, delay 1, two words, a checkpoint every frame and room for 3, frames to 3 | no false alarm, same machine, one game |
| `session_live` | one word, frames to 5, one vote, by player 1, player 0 may stop | a reported pause shows both the same frame; progress, ending together |
| `network_worker` | queues of 1, one side sends one gameplay message, both may stop at any time | Close arrives, primary cause, no silent end, all threads end |
| `save_store` | two contents, history of 1, pending of 1; on unix 2 changes of RAM, 2 failed steps, 1 power failure, on other builds 1 of each | never torn, no way back behind a reported write, last save kept, suspend resumes, resume keeps the battery |
| `save_durability` | the same | **violated**, on unix, see below |
| `frame_delivery` | the code's channel of 2 and limit of 2, 3 step requests, 5 batches, recording on or off, one fault | nothing lost, order, exact count, channel never full while stepping, fault shown |
| `frame_shutdown` | the same channel, no steps, 6 batches | **violated**, see below |

The cfg files are the authority on the bounds.

*Why they are enough.* The window, the retention and the delay are parameters;
every rule is a comparison with a sum of them, and the smallest values at which the
sides of each comparison can differ are used. With window 1 a session is stalled,
predicting and confirmed within three frames; `rollback` uses 2 so that one
correction replays several frames and hides several mispredictions, and retains one
confirmed input so that forgetting happens. Frames up to 6 in `pause_play` let a
pause be reached, released and requested again (the lead is 3). `MaxQueue` bounds
only how far a sender runs ahead of delivery, `InFlight` only how many distinct
packets are under way. Three pushes over a window of 2 exhaust it. A queue of 1 in `network_worker` makes
overflow possible at every event and for the Close that follows a gameplay message, which a queue of
64 only makes rarer; a second gameplay message, whose own send would overflow, is left to the theorems. In
`save_store` a history of 1 is pruned at its second entry and a pending list of 1 is full at
once. The first flush writes the blank RAM of a machine without a save, so that two changes bring
an old content back (A, B, A), which is the case the generation exists for; two failures and a power
failure allow a failed write, a failed retry and a crash in one behaviour. The builds that sync no
directory have many more outcomes of a power failure, and a smaller bound. `frame_delivery` uses the code's own capacity and
limit, and five batches reach a merged result that is drained a second time. `session` keeps
3 checkpoints, one per frame: a player may be ahead by window + delay + 1 frames, and a smaller
store would be at fault and not the code, whose 8 checkpoints of 60 frames stand against
8 + 8 + 1. Three things a run cannot show at its bounds are left to the theorems: the lower side of
`RetainedBound` (nothing is old enough at 3 frames; `MemoryBounded`), a packet cut at BATCH frames
(`input_channel` has BATCH = WINDOW; `HonestNeverRefused`, `ChannelImplementsStream`), and a pause
of two players with different words (`session_live` has one word; `PauseIsShared`). For the safety properties of every module the theorems of section 5 remove the
bounds altogether.

*Fairness.* `InputChannel`: the worker's loop always returns to its retry timer
(weak fairness of `Retry`); a packet that is sent over and over arrives (strong
fairness of receiving the packet the peer now sends); no packet is under way for
ever. `PausePlay`: the host keeps calling `step` and `poll` (the emulation thread
does, each frame and on each event), and what was sent arrives: weak fairness.
`Session`: the same, as strong fairness of a call that finds all messages, because
the bound on the queue can disable `Step` in between; its enabling condition is
written out. `NetworkWorker`: each thread runs, the session keeps polling and the timers run
out (weak fairness of each of the three threads); nothing is assumed of `Send`, `Stop` or
`Reset`. `FrameDelivery`: both threads run when they are not blocked, and a tick ends rather
than toggle uncapped mode for ever.

## 4. Findings

**A pause with a delay of 0.** `InputDelay::MIN` is 0. `observe` in `session/pause.rs` (lines 106-115) refuses a pause
whose target is behind the receiver. The requester names its frame plus
`pause_lead`. A requester stalled at frame f has sent its input for frame f + delay,
so a peer who has not yet seen the request may have simulated
f + delay + 1 + PREDICTION_WINDOW frames, while the target is
f + PREDICTION_WINDOW + 2 * delay. With a delay of 1 or more the target is never behind; with a
delay of 0 it may be one frame behind, and the session of two honest players ends
with "peer pause target exceeds window". The test
`selected_delay_bounds_pause_and_checkpoint_lookahead` runs over every delay from MIN
to MAX and expects acceptance, with both sides at the same frame. The run
`pause_zero_delay` gives the interleaving. `NoSessionEnds` proves that it does not occur for any
delay of 1 or more, and `InputsAreAccepted` that with a delay of 0 only the pause is
refused, never an input.

**A save reported durable that is not.** When the rename of a save has taken effect but the
sync of its directory fails, `write_locked` says so ("save data was published but final
durability sync failed") and the flush is retried. The retry reads the save back, finds it
equal to battery RAM and returns `PublishedDurable` (`sram_recovery.rs` 269-271) without a
sync. The run `save_durability` ends with the save reported and the old content on disk, on a build
that does sync directories. The
duplicate check of the history (382-388) trusts an unsynced entry in the same way.

**A shutdown that does not end.** `shutdown` drains the frame channel once (`native.rs` 367),
waits five seconds for the worker, logs that it timed out, and joins it without limit. If
the drain comes while the worker has emptied the channel in `send_frame` and one of the two
results it took had been merged before, the worker then makes three blocking sends into a
channel of two (`runner.rs` 38-44). Nobody receives, the sends cannot fail because the worker
holds a receiver itself, and the final save is never made. The run `frame_shutdown` gives the
interleaving. `recv_cold_response` waits in the same way without receiving frames; with
audio being recorded in uncapped mode two open steps and a batch block it too. While
the interface only steps, `SteppingNeverFull` shows that neither can happen, and
`ChannelHasRoom` proves it for every channel that is not smaller than the limit on open steps.

Two more observations, which contradict no sentence of the repository and are therefore not runs of
their own; the properties are stated so that they allow exactly these.

*A cause that is not told.* `cancelled_reason` waits for the worker's diagnostic, but reads the
failure before it asks whether the worker has finished. A worker that records its failure and
exits between the two makes a session say "netplay network is closed" although no peer closed it
(TLC finds this in 13 states if `NoSilentEnd` denies it). A worker that returns between
the load of the flag and `try_send` makes it say "netplay outbound worker disconnected", and
record that before the worker records the real cause (11 states). `NoSilentEnd` says what remains
true: the worker has then returned the first cause, or the peer's Close has come.

*A reported write that is lost.* Where no directory is synced, a rename that was reported
successful may be undone by a power failure (TLC: 11 states, if `SuccessSurvives` drops `host.unix`).
On unix the same holds of files in directories that `create_dir_all` has just made, because only the
innermost one is synced: the battery generation, the first file below `recovery/<media>`, may be
reported written and vanish with its directory (17 states, if `SuccessSurvives` drops the
exception). The save itself, beside the ROM, is not affected, and `ResumeKeepsBattery` and
`SuspendResumes` hold in all these cases.

## 5. Proofs

Each proof module has an inductive invariant, one lemma per operation that shows it is
preserved, and a theorem per property. The invariants of `PausePlayProofs`,
`NetworkWorkerProofs`, `InputChannelProofs`, `StepInv` of `FrameDeliveryProofs` and the second
one of `SaveStoreProofs` were checked with TLC, as invariants of the instances of section 3 and
of larger ones, before they were proved; `RollbackInv` is checked by the run `rollback`.

| Module | Theorems that state a property of a run | Hypothesis |
|---|---|---|
| `RollbackProofs` | `Invariance`, `TypeCorrect`, `RollbackNeverAborts`, `ReleasedIsTrue`, `NothingStale`, `MemoryBounded`, `ReleasedIsFinal` | |
| `SaveStoreProofs` | `FilesNeverTorn`, `SuccessKept`, `ResumeSafe`, `LastSaveKept`, `SuspendedResumes` | |
| `InputChannelProofs` | `ChannelTypes`, `HonestNeverRefused`, `PendingIsEnough`, `ChannelImplementsStream` | |
| `PausePlayProofs` | `PlayTypesHold` | |
| | `NoSessionEnds`, `PauseIsCommon`, `BarrierIsCommon` | `InputDelay >= 1` |
| `NetworkWorkerProofs` | `WorkerTypes`, `CauseIsPrimary` | |
| | `EndHasCause`, `CloseIsHeard` | `Prompt` |
| `FrameDeliveryProofs` | `NothingIsLost`, `ArriveInOrder`, `InFlightIsExact` | |
| | `ChannelHasRoom` | `MAX_IN_FLIGHT <= FRAME_CHANNEL_CAPACITY` |
| `SessionProofs` | `SessionTypes`, `OneMachine`, `SessionImplementsGame` | |
| | `SessionsNeverFail`, `PauseIsShared` | `InputDelay >= 1`, `CAPACITY * HASH_INTERVAL >= PREDICTION_WINDOW + InputDelay + 1` |

The code's values satisfy these hypotheses, except that a delay of 0 is allowed, and with it the
properties of the pause fail (section 4). Otherwise the theorems rest only on the named assumptions of
the modules, which TLC evaluates in every run.

### Rollback

`RollbackProofs` proves, for every prediction window, retention and set of words, every
delay and every behaviour of the remote player: `Invariance`, `TypeCorrect`,
`RollbackNeverAborts`, `ReleasedIsTrue`, `ReleasedInOrder`, `NothingStale`, `MemoryBounded`
and `ReleasedIsFinal`. The assumptions are those named in `Timeline` and `Rollback`: the
window and the retention are at least 1, the delay is a natural number, `Neutral` is a
word and `None` is not. `MaxFrame` bounds the frames simulated and is arbitrary.

None of the properties is inductive. `NeverAborts`, for one, needs the snapshot of the
first mispredicted frame to be held whenever `correct` asks for it, hence that `commit`
keeps it, hence that a misprediction is never older than the confirmed frame at the
last commit, hence that the record of executed frames has every unconfirmed frame,
hence that confirmation stops at the first frame whose input is missing. The inductive
invariant `RollbackInv` has these as named parts:

* `TimelineInv`: confirmed frames not yet forgotten are full (`ConfirmedFull`); the
  executed frames have no gaps and reach back to the confirmed one (`ExecutedSpan`); a
  misprediction is an executed frame within the window (`DirtyRecent`); frames before it
  agree with the inputs (`ExecutedCurrent`); inputs lie in a window (`InputsRecent`) and
  agree with the history (`InputsRecorded`);
* `CoreHistory`: the machine ran what is on record, and before that the truth;
* `SnapshotsHeld`, `OutputsHeld`: what is held is what the machine then was, and what a
  correction or a release will need is held;
* `ReleasedRight`: what was released is the truth, without gaps.

`SessionLemmas` has one lemma per method of the timeline (it preserves `TimelineInv`) and one
per operation of the execution (and that `correct` and `commit` never err), and `RollbackProofs` one case per action. The run `rollback` checks `RollbackInv`
itself on a small instance.

### Saves

`SaveStoreProofs` proves, for every set of contents, every length of the history and of what
is pending, and any number of failures and power failures: `SaveInvariant`, `FilesNeverTorn`,
`SuccessKept`, `ResumeSafe`, `LastSaveKept` and `SuspendedResumes`. The assumptions are `StoreAssumption` and
`FolderAssumption` (each file has a directory, and "above" is transitive): the tree of directories is arbitrary and so
are the bounds in `Limit`. The invariant `SaveInv` has three parts:

* `FileInv`: the files and the write under way have their shape and no file is torn; the staged data are synced
  before the rename and in place after it (`WriteOrder`); every recovery state, on disk, in
  place or being written, holds the battery RAM its witness names (`StateWitnessed`);
* `Link`: a write is under way only while the thread waits for one, so that no other action
  touches the files meanwhile;
* `MachineShape`: the thread's record has its fields.

`ResumeSafe` needs `StateWitnessed`, because "fresh" compares the witness of the state with
the battery of the machine and says nothing of the state's payload: a state is
fresh when its witness's hash is that of the machine's RAM, and its payload holds that same
RAM. The generation number plays no part in the argument: a hash compared at both ends
would be enough for safety, and the number only tells stale from inconsistent. There is one lemma per step
of `AtomicFile` and one case per action of `SaveStore`.

`SuccessKept` adds `KeepInv`: the directories of the save are there and synced (`HostShape`), and what
a file holds now, and on unix what it holds on disk, is in `kept` (`Covered`). `Covered` is what makes
the sync of the directory matter: a success resets `kept` to the one content written, so by then the disk
must hold it. After a power failure a file is what it was on disk, or it is gone with a new
directory on its way; the second is excluded for the save by `HostShape` and is the stated
exception for the others.

`LastSaveKept` and `SuspendedResumes` need more, the invariant `StoreInv`:

* `StoreType`: every file holds what belongs in it, and the thread writes the file it is at;
* `LastKept`: while an entry moves from the pending list to the history it is in one of the two,
  so that a failure between the write and the removal leaves it twice, never not at all;
* `Agreed`: the generation in memory is that of the file unless a write of it failed in
  its last step; from the comparison on, the save holds the RAM; a recovery state is written
  only for the generation and the save that are then in place.

`StoreAssumption` also says that `None` is no generation record, which the option type does.

### The datagram channel

`InputChannelProofs` proves the safety properties of the channel and that it implements
`InputStream`, for every window, batch, first frame and length of play, whatever the network
does. The two directions do not depend on one another: `Flow` speaks of one sender, its receiver
and the packets between them, and is proved once for both. Its core is

    acknowledged <= received <= sent <= acknowledged + WINDOW

together with: every map that an end or a packet holds (pending, waiting, history, inputs)
is a part of the words pushed. The first makes every frame that can still arrive fit the
receiver's window, the second makes every repetition agree with what is remembered; these
are the two things `receive` refuses. `NeverRefused` alone is not inductive, because a packet
may be received long after the acknowledgment that made it obsolete. That the delivery loop stops
at the first missing frame is a lemma (`ArrivedStops`), from the least element of a set of naturals.
In the refinement a `push` is a push of the stream, a packet that closes a gap is one delivery of
all the frames it releases, and every other step is a stutter. `ChannelAssumption` also says
that the bound on the inputs sent is not below the first frame.

### The pause agreement

`PausePlayProofs` has two invariants. `PlayInv`, for every delay, bounds how far each side has
sampled, played and heard, and says which inputs are under way; it gives `TypeOK`, and
`InputsAccepted`: no honest input exceeds the receiver's lookahead. `PauseInv`, for a delay of at
least 1, adds what the two `PauseControl`s and the messages between them have in common:

* `Stops`: there is a barrier exactly while a vote stands or a change is unacknowledged, and the
  session has not run past it;
* `Views`, `Sent`, `Acks`: what the peer has seen of the votes, and that the messages under way are
  just what is missing on either side, in order;
* `Agree`: a barrier that will last is one for the peer too, no later, now or when a vote under way
  has arrived. The exception is a side that is `Finishing`: it has withdrawn its vote and the
  acknowledgment that lifts its barrier is ahead of any new vote. Without it the statement
  is false, since the peer may already play on;
* `Owned`: while a vote is under way its sender stops no later than it asks;
* `Timely`: a vote under way finds its receiver not past the frame it names, either because the
  inputs ahead of the vote bound how far the receiver can have predicted, or because a barrier
  no later holds it until the vote arrives. The first is where the delay of 1 is used.

Each of the three properties follows from `PauseInv` in a state where all has been seen, where
`Agree` in both directions makes the two barriers equal. `FlagsAssumption` says that "nothing
reported" is no pair of votes.

### Two sessions

`SessionProofs` composes the two arguments above. The lemmas of `SessionLemmas` are about the
values a session is made of (a timeline, an execution, a `PauseControl`) and serve one peer against
anybody, the pause agreement alone, and two whole sessions. There are two invariants.

`GameInv`, for every delay, window, retention and number of checkpoints: there is one game, the words
both players have given for each frame, and each session is `Sound`: its execution satisfies
`ExecutionInv` (the parts of `RollbackInv`) with that game as the truth. Every input under way is
of the game, and the game grows only where a player samples. It does not matter whether a
session is up, stopped or closed. `SessionTypes`, `OneMachine` and the refinement
`SessionImplementsGame` follow: a frame released by both was made from the same words, because it is
a frame of the one game.

That no session ends the other by a refusal needs a second invariant, `TalkInv`. It relates the
counters of a session, the messages under way to it and the state of the peer, also when a player
has stopped and the last messages of the stopped session are still to be heard:

* `Path`: the inputs under way ascend between the first the receiver lacks and the last the sender
  has sampled; the checkpoints under way are those of exactly the committed frames not yet
  heard of, in their order, each the hash of the game at its frame, and none comes long after the
  inputs of its time (`PathOrder`); progress never goes back;
* `Side`: a session has sampled at most a span (window + delay + 1) beyond what it has released
  (`Reach`), and `Hashes` holds exactly the checkpoints that lie between its own and the peer's
  last one (`Compared`), which is never more than a span behind the inputs heard (`Behind`);
* `Pact`: the agreement of `PausePlayProofs`, for the real timelines in place of counters.

`SessionsNeverFail` then says of every check in `handle_event` why it passes: lookahead and repetition
from `Path`, progress likewise, pause targets from `Pact`, checkpoints because both hash the same
game and because those that one side holds before the other's arrive lie within a span and so fit
`CAPACITY`. The hypothesis on `CAPACITY` is exactly this last point; the delay of at least 1 is that of the
pause agreement. `PauseIsShared` adds that two sessions that stand at the same barrier with every
vote reported have the same trajectory.

A batch is a loop over the events taken, written as a recursive function. What it preserves is proved
from its least counterexample (`LeastElement`), which needs no induction rule: were the
invariant ever lost, there would be a first event that lost it.

The attempt to prove `Session` corrected it in one place: an error ends the call at once (`?`), so
no progress is sent after one (`ProgressWork`).

### The TCP transport

`NetworkWorkerProofs` proves, for every capacity of the queues and any number of messages from both
sides, what a session may give as the reason of its end. `WorkerInv` has, for each end, the
order in which its threads raise the flags (`FlagOrder`), where a Close can be (`CloseOrder`),
and what a thread that has ended left behind for the others (`Completion`, `Causes`, `Primary`):
before the peer's Close one of the two threads holds the first cause, so that a reader stopped
by the flags finds a worker with a cause of its own and the reverse. `Reason` is what a session
has said, and why it may: the flag that `Send` finds raised, or the queue that `TrySend` finds gone,
while the session plays, were left by a worker on its way out (`FlagOrder`), which returns the
first cause unless the Close has come (`Primary`). `CloseComes` relates the two ends: only a shut
socket breaks the connection (`BrokenByPeer`), only a sent Close is received (`CloseSent`), the
owner waits while its Close is queued or under way (`CloseAwaited`), and an end that sent Close
shuts its socket only after the peer has read it or has ended (`CloseHeard`).

The attempt to prove `CloseArrives` corrected the model. `PeerRead`, the condition on which a
prompt timer of grace may run out, accepted a peer whose reader had ended but not yet raised its flag;
with both sides sending the invariant failed. It now asks for the reader to be done, as
described in section 2.

`CauseIsPrimary` needs nothing of the timers. `EndHasCause` and `CloseIsHeard` assume `Prompt`:
when the 100 ms run out first, "closed" is said of a worker that has not yet returned; when the 250 ms run out before the peer's reader gets to run, the Close can be lost, as the code's own
limit accepts.

### Frame delivery

`FrameDeliveryProofs` proves that while the interface only steps the channel never fills, for every
capacity not below the limit on open steps (both are 2 in the code). `StepInv` says that
`frames_in_flight` is the number of requests queued, results in the channel and results being
sent; that needs each result to complete exactly one request, hence that nothing was merged,
hence that the channel was never full. `NothingIsMerged` states this second half.

`NothingIsLost`, `ArriveInOrder` and `InFlightIsExact` need nothing of the constants. What a
sequence of results carries is a *load*: the payload in order and the number of requests completed.
Loads are added (`Plus`), with a zero and associatively (`LoadAlgebra`), `Carried` of a concatenation is
the sum (`CarriedCat`), and merging two results adds their loads (`MergeCarries`); hence everything
drained and merged carries what was drained (`GatheredCarries`), and each of the worker's
steps leaves the sum of what is on its way as it was (`Goes`). Both folds are recursive functions, handled like
the loop above. `DeliveryInv` then says, until the interface closes the worker, that what was
processed plus what is on its way is every result made, once, and that `frames_in_flight` is the requests
queued plus those carried. A receive in the middle of a drain takes a load out of the middle of
the sum: nothing is lost by that, but the order is, which is why `InOrder` excludes it.

### Model-checked only

* All liveness, and `EndsTogether` and `FaultShown` with it: fairness is outside what the prover
  supports. `FaultShown` has as its exceptions an interface that has closed the worker and one that
  waits for a response and stays blocked, as in section 4.
* `GameInv`, `TalkInv` and `DeliveryInv` are not themselves runs: they quantify over histories and
  unbounded sequences. The properties they imply are.

## 6. Not modelled

The map covers a small share of the repository. Nine tenths of it are emulator cores, their
tools, ROM analysis and user interface: sequential code whose correctness is agreement with
hardware or with a picture, which the repository tests with ROM suites and which has no
state space of its own to explore. The project keeps to the parts with threads, peers and
faults.

Of those, not modelled: chat, metrics, presentation and the response queue of a netplay
session; wall-clock limits (`STALL_LIMIT`, `SILENCE`, admission timeouts); the admission
handshake, authentication and encoding; the direct transport's control channel and close;
machine restoration after a session; the lobby; the link cable. The frame counters are naturals: the
`checked_add` overflow errors would need 2^64 frames. `Session` and `PausePlay` use one ordered
connection, as over TCP; over the direct transport inputs and control messages are ordered
only among themselves.

`SaveStore` has one battery component: clocks, TAS repair writes with a baseline, recovery
switched off, and the browser's asynchronous storage are left out, as are the validated,
new-file and streamed variants of the atomic write. A crash is a power failure, while the program
runs or after it has ended; a process that dies alone loses less. Both builds of `sync_parent` are
modelled, and `SuccessSurvives` and `ReportedDurable` speak of unix: elsewhere the program
syncs no directory, and what a file system does of its own accord is not assumed. The same goes
for directories the program creates, whose entries it does not sync. `SuspendResumes` excludes one case: a write of the generation that
fails in its last step leaves the new generation in place while the thread remembers the
old one, and the next start may then call the state inconsistent and not resume it.

`FrameDelivery` has recording on or off from the start. The end of a recording has a race
listed among the hazards. Netplay sessions are not part of it: `finish_netplay` sets
`frames_in_flight` to 0 (`src/app/netplay.rs` 508), a writer of the counter that `InFlightExact`
does not cover. Speculation, the shared framebuffer, rewind, replay checkpoints and TAS
commands are left out. `InOrder` is stated for behaviours in which the interface does not
receive in the middle of the worker's drain: if it does, an older result is merged into one
delivered after a newer one.

After the peer's Close a session may report a secondary text for its end: "terminated" and
"cancelled", which `PrimaryCause` allows, or "closed" and "outbound disconnected", which
`NoSilentEnd` allows and which section 4 shows to be possible without a Close too.

`PausedTogether` speaks of players who have been told of the votes as they stand. A player
who has just withdrawn a vote keeps the earlier report until the peer acknowledges it, and
the peer may meanwhile have gone on.

## 7. Plan

Done: timeline, execution and one peer, the input channel, the pause agreement, the TCP transport,
atomic files and the save store, frame delivery and the two-peer session, each with proofs of all
its safety properties. Next, in this order:

1. A session over two channels: pause, progress and checkpoints not ordered with the
   inputs; whether the window of `InputChannel` can be exhausted by honest sessions.
2. Admission: the handshake and the sequence numbers of the codec.
3. The lobby's rooms; lockstep as a second implementation of `SharedGame`.
4. The audio queue; starting and stopping a recording in `FrameDelivery`; speculation.
