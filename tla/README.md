# PrismDMX in TLA+

PrismDMX is a lighting desk. A daemon (`prismd`) owns a show file, a tick that
computes 44 DMX frames a second, output drivers that send those frames out, a
control surface, and IPC clients (the desktop app and browsers). This directory
models the parts whose correctness depends on the order of things, checks them
with TLC on small instances, and proves with TLAPS what the rest stands on.

Paths are relative to `crates/` of the repository unless they start with `ui/`.
`PROJECT.json` maps every definition to the lines it translates, names one
plausible bug per property that the property catches (the definitions commented
`Mutant of ...`), and lists the hazards at their lines.

To repeat the checks, from this directory: `tlc -config MCHandOff.cfg MCHandOff`, and so
on for each `.cfg`; `tlapm HandOffProofs.tla`, and so on for each `...Proofs.tla`.

## 1. Inventory

Three kinds of thread meet: the *core* (the daemon's event loop and its IPC
tasks, under one mutex around `Core`), the *tick* (one thread, 44 Hz, may never
block, wait or allocate), and one *driver* thread per output.

| Part | State it keeps | Operations | Meets the others through | Correct when |
| --- | --- | --- | --- | --- |
| Command queue (`prism-engine/src/spsc.rs`) | ring of byte atomics, `head`, `tail` | `push`; `drain`, `take` | core pushes, tick drains | bounded FIFO of whole values; a drain ends |
| Frame hand-off (`prism-engine/src/triple_buffer.rs`) | three slots and a control word per subscriber; joins, leaves, retired links; the count of places | `publish`, `refresh`, `subscribe`, `unsubscribe`, `collect` | tick publishes, drivers and telemetry refresh, the core reconfigures | frames whole and newest; nobody lost or enrolled twice; no push outgrows its room |
| Body hand-off (`prismd/src/engine.rs`, `core.rs`) | offered body and follow layer, flags, what the engine was told | `rebuild`, `refollow`, `push_programmer`; `apply`, `render` | a slot, two flags and a marker in the command queue | an edit takes effect at its place in the order of commands; the newest body runs |
| Tick grid (`prism-engine/src/tick.rs`, `clock.rs`, `stats.rs`) | origin, next index, missed slots | `step`, `tick` | the clock | one tick per slot, no catching up, every missed slot counted once; a panic costs one frame |
| Playbacks (`prism-engine/src/player.rs`, `playback.rs`, `cue.rs`, `body.rs`) | active cue, fades, masters per cue list | Go, Back, Goto, Off, flash, crossfade, follow times | commands in, levels out, `readback.rs` to the core | what runs is the list's order; a fade ends where its cue says |
| Merge and masters (`merge.rs`, `master.rs`, `programmer.rs`, `plan.rs`, `encode.rs`) | layers of values | recompute per tick | body | HTP/LTP, programmer over playbacks, masters last |
| Readback, trackers (`readback.rs`, `tracker.rs`, `follow.rs`) | tables of atomics | publish, read, clear | tick to core, receiver to tick | entries belong to the body that runs; a heard tracker has a position |
| Undo journal and show model (`prism-core/src/journal.rs`, `file.rs`, `show.rs`, `objects.rs`, `programmer.rs`, `session.rs`) | show, programmer, cue being edited, two stacks of records | every desk command, Oops, Redo | effects to the engine, deltas to clients | Oops takes exactly one command back; a refusal changes nothing |
| Show file (`prism-core/src/store.rs`, `file.rs`) | database, recovery copy, unsaved flag, autosave timer | save, autosave, load | the file system | a crash costs at most one interval; a save that is reported is there |
| IPC (`prism-ipc/src`, `prismd/src/server.rs`) | per-client queue, phase, wake-up | handshake, command, query, broadcast, telemetry, goodbye | clients' mirrors (`prism-core/src/mirror.rs`, `ui/src/mirror`) | a mirror equals the desk once its queue is empty; nobody is held up by a slow client |
| Client (`ui/src/ipc/connection.ts`) | socket, phase, retry timer, sequence numbers | start, stop, send, ask, resync | IPC | one live socket, one pending retry, nothing of an old socket is heard |
| Outputs (`prismd/src/outputs.rs`, `prism-protocols/src/runner.rs`) | running drivers, enrolment places, backoff | reconcile; connect, send, fail, retry, stop | subscribers of the frame hand-off | a row and its thread agree; places are given back; a lost interface is retried |
| Protocols (`sacn.rs`, `artnet.rs`, `artpoll.rs`, `udp.rs`, `ftdi.rs`, `opendmx.rs`) | sequence numbers, last frame sent, keep-alive | send, terminate | network, USB | no receiver sees a number go back; an unchanged frame is still kept alive |
| Discovery, tracking input (`prism-protocols/src/discovery.rs`, `psn.rs`, `tracking.rs`) | nodes heard, their age | poll, hear, age | core | what is gone disappears, what is there does not flicker |
| Control surface (`prism-surface/src`, `prism-midi/src`, `prismd/src/surface.rs`) | desired, shadow and known state of each control; touch; port | press, move, feedback, reconnect | commands to the core, readback to lamps and motors | no motor moves under a hand; the desk converges to the engine |
| Instance lock (`prismd/src/lock.rs`) and desktop shell (`prism-app/src`) | guard file, discovery document | acquire, take over, publish, look, drop | other processes | never two daemons; a free directory can be started in |
| Fixture library, domain types, command codec | values | parse, write, encode | - | sequential; left to tests |

What is hard: the tick only *tries* each mutex and must not lose what a failed
try left behind; a frame is copied word by word while it is being read; a
rebuilt show is offered beside the ordered queue and must still take effect at
its place in it; a journal record has to cover what a command changes in passing
(relinked cues, executors that follow a moved list); clients may be slow, be cut
off and come back; devices disappear and are retried; the daemon may be killed
between two writes.

## 2. Plan

Done, in this order: the command queue, the frame hand-off, the body hand-off,
the show model and the journal over it, the IPC link with its clients, the
life of a desk (lock, show file, shell), the outputs with their discovery, the
tick's own work (playbacks and merge), the control surface, the sACN stream with
the gateways that listen to it.

| Left | What it would add | Bounds |
| --- | --- | --- |
| Readback | `Playback` composed with the core's `reported` map: an Oops over the position of a list against the reports of the tick | one list of two cues, one Oops |
| Tick grid | the nanosecond grid and the count of missed slots; `Playback` has only the jumps | overruns of up to three slots |
| Handshake | versions, tokens and queries in `ClientLink` | one client, two protocol versions |
| Tracking input | a table read while it is written | two trackers |

Every safety invariant of a passing run is stated by a theorem (section 5), one of
them, `HistoryIsALine` of `ShowJournal`, from a property of single steps that the run
checks. What is worth proving next is the tick grid, once it is modelled.

## 3. Modules

### CommandQueue, BoundedQueue, HandOffProofs

One producer, one consumer, one action per atomic access. `PushBegin` is the two
counter loads and the test of `push`; `PushCell` one byte stored; `PushPublish`
the Release store of `tail`. `DrainBegin` takes the bound of `drain`,
`TakeBegin`, `TakeCell`, `TakeRelease` are `take`. The counters wrap at
`Modulus`. The acquire/release pairs order the relaxed byte accesses, so an
interleaving of the accesses in program order is every behaviour. A refused push
changes nothing and is no step. `BoundedQueue` says what the ring promises.
`HandOffProofs` extends this module and the next two, so their specifications
carry a prefix (`BufferSpec`, `EnrolmentSpec`).

### TripleBuffer, LatestFrame, HandOffProofs

One subscriber: `words` are the three slots, `shared`/`fresh` the control word.
`PublishBegin`, `StoreWord`, `PublishSwap` are the loop body of
`FramePublisher::publish`; `RefreshBegin`, `TakeSwap`, `LoadWord` are
`FrameSubscriber::refresh`. A frame is its sequence number, recorded in each
word, so a torn frame is visible as two numbers. Several subscribers have
disjoint buffers and are the same module again. `LatestFrame` is the promise: a
register of the newest frame.

### FrameEnrolment, HandOffProofs

The callers' side (`subscribe`, `unsubscribe`, `collect`) and the tick's
`take_enrolments`, with both mutexes and the `pending` flag. The claim of a
place is split into its load and its compare-exchange; an id is queued to leave
under the mutex, its place is returned after that (`live.fetch_sub`), and the
flag is raised last, as in the code. `Position` is the code's search of the
walked vector, `RemoveAt` its removal. The tick tries the mutex once (`TickTry`), lets the leavers
go one by one, takes all joiners, clears the flag, unlocks. An id is named in at
most one `unsubscribe`, as the daemon does.

### EngineHandOff, EngineHandOffProofs

The core's `carry_out` with `rebuild` or `refollow`, `EngineThread::install` and
`push_programmer`; the tick's drain, `DaemonBody::apply` and `render`. Bodies and
follow layers are handed over by the same protocol, so a `Hand` is either. The
queue is the FIFO `CommandQueue` implements. A body is the edition of the show
it was built from, the edition of its follow layer, the programmer it holds and
whether a playback runs. History variables: `intended` is the body that would
run if every command took effect in the order sent; `overtaken` says that
something was offered while an earlier marker was on its way; `lost` that a
command was refused or lost with a panic. The lists by which used-up bodies go
back to the core only decide which thread frees memory and are left out.

### ShowModel, ShowJournal, ShowJournalProofs

`ShowModel` is the show as data: one function from names (the code's
`UndoScope`) to values, in whose domain a show object is while it exists.
`Accepts` is what the writes of `show.rs` refuse, `Put` what they carry with
them (`store_preset` relinks cues), and the rest what a copy or a move transfers
(`objects.rs`) and what a store is built from (`programmer.rs`).

`ShowJournal` is every undoable command and the ring. An image is a name with
its value and restoring one is writing it back; `Do` is `ShowFile::apply_one`
around a command (image, carry out, image, file if they differ), `Operate` a
command outside the journal, `Fail` one that is refused half-way; `Oops` and
`Redo` are `undo` and `redo` over `Restore`, which writes the show images one by
one and stops at the first refusal: a `Pass` over the images for the fixtures
that go, one for the rest, one for the fixtures that come, and one for the desk,
each a fold of `Written`. Each record also carries `was` and `is`, the
state before and after, which the code does not have and only the properties
read.

Simplifications: each fixture has one attribute, in the default bank; cue
numbers are whole; names, colours, times, key functions and where a fixture
hangs are opaque settings; a list's loop, speed and playback state, the pool of
a preset and the page of the session are left out; a rig file is its plan. The
Oops that is a backspace on the command line never reaches the journal.

### ClientLink, ClientLinkProofs

The daemon's side (`server.rs`, `backpressure.rs`): each connection is a task
that shakes hands, enters the client list, takes its snapshot, queues it, and
then pumps: look at the queue, select between the wake-up and the wire, send.
`Tell` is one iteration of a broadcast, so tasks interleave between one client
and the next. The control queue is bounded and a full one ends the connection,
saying goodbye; telemetry has one slot, the newest. The client's side
(`connection.ts`): sockets with their callbacks, the retry timer, `start`,
`stop`, the mirror it feeds. The network may cut a socket at any moment and
deliver what was under way or not. Refusal by version or token, queries, and
payloads that do not decode are left out.

### DeskLife, DeskLifeProofs

`Life` is a daemon from the lock to the withdrawal of its discovery document,
with a crash between any two steps; `Keeping` its show file: edits, Save, Save
As, Open, New, autosave, each write of `store.rs` a step, so that a crash comes
between the removal of an old recovery copy and the new one, or between the
commit of a save and the removal of its copy. SQLite's commit is atomic. The
shell looks, attaches, starts a desk, watches it. A look takes the shared lock
for a moment; that it can refuse a starting daemon is not in the model
(section 6).

### Outputs, OutputsProofs

The supervisor reconciles the machine's rows with the running threads: stop
the thread of a row that changed, wait for it, start one, claim its place in the
enrolment. A `Driver` thread connects, sends, is refused by some receivers of a
frame, fails, panics, waits out a backoff, and stops when told, terminating an
sACN stream as best it can: any of the receivers may not hear it. The discovery
thread polls, listens, ages answers, is retargeted and stopped; it may also fail
to start (`SpawnFails`), and is then tried again at the next change of the
targets. Time is counted in cadences of a driver. `held` is what each
receiver of an output shows, which `GreenMeansHeld` compares with the light on
the desk.

### SacnStream, OutputsProofs

One universe of an sACN output, alone, because what matters here is not in
`Outputs`: which packet a gateway takes for news. `SendFrame` is `send_frame`
with its `is_due`: the number is spent first, then every address takes the
packet, or one refuses it, or the link is lost; a packet that left may be lost on
the way. `Shutdown` and `Terminate` are `shutdown` and `terminate`, one goodbye a
step, each with a number of its own. `Lapse` is a cadence without a packet: a
panic, a backoff, a stopped output. `Restart` is a new driver, which counts from
zero. A step is one cadence and a goodbye takes no time. The gateways are
external and follow E1.31: a packet is old if it is up to `Window` behind the
last one, and a source unheard for `Loss` cadences is forgotten. `seen.mine`
marks what a gateway took from the driver that runs now; `seen.smooth` that
every cadence since was at work. The datagrams of one `send_frame` arrive in
order or not at all; overtaking in the network is not modelled.

### Playback, PlaybackProofs

One `Tick` is what the engine computes in one tick, after the commands of the
queue: players step their transitions (fade, delay, release, crossfade by hand,
follow), sources write their levels and stamps, the merge takes the highest or
the latest, programmer and masters come last. `Lists` are compiled by
`Walk`, the tracking table of `cue.rs`. A tick may be late: the tick number
then jumps over the slots it slept through. A `Rebuild` starts every list at a
rate from the show, which is any rate: a tap is never written there, and an Oops
or an Open may bring another. Levels and rates are small integers
with the code's integer arithmetic, rounding included.

### Surface, SurfaceProofs

The desk with motor faders, its cable and the operator (`desk`), the port
(`port`), and the link with its controller (`link`): what each control should
show, what it was told, which faders are touched, the paced queue (the places of
the controls it holds a message for: it is rebuilt in the order of the controls,
so the front is the `Foremost` of them), the question put to a silent desk,
learn. One poll of the daemon's loop is one step
(`Polls`): receive, apply, paint, send, follow the cable. A rebinding either opens
the port anew or keeps it (`Kept`); a new link starts a clock of its own and the
kept port's instants are on the old one's, so they lie further off by as long as
the old link had run (`Elapsed`). Bounds that are
assumptions: one message of the desk per poll; hands and keys act only while
messages get through; a cable is noticed missing before it is back
(`QuickReplug`).

## 4. Runs

| Run | Properties | Bounds, and why they are enough |
| --- | --- | --- |
| `hand_off` | of `CommandQueue`: `NoSharedSlot`, `ImplementsFifo`, `DrainEnds`; of `TripleBuffer`: `SlotsArePermuted`, `FrameIsWhole`, `ImplementsLatest`, `UnreadIsTaken`; of `FrameEnrolment`: `RollIsExact`, `NoLostWakeUp`, `ChangesTakeEffect` | a queue of two slots of two cells, counters that wrap after 4, two values: full, empty, the wrap, and a torn value all occur; two words per slot (the proof is for any number), numbers that wrap at 5, so several publishes overtake a refresh; two callers, two places, three ids, one enrolled at set-up: both places are taken, one is given back and claimed again while its old link still waits to be let go. The three share no variable, so `MCHandOff` runs one of them at a time (`part`), each with its own fairness. Deadlock is checked; once the ids are used up the callers may `Rest` |
| `engine_hand_off` | `OrderIsKept`, `NewestBodyRuns`, `NoGhostChannels`, `BodyArrives` | queue of 2, two installations of bodies or follow layers, one panic: a second installation can catch the first at every step, and a marker can find the queue full |
| `journal` | `HistoryIsALine`, `JournalFits`, `EditsComeBack`, `StepsAreWhole` | ring of 2, so it drops steps; six repertoires, each with the shows it starts from: a long walk of nine commands; storing and deleting, five; moves, copies, swaps, labels and colours over two of each object, three; the rig, three; groups, four; the cues of a list, three, some from the middle of an edit |
| `client_link` | `NothingIsMissed`, `ArrivesInOrder`, `NeverStranded`, `NoLostRing` | one client over two sockets, one key, one edit, control queue of 2, one payload on the wire: the old connection is still being served when the new one takes its snapshot, the queue fills, the edit falls on either side of the snapshot. Deadlock is off: the sockets are used up |
| `desk_life` | `LampTellsTruth`, `RescueIsThere`, `DocumentNamesTheDesk`, `StandsDownRightly` | two desks, two files, three edits, autosave after one poll: the second desk starts while the first withdraws or after it crashed in the middle of any write. Deadlock is off: the desks are used up |
| `outputs` | `RigRuns`, `GreenMeansHeld`, `AnswersAreCurrent`, `ReconcileEnds` | a network row (sACN or Art-Net, two receivers) and a USB row, but one place and two threads; two looks, keep-alive after 3 cadences, backoff of at most 2; an answer counts for the pass it was heard in and is too old in the next without one, so the Art-Net light turns green and Degraded again. Deadlock is off: nobody has to give a command |
| `sacn_stream` | `GatewaysFollow` | two gateways; numbers wrap at 11 with a window of 1, three goodbyes, a keep-alive every 2 cadences, loss after 5: the proportions of 256, 20, 3, 43 and 110, so that what a gateway can miss before it forgets the source, and the goodbyes, fit before the wrap (`StreamAssumption`) as they do in the code. Several wraps and several drivers occur |
| `playback` | `MergeIsExact`, `LookIsTheCue`, `NothingJumps`, `FollowWaits`, `LeavesTheMerge` | a tracking list with a follow, a looping chase and a playback without a list, over one head; levels to 4, so fades round; three commands, one missed tick at a time; a rebuild at any of the rates |
| `surface` | `PictureIsTrue`, `AskedOnce`, `LearnedIsEaten`, `PictureArrives` | a fader and a lamp, two faults (cable, silence, rebuilt link); an old link had run for nothing or for as long as a presence interval |
| `desk_life_open` | `SavesGoHome`, violated | one desk, one edit; section 6 |
| `surface_hand` | `HandIsLeftAlone`, violated | two faders, so that one message waits behind another; section 6 |
| `sacn_holders` | `HoldersAreKnown`, violated | as `sacn_stream`; section 6 |

The journal run leaves out the combinations for which the code does not keep the
promise; each is described in section 6. They are: a copy onto a preset in use,
and the deletion of one; Redo over a move; an import or a swap of executors
refused half-way; a preset renamed or coloured while a programmer holds its old
values, or while a cue that links to it names an unpatched fixture.

`OrderIsKept` says nothing once a command was refused: `push_programmer` counts
a value as told whether the queue took it or not, and the code does not claim to
recover from that. `NewestBodyRuns` and `BodyArrives` hold even so.

### Fairness

- The tick, once begun, is straight-line code on a thread that runs for ever:
  weak fairness on its steps. Nothing obliges the core to give a command, so
  starting an operation is never fair; finishing one is. Where finishing needs a
  mutex (`FrameEnrolment`, `EngineHandOff`), the caller blocks on it and is
  granted it if it comes free again and again: strong fairness on the steps of a
  call under way. The tick's `try_lock` gets no such help: it may find the mutex
  taken every time the caller holds it, and `ChangesTakeEffect` and
  `BodyArrives` hold nevertheless because a caller lets go and, after its last
  call, stays away. This leans on the bound: a caller that reconfigured for
  ever, each time in the moment the tick tries, could put a change off for
  ever. The code accepts this ("the next publish").
- `Outputs`: weak fairness on the steps of a reconcile that has begun, on each
  driver thread, and on the discovery thread, which all run on threads of their
  own. None on commands, on publishing or on serving.
- `Surface`: weak fairness on the polls, which the daemon's loop gives every
  `SURFACE_PERIOD`. Hands, keys, cables and the show owe nothing.
- `ClientLink`, `DeskLife`, `Playback`, `ShowJournal`, `SacnStream` state no
  fairness: their properties say what may never happen. (That an output at its
  work keeps sending is in `SacnStream` a matter of `FrameHeld`, which is not
  allowed once a packet is due.)

## 5. Proofs

`HandOffProofs`, of `CommandQueue`, for every capacity that divides the range of the counters,
every number of cells and every set of values (`RingAssumption`,
`WrapAssumption`; the daemon's 1024 divides 2^64):

- `TypeCorrect`. `TypeOK` alone is not inductive: a take counts `left` down,
  so `TypeInv` adds that a drain under way has takes left.
- `SlotsAreNeverShared`. The invariant is `Occupancy`: the values waiting never
  exceed the capacity, are fewer while the producer writes and at least one
  while the consumer reads. Two counters in one slot differ by a
  multiple of the capacity (`SlotsDiffer`), which `Occupancy` excludes. This is
  where the wrap is decided: with a capacity that does not divide the range the
  lemma is false.
- `RingIsAFifo`: every step of the ring is one of `BoundedQueue` or a stutter.
  `RingInv` says that each slot between `head` and `tail` holds one whole value,
  that what the producer has stored so far is the beginning of its value, and
  what the consumer has copied the beginning of the slot at `head`. The queue of
  the promise is read off the slots in that order, counters modulo their range.

The same module, of `TripleBuffer`, for every number of words and every range of sequence
numbers (`BufferAssumption`):

- `BufferTypeCorrect`, `OwnershipIsExclusive` (`SlotsArePermuted` is inductive).
- `FramesAreWhole`. The invariant `Contents` says slot by slot what has been
  copied: a fresh slot is one whole frame, the one published last; so is the slot
  the reader is copying; the writer's slot holds the new number below `wword`,
  the reader's frame the taken number below `rword`. Permutation is what makes it
  inductive: a store hits no slot the other two clauses speak of.
- `BufferImplementsLatest`. Each step maps to `Publish`, to `Refresh` or to a
  stutter of `LatestFrame`; `Unstamping` undoes the number stamped before the
  swap, across the wrap.

The same module, of `FrameEnrolment`, for any finite set of callers, any number of places and
ids:

- `EnrolmentIsExact`. `PlaceInv`: no list names an id twice, and nobody is both
  joining and walked, both retired and freed, or both alive and buried.
  `CallerInv`: what a caller at each step knows of the id it is busy with.
  `CountInv`: `live` is the number of those who are enrolled and not about to
  leave, who have claimed a place and not taken it yet, or who have left and not
  given it back yet; it never exceeds the limit. That the vector never outgrows
  its room (`LinksFit`) rests on the count: the tick takes up joiners only after
  the leavers, so the walked vector is then among those whom `live` counts.
- `NothingIsSleptThrough`: whenever something waits behind a flag that reads
  false, its caller is still on its way to raise it.

`EngineHandOffProofs`, for any non-empty set of values, any length of queue, any
number of rebuilds and panics:

- `TypeCorrect`; `OnePatchIsLit` (`FrameInv`: a frame that will not be blanked
  first belongs to the edition of the body).
- `NewestRuns` (`LatestInv`: the newest edition is in the slot; if the slot is
  empty, in the tick's hand; else it runs).
- `OfferedIsMarked` (`ArrivalInv` with `LockInv`): what lies in a slot is still
  to be marked by the core, or is flagged and something will make the tick look:
  a marker in the queue, the fallback, or the attempt under way. It is the safety
  half of `BodyArrives`.
- `SentInOrderTaken`. `OrderInv`, as long as nothing overtook and nothing was
  lost: at most one thing is being installed, `Phase` says where it is (offered,
  marked at a place of the queue, reached, taken), and what the commands behind
  that place make of it is what was intended. `Becomes` says what commands make
  of a body without recursion: the last value set is the one held, and any Go
  starts the playback.

`ClientLinkProofs`, for any clients, sockets, keys and edits, and any limits of
the queues (`LinkAssumption`):

- `NobodyWaitsUnrung` and `NobodyIsStranded`, from `WireInv`: where a task stands
  says whether it is listed, what it has received and whether a command is in its
  hand (`TaskInv`), and a socket and its client agree on how far they are
  (`SocketInv`).
- `FactsComeFirst`. Neither part of `ArrivesInOrder` is inductive, because what
  the client reads was ordered by the daemon two queues before. `AnswerInv`: while
  the snapshot is awaited there is something before a picture. `FactInv`: the
  delta of every receipt in the control queue and on the wire stands before it or
  was heard, and a command that has been told to everybody was told to the one who asked.
- `EveryEditIsHeard`. `CoverInv` follows a snapshot from the moment it is taken
  to the mirror: every edit since is heard, on its way, or *owed*, which means
  that the task that made it has not read the list, or has still to come to this
  client. It holds because a connection enters the list before it takes its
  snapshot; with the order reversed, an edit between the two is owed to nobody.

`DeskLifeProofs`, for any desks and files, any interval (`DeskAssumption`: the
copy of a file is not the file):

- `TypeCorrect`; `DocumentIsTheHolders` and `StandingDownIsRight` (`LockInv`: one
  desk between the lock and its end; the document, once written, is the
  holder's).
- `LampIsTrue` and `RescueIsKept` (`FileInv`: step by step through a save, an
  open and an autosave: a copy under way is of a show with edits, to the place
  beside its file; a commit not tidied up has reached the disk; a show without
  edits has no copy and is in its file; what the last autosave wrote is still in
  the copy).

`OutputsProofs`, for any rows, threads, receivers, places, keep-alive and
backoff:

- `WhatRunsIsTheRig` (`FleetInv`: who holds a place and who is waited for;
  `PlanInv`: what reconcile still has to do), `GreenIsTrue` (`SignalInv`: a
  receiver has shown another look no longer than since the last frame all took),
  `AnswersComeThroughTheSocket` (`DiscoInv`).
- `GatewaysAreReached`, of `SacnStream`, for any gateways and any wrap, window and
  timings within `StreamAssumption`. What a gateway knows says nothing by itself
  about the next number, so `StreamInv` ties the two together: `Near`, the driver
  is ahead of a gateway that follows it by at most one packet for each cadence of
  silence and one for each goodbye, which is less than a wrap and a window;
  `Paced`, a gateway that has been silent for that long while the output was at
  its work has missed a packet in every keep-alive; `PartingInv`, the goodbyes
  still to come and those a follower has missed add up to all of them.

`SurfaceProofs`, for any controls and any timings (`SurfaceAssumption`):

- `TypeCorrect`; `QuestionIsAskedOnce`; `NamedPressIsEaten` (`EatenInv`).
- `BelievedIsShown` (`PictureInv`), with the hypothesis `~QuickReplug`: a cable
  is noticed missing before it is back. That is the setting of the run; without
  it the code does not keep the promise (section 6). What an assumption on a
  constant would have hidden is a hypothesis of this one theorem.

`PlaybackProofs`, for any lists, cues and slots, any levels, rates and delays the
commands carry:

- `Invariance`, the invariant the other five rest on. Of a player it says that its
  entries are in its list and its transitions have ends (`InList`, `Ends`), that
  no delay or duration is longer than its cue says (`OnTime`), that each entry
  heads for what the tracking table holds for its cue (`Heads`) and stands where
  the clock has taken it (`Stands`). Of the merge: every source in it has a stamp
  of its own, below the counter (`LayerInv`). Of the programmer: its list names a
  slot once (`ProgrammerInv`).
- `MergeExact`. The merge folds over the sources in the order they stand in the
  layer; with distinct stamps the fold meets one latest source, whatever the
  order, and the highest needs no stamp.
- `CueIsTheLook`: an entry that has come to its end has the value it heads for,
  which is the table's. That the table is what the list says rests on `Walk`, a
  recursive function down the cues: `Recursion` gives that there is one and
  `Climb` carries a fact from a cue to the next.
- `NoJump`: a fade is an integer division, and the lemma about it bounds what one
  tick can add. `FollowsWait`: a follow is asked only of an entry whose every
  transition has ended. `LeavesMerge`: a release counts down each tick and its end
  takes the stamp away.

`ShowJournalProofs`, for any shows, any repertoire and any capacity of the ring
(`ShowAssumption`, `JournalAssumption`; `AbsentAssumption`: what is absent is no
list and no edit of a cue):

- `Invariance`. `IsState` of the desk and of the file is not enough: a restore
  writes back what a record holds. `IInv` says of every record in the two stacks
  that its images are sound (`Sound`: a value of the name's own kind; where an
  image of a fixture's place stands, the fixture is not imaged itself; no list
  comes before a preset that would relink it; one name, one value) and bounds the
  two stacks together by the ring.
- `JournalHolds`: what the file and the journal hold is a show, and Oops and Redo
  only move records between the stacks.
- `EditsReturn`, three promises in one. An edit changes nothing its record has no
  image of as it was (`EditsImaged`): command by command, what it wrote (`Wrote`)
  is among what its record covers (`Frame`), the referrers that a write of a
  preset or a move of a list changes in passing included; copies and moves onto a
  preset are excepted (`OntoPreset`). An answered Oops or Redo leaves every image
  of its record standing (`ImagesStand`): `Walked` follows an image through the
  passes of `Restore`, and what is written after it does not write over it because
  the images are sound. And no Oops or Redo moves a crossfade (`CrossfadeKept`).
- `HistoryKept`, from one step to all of history: *if* a refusal changes nothing and
  the Oops right after a step, and the Redo right after that Oops, bring back all
  that was there (`StepsAreWhole`), *then* the two stacks stay one line with the desk
  standing on it (`HistoryIsALine`), however many Oops and Redo are given and in
  whatever order. `StepsAreWhole` looks at two neighbouring states and never at the
  stacks; the theorem is what the stacks, the branch that is left by a new command,
  the ring that drops its oldest step and the faders in between could spoil. The
  argument: what a restore answers and what it makes of everything that can be taken
  back does not depend on faders and selection (`RestoresAlike`), so a record that
  cancels its step in the state after it cancels it from every state with the same
  undoable part (`Exact`). `Line`, the invariant, then says that every record of the
  two stacks is exact, that `done` leads step by step up to the desk as it is and
  `undone` away from it (`Past`, `Future`); an edit, an Oops, a Redo, an operation,
  an Open and a refusal each keep it (`NextLines`), and read end to end it is the
  line (`LineIs`).

Only model-checked:

- Every liveness property (`DrainEnds`, `UnreadIsTaken`, `ChangesTakeEffect`,
  `BodyArrives`, `ReconcileEnds`, `PictureArrives`): fairness and ENABLED are
  beyond the prover.
- `StepsAreWhole` of `ShowJournal`, the hypothesis of `HistoryKept`. It is not true
  of every repertoire: section 6 lists the commands whose record does not cover what
  they change, and the refusals that leave a half behind. The run gives commands
  from repertoires that keep clear of them, and a repertoire is a value, not an
  assumption the proofs could use. Of these repertoires the run checks
  `StepsAreWhole` and `HistoryIsALine` both. `EditsComeBack` is the part that holds
  of every repertoire, without a hypothesis. An Oops may be refused also in these
  repertoires, so `StepsAreWhole` speaks of the ones that are not.

The proofs never intersect two sets written out as enumerations: the prover's
translation compares the members by their form and takes differently written
ones for different. Where two sets must be disjoint, the modules and proofs say
so with a quantifier (`Apart`; the second conjunct of `SurfaceAssumption`).

## 6. Where the code and its own words part

Each with a run that shows it:

- `desk_life_open`: opening a file that cannot be read as a show has already
  made it the file that Save writes to, against "the running show is untouched"
  (`open_show` in `prismd/src/core.rs`).
- `surface_hand`: a fader message waiting in the paced queue is sent although a
  hand has meanwhile come down on that fader, against the first rule of
  `prism-surface/src/surface.rs:13`.
- `sacn_holders`: with two unicast receivers, one that takes a datagram while the
  other refuses it holds the universe, and the output does not know it
  (`sacn.rs:1093`, against 646-648): if the output stops, nobody tells the first
  one. As long as one receiver refuses every datagram, that is so for good.

Seen while modelling, without a run.

Hand-off and frames:

- `push_programmer` counts values as told, and the programmer of a new body as
  held, whether or not the markers of two installations were taken in order
  (`engine.rs:148`, `core.rs:1878`): with two rebuilds before one drain the first
  marker takes the second body, and older values queued between the markers are
  then applied to it and never corrected.
- A rebuild discards a waiting follow layer but not its marker, which can take a
  newer layer into the body about to leave (`engine.rs:167`).
- `BodySwap::offer` makes the body visible before it discards the waiting follow
  layer (`engine.rs:152,155`), so a tick in between can put the older layer into
  the new body, which lines 91-93 rule out.
- Adopting a body frees its box on the tick, and the list of retired bodies may
  grow there (`engine.rs:320`; against lines 4-6 and 128-129).
- `unsubscribe` with an id that has already left takes a second place off `live`
  (`triple_buffer.rs:430`), though lines 424-425 say it does nothing.

Journal and show:

- `restore` can be refused half-way (`file.rs:2047`, against "a refusal must
  leave every model byte-identical"). The shortest way: store into a preset that
  a list is linked to, while that list names a fixture that was unpatched; Oops
  puts the preset back and is refused the list. Others: an Oops of `Delete` or
  `MoveExecutor` over a reference that is gone, of a group's move onto a group
  that names an unpatched fixture, of `EditMarks` at `MAX_MARKS`.
- `Show::swap_executors` may write one half and refuse the other
  (`objects.rs:576`, against `show.rs:57-59`), and `import_rig` embeds profiles
  one by one, so a later one refused leaves the earlier ones embedded without a
  record or a delta (`file.rs:1815`, against "a refusal leaves the show as it
  was"). `ShowJournal` has both as `Fail`.
- A copy onto a preset that cues link to rewrites cues no image covers
  (`file.rs:1476`); so does an Oops over the label, colour or deletion of a
  preset when a linked cue holds an older value.
- The image after a move of a list is taken by asking who plays the *source*,
  when nobody does any more: Redo moves the list and leaves the executors behind
  (`file.rs:1483`).
- Every merge matches values by fixture and attribute and not by occurrence
  (`programmer.rs` in `cue`, `sequence`, `preset`; `merge_parts` and
  `merge_preset_values` in `objects.rs`), so a store of a fixture with a
  repeated attribute keeps the last one only, against "exactly the programmer's"
  (`programmer.rs:335`) and `CuePart::key`.
- Clearing the programmer after fixtures were toggled out by hand leaves a
  group's switch on over an empty selection, which `programmer.rs:1323` means to
  avoid.
- Oops over a store of a list also puts its master back (`file.rs:2034` spares
  only the crossfade; `journal.rs:14-19` speaks of operating the desk).
- An encoder turned with nothing selected marks the edited cue as modified
  (`file.rs:1293`, against 1288-1292).
- A show saved while a cue is being edited reopens with the edit but without its
  programmer (`store.rs:424`, against `prism-domain/src/session.rs:229-233`).
- An Oops refused because what it refers to is gone stays refused: removing the
  reason files a newer step on top of it.
- Oops, Redo and Open put `is_active` and the current cue back while the core's
  `reported` map (`core.rs:2006`) skips reports that did not change: lamp and
  Toggle may then be stale.

Clients:

- Deltas of two commands may reach clients in another order than they were
  applied (the loop over deltas in `prismd/src/server.rs`, against
  `docs/IPC_PROTOCOL.md:1558`).
- The timeout of a goodbye starts anew with every picture (`room_to_send` in
  `prism-ipc/src/server.rs`).

Desk and files:

- A client that merely looks takes the shared lock and can refuse a daemon that
  starts in that moment (`lock.rs:336`).
- `write_recovery` removes the old copy before it opens the new one: a crash in
  between leaves no copy, or an empty one (`store.rs:386`, against 375).
- An autosave after a crash overwrites a copy that was not offered yet; opening
  a recovery copy as a show and then saving the original deletes it.

Outputs:

- The comment on `send_frame` in `sacn.rs` is not so with two unicast receivers:
  one that refused is only told again with the keep-alive.
- A stop right after a reconnect leaves a receiver not told of the end of its
  stream: `connect` forgets that there was one.
- A driver that is started again counts from zero under the same identity
  (`sacn.rs:654`): a gateway that missed every goodbye takes up to twenty of its
  packets for old ones.
- A discovery whose port would not open keeps its thread's handle, and a new
  target never tries again. A panic while connecting shows Degraded although
  nothing is connected.

Playback:

- Off during a stroke of the crossfader does not clear the stroke; letting a
  stroke go begins the cue it came from without its clock.
- "A cue reached by the fader has its follow evaluated the moment the stroke is
  retired" never happens. A slot whose release ends in the tick in which a
  follow takes it again starts from home. A rate of nought freezes a release.
- A tapped rate lives in the engine alone (`player.rs:953`): `build_body` takes the
  rate from the show (`core.rs:2149`) and the readback records only what is active
  and its cue (`core.rs:2008`), so any edit that rebuilds the body loses the tap.

Surface:

- A cable that is back within the presence interval before anything was written
  is not noticed, and the desk is not redrawn (against
  `docs/MCU_MAPPING.md:1183`); a single refused write loses that message.
- While the release of a learned key is awaited every other event is eaten; the
  release of a key held when learn was armed is eaten too; a cable or a
  rebinding in between mixes the two up. A rebinding forgets which faders are
  touched.
- After a rebinding that keeps the port, its presence check and its next attempt
  to open stall for as long as the old link had run: the link's clock starts again
  (`prismd/src/surface.rs:258`) while the port keeps instants of the old one
  (`prism-midi/src/port.rs:323`). A cable that is back before the next check, which
  `QuickReplug = FALSE` leaves out, is then a matter of hours, not of a second.

## 7. Not modelled

For good: the parsers and writers of GDTF, OFL, MVR and zip, the command codec,
command line, paths, logging, secrets, file share, autostart, dialogs, rendering
of the interface, the web site and the measuring tools. They are sequential
functions of their input, or glue to the operating system, in which no two
actors meet, and they are most of the code the map does not reach. USB widgets
beyond what the output runner sees of them: device I/O.

Within the modules: `clear_crossfade`, `unload`, `load` on a running player, the
follow layer's geometry and the encoding of frames (`Playback`); a shutdown with
a blackout, several universes in one row, renames, ArtSync (`Outputs`); the
handshake's refusals and queries (`ClientLink`); stop and start of the engine's
thread (`EngineHandOff`). What is still to come is in section 2.
