# A TLA+ development of fprintd's daemon

This directory holds TLA+ specifications of the pure-Rust `fprintd`: its concurrent
core, the state it keeps on disk and on the sensor, its USB readers and the recording of
them, and the two algorithms that decide whether a finger matches. With them come the configurations that model-check them with TLC,
and theorems about them that TLAPS proves. Paths below are relative to `src/crates/`; line numbers of
every definition are in `PROJECT.json` under `map`.

## The system

A reader is driven by one thread, the *device actor*. The D-Bus object of the
reader runs on a multi-threaded runtime, serves method calls concurrently, and
talks to the actor through channels only.

| component | state it keeps | operations | talks to |
|---|---|---|---|
| device actor (`fprintd/src/actor.rs`, `command.rs`) | the reader (`dev`), two bounded channels | Open, Close, Enroll, Verify, Identify, ListPrints, DeletePrint, ClearStorage; Suspend, Resume | its backend (calls), its callers (one reply and one cancel channel per command) |
| device object (`fprintd/src/device.rs`) | the session `claim`, the slot `active`, `finger_status`, `info` | Claim, Release, the starts and stops, the deletions, listings, properties | the actor, the store, polkit, the bus |
| name watcher (`device.rs`) | one task per session | tears the session down when its client leaves the bus | shares `claim` and `active` |
| pumps (`device.rs`) | one task per operation | drive one enroll or verify, publish status, save the print | the actor, the interface lock |
| sleep integration (`sleep.rs`) | the logind inhibitor | suspend and resume all readers | the actors' priority channels |
| print store (`storage.rs`) | files | save, load, list, delete | the file system |
| authorizer (`authorizer.rs`) | none | ask polkit | the bus |
| libfprint backend (`fprint-backend-libfprint`) | worker thread, job channel, cancellables | the reader's operations through FFI | the actor |
| native backend (`fprint-backend-native`) | virtual, image and USB readers, on-sensor store | the reader's operations | the actor |
| FP3 (`fprint-fp3`) | none | encode and decode a print | the store, both backends |
| USB readers (`fprint-backend-native`, `usb/`) | the open flag; a capture's header while one runs | the device's operations as USB transfers | the actor, the sensor |
| driver kit (`fprint-driverkit`) | the tape while it records | record, import, replay | the USB transport, a monitor of the bus |
| image maps (`fprint-mindtct/src/maps.rs`) | the direction map while one runs | directions, pruning, smoothing, interpolation | detection |
| minutiae detection (`fprint-mindtct`) | the binary image and the list while one runs | binarize, scan, trace, erase loops, prune, count ridges | the pipeline |
| matcher (`fprint-bozorth3`) | the clustering's work arrays while one runs | grow paths, try alternatives, cluster, score | the pipeline |
| pipeline (`fprint-pipeline`) | none | image to minutiae to score | the native backend |
| command line, integration, test kit | none of the daemon's | clients and tooling | the bus |

What is hard about it is the middle of the table. zbus dispatches `&self` methods of
one object concurrently; the session, the slot and the reader are three pieces of
state under three different owners, kept in step by the order of the steps alone;
the client may leave at any time; an operation may wait for a finger for ever and
must give way to a cancel or to a system suspend; and a pump needs the lock of the
interface whose methods wait for the pump. Below it, prints are files that a crash may
cut short, and slots on a sensor that no transaction joins to those files. The two
algorithms are sequential, but they edit the arrays they walk, and what they leave
behind in them is met again later.

What makes the parts correct:

* actor: each command is served exactly once; a suspend is always answered.
* device object: no running operation is out of reach of a stop; a session is watched
  while its client is there; the finger status is clear between operations. For clients
  that await their replies and stay until they have them, an operation works for the
  session in force, the reader is open exactly while a session holds it, and nobody
  but its owner ends a session.
* whole: a claim whose watcher listens ends when its client leaves; a stopped
  operation ends; method calls return.
* store: each call takes effect whole at one moment, over crashes too.
* reconciliation: neither a slot nor a record that is still backed is lost, and no
  other user's.
* sleep and libfprint worker: a sleep proceeds in time and with the old operations
  off; a cancel stays with its job; reports arrive once and in order; a dropped handle frees
  the reader.
* USB readers: a frame is made of one shot and answers its own capture, whatever was cut
  short before; an open device's sensor is armed; a recording replays, and an import
  of the bus trace agrees with it.
* signals: each operation that is not stopped ends with one true verdict, after which nothing is
  said of it but which finger was selected; no stage of an enrolment is told twice.
* minutiae detection: the direction map settles; what is scanned is what was binarized; no minutia is lost but for its like; what survives stands on an
  edge of the image as it is then; in an image no taller than wide, neighbours are the nearest; every loop ends.
* matcher: a path pairs each minutia once; nothing leaks from seed to seed; the score
  is that of the best agreeing clusters.

`PROJECT.json` lists the hazards at their lines, with the properties that would catch
each, or a note on why none does.

## Modules

**`DeviceActor`** is `run_actor`. A caller names its command, because whoever holds a
reply channel has at most one command outstanding. `rx` and `prio` are the channels as
sequences of callers; `stage[c]` says where the command of `c` is (with its caller,
queued, being served, answered), `cancelled` and `deaf` are the two ways in which a caller can
let go of a command: dropping the cancel sender, dropping the reply receiver. `dev` is
the `Option<Device>` of the loop with the open flag of the device in it. Each arm of
the `select!`s and of the `match` is an action: `TakePrio` and `TakeCmd` (the biased
idle `select!`), `RefuseCmd` (no open reader), `FinishStream`, `CancelStream` and
`Preempt` (the three branches of an operation's `select!`), `FinishOpen`, `FinishClose`,
`FinishUnary`, `FinishPrio`. What a reader operation computes is abstracted to its class
of outcome: ok, retry, failed, cancelled, refused. The actions of the callers are
written as parts (`Submit`, `EndCalls`, `DropCancels`), which `Device` uses for its own
steps and `Environment` for the most general use of a handle.

**`Device`** extends it with `device.rs`. A *task* is a method handler in flight, a
*watcher* the task of `spawn_name_watcher`, a *pump* the task of `run_enroll` or
`run_verify`. Handlers and watchers are state machines over `pc` with their locals in
`loc`; a step is what the code does between two awaits, split where it takes two
locks one after the other.

| code | actions |
|---|---|
| `claim` | `CallClaim`, `AuthorizeClaim`, `SpawnWatcher`, `StoreClaim` or `RefuseClaim`, `SendOpen`, `ClaimOpened` or `ClaimFailed` |
| `release`, `teardown` | `CallClaimed`, `TakeActive`, `SendClose`, `ClearClaim` |
| `spawn_name_watcher` | `NameVanished`, then `teardown`; `AbortLands` for an abort that hits a task not at rest |
| `Session::drop` | `AbortAndReturn` |
| `verify_start`, `enroll_start`, `begin_op` | `CallClaimed`, `RefuseStart`, or `FindPrint` (of a verify) and then `BeginOp` |
| `verify_stop`, `enroll_stop`, `stop_active` | `CallClaimed`, `StopActive` |
| the three deletions | `CallDeleteUnclaimed` or `CallClaimed`, `DeleteRecords` |
| `verify_loop`, `identify_loop`, `run_enroll` | `PumpSend`, `PumpReport`, `PumpStopped`, `PumpReply`, `PumpEnd` |
| `publish_finger_status` | `Publish`, then `Published` once the lock is there |
| the interface lock of the object server | `WriterWaiting` in `Dispatch`, `ReadersGone` in `Published` |
| the reader's status callback | `SensorReports` |
| the bus | `Vanish` |
| logind | `Logind` |

Abstractions of `Device`: the reader is a host-image one, so Claim does not reconcile
and deletions do not reach the sensor (`MocReconcile` has both); a user's records are
present or absent; Verify and Identify take the same steps and are one kind; a pump's
status channel holds one report (a full channel drops reports in the code too); the signals
are `StatusSignals`'; a call that is refused before its first await changes nothing and is
left out.

**`ReaderService`** is what `Device` promises to clients that await their replies and stay on the bus until
they have them: a session of one client and one user or none (`session`), the reader open or shut, operations that serve the session until
they are told to stop and then leave (`ops`), the finger's state, who has prints, and the calls in
flight. Each step is asked for by the client it concerns or follows from that client's leaving, which it does
between calls only: only an
owner's call or its departure ends a session, only the session's user gets a print, a session ends after
its operation was told to stop and the reader shut. `ServesItsClients` is the refinement: `claim`
is the session, a pump is an operation, the actor and its queues are the reader, and the watchers, the
places between two awaits and the actor's channels are inside.

**`StatusSignals`** is what a client is told (`device.rs` and `status.rs`). A start spawns a pump
and, for a verify, tells the selected finger afterwards (`TellSelected`); the pump sends its command
(`PumpSend`), the actor reports to it through a channel of `Cap` places that drops what it has no
room for, and answers; and the pump picks among a report, a stop and the reply at random, and says
statuses of which the one marked done is the verdict. A retry of a verify sends the command again. The actor
may go away with the commands it has (`Lost`); a pump whose reply channel closes ends without a status
(`PumpUnanswered`). The client is *patient*, and awaits the replies of its starts and a verdict before it stops, or hasty, and does
neither. The reader may miscount, and answer with an index beyond the gallery.

**`PrintStore`** states what the store promises: a map from a user's finger on a reader
to one whole print, calls that take effect in one step or fail without one, and crashes
that fall back to an earlier point. **`Store`** is `storage.rs` as system calls: a key is a
path, beside each print its temp file, a file is two chunks so that it can be half
written and half read. `Climb`, `MakeDir`, `CreateTemp`, `Write`, `Sync`, `Rename` and, on
an error, `RemoveTemp` are `save`; `OpenPrint`, `ReadFirst`, `ReadRest` are `load`; `OpenDir`, `ListFinger` and
`EndList` are a listing, which reads its directory entry by entry while others add and remove names; `Unlink`, then
`Prune` while `Removable`, are `delete`; any call may also `GiveUp` at a failing system
call. A load or a listing that fails answers as if there were nothing (`FailsAsAsked`), as the
code does. The file system is external: names change atomically and reach the disk in order
(`Commit`, a journal), contents in any order unless synced (`WriteBack`), and `Crash`
keeps what is on the disk. `Linearizable` is the refinement `Store` implements
`PrintStore`, under a mapping that takes the effect at the rename or the unlink.

**`VirtualReader`** is the match-on-chip sensor of the native backend: open and close,
the settling of its features, an enrolment stage by stage with its checks before the
first touch and its commit after the last, deletion of the oldest slot with a template,
the wipe. **`MocReconcile`** puts `device.rs` over it: `Claim`, `Compare`, `DropRecord` and
`FreeSlot` reconcile; `DeleteOne` and `DeleteAll` read a template (`Load`), drop the record
(`Unhost`) and then the slot; `DeleteUnclaimed` drops records only; the enroll pump saves
when it sees the reply (`PumpSaved`) or throws the print away for a stop that came as
well (`PumpStopped`). Each store or sensor call may fail. Clients that leave are
`Teardown` at any moment. The actor is its queue: one command at a time, in order.

**`LibfprintShim`** is the libfprint backend: the handle and its futures
(`Start`, `Drain`, `CheckReply`, `LastDrain`, `AwaitReply`, `DropCall`, `DropHandle`, `Join`), the
worker thread (`TakeJob`, `Report`, `FinishStream`, `FinishCall`, `CancelCall`, `EndWorker`). A
*token* is a job with its cancellable and channels. **`SleepCycle`** composes it with
`sleep.rs` and logind for several readers: of an actor it keeps what a suspend
meets, one command at a time, suspends and resumes first, and an operation that gives way
(`DeviceActor` has its channels and callers). The daemon may start at any moment of a
sleep, the monitor may fail to get or to keep the lock, and logind may time out.

**`BozorthCluster`** is `cluster.rs` from the sorted compatibility table on. `walk` holds
the work arrays. `NextSeed` and `StartPath` begin a path, `Grow` takes the rows of its next endpoint
and `SiftRow` sifts them one by one, with the alternatives of a conflict put down in groups; `Settle` prunes the rows turned against the path's mean rotation and
makes a cluster; `Turn` tears the path down and `Advance` is the odometer over the groups;
`EndSeed` cleans up; `Root`, `Descend` and `Leaf` are the search for the best set of agreeing
clusters. The rows' rotations are modelled, since pruning and its roll-back depend
on them. Left open: whether two clusters agree in place and rotation.

**`ImageMaps`** is the direction map (`maps.rs`): the blocks with a direction, the pruning sweeps that
spiral outwards over the map as they change it, smoothing, the curvature and vorticity
flags, interpolation across blocks without a direction, and the blocks' cut at the image's
edge. **`Contour`** is the walk along the border of a feature and what is read from it: the scan of
a pixel's neighbours, contours to one or both sides, a loop's winding by chain codes, its
widest and narrowest span, and its erasure row by row. **`Minutiae`** extends it to
`detect_minutiae_v2` and `remove_false_minutia_v2`: the scans (`ScanHorizontally`,
`ScanVertically`, one round of the loop a step), which may erase loops as they go, the
two versions of the list's update, and the ten removal stages, each walking the list as its
code does (forwards, backwards, or over pairs with flags). Left open, as
nondeterministic choices: whether an overlap's join is shallow and its path free, how a
feature spreads behind a point (malformations), the shape of a pore, and which of its contour's
points a side minutia is moved to. Reliability is left out: it decides nothing.
**`RidgeCounts`** extends that to the final order of the list, the neighbours of each minutia and
the count of ridges between them, and **`Detection`** composes it with `ImageMaps`: from the
blocks' measurements through the map and the binary image to the counted list. Whether a block has
contrast and power, and how dark the image is along a direction, are inputs.

**`UsbReader`** is a host-image reader on USB (`image_device.rs`, `usb/source.rs`): each
operation of the device is a program of transfers, and a transfer is submitted, and completes, is
refused, fails, or is cancelled with the future that awaits it (`Submit`, `Complete`, `Refuse`,
`TransferFails`, `Abandon`, `Die`). The sensor is external: it answers a capture
with a header and pixels when it is touched, and may or may not keep what nobody read when the next
capture is commanded. **`Cassette`** puts the driver kit over it: `fpdev record` drives the same
source and tapes its transfers, a monitor of the bus sees the submissions and completions
of the sensor and of other devices, `fpdev import` makes a session of that trace
(`Assembled`, `Session`), and `fpdev replay` hands a session's reads back (`Replay`).
The import keeps the descriptors that other programs read from the sensor; the replay hands back bulk reads only, so
`ImportAgrees` leaves those out (`Ours`) and nothing else.

The **`MC*`** modules give the constants their values. The theorems are in **`DeviceProofs`**
(with those of the actor), **`SignalsProofs`**, **`StoreProofs`**, **`MocProofs`**,
**`SleepProofs`**, **`BozorthProofs`**, **`DetectionProofs`** and **`CassetteProofs`**.

## Runs

| run | configuration | question |
|---|---|---|
| `actor` | `MCDeviceActor.cfg` | The actor against any permitted callers: two callers and two suspenders on channels of capacity one, one command of each shape. |
| `polite` | `DevicePolite.cfg` | Two clients that await each reply and leave between calls, two handlers, two watchers, two pumps, all methods but the deletions, finger reports: the refinement of `ReaderService`, and who listens for a session's client. |
| `race` | `DeviceRace.cfg` | One client that sends calls without awaiting replies and may leave mid-call, two handlers, two pumps, claim, release and verify; is every operation in reach of a stop, and the finger clear between operations? |
| `live` | `DeviceLive.cfg` | Liveness: one client that may leave in the middle of any call, a suspend/resume caller, finger reports, all methods, and nobody touching the sensor. |
| `signals` | `Signals.cfg` | What clients, patient or hasty, are told of two operations through report channels that fill up. |
| `store` | `Store.cfg` | Two threads whose calls overlap in their directories, failing system calls, crashes; the refinement of `PrintStore`. |
| `moc` | `Moc.cfg` | Two users, two fingers, another system's print, four sensors from one with every storage feature to one without any, from any records and slots. |
| `sleep` | `Sleep.cfg` | Sleeps, the lock, two readers and their workers; safety and liveness, nobody touching the sensor. |
| `match` | `Bozorth.cfg` | The clustering on all small tables. |
| `detect` | `Detection.cfg` | Detection from the blocks of an image to ridge counts, on flows with changed blocks and on pictures with dabs added or taken away. |
| `bringup` | `Cassette.cfg` | A USB reader under the daemon's operations and under a recording that a bus monitor watches. |
| `release_hang` | `DeviceReleaseHang.cfg` | What the code does against what it says; see below. |

Bounds.

* Device runs: two of everything that competes is enough for each race here: two handlers
  race for the slot, two clients for the claim, two pumps overlap, a watcher of a session
  races a Release or the watcher of a refused Claim. `actor` keeps both channels at
  capacity one, so that they fill while the actor is busy. In the device runs the command
  channel has as many places as there are callers (the code's sixteen exceed them by far),
  so it never fills there; the full channel is the business of `actor`. `race` leaves out the
  second client, the deletions and enrolment to stay finite in time. `polite` has two clients and
  enrolments, `live` the deletions too; `polite` reaches 921 884 states.
  Symmetry is used in runs without liveness only. The device runs do not check
  deadlock, because all clients may leave and nothing is then left to do; `actor` does.
* `signals`: two operations, of any of the three kinds, so that a new one overlaps an old one that was told to stop; a
  gallery of one finger and one of two, so that an index is right, wrong or out of range; two stages, so that
  one is not the last; channels of two places and three reports, so that they overflow; two commands of a verify,
  so that it is tried again. Symmetric in the operations. The view forgets what can matter no more: of a pump past its last word, whose command the
  reader answers to nobody, all but whether it ended, was stopped and gave a verdict; of what the others
  told, the retries and the selected finger, which no property mentions; and which stage was heard of last, which nothing reads
  (1.25 million states instead of 8.95). All may end, so deadlock is not checked.
* `store`: two keys of one user on two readers of one driver, so that deleting one
  print prunes up to the directory that holds the other's (the driver's level is left out of the paths); three inodes, enough for both prints
  and a temp file; one worker saves and lists the first key while the other saves, loads
  and deletes. `Exclusive` keeps saves of one key apart (see the disagreements below).
  Symmetry is over the inodes, and the view forgets what a free inode held: `CreateTemp`
  empties it.
* `moc`: capacity two fills with two enrolments, so that the third is refused; two stages
  have one touch that is not the last; two handlers overlap a call with a departure. One
  template stands for one print: two enrolments of one finger by different users have
  different ones. `Lingering = FALSE` lets a Claim come only when the earlier session's tasks
  have ended; the other case is covered by `MocSafe` and `MocOthersKept`, which are proved without it. One of the
  sensors takes a finger a second time, so that slots alike occur; one refuses it and can be listed and wiped
  only, and one has no storage. A sensor with every feature does nothing that the first does not: it refuses more, which
  any sensor may do (`ServeFails`), and is not wiped, since single slots can be deleted. Symmetric in the handlers;
  the view forgets the print of the last deletion where the next is about to be loaded (1.35 million states).
* `sleep`: one reader used in every way beside one that is only opened, two tokens (a job
  that is abandoned and the next one), two reports of an operation, one signal waiting
  for the monitor. Which free token a job takes makes no difference and is fixed.
* `match`: every table of up to four rows over three minutiae a side, in the order of the
  sort (ties broken one way), with the rows of the gallery either way round; of those up to three
  rows also with one row turned by 30 degrees or across the half circle; and one table of four parts
  that share no minutia, where agreeing clusters form chains of four. The paths' and
  scores' minima, two groups, a queue of three rows and four clusters are small enough for
  each limit to be met. Prints of fewer than ten minutiae, which the code scores zero, are
  left out.
* `detect`: images of sixteen by sixteen pixels in blocks of three, so that the last block of a row or
  column is cut to one pixel, with four directions. The maps are tested on four flows (even, with a
  cross of no flow, with a fault, and turning about the centre) with any two of their middle blocks
  changed; the scan and the removal on two ridges, a ring, a cup, three broken ridges and a
  notched patch, each with two dabs added or taken away. The lengths and distances are the code's
  scaled to that size. Loops are erased in both scans and by the pairing of islands, both
  outcomes of a loop occur, twins replace each other, hooks and overlaps are flagged, and two or more
  minutiae survive to be neighbours. The images are square, and `NeighboursNearest` speaks of images no taller than
  wide only (`ByColumns`; see the disagreements). That the detection ends is stated by a measure that falls
  in every step (`EveryStepAdvances`), since liveness over as many behaviours is slow to check and says no more.
* `bringup`: an enrolment of two stages, recordings of two frames, up to three captures between two
  resets; pixels in units, with a header of two, at most eight pixels and at least three. The sensor's shots are
  a frame, one too small to measure and as long as a header, one that claims no pixels (an empty frame,
  which `proto.rs` accepts), one whose pixels come in two chunks, and one that claims too much: each is met behind a capture that was cut short. The monitor sees one
  foreign transfer (two make 3.5 million states and nothing new).

Two constants limit the clients of `Device`. `Awaits`: a client has one call at a time on its way, as
libraries and `pam_fprintd` do. `Stays`: a client leaves the bus only when no call of its is in flight; the bus knows
no such limit, and a client that dies in the middle of a call breaks it. Only `ServesItsClients` (run `polite` and
theorem `DeviceServesItsClients`) needs them, and it needs both: nothing is claimed of a reader whose clients break them
but the properties of `actor`, `race` and `live` and `SessionWatched`, which is proved without them. The runs `race` and
`live` have clients that leave in mid-call. Without `Stays` TLC finds for a client that awaits its replies:

* It leaves between the storing of its session and the Open (`device.rs:452`, `:459`). Its watcher's Close may
  be served first, and the Open then leaves the reader open without a session. Later Claims fail until a Close is sent.
* It leaves while the Open is served, the watcher ends its session, another client claims, and the failure of the first
  Open clears the other's session (`device.rs:478`).
* It leaves between the claim check of a start and the start (`device.rs:599`): the operation begins behind the watcher's
  stop and holds up its Close (`LateStart`).

A client that pipelines (no `Awaits`) does the same to itself: a Release may send its Close before the Open of its own
Claim, and a start may be checked before its own Release.

Fairness of `Device`'s `FairSpec`: every handler, watcher and pump keeps running (tokio
schedules ready tasks), the actor keeps running and calls into the reader return, except
that an operation waits for a finger for ever (there is no fairness for `FinishStream`). A
pump's `select!` is not biased and picks among ready branches at random, so a
stop signal that stays ready is taken eventually: strong fairness of `PumpStopped`. The
idle `select!` of the actor is biased towards suspends, which are finitely many in any
finite time of logind's: strong fairness of `TakeCmd`. Clients are never made to call or
leave. Of `SleepCycle`'s: the actors' threads, the workers' threads and the monitor's task
keep running, and libfprint's calls return, again without a finger. `BozorthCluster` is a
sequential program that keeps running.

The violation, with the sentence of the code it contradicts (`device.rs:490`: "stop any operation, close the
sensor, drop the session"):

* `release_hang`. A Release and a pump that publishes a finger status wait for each
  other. Release holds the interface for reading until the reader answers Close; Close
  waits behind the operation; the pump waits for the interface and meanwhile neither
  sees its stop nor drops its cancel sender. A touch of the sensor resolves it. The
  properties of `live` name this state (`HeldUp`) as an exception, the only one for calls and stopped
  pumps; `VanishedClaimFreed` has `LateStart` besides.

Disagreements no run is kept for:

* `device.rs:48` and `tests/dbus_claim_lifetime.rs:5` have no claim outlive its client. One does for good when the client
  leaves after polkit was asked and before the match rule of its watcher is in place (`device.rs:163`), or when its watcher
  has been through its teardown before the session is stored (`device.rs:452`). `VanishedClaimFreed` therefore speaks of
  claims whose watcher listens.
* `teardown` is to leave the reader closed and the slot empty (`device.rs:177`). When the client leaves in the middle of
  its Claim or of a start, the reader may stay open without a session, the Claim's late failure may end another's
  session, and an operation may start behind the teardown (see `Stays` above).
* With `Exclusive = FALSE`, `Store` violates `NeverTorn`: the
  temp file's name is made from the finger alone (`storage.rs:67`), so of two overlapping
  saves of one finger the first to rename publishes a file the second has truncated.
* A stop empties the slot at once, so a new start does not wait for a pump that is still ending,
  as `device.rs:21` has it. The theorem of `NoOrphanPump` and `EveryStreamStoppable` show that the
  overlap is benign for control, since the old pump has been told to stop. It is not for what is told: a pump that was
  told to stop may have its verdict in hand, and tells it after the new start. `NewsIsCurrent` says that a
  client that awaits replies and verdicts does not meet this.
* With `Lingering = TRUE`, `RecordedSlotKept` fails in TLC: an enroll pump that a teardown told to stop may still
  save its record, while the next Claim compares records and slots: the slot is freed after its
  record is there.
* `usb/source.rs:13` and `image_device.rs:16` have an operation given up at one poll boundary for each
  capture. Under nusb every transfer is one: a capture that is cut leaves data behind,
  and on a sensor that keeps it later frames answer the capture before theirs until a reset.
* `fpdev replay` panics in `measure` on frames too small for detection, which `fpdev record` accepts.
* `fpdev import` does not look at a URB's status, so a read that failed or was cancelled becomes an
  empty read of the session.
* `ridges.rs:35` has the list's key `x*iw + y` make "X the primary key", and `ridges.rs:159` builds the search for
  neighbours on it ("the X-distance is a monotone lower bound"). Both hold while no `y` reaches the width. With an image
  taller than wide (24 by 54 pixels, three ridges that break off) TLC finds `NeighboursNearest` violated without its condition `ByColumns`: the columns mix
  in the list, and the search stops at a distance across that a minutia further on undercuts. The order is NBIS's.
* Vorticity is signed and compared with a positive limit, so a delta is never flagged by it,
  though `maps.rs:1112` says "near cores/deltas"; interpolation averages directions as numbers, not
  as angles; both as in the original NBIS code.
* A block cut at the right or bottom edge is flushed over the block before it in the pixel map, while
  the binarizer counts blocks from the left. `ScannedAsBinarized` holds because the outermost
  blocks are invalid in the map.

What the models also showed, without a sentence to set it against:

* `VerifyFingerSelected` is emitted after the pump was spawned, so it may follow the verdict; `VerdictLast` exempts it and
  nothing else.
* The reply may overtake reports that still wait in the channel, which the pump then never reads, and a full channel drops
  reports: a client may count fewer stages than the sensor, never more (`StagesTold`).
* What `fprintd/tests/dbus_result_confusion.rs:14` and `:20` leave untested holds: an index out of range is no match
  (`VerdictTrue`), and a retry never ends a verify (`VerdictLast`).
* Reconciliation compares fingers, not templates: the slot of a finger that was enrolled
  again stays on the sensor beside the new one, and no claim frees it while the finger is recorded.
* `fill_loop`'s cursor stays behind the pixels it has just filled, so a loop with gaps inside it is not
  wholly erased, as in the original NBIS code.
* Two erasures in a row can flip a listed minutia's pixel and its edge both. It then survives
  with a kind that is not its pixel's colour, unless a pairing stage meets it. `SurvivorsOnEdges`
  therefore says that the two colours differ, not which is which.
* A group of alternatives at the gallery end of a seed lets the odometer give that end away, and
  the seed's rows join the path all the same; `PathConsistent` exempts that pair and no other. Pruned rows keep their stamp, and the number is used again.

## Proofs

All theorems are of the full next-state relation and for all values of the constants that
satisfy the modules' named assumptions. Some hold under a hypothesis that stands in their statement, each of
which the code or the hardware can break or keep:

| hypothesis | what it says | theorems |
|---|---|---|
| `Polite` (`Awaits` and `Stays`) | A client has one call at a time on its way, and leaves the bus only when it has none. | `DeviceServesItsClients` |
| `Exclusive` | Saves of one key do not overlap (see the disagreements above). | `StoreSafe`, `StoreNeverTorn`, `StoreLinearizable` |
| `~Lingering` | A Claim comes when the earlier session's tasks have ended. | `MocSerial` and the three after it |
| `TemplatesTellPrints` | A template on the sensor belongs to one print. | `MocProofs` |
| `ShotsHavePixels` | The sensor sends pixels behind every header. | `CassetteProofs` |

The invariants below were checked by TLC on the runs' instances before they were proved.

`DeviceProofs`, the actor. The inductive invariant `ActorInv` is the type invariant with
`ExactlyOnce`; neither is inductive alone, since serving a command needs the queue to
hold only waiting ones. Lemmas about the two queue moves (`QueueJoined`,
`QueueTaken`, `QueueKept`) carry the argument that a queue holds exactly its waiting
commands once each. Results: `ActorTyped`, `ActorServesExactlyOnce`.

`DeviceProofs`, the device. `DeviceUsesActor` proves `Spec => ActorSpec`: every step of the composed
system is a step of the actor, of its general environment, or leaves the actor's
variables alone. With it, what is proved of the actor holds of the whole
(`DeviceServesExactlyOnce`). For the rest the invariant `DeviceInv` strengthens the
properties by what a step relies on:

* `Locals`: what each place of a handler or watcher says of its locals and its command;
* `PumpStreams`: a pump's command is a streaming one that its life and its cancel
  sender account for, so a finished pump has let go of its command;
* `FingerOwned`: if the finger status is on, some pump is still going to clear it.

Results: `DeviceTyped`, `DeviceNoOrphanPump`, `DeviceEveryStreamStoppable`,
`DeviceFingerQuiet`. `NoOrphanPump` and `PumpStreams` give `EveryStreamStoppable`; `FingerOwned` is
needed because overlapping pumps write one status.

`DeviceProofs`, the watchers. A Claim spawns its watcher before it asks for the session, so several watchers may listen at
once. `Listening` says that the session's watcher and those of the Claims about to store theirs listen, each for its own
client while that is there, and that no two are the same; so the refused Claims drop their own. Result, for any clients:
`DeviceSessionWatched`.

`DeviceProofs`, the sessions, for `Polite` clients. `SessionInv` adds to `DeviceInv` what the refinement needs:

* `OneCall`, `Places`, `Holding`, `Watched` (together `Roles`): a client has one handler at most, and none when it
  is gone; and what each handler and each watcher does is agreed with the claim: who may end it, whose watcher guards it;
* `Quiet`: while no handler or watcher is at work the actor has neither an Open nor a Close to serve;
* `Commands`, `Reader`: of the Opens and Closes on their way the last decides what the reader will be,
  and that is what the claim wants, across suspends;
* `LiveOpHasSession`: an operation not yet told to stop works for the user of the session.

Result: the refinement `DeviceServesItsClients`: every step of `Device` is one of `ReaderService`'s or a stutter.
It takes `SessionInv` and two facts more (`ServiceInv`): a handler at rest works for nobody (`AtRest`), and a client
whose handler is stopping an operation still owns the session (`StopsHeld`).

`SignalsProofs`. `SignalsInv` is inductive (`SignalsSafe`) for any operations, galleries, stages, tries and
places of a channel. Of each pump: its command is on its way at most once and not answered there
(`Commanded`); the status marked done comes last of what it has to say and ends it (`Outspoken`); a status that belongs
to a verdict is so and stays so (`Truthful`); the stages told lag behind those heard of, these behind those in
the channel and these behind those done, and not at all while the channel has had room
(`Counted`, over `Chain` and `Tight`, which `ChainGrows` and `ChainShrinks` carry through the two ends of the
channel). Of the whole: the slot has the latest operation or none, and of a patient client's operations the
earlier ones have had their say (`Serial`); at most one status is marked done (`Concluded`). Results:
`SignalsVerdictLast`, `SignalsVerdictTrue`, `SignalsStagesTold`, `SignalsNewsIsCurrent`.

`StoreProofs`. `StoreInv` is the inductive invariant of the store (`StoreSafe`): a file has one
name, live or temp, in memory and on the disk; what is live is whole and, once synced, whole on the disk; each worker's
descriptor and progress agree with its place. It needs `Exclusive`, that saves of one key do not overlap.
From it follow `StoreNeverTorn` and the refinement `StoreLinearizable`: private steps (a temp file, a
directory, a read) map to stutters of `PrintStore`, the rename and the unlink to its
effects, a commit of the journal to its commit and a crash to its crash.

`MocProofs`. `MocInv` holds however sessions overlap (`MocSafe`): a handler asks only for slots of its user, and only
where it waits for the answer. It gives `MocOthersKept`. `SerialInv` adds what `~Lingering` buys
(`MocSerial`; with lingering tasks `RecordedSlotKept` is false, see the disagreements): one handler works for a session (`OneActs`), no pump works while it reconciles
(`PumpsGone`), and what the handler has compared stays true until it acts (`Fresh`). It gives
`MocRecordedSlotKept` and `MocBackedRecordKept`. `MocReconcileComplete` needs the progress of the sweep
besides (`Progress`): records without a slot are still to be dropped, and what is left of the listing is what the
sensor has after the slots gone through, none of which is an orphan but the one that the reader is about to
free (`Walked`). A reader asked to free one of several slots alike takes the oldest, which is the one the
claim has come to because the earlier ones are gone.
That a sensor takes the oldest slot with a template is reasoned about with the least-number principle (`LeastPosition`),
which follows from the library's well-foundedness of finite sets.

`SleepProofs`. `SleepInv` is inductive (`SleepSafe`), for any readers, tokens and limits on reports. It has
four parts. `ShimInv` is about one reader's backend: the cancellable of an awaited call has not been fired, nor
the call answered as cancelled (`Awaited`); the call awaited is the last job in the channel or in the
worker's hands, and once it is answered nothing is left behind it (`Youngest`); a worker lives as long as
the handle and ends when told (`Tended`). `SleepTypeOK` is the type invariant. `Places` says that where an actor is
agrees with its handle, and that a command that has returned leaves the worker with nothing. `OldOff` says that a
reader that has answered the suspend has none of the operations from before it. Results: `SleepTyped`,
`SleepCancelKept`, `SleepReaderFreed`, `SleepReportsDelivered`, `SleepOldOperationsGone`.

`CassetteProofs`. `ReaderInv` and `FreshPipe` are inductive together (`CassetteSafe`). `ReaderInv`: each
operation is at a place of its program (`Programmed`), an open device is armed, and in the pipe of the sensor a
header is followed by pixels of its own shot (`WholePipe`), whatever was abandoned, refused or lost.
`FreshPipe`: while every capture since the last reset went to its end, the pipe holds no header but the one
asked for. Results: `CassetteFrameWhole`, `CassetteArmedWhileOpen`, `CassetteFresh`. `CassetteReplays` needs what the
tape says besides (`TapeInv`): while a recording goes on, the reads on the tape are the header and the pixels of each frame
in their order, with the header of the frame under way behind them, and a saved cassette is such a tape, complete.
The reads of a tape are numbered by counting the places before them (`Place`, `Nth`), so that a transfer
more on the tape is one step of the proof (`OneMorePlace`) and no recursion over the tape is needed.
`CassetteImports` compares that tape with what the import makes of the monitor's trace. `Assembled` is a recursive function
over the events; that a function as it defines is there, and there once (`FoldsExist`, `FoldsAgree`), follows by the least
event at which it would fail, so an event more is one `Fold` more (`AssembledGrows`). `TraceInv` says what the
assembled trace has (`Traced`): waiting is the control read of others that is under way and nothing else, and not under the
id of the sensor's transfer; the transfers at the sensor's place, without what others asked of it, are the tape and the
write under way, and once the recording is over the tape and one transfer more at most, none if it was saved.

`BozorthProofs`. `ClusterInv` says at each place of the loop what may be paired (`ClusterIsOwed`). The two arrays of
pairings are each other's inverse (`Mutual`). While a path grows, whatever is paired is the seed's near end, was set by
one of the groups that the odometer had set, or is in the queue (`Growing`); the rows of the path, and the rows still
to be sifted, rest on pairings that are there (`Known`), and a sift undoes none (`SiftKeeps`). The teardown frees the
endpoints of the queue and of the set groups, so that between two settings of the odometer the seed alone is paired
(`Standing`). The odometer sets groups of which no two contradict each other (`AllSetFields`), so the arrays stay
inverse. Results: `PathIsConsistent`, `SeedsStartClean`. Sifting row by row, instead of all rows of an endpoint in one step,
makes this an induction over steps.

The search for the score has an invariant of its own, `SearchInv` (`SearchIsInOrder`). A cluster agrees with itself and
with later ones only, and its total is the rows of all it agrees with (`Clustered`). The candidates of a level agree with
its head and were left at every level above, and what is left of a level is the end of it (`Nested`). Whatever clique
begins before the root has been beaten by the score; one that begins at the root has been beaten, or is *ahead* at some depth: it
has the heads down to there and otherwise only what is left there (`AheadAt`). To descend passes a clique with the next
candidate to the new level and leaves the others where they are. At a leaf the shortcut of the code adds up a clique that has every
clique still ahead there (`LeafClique`), so none is lost with the candidate. A root that is passed over has too small a total for any
clique that begins there (`CliqueUnderTotal`). Result: `ScoreIsBest`. The number of rows of some clusters is
the size of the set of their rows by place (`RowsOf`), so that no sum has to be taken by recursion.

`DetectionProofs` is for images, blocks and maps of any size and any measurements. `DetectionAssumption` asks that blocks
and map are not empty and that the map is the smallest that covers the image, as `block_offsets` makes it.
`MapInv` (`MapInvariant`) is about the map at each stage: one entry per
block while it is swept, no direction left that `remove_incon_dirs` would remove where it is smoothed, none in the margin once that
is cleared. That a removal which removes nothing leaves nothing to remove (`SweptQuiet`) needs
its walk in squares about the centre to meet every block, also when the map is not square (`WalkCovers`). That the scan sees the flow
a pixel was binarized along needs that a pixel which another block paints lies in the margin (`PaintedInMargin`).
Results: `SettledWhenSmoothed`, `ScannedAlongItsFlow`.

`ListInv` and `EdgesInv` (`ListInvariant`) are about the list: its minutiae have places, the image keeps its pixels
whatever is erased, the index of each stage is within its reach (`Cursor`), and behind the index of the side stage every minutia is on an
edge in a block with a flow. What the scans and the adjusting stages put in comes from a traced contour, so the argument goes through
the trace (`WalkIs`: it keeps to the border of the colours it started on), the widest and the sharpest place of it, and the two sorts
by position (a stable sort takes every place once, by counting ranks: `KeyRanks`). Results: `EdgesSurvive` and
`StepsAdvance`, which is termination of the whole: each step goes to a later stage or shortens what is left of this one.
The recursive functions of the contour and of the walk are shown to exist by the least number at which they would fail.

Only model-checked:

* the liveness properties, since the prover has no rule for fairness here;
* `NeighboursNearest`: it compares a list that the code fills neighbour by neighbour with the order of the
  whole, by folds over the list; its claim on the nearest is conditioned on images no taller than wide (`ByColumns`);
* `ReplacedByItsLike`: a loop found by the scan updates the list twice, so a minutia may give way to
  one like it and that to a third; to be like is not transitive (each may turn a little), and what the
  two ends of a loop can be like is a matter of the contour's shape;
* `PrioAnswered`, that a suspend is answered: liveness of the actor.

Proved without being a property of a run: `TypeOK`, `ActorTypeOK`, `SleepTypeOK`, `NoOrphanPump`, `ReaderFreed`, `NeverTorn`, `ArmedWhileOpen` and the inductive invariants themselves.

## Not modelled

* Text and tables (`names.rs`, `status.rs`, `error.rs`), start-up, the properties and
  listings without effects: no state changes.
* polkit's own decision: a free choice in `Device`.
* The USB registers of particular sensors, and the FFI's conversions: input and output. `UsbReader` has the transfers of
  any such driver.
* The quality of minutiae, the pixel thresholds and the directional powers (DFT) of `fprint-mindtct`, the tables of
  stages 1 and 2 of the matcher: numerical functions of their inputs without state, checked in the repository
  against the original's output. Contrast and power of a block are inputs of `ImageMaps`.
* FP3 encoding and its dates: pure functions over bytes.
* The command line, the driver kit's shell, shipping and doctor, tests and build tasks: clients and tools.

## What is left

FP3's framing offsets and dates, as pure modules checked at their boundaries.
