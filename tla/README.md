# A TLA+ development for rstr

rstr relays files from one PC (the *sender*) to another (the *receiver*) through
a server both connect to over a WebSocket. This directory holds TLA+ modules of
its core, the TLC instances that check them, and TLAPS proofs. Everything is
translated from the Rust source; `PROJECT.json` maps each definition to the lines
it stands for.

## 1. The system

| Component | Source | State | Operations |
|---|---|---|---|
| Server task | `rstr_server/src/server.rs` (`handle_clients`, handlers) | table of clients by address (type, outgoing channel, cancellation token), index of published metadata | `ClientConnected`, `ClientDisconnected`, login, publish, remove, request metadata, request / transmit / stop chunk |
| Connection tasks | `server.rs` (`handle_connection`), `main.rs` | socket, receiving half of the outgoing channel | handshake, `incoming_task`, `outgoing_task`, the ends of the `select!` |
| Receiver client | `rstr_client/src/client.rs` (`Receiver`), `main.rs` (`logic`) | state, requested chunk (offset, running hash), index, `last_updated`, local files | log in, request / resume / stop a download, `process_message` |
| MetaIndex | `rstr_core/src/meta.rs` | entries (local path, received chunks, meta), saved to a file | add, replace, change local path, mark, remove, queries, save, load |
| Sender client | `client.rs` (`Sender`), `main.rs` | state, index, token of the running transfer | create and publish metadata, answer chunk requests, stop |
| Metadata creation | `meta.rs` (`create_for_file`) | none | cut a file into chunks, hash them |
| Messages | `rstr_core/src/message.rs` | none | payload types, bincode |
| Client event loop | `rstr_client/src/main.rs` (`logic`) | event channel, connection, which client it is | connect and retry, read task, dispatch of every event, end |
| GUI | `rstr_client/src/gui.rs`, `rstr_client/ui` | what the window shows: screen, status, files, download, upload queue, dialogs | clicks, dialogs, `process_gui_event` |
| Projected file system, binary reader/writer | `rstr_projfs`, `rstr_core/src/binary` | none | not called by the program |

**How they interact.** A connection task puts `ClientConnected`, every decoded
message and finally `ClientDisconnected` into the bounded channel `message_rx`.
The one server task takes them out in order and writes to the bounded outgoing
channel of a client, which that client's connection task drains into the socket.
A handler that returns an error cancels the connection of the client it served.
On the client a single event loop takes GUI events, decoded messages and the
messages to be sent from one channel; the handlers it calls send into that same
channel. The window lives in a thread of its own and hears of the loop through a second
channel.

**What is hard.**
- A client stays in the server's table after its connection has ended, until its
  `ClientDisconnected` has worked its way through `message_rx`. In that window
  handlers find a role occupied, or send to a channel nobody reads.
- A role must survive, or be freed after, any order of logins, failed logins,
  refusals, losses and reconnects, and the receiver is told about the sender by
  notifications that can be overtaken by all of these.
- A `TransmitChunk` names neither file nor offset. Blocks of a stopped transfer
  that are still on their way are written into whatever is requested next.
- Writes fail in the middle, the process dies between a write, a mark and a
  save, and the index file is rewritten in place.
- Unwraps in both event loops turn an unexpected state into the end of the task.
- A receiver hears of published files only while it is idle, and asks for them by
  time: what it missed must still look new at its next login.
- The window lags behind the loop: a button may be pressed for something that is over.

**What makes each part correct.**
- Server: at most one client per role; nothing is lost for lack of a table
  entry; `LoginSuccess` comes first; the receiver's view of the sender is right;
  a role is freed and a login answered.
- Receiver: what is marked as received is on disk; a finished file has its
  length; a pending request can always be looked up.
- MetaIndex: can be read after a crash; is a map although it is kept as a list.
- Sender and metadata creation: metadata tiles its file; a transfer sends exactly
  the chunk that was hashed; uploads and transfers end; what is listed is published.
- Receiver and server: the receiver gets to know what is published and keeps its
  progress.
- Receiver, relay and sender: the file that arrives is the file that was sent, block
  by block and in order, and a download ends.
- Event loop and window: the window shows what is, and the buttons it has are calls
  the loop accepts.

The hazards, each at its line and with the properties aimed at it, are listed in
`PROJECT.json`.

## 2. The modules

### Server.tla

| Variable | Code |
|---|---|
| `running` | has the task of `handle_clients` panicked? |
| `message_rx` | the channel of the same name |
| `clients` | `Server.clients`; `"None"` for an address not in the map |
| `index` | `Server.index` |
| `now` | the clock read for `meta_modified` |
| `conn` | a connection task: `none`, `open` (in its `select!`), `dropped` (after it, before `ClientDisconnected` is sent) |
| `cancelled` | the cancellation tokens |
| `outgoing` | the outgoing channels |
| `delivered` | history: what the peer of the connection has been told |

The connection task has one action for each place where it can move: `Accept`,
`Refuse`, `Incoming`, `IncomingPanics` (the unwrap of a send to a server task that
is gone), `Outgoing`, `PeerGone`, `Cancelled`, `OutgoingEnded`, `Disconnect`. One
turn of the server loop is the action `handle_clients`, whose disjuncts are the
handlers under their source names. A handler is atomic: the table and the index
belong to the one server task, and what other tasks do during its awaits (drain a
channel, end) commutes with it. A handler that writes to a full channel waits.
Peers are not modelled: they may send any payload of `PeerSends` and vanish at any time.

`Panic` ends the server task. Its table and channels go with it, and the
connection tasks, which tokio keeps, find their channels closed. `MetaIndex::save` unwraps
every access to the disk (`meta.rs:93-100`), so that a save that fails is a `Panic` in
`handle_publish_meta` and in `handle_remove_meta`, although the latter has an error for it.

Left out: loading the index at start-up, the TCP accept loop itself, and the
reuse of an address the server still knows (TCP does not reuse it that soon).
`Unsupported` stands for the five payloads that `handle_message` refuses alike.

### Receiver.tla

| Variable | Code |
|---|---|
| `state` | `Receiver.state`; `None` without a Receiver, `Crashed` after a panic or a kill |
| `requesting_chunk` | `Receiver.requesting_chunk`; the running hash is `hashed` |
| `index`, `last_updated` | the fields of those names |
| `logged_in`, `up` | the `LoggedInAsReceiver` and `SendMessage` events in the event channel |
| `files` | the local files |
| `torn` | the index file was cut off by a crash in `MetaIndex::save` |

There is one action per event of the receiver (`LogInAsReceiver`, `LoggedInAsReceiver`,
`FileRequested`, `FileResumed`, `DownloadStopped`, `SendMessage`), one per message
(`LoginSuccess`, `NotifyUpdated`, `TransmitMeta`, `TransmitChunk`), and `Crash` and
`Restart`. Each unwrap on the way of an event is a step to `Crashed`; a message in
a state that does not expect it is dropped, because the loop only logs the error.
`TransmitChunk` is the whole of `process_transmit_chunk`: set the length, write at
the current offset, sync, add to the hash, compare, mark, save, ask for the next
chunk. It may fail at every one of these points (`WriteError`, `DieInSave`).

Abstractions:
- A file is a sequence of blocks and the hash of a chunk is its contents, which
  says that XXH3 has no collisions.
- Metadata has the shape `create_for_file` gives it (`IsMeta`): the chunks are not
  empty, follow one another and end with the file.
- The events of the loop are kept in one queue per kind. The loop may therefore take them in
  orders the single channel excludes, so the model has more behaviours than the code.
- Whatever ends the client's connection ends its event loop; both are `Crash`.
- `NotifySenderStatus` and `StopChunk` reach the receiver without changing any of
  this state. Progress reports and a switch to Sender mode on a running client are
  left out; the list for the window is in Client.

### Download.tla

What the receiver promises its user, without messages, offsets or failures: one
variable `shelf` with the metadata and the copy of each file, and three steps. `Learn`
brings metadata (and empties the copies of its paths), `Choose` starts a copy anew, and
`Receive` appends the next chunk. Receiver implements it: `Promise == INSTANCE Download
WITH shelf <- Shelf`, where `Shelf` reads the copy off the index and the *local files*, and
the run checks `KeepsPromise`, that is `Promise!Spec`. This says more than the invariants: a crash, a
failed write, a late block or a login must each be a stutter, a chunk can only be
added at the end and at most one per step, and nothing but the user and new metadata
ever empties a copy.

### MetaIndex.tla

The operations of `MetaIndex` on the `Vec` the code keeps: searches from the front,
replacement in place, removal that shifts the rest. The other modules use a map from
paths to entries in its place. `IsIndex` (no two entries of one path) and `MetaByPath` are the
abstraction; MetaIndexProofs shows that each operation preserves the first and that list and
map answer alike.

### Sender.tla

| Variable | Code |
|---|---|
| `state`, `index` | the fields of `Sender`; `state` is `None` and `Crashed` as above |
| `token` | `sender_cancellation_token`, as the transfer it belongs to |
| `jobs` | the tasks `create_meta` and `create_multiple_meta` spawn: files left, and the locals of `create_for_file` |
| `tasks` | the tasks `process_request_chunk` spawns: the locals of their loop, and `sent` (history) |
| `events` | the `MetaCreated` and `SendMessage` events in the event channel |
| `files`, `torn` | as in Receiver |
| `published` | history: the paths whose entry was written to the socket as it is in the index (for `PublishedUnlessDead`) |

The event loop has the actions `LogInAsSender`, `UploadMeta`, `UploadMultipleMeta`,
`MetaCreated`, `SendMessage`, `LoginSuccess`, `process_request_chunk` and `StopChunk`.
A job moves by `Read`, `ReadEof`, `FileDone`, `OpenFails` and `ReadPanics`; a transfer by
`TransferReads` and `TransferSends` (the file may change between the two, while the
transfer waits for room), and ends by `TransferFinished`, `TransferCancelled` or
`TransferPanics`. The reader of `create_for_file` and the loop that hashes are one step:
the channel between them keeps the order and the loop only depends on what was read.
A cancelled transfer may still send: `select!` polls its branches in any order.

Somebody else may write to the files of `Changing` at any time (`FileChanged`), and a
read may return any number of blocks up to the buffer (`FillBuf`). A remote path is
the sequence of its segments, so that `normalize_path` and the joining of a directory and a
name are what they are in the code. The hash of the whole file, times and progress
reports are left out; so are the `TransferStarted`, `TransferStopped` and `TransferFinished`
events, which the code creates and never sends (the futures are not awaited).

### Sync.tla

Receiver, composed with the part of the server that keeps the published metadata and
with the connection between them.

| Variable | Code |
|---|---|
| (those of Receiver) | |
| `published` | `Server.index`, as the list of MetaIndex |
| `now` | the clock read for `meta_modified` |
| `inbox`, `outgoing` | messages on their way to the server and to the receiver |
| `link` | the connection: `none`, `open`, `receiver` once logged in |

`Client(A)` lifts a step of Receiver that needs no message; `ClientSends` and
`ClientReceives` join `SendMessage` and the message handlers to the network.
`ServerHandles`, `PublishMeta` and `RemoveMeta` are the handlers of the server. A process
that ends takes its connection with it, a refused login ends the connection, and
whatever was on its way to the server is lost. The clock (`Tick`) and publishing are independent:
two files, or two versions of one, may get the same timestamp, as they may in the code, where it is
the wall clock in milliseconds (`server.rs:369`). `news` counts the publications. A sender is connected all the time; blocks come from
outside the module, any block at any time.

### Transfer.tla

A download from end to end: Receiver (extended) and Sender (instantiated) with the
relaying part of the server between them, in one queue (`inbox`) and one outgoing channel
per client. `conn` says where a client is: `in` (logged in), `dead` (connection ended, but
still in the table), `out` (forgotten by the server), `open` (connected anew). `Forward`
is what the three relaying handlers have in common: a send to a client that is dead or
gone is the error of the one who caused it, and ends *its* connection. The user clicks `Download`,
`Resume` and `Stop` when the window has the button; either client may die of
itself (`Dies`), is cut off by the server, returns and logs in again. `clicks`, `lost` and `fresh`
are history: `fresh` says that the running download started with nothing left of
an earlier one. `AtRest` lets a system with nothing on its way stutter, so that any other
state without a successor is a deadlock.

### Client.tla

The program around Receiver and Sender: `logic` in `main.rs`, the window, and the two
channels between them.

| Variable | Code |
|---|---|
| `logic` | where `logic()` is: `Connecting`, `Sleeping` (three seconds), `Running`, `Ended`, `Panicked` |
| `client`, `state`, `requesting` | which client the loop has, its state and the file whose chunk is awaited |
| `received` | the number of chunks received of each file, which is all the window shows of the index |
| `jobs`, `retries` | files whose metadata is being created; of these the ones already reported as not to be opened |
| `events`, `notices` | the event channel (clicks, messages and jobs to the loop) and the channel to the window |
| `window` | screen, connection status, the sender's status, `downloading`, statuses of the files, open dialogs, upload queue (`queued`, `metafile_index`, `creating`), error |
| `pending` | the clicks whose futures have been spawned (`slint::spawn_local`) and not yet polled |
| `link`, `role`, `online`, `asked`, `down` | connection; what the server knows of this client and of a sender; messages on their way |
| `clicks`, `pushes`, `crossed`, `nameless`, `failed` | history and bounds |

`event_processor_task` is one turn of the loop, with a disjunct for each event.
The actions of the window are guarded by the conditions the `.slint` files put on their
buttons. `Click` only spawns the future that is to send the event; `SendClicked` is the poll of
that future some time later, in the order of the clicks: it sends into the event channel or,
without a loop, its unwrap ends the window. Between the two the loop may take messages and the window
notices. `process_gui_event` works off one notice. `UploadMeta` finds its path typed by
the user to name a file, to name nothing that can be opened, or to have no file name (`/`, `..`),
which opens on Unix and panics at the unwrap in `main.rs:217`.

`crossed` records that a click met, or may meet, a loop that had moved on: it was made while a
click was pending or an event or a notice was waiting, it was a second login, a second download or a
request for an empty file, or a block was read from the socket while a Stop was pending.
`nameless` records that a path without a file name was uploaded. The server is open: it
may push a status, a block or a notification at any time its protocol allows, or vanish.

Left out: directories and their filters, the sender's list, progress, wording and
layout; the disk works.

### MC*.tla, *Proofs.tla, TransferOrder.tla

The instances for TLC and the proofs (section 4). An operator introduced by "Slip:" is not
part of the model. It is a plausible mistake in the operator that follows
it; put in its place it must break a named property (`mutants` in `PROJECT.json`),
which shows that the property depends on the code.

## 3. The runs

| Run | Instance | Properties | What it shows |
|---|---|---|---|
| `server_roles` | 3 addresses, logins with the right key and with the other role's, channels of 2 | `TypeOK`, `OneClientPerRole`, `KnownClient`, `LoginFirst`, `StatusAccurate` | competition for the roles, refusals, reconnects, chunk requests, the refused payloads |
| `server_live` | 2 addresses, `message_rx` of 1, two clock values, saves that fail | `LoginFirst`, `RoleFreed`, `LoginAnswered` | publishing, removing and requesting metadata; panics and what outlives them; no metadata overtakes `LoginSuccess`; nothing waits for ever |
| `server_unwrap` | 2 addresses, logins and publishing only | `PublishUnwrap` | **violated**, see section 5 |
| `receiver` | 1 remote file in 3 versions, 2 local files | `TypeOK`, `Integrity`, `WholeFile`, `RequestValid`, `MismatchIsFinal`, `KeepsPromise` | stale and oversized blocks, stop and resume, new metadata, failed writes, crashes; Receiver implements Download |
| `receiver_torn` | as `receiver` | `ResumePossible` | **violated**, see section 5 |
| `sender_multiple` | 2 files uploaded in one job, crashes, torn saves | `MetaTiles`, `SentIsChunk`, `PublishedUnlessDead` | nothing of one file leaks into the next; what is saved gets published |
| `sender_live` | 1 file that is rewritten for ever, of at most three blocks | `TypeOK`, `MetaTiles`, `TransferEnds`, `UploadEnds` | hashing and transferring a moving file; every task ends |
| `sync` | 2 files of one chunk, 2 publications at 2 times or one | `SyncTypeOK`, `OverlookedByTie`, `OldProgressKept`, `CatchesUp` | publishing while the receiver logs in, downloads, loses its connection or crashes |
| `sync_progress` | as `sync` | `ProgressKept` | **violated**, see section 5 |
| `transfer` | 1 file of two chunks, 2 transfers, 3 clicks, 2 losses | `TransferTypeOK`, `EndToEnd`, `InOrder`, `CutNeedsLoss`, `QuietDownloadEnds` | stop and resume with blocks on their way, either client or both lost and back |
| `transfer_resume` | as `transfer` | `ResumeCompletes` | **violated**, see section 5 |
| `client` | a file of two chunks and an empty one, 3 clicks, 1 push | `TypeOK`, `GuiAgrees`, `PanicNeedsCrossing`, `ButtonsBack`, `StartedShown`, `ConnectedShown`, `EndShown` | clicks that cross with events, uploads that overlap or fail, connecting, the end of the loop |

**Bounds and why they are enough.** *Server.* Three addresses give a holder for each
role and a rival, two a reconnect against a dead connection of the same user
(the other address). A `message_rx` of 2 lets a `ClientDisconnected` wait behind
a message of somebody else, and one of 1 has every task wait for room; an outgoing
channel of 2 is the least that takes what one login sends. Two clock values tell
old metadata from new. Symmetry over addresses is used in the safety runs only.

*Receiver.* The files are two chunks (of two blocks and of
one), one chunk, and none, so a block can end before, at and beyond a chunk and a
file; blocks of up to two units are empty, right, wrong and half right. `MaxHashed` = 3 lets a
request take in more than its longest chunk. `UpCap` = 1 is the smallest event queue.
`Zero` is one of the ordinary bytes, so a gap can look like data. A remote file has local
files of its own: two remote files on one local path overwrite each other, and
nothing in the code prevents the user from choosing so (section 4).

*Sender.* A chunk is
two blocks and a read one or two, so a read can end before, at and beyond a chunk and
chunks of two and of three blocks arise from the same file; `EventCap` = 1 makes every
task wait for the loop. `sender_live` reads one block at a time: the question is not how
much is read but whether the end is noticed. `Content` bounds the length of a file, and `UploadEnds`
is about such files: one that grows for ever, as fast as it is read, keeps the read loop of
`create_for_file` (`meta.rs:230`) going. `TransferEnds` needs no such bound, since a transfer reads no more than
its chunk. Two transfers at once are in `transfer`.

*Sync.* `MaxNew` = 2 allows two publications after the login and therefore one that wipes
what came of the other, or one that ties with it; removing a file is not bounded. `MaxTime` = 1 gives the
two the same time or different ones. `NetCap` = 2 lets two messages
wait in each direction, one of which may be overtaken by an event of the client. Here and in `transfer` the disk and the saves work:
Receiver has the rest.

*Transfer.* Two chunks, of one block and of two, so that a block of one can complete or spoil the
other. `MaxClicks` = 3 is a download, a stop and a resume, which is where
blocks of two transfers meet; two `Task`s are the two transfers. `MaxLost` = 2 lets each client die
once, the second also while the first is on its way back. `NetCap` = 2 and `EventCap` = 1
keep blocks waiting in every place at once.

*Client.* Three clicks log in, start a download and stop it, or log in and overlap two
uploads, and each may cross with anything. `MaxPushes` = 1 bounds what the server sends of its own
accord (a sender that comes or goes, a publication); blocks are not counted, only one of them is on its
way at a time, and the sender may also come before this client has logged in. `MaxFiles` = 2 is the least at which the upload queue has a
middle; `Cap` = 2 events or notices may wait at once.

The proofs of section 4 remove these bounds for the safety properties named there.

**Fairness**. In `server_live` the server task and the actions of a connection task
that need nobody else are weakly fair: tokio polls every task that can go on. A
peer's socket takes what is written to it or fails, so `Outgoing` is among them. A
connection task that waits to send its `ClientDisconnected` competes for room in `message_rx`;
tokio's channel hands out permits in the order they were asked for, which is
strong fairness for `Disconnect`. Nothing is assumed of the peers. In `sender_live` the
event loop and the reads are weakly fair and, for the same reason, the two sends into
the event channel strongly fair; nothing is assumed of the user, the receiver or of
whoever changes the file. In `sync` and `transfer` every task takes what waits
for it (weak), a transfer that waits for room gets it in turn (strong), and a client notices
that its connection has ended (weak on `Closed`, on `Dies` when not connected). In `client` the
loop, the window, the read task's end and the timer are weakly fair, and `Connects` is strongly fair:
the server can be reached again and again, which is what `ConnectedShown` is
about. `SendClicked` is strongly fair for the reason given above: it waits for room in a tokio channel
that the read task may fill again each time, and gets it in its turn. Users, publishing, crashes and losses are never fair.

**Deadlock** is checked in every run but `client`. A server task that waits for room in a
channel is not stuck as a system: the connection drains it or ends. In `client` the
program really may stop: the loop has ended and the window is gone, or the bounded user
has no clicks left.

## 4. The proofs

### ServerProofs

For every set of addresses, paths, payloads and keys and every capacity (at
least 1, and 2 for an outgoing channel: with 1 the server would wait in the
middle of a login): `TypeCorrectness`, `RolesAreUnique`, `ClientsAreKnown`,
`LoginIsFirst`, `StatusIsAccurate`.

They rest on one inductive invariant, `IInv`: `TypeOK`, `OneClientPerRole`,
`LoginFirst` and `StatusAccurate` with two strengthenings.
- `ChannelInv` says how the entries of one address are laid out in `message_rx`:
  `ClientConnected` first and only while the address is not in the table,
  `ClientDisconnected` last and only after the task has ended. `KnownClient` looks at
  the head of the channel only and says nothing about the next turn.
- `QuietInv` says that a connection without a role has been told nothing, and one with
  a role has been told or is being told `LoginSuccess`. Without it a
  second `LoginSuccess` could not be excluded, and a new receiver could start with
  the status an old one was told.

The handlers are first reduced to the few shapes of effect they have
(`HandlerEffects`, `TurnEffects`), and each part of the invariant is then shown
for a turn of the server and for a step of a connection.

### ReceiverProofs

For every set of paths, local files, blocks and metadata of the shape `IsMeta`:
`TypeCorrectness`, `RequestsAreValid`, `MismatchesAreFinal` and `FilesAreApart`, without any
assumption on where the user saves the files.

`request_file` takes any local path, also one that another entry uses; the second file then
overwrites the first, which stays marked as received. What is said of the disk is
therefore said of the files that are `Alone`: no other remote file may be saved to a local
path of theirs. `FilesAreApart` says `Integrity` and `WholeFile` of each of these,
whatever becomes of the others. Under `DisjointLocals`, that is if all files are alone,
`ReceivedIsOnDisk` and `CompleteIsWhole` follow for all.

`Integrity` alone is not inductive: that the next chunk may be marked depends on
what the pending request has written. `IInv` is `TypeOK` with
- `EntriesInv`: the marks of an entry are a prefix of its chunks and an entry with marks has a
  local path; of a file that is alone, the marked chunks are on disk, and it has its length
  when it is complete;
- `RequestInv`: the request is for the first chunk not received, its offset and its
  hash have taken in the same blocks, and a chunk that has been filled has the wrong
  hash; of a file that is alone, these blocks are on disk until there are too many of them.

The prefix matters: a block that overruns its chunk destroys only what lies
behind it, which is not marked.

The last part of the module is the refinement. `Implementation`: under `DisjointLocals`,
`Spec => KeepsPromise`, which the run `receiver` checks. The copies of Download are read off the
local files, which is awkward to follow through a write; under `IInv` a copy is the concatenation of
the chunks that are *marked* (`ShelfIsMarked`), and the files drop out of the argument. What is left
are the four ways the index changes (`IndexMoves`): not at all, a new local path (`Choose`), new
metadata (`Learn`), one more mark (`Receive`). Every step is one of them (`StepOnIndex`), and each is a
step of Download (`MovesOnShelf`); SyncProofs and TransferProofs use the two again.

### MetaIndexProofs

`AddIsUpdate`, `ChangeLocalIsUpdate`, `MarkIsUpdate`, `RemoveIsUpdate`, `NewerIsLookup`: for any list
with `IsIndex`, each operation of MetaIndex gives a list with `IsIndex`, and what `find_entry` then
returns for every path is the update of one path of the map. The argument is the
uniqueness of the position `First` under `IsIndex`; without it a removal would uncover a
second entry. `NewerIsLookup` says the same of the answer to a request for metadata:
`get_modified_after` filters the list, and what it finds is a map with the entry `find_entry` would return
for each path, if it is newer. These theorems justify the maps that Server, Receiver and Sender use where the
code has a `Vec`.

### SenderProofs

For every set of files, sizes of chunks and buffers, any number of jobs and transfers, and files of
`Changing` being rewritten all the time: `TypeCorrectness`, `CreatedMetaTiles`, `ChunkIsSent`,
`ListedIsPublished`. The only assumption about the world is `ContentAssumption`: files are
sequences of blocks.

What a job or a transfer has to do with its file is a statement about its locals. `GoodJob`: the
closed chunks have the full size and tile the file up to `chunk_offset`, and what is in the hash of the open
one was read from there on. `GoodTask`: `count` is what was sent, what was sent is the beginning of the
chunk, and the buffer goes on with it; the parts about contents hold if nobody changes the
file. `IInv` adds that `MetaCreated` events and entries of the index hold metadata that `GoodMeta`
allows, because a transfer takes its chunk from there. `PublishedUnlessDead` is an action property: a
step that is not the end of the process leaves what is on the way to the socket on the way, or
publishes it (`StillOnTheWay`).

`CreatedMetaTiles` is what the receiver's proofs assume of metadata (`IsMeta`).

### SyncProofs

For every capacity and number of publications, equal timestamps included: `SyncTypeCorrectness`,
`NothingMissed`, `OldProgressIsKept`, `SyncIsReceiver`. None of these depends on where the user saves
the files.

`NothingMissed` is `SyncSpec => OverlookedByTie`. A published file is `Overlooked` if the receiver does not show
it and is not behind it, so that no later login asks for it. The theorem says that the only step that
overlooks a file is one after which the newest file the receiver knows has the same timestamp. It
relates the list on the server to the receiver's index; the invariant `SInv` has to follow the
metadata through the two channels between them:
- `TimesInv`: no timestamp is later than the server's clock;
- `PublishedInv`, `OrderInv`: of every path, what is known is not newer than what is on the way, that
  not newer than what is behind it, and nothing is newer than what is published;
- `CompleteInv`: every reply on the way `Covers` every published file. It brings the file; or it leaves it
  out, and neither what the receiver knows nor this reply or one before it is newer than the file; or it
  leaves it out, and the receiver already knows something as new. This is what keeps the newest known time
  from jumping over a file, and with ties it can land beside one but not beyond (`MissedByTie`);
- `AskInv`: the receiver never asks for less than what is newer than all it knows;
- `Since`, `LoginInv`: everything it asks for after a login, and gets, is newer than what it knew at the
  login, because there is one `LoginSuccess` per connection and it comes before any question.

The list of the server is reasoned about with `AddIsUpdate` and `RemoveIsUpdate` of
MetaIndexProofs, and the receiver's steps with `IInv` of ReceiverProofs.

`SyncIsReceiver` is `SyncSpec => Spec`: the composition implements Receiver, with the identity as
refinement mapping, so that every theorem of ReceiverProofs holds of it. Receiver lets any metadata
and any time of a file arrive; that nothing else does is an invariant of the connection (`NewsInv`: a
`NotifyUpdated` on its way carries the time of a file). `SyncKeepsPromise` puts this and
`Implementation` together, under `DisjointLocals`.

### TransferProofs

For every capacity, number of clicks and of losses, under the assumptions of Transfer on its
constants: `TransferTypeCorrectness`, `CutOnlyAfterLoss`, and `AloneIsOriginal`, which is `EndToEnd` of each
file that is alone. Under `DisjointLocals` also `DownloadIsOriginal` and `DownloadOnShelf`: every step of the
composition is, for the shelf of the receiver, a step of Download or none. (It does not start
as Download does, because both clients know the file already.)

The invariants of the two clients are carried over rather than proved again: a step of the composition is, for each
client, one of its own steps or a stutter (`ClientsStep`), so `IInv` of ReceiverProofs and `IInv` of
SenderProofs (as `SP!IInv`, with the sender's variables substituted) hold of the composition. New is what joins
them: the messages under way have their types (`RelayInv`), the receiver knows every file by the
metadata it is listed with (`MetaInv`), and while nobody has been lost both clients are logged
in and no end of a connection waits to be handled (`LossInv`), which is why a relayed message
always finds its receiver. `EndToEnd` then follows from the two: the marked chunks are on disk, a
complete file has its length and its chunks tile it, and each chunk's hash is the original's blocks.

### TransferOrder

`BlocksInOrder`: `TransferSpec => []InOrder`, for every capacity, size of chunks and of buffers and number of
transfers.

`InOrder` speaks of a moment: the request has reached the sender. What makes it true is what happened
before, and what cannot happen meanwhile. The invariant `OInv` adds to that of TransferProofs
- `LifeInv`: a client that is not logged in, or has died, has nothing to send and nothing running;
- `ConnInv`: for each value of `conn`, what may be in the queues of the client and what it may still
  have said (`GoodConn`): who comes back starts with empty queues, and nothing of its former
  life can reach the other behind its new login;
- `OrderInv`: while `fresh` and a chunk is awaited, the request for it is either `Pending` (the last order on
  its way, no block anywhere, no transfer with anything left) or `Underway` (no order on its way, one
  transfer at most with something left, not cancelled, and `InOrder`'s equation holds).

A request is sent only when the chunk before it is complete, and the equation then says that nothing of
it is left behind; this is why the transfers of two chunks never mix.

The order is kept through four queues. What they hold is gathered message by message (`Gather`), of which
`Blocks` and `Orders` are two cases. `Blocks` uses `FlattenSeq`, which is defined by recursion. Its two
equations (`FlattenAppend`, `FlattenHead`) are proved without induction over data: if the partial results
were wrong somewhere there would be a least place (`LeastNumber` of ReceiverProofs), and the definition
makes that place right.

### ClientProofs

For any files, any number of clicks (and of clicks not yet sent) and of messages of the server, and any
capacity of the two channels: `ClientInvariance`, `ClientTypeCorrectness`, `WindowAgrees`, `PanicsNeedCrossing`,
`ButtonsComeBack`. The only assumption is `ClientAssumption`, the types of the constants.

What the window shows and what the loop does are never compared in the same state, for there are two queues
between them. `WillShow` says what the window is going to show: the last news of it in the event
channel, else the last in the channel to the window, else what is there. The invariant `CInv` is
- `TypeInv`: types of the state and of all that waits in a queue;
- `ScreenInv`: who has left the first screen does not log in any more, not even by a click that is pending;
- `FilesInv`, `SenderInv`: the status of every file, and whether the server has a sender, is what the
  window will show; of the sender the last news may still be in a message, at three places;
- `RoleInv`: the server takes the client for what it is, or a login is on its way; without it the server's
  notifications could reach a client that is not the receiver;
- `QueueInv`, unless a creation has failed: as much metadata is still to come (`Coming`: jobs, events and
  notices) as the upload queue and the buttons wait for, also behind every notice that starts a queue;
- `CalmInv`, as long as no click has crossed: there is one order at a time, pending or in the event
  channel (`OrdersInv`), it finds the client in the state in which the user saw it (`Expected`), no block
  gets ahead of a Stop (`StopInv`), which would end the download it is to stop, and the window will show
  the file that is being downloaded;
- `NamesInv`, as long as none was uploaded: no path without a file name waits anywhere.

The turns of the loop are reduced to the few shapes in which they change client, queues and jobs
(`Turn`, `TurnSteps`); the steps of the window, the user and the connection follow (`UserSteps`,
`OtherSteps`), and each part of `CInv` is shown for each of the three.

The proof corrected `GuiAgrees`. It used to say of every user that the file shown as being downloaded is the
one the loop is downloading, which TLC confirmed because three clicks are too few: with two files that
are not empty, a download that is stopped before its `FileStartedDownloading` has been
worked off is shown as running while the loop is idle. That part now holds for a user who waits
for the window (`~crossed`), the rest for every user.

### Only model-checked

Liveness under fairness is beyond the prover: `RoleFreed`, `LoginAnswered`, `TransferEnds`,
`UploadEnds`, `CatchesUp`, `QuietDownloadEnds`, `StartedShown`, `ConnectedShown`, `EndShown`.
Every invariant and every action property of a passing run is a theorem.

## 5. Findings

- **`server_unwrap`**: `handle_publish_meta` unwraps the send of `NotifyUpdated`
  (`server.rs:387`). When the receiver's connection has ended and its
  `ClientDisconnected` waits behind the `PublishMeta`, the send fails and the panic
  ends the only server task.
- **`receiver_torn`**: the README promises that a transfer can always be continued
  (`README.md:9`), but `MetaIndex::save` truncates the index file in place after
  every chunk. A process that dies before the flush leaves a file that cannot be
  loaded, and the unwrap in `main.rs:126` panics at every later login.
- **`sync_progress`**: the same promise (`README.md:9`) against `last_updated`, which is read once
  at login and never advanced (`client.rs:296`). Every `NotifyUpdated` asks for all that is newer than the
  login and `add_for_meta` replaces the entries: a file published after the login
  and already downloaded, wholly or in part, loses its marks as soon as any other
  file is published. `OldProgressKept` shows that older files are safe.
- **`transfer_resume`**: the same promise against a `TransmitChunk` that names neither file nor
  offset (`client.rs:385`). A download is stopped and resumed while blocks of the first transfer are on
  their way. They complete the new request; the second transfer's blocks then go into the
  next chunk, whose hash is wrong, and `process_transmit_chunk` only returns an error
  (`client.rs:403`). The receiver waits for ever. What it stored stays right (`EndToEnd`, `Integrity`), and a
  download that starts with nothing left of an earlier one does end (`QuietDownloadEnds`).

Five properties hold and are worth knowing.
- `MismatchIsFinal`: after a wrong hash nothing but the user gets the download going again.
- `PublishedUnlessDead`: an entry that was saved is published unless the client ends in between;
  then it is listed from that time on and never published, for a login publishes nothing.
- `CutNeedsLoss`: the server cuts off a client that is in good order only after one of the two was
  lost; clicks and late blocks alone do not do it.
- `PanicNeedsCrossing`: what makes the event loop's unwraps fail is one of three things. A click crossed; a
  path without a file name was typed for an upload (`main.rs:217`); or the connection was cut. Waiting for the
  window is not quite enough: a Stop is sent by a spawned future (`gui.rs:223-227`), and the last block
  of the download may be read between the click and the poll. That counts as crossing, too.
- `OverlookedByTie`: two files published in the same millisecond are the only way a published file gets
  overlooked. A receiver that knows one of them asks, at its next login, only for what is newer than
  both: `get_modified_after` compares strictly (`meta.rs:117`), and nothing in `handle_publish_meta` keeps the timestamps apart (`server.rs:369`).

## 6. Not modelled

- The projected file system and the binary reader and writer: nothing in the program calls them.
- bincode and the WebSocket library: a failed decoding ends the connection.
- Progress reports (of downloads and of metadata creation), directories and filters of the window, the
  sender's list, layout and wording.
- A client that reconnects: the code does not. `README.md:29` says that the client always
  maintains a connection; `logic` retries only the first one, and Client says so by ending.
- A wall clock that is set back between two publications (`server.rs:369`): the receiver is then ahead of what
  is published next and never asks for it. The clock of Server and Sync only goes forward.
- Files that grow for ever while they are hashed (section 3, *Sender*).
- Channels that are full for good. Client and server each wait for room in channels of the
  other; a sender that publishes without bound through channels of two messages blocks
  both. The real channels hold 16 Mi events and 1 Mi messages.

## 7. Plan

- The lemmas about queues in ClientProofs, SyncProofs and TransferOrder have the same core; a module of
  their own would make all three shorter.
- A composition in which the receiver's metadata comes from Sync and its blocks from Transfer. Each of the
  two now implements what Receiver (Sync) or Download (Transfer) says, so nothing new is expected of it
  but what happens when both use the one channel to the server.
- `InOrder` for downloads that are resumed with blocks of a stopped one on their way: it is false
  (`transfer_resume`), and a message that names its chunk would be the first thing to model.
