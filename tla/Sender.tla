-------------------------------- MODULE Sender --------------------------------
(***************************************************************************)
(* The sending client: struct Sender of rstr_client/src/client.rs, the     *)
(* sender's half of the event loop in rstr_client/src/main.rs, and         *)
(* MetaIndex::create_for_file of rstr_core/src/meta.rs.                    *)
(*                                                                         *)
(* Three kinds of tasks run side by side: the event loop, the jobs that    *)
(* read files and create metadata for them, and the transfers that read a  *)
(* requested chunk.  Jobs and transfers talk to the loop through the event *)
(* channel only.  Somebody else may change a file at any time, reads may   *)
(* be short or fail, and the process may die and be started again.         *)
(*                                                                         *)
(* As in Receiver a file is a sequence of blocks and the hash of a chunk   *)
(* is its contents.  A remote path is the sequence of its segments.        *)
(***************************************************************************)
EXTENDS Naturals, Sequences, FiniteSets

CONSTANTS
    Local,       \* local paths
    Name(_),     \* the file name of a local path
    RawPath,     \* the remote paths a user types
    Directory,   \* the remote directories a user types
    Selection,   \* the lists of local files a user uploads at once
    Changing,    \* the local files that are changed while the client runs
    Content,     \* the contents a file may have
    Hash,        \* the hashes a receiver may ask for
    MaxIndex,    \* the largest chunk index a receiver may ask for
    ChunkSize,   \* least size of a chunk but the last (16 MiB in the code)
    BufSize,     \* most that is read at once (64 KiB in the code)
    Job, Task,   \* the metadata jobs and the transfers that may run at once
    EventCap,    \* capacity of the event channel (16 Mi in the code)
    NoEntry, NoJob, NoTask,
    SaveMayTear  \* TRUE if the process may die while it saves the index

ASSUME SizeAssumption ==
    ChunkSize \in Nat \ {0} /\ BufSize \in Nat \ {0} /\ EventCap \in Nat \ {0} /\ MaxIndex \in Nat
ASSUME FileAssumption == Changing \subseteq Local /\ Selection \subseteq Seq(Local) \ {<<>>}
ASSUME TearAssumption == SaveMayTear \in BOOLEAN

\* The blocks files are made of.
Bytes == UNION {{c[i] : i \in DOMAIN c} : c \in Content}

ASSUME ContentAssumption == Content \subseteq Seq(Bytes)

VARIABLES
    state,      \* Sender.state; "None" before a login, "Crashed" after a panic
    index,      \* Sender.index: the entry of each remote path, or NoEntry
    token,      \* the transfer whose token is sender_cancellation_token, or NoTask
    jobs,       \* the metadata jobs: what each has left to do and has read so far
    tasks,      \* the transfers: chunk, progress, and whether it was cancelled
    events,     \* the MetaCreated and SendMessage events in the event channel
    files,      \* the contents of the local files
    published,  \* the paths whose entry in the index went out on the socket as it is
    torn        \* is the index file on disk cut off?

vars == <<state, index, token, jobs, tasks, events, files, published, torn>>

-----------------------------------------------------------------------------
(***************************************************************************)
(* Remote paths.                                                           *)
(***************************************************************************)
Blank == {"", " "}

normalize_path(p) == SelectSeq(p, LAMBDA s : s \notin Blank)

\* create_multiple_meta joins directory, "/" and file name: in the root
\* directory this leaves an empty first segment.
InDirectory(d, l) ==
    LET n == normalize_path(d) IN IF n = <<>> THEN <<"", Name(l)>> ELSE Append(n, Name(l))

RemotePath == {normalize_path(p) : p \in RawPath} \cup {InDirectory(d, l) : d \in Directory, l \in Local}

-----------------------------------------------------------------------------
Running == state \in {"Initializing", "Idle"}

\* Slip: one event more than there is room for.
RoomOffByOne(s) == Len(s) <= EventCap

Room(s) == Len(s) < EventCap

Message(m) == [kind |-> "SendMessage", message |-> m]

Init ==
    /\ state = "None"
    /\ index = [p \in RemotePath |-> NoEntry]
    /\ token = NoTask
    /\ jobs = [j \in Job |-> NoJob]
    /\ tasks = [t \in Task |-> NoTask]
    /\ events = <<>>
    /\ files \in [Local -> Content]
    /\ published = {}
    /\ torn = FALSE

\* The process ends: everything in memory is gone.
Die ==
    /\ state' = "Crashed"
    /\ token' = NoTask
    /\ jobs' = [j \in Job |-> NoJob]
    /\ tasks' = [t \in Task |-> NoTask]
    /\ events' = <<>>
    /\ UNCHANGED <<files, published>>

Crash == state # "Crashed" /\ Die /\ UNCHANGED <<index, torn>>

Restart ==
    /\ state = "Crashed"
    /\ state' = "None"
    /\ UNCHANGED <<index, token, jobs, tasks, events, files, published, torn>>

\* Somebody writes to a file.
FileChanged(l, c) ==
    /\ files' = [files EXCEPT ![l] = c]
    /\ UNCHANGED <<state, index, token, jobs, tasks, events, published, torn>>

-----------------------------------------------------------------------------
(***************************************************************************)
(* The event loop.                                                         *)
(***************************************************************************)
\* Slip: the new Sender gets a channel of its own, what is in the old one is lost.
LogInAsSenderDraining ==
    /\ state # "Crashed"
    /\ \/ /\ ~torn
          /\ state' = "Initializing"
          /\ token' = NoTask
          /\ events' = <<Message([type |-> "Login"])>>
          /\ UNCHANGED <<jobs, tasks, files, published>>
       \/ torn /\ Die
    /\ UNCHANGED <<index, torn>>

\* A new Sender, without a token, replaces the one there may be; jobs and
\* transfers of the old one go on.
LogInAsSender ==
    /\ state # "Crashed"
    /\ \/ /\ ~torn
          /\ Room(events)
          /\ state' = "Initializing"
          /\ token' = NoTask
          /\ events' = Append(events, Message([type |-> "Login"]))
          /\ UNCHANGED <<jobs, tasks, files, published>>
       \/ torn /\ Die
    /\ UNCHANGED <<index, torn>>

LoginSuccess ==
    /\ Running
    /\ state' = "Idle"
    /\ UNCHANGED <<index, token, jobs, tasks, events, files, published, torn>>

\* What create_for_file starts with.
Fresh(todo) ==
    [todo |-> todo, chunks |-> <<>>, chunk_offset |-> 0, chunk_hash |-> <<>>, file_size |-> 0,
     eof |-> FALSE]

Spawn(todo) ==
    /\ \E j \in Job : jobs[j] = NoJob /\ jobs' = [jobs EXCEPT ![j] = Fresh(todo)]
    /\ UNCHANGED <<state, index, token, tasks, events, files, published, torn>>

create_meta(l, p) == Spawn(<<[local |-> l, path |-> normalize_path(p)]>>)

create_multiple_meta(ls, d) ==
    Spawn([i \in DOMAIN ls |-> [local |-> ls[i], path |-> InDirectory(d, ls[i])]])

\* A file that cannot even be opened is reported, and there is no step.
UploadMeta(l, p) == Running /\ create_meta(l, p)

UploadMultipleMeta(d, ls) == Running /\ create_multiple_meta(ls, d)

\* The entry replaces the one there may be, and the index is saved.
on_meta_created(e) ==
    /\ index' = [index EXCEPT ![e.path] = [local_path |-> e.local_path, meta |-> e.meta]]
    /\ published' = published \ {e.path}

publish_meta(e) == Message([type |-> "PublishMeta", path |-> e.path, meta |-> e.meta])

\* The entry is saved, then its metadata is queued to be published.
MetaCreated ==
    /\ Running
    /\ events # <<>> /\ Head(events).kind = "MetaCreated"
    /\ LET e == Head(events).entry IN
       \/ /\ on_meta_created(e)
          /\ events' = Append(Tail(events), publish_meta(e))
          /\ UNCHANGED <<state, token, jobs, tasks, files, torn>>
       \/ SaveMayTear /\ torn' = TRUE /\ Die /\ UNCHANGED index

\* The event loop writes a message to the socket.
SendMessage ==
    /\ events # <<>> /\ Head(events).kind = "SendMessage"
    /\ LET m == Head(events).message IN
       published' = IF m.type = "PublishMeta" /\ m.meta = index[m.path].meta
                    THEN published \cup {m.path} ELSE published
    /\ events' = Tail(events)
    /\ UNCHANGED <<state, index, token, jobs, tasks, files, torn>>

\* A request is answered only if path, index and hash are this sender's; the
\* others are logged and the receiver hears nothing.  The new transfer's token
\* replaces that of a transfer that may still run.
process_request_chunk(p, k, h) ==
    /\ Running
    /\ LET ok == /\ index[p] # NoEntry
                 /\ k < Len(index[p].meta.chunks)
                 /\ index[p].meta.chunks[k + 1].hash = h
       IN  \/ /\ ok
              /\ \E t \in Task :
                    /\ tasks[t] = NoTask
                    /\ tasks' = [tasks EXCEPT ![t] =
                          [local |-> index[p].local_path, chunk |-> index[p].meta.chunks[k + 1],
                           count |-> 0, next |-> "read",
                           read_buf |-> <<>>, sent |-> <<>>, cancelled |-> FALSE]]
                    /\ token' = t
           \/ ~ok /\ UNCHANGED <<token, tasks>>
    /\ UNCHANGED <<state, index, jobs, events, files, published, torn>>

\* The token that is there is cancelled, also if its transfer is over; without
\* one the message is an error (WrongState).
StopChunk ==
    /\ Running
    /\ tasks' = [t \in Task |-> IF t = token /\ tasks[t] # NoTask
                                THEN [tasks[t] EXCEPT !.cancelled = TRUE] ELSE tasks[t]]
    /\ UNCHANGED <<state, index, token, jobs, events, files, published, torn>>

-----------------------------------------------------------------------------
(***************************************************************************)
(* A metadata job: create_for_file for one file after the other.           *)
(***************************************************************************)
JobOnly == UNCHANGED <<state, index, token, tasks, files, published, torn>>

\* Slip: the next chunk starts where the last one did.
CloseChunkInPlace(r) ==
    [r EXCEPT !.chunks = Append(@, [offset |-> r.chunk_offset, size |-> Len(r.chunk_hash),
                                    hash |-> r.chunk_hash]),
              !.chunk_hash = <<>>]

CloseChunk(r) ==
    [r EXCEPT !.chunks = Append(@, [offset |-> r.chunk_offset, size |-> Len(r.chunk_hash),
                                    hash |-> r.chunk_hash]),
              !.chunk_offset = r.file_size,
              !.chunk_hash = <<>>]

\* The job after the bytes b.
Hashed(r, b) ==
    LET q == [r EXCEPT !.chunk_hash = @ \o b, !.file_size = @ + Len(b)] IN
    IF Len(q.chunk_hash) >= ChunkSize THEN CloseChunk(q) ELSE q

\* One read of the reader task, and its hashing.
Read(j) ==
    /\ jobs[j] # NoJob /\ ~jobs[j].eof
    /\ LET r == jobs[j]
           f == files[Head(r.todo).local]
       IN  \E n \in 1 .. BufSize :
              /\ r.file_size + n <= Len(f)
              /\ jobs' = [jobs EXCEPT ![j] =
                             Hashed(r, SubSeq(f, r.file_size + 1, r.file_size + n))]
    /\ JobOnly
    /\ UNCHANGED events

\* Slip: the next file goes on with the hashes and offsets of the last one.
AdvancedDirty(r) ==
    IF Len(r.todo) = 1 THEN NoJob ELSE [r EXCEPT !.todo = Tail(@), !.file_size = 0, !.eof = FALSE]

\* The job after a file: the next one, if any, from the start.
Advanced(r) == IF Len(r.todo) = 1 THEN NoJob ELSE Fresh(Tail(r.todo))

\* Slip: the end is expected where the file ended when it was opened.
AtEndExactly(r, f) == r.file_size = Len(f)

\* A read returns nothing, as it does at and beyond the end of the file.
AtEnd(r, f) == r.file_size >= Len(f)

\* The reader has seen the end of the file; nothing more is read.
ReadEof(j) ==
    /\ jobs[j] # NoJob /\ ~jobs[j].eof
    /\ AtEnd(jobs[j], files[Head(jobs[j].todo).local])
    /\ jobs' = [jobs EXCEPT ![j].eof = TRUE]
    /\ JobOnly
    /\ UNCHANGED events

\* The last chunk, if there is one, and MetaCreated, for which the job waits
\* until there is room.
FileDone(j) ==
    /\ jobs[j] # NoJob /\ jobs[j].eof
    /\ Room(events)
    /\ LET r == jobs[j]
           q == IF Len(r.chunk_hash) > 0 THEN CloseChunk(r) ELSE r
       IN  /\ events' = Append(events,
                 [kind |-> "MetaCreated",
                  entry |-> [path |-> Head(r.todo).path, local_path |-> Head(r.todo).local,
                             meta |-> [size |-> q.file_size, chunks |-> q.chunks]]])
           /\ jobs' = [jobs EXCEPT ![j] = Advanced(r)]
    /\ JobOnly

\* The file cannot be opened: MetaCreationError, and the job goes on.
OpenFails(j) ==
    /\ jobs[j] # NoJob
    /\ jobs[j] = Fresh(jobs[j].todo)
    /\ jobs' = [jobs EXCEPT ![j] = Advanced(jobs[j])]
    /\ JobOnly
    /\ UNCHANGED events

\* A read fails: the unwrap of the reader's panic ends the whole job.
ReadPanics(j) ==
    /\ jobs[j] # NoJob /\ ~jobs[j].eof
    /\ jobs' = [jobs EXCEPT ![j] = NoJob]
    /\ JobOnly
    /\ UNCHANGED events

-----------------------------------------------------------------------------
(***************************************************************************)
(* A transfer (the task that process_request_chunk spawns).                *)
(***************************************************************************)
Over(r) == r.next = "done"

\* Slip: the whole buffer is sent although the chunk ends within it.
BoundaryIgnored(r, n) == n

\* How much of the n that were read belongs to the chunk.
Boundary(r, n) == IF n < r.chunk.size - r.count THEN n ELSE r.chunk.size - r.count

\* Slip: the loop goes on after an empty read.
AgainAfterEof(r, n) == r.count + n < r.chunk.size

\* The loop goes on after a block of n: not after an empty one, whatever is
\* missing of the chunk.
Again(r, n) == n > 0 /\ r.count + n < r.chunk.size

\* fill_buf: the read at position o of f returns nothing only at the end.
FillBuf(f, o) ==
    IF o >= Len(f) THEN {<<>>}
    ELSE {SubSeq(f, o + 1, o + n) : n \in {i \in 1 .. BufSize : o + i <= Len(f)}}

TaskOnly == UNCHANGED <<state, index, token, jobs, files, published, torn>>

TransferReads(t) ==
    /\ tasks[t] # NoTask /\ tasks[t].next = "read"
    /\ \E b \in FillBuf(files[tasks[t].local], tasks[t].chunk.offset + tasks[t].count) :
          tasks' = [tasks EXCEPT ![t].read_buf = b, ![t].next = "send"]
    /\ TaskOnly
    /\ UNCHANGED events

\* The part of the buffer that belongs to the chunk is sent, once there is
\* room, and all of it is counted.
TransferSends(t) ==
    /\ tasks[t] # NoTask /\ tasks[t].next = "send"
    /\ Room(events)
    /\ LET r == tasks[t]
           n == Len(r.read_buf)
           b == SubSeq(r.read_buf, 1, Boundary(r, n))
       IN  /\ events' = Append(events, Message([type |-> "TransmitChunk", data |-> b]))
           /\ tasks' = [tasks EXCEPT ![t] =
                 [r EXCEPT !.count = @ + n, !.sent = @ \o b, !.read_buf = <<>>,
                           !.next = IF Again(r, n) THEN "read" ELSE "done"]]
    /\ TaskOnly

EndTask(t) ==
    /\ tasks' = [tasks EXCEPT ![t] = NoTask]
    /\ UNCHANGED <<state, index, token, jobs, events, files, published, torn>>

\* The transmit_task branch of the select! is done.
TransferFinished(t) == tasks[t] # NoTask /\ Over(tasks[t]) /\ EndTask(t)

\* The cancel_task branch is done.
TransferCancelled(t) == tasks[t] # NoTask /\ tasks[t].cancelled /\ EndTask(t)

\* An unwrap fails: the file cannot be opened or read.
TransferPanics(t) == tasks[t] # NoTask /\ tasks[t].next = "read" /\ EndTask(t)

Next ==
    \/ LogInAsSender
    \/ LoginSuccess
    \/ \E l \in Local : \E p \in RawPath : UploadMeta(l, p)
    \/ \E ls \in Selection : \E d \in Directory : UploadMultipleMeta(d, ls)
    \/ MetaCreated
    \/ SendMessage
    \/ \E p \in RemotePath : \E k \in 0 .. MaxIndex : \E h \in Hash : process_request_chunk(p, k, h)
    \/ StopChunk
    \/ \E j \in Job : Read(j) \/ ReadEof(j) \/ FileDone(j) \/ OpenFails(j) \/ ReadPanics(j)
    \/ \E t \in Task : \/ TransferReads(t) \/ TransferSends(t) \/ TransferFinished(t)
                       \/ TransferCancelled(t) \/ TransferPanics(t)
    \/ \E l \in Changing : \E c \in Content : FileChanged(l, c)
    \/ Crash
    \/ Restart

Spec == Init /\ [][Next]_vars

\* Every task is polled whenever it has something to do, and a read of a file
\* returns.  Jobs and transfers wait for room in the event channel, which
\* hands out permits in order: strong fairness.
Fairness ==
    /\ WF_vars(SendMessage)
    /\ WF_vars(MetaCreated)
    /\ \A j \in Job : WF_vars(Read(j) \/ ReadEof(j)) /\ SF_vars(FileDone(j))
    /\ \A t \in Task : /\ WF_vars(TransferReads(t) \/ TransferFinished(t))
                       /\ SF_vars(TransferSends(t))

FairSpec == Spec /\ Fairness

-----------------------------------------------------------------------------
(***************************************************************************)
(* Properties.                                                             *)
(***************************************************************************)
Chunk == [offset : Nat, size : Nat, hash : Seq(Bytes)]
FileMeta == [size : Nat, chunks : Seq(Chunk)]
Upload == [local : Local, path : RemotePath]

Payload ==
         [type : {"Login"}]
    \cup [type : {"PublishMeta"}, path : RemotePath, meta : FileMeta]
    \cup [type : {"TransmitChunk"}, data : Seq(Bytes)]

Event ==
         [kind : {"SendMessage"}, message : Payload]
    \cup [kind : {"MetaCreated"}, entry : [path : RemotePath, local_path : Local, meta : FileMeta]]

\* The type invariant.
TypeOK ==
    /\ state \in {"None", "Initializing", "Idle", "Crashed"}
    /\ index \in [RemotePath -> [local_path : Local, meta : FileMeta] \cup {NoEntry}]
    /\ token \in Task \cup {NoTask}
    /\ jobs \in [Job -> [todo : Seq(Upload), chunks : Seq(Chunk), chunk_offset : Nat,
                         chunk_hash : Seq(Bytes), file_size : Nat, eof : BOOLEAN] \cup {NoJob}]
    /\ tasks \in [Task -> [local : Local, chunk : Chunk, count : Nat,
                           next : {"read", "send", "done"}, read_buf : Seq(Bytes),
                           sent : Seq(Bytes), cancelled : BOOLEAN] \cup {NoTask}]
    /\ events \in Seq(Event)
    /\ Len(events) <= EventCap
    /\ files \in [Local -> Content]
    /\ published \subseteq RemotePath
    /\ torn \in BOOLEAN

\* The chunks of m cover the file without gap or overlap, none is empty, all
\* but the last have the full size, and each hash is one of as many blocks as
\* the chunk has.
Tiles(m) ==
    /\ m.chunks = <<>> => m.size = 0
    /\ \A i \in DOMAIN m.chunks :
          LET c == m.chunks[i]
              end == c.offset + c.size
          IN  /\ i = 1 => c.offset = 0
              /\ c.size > 0 /\ Len(c.hash) = c.size
              /\ IF i = Len(m.chunks) THEN end = m.size
                 ELSE end = m.chunks[i + 1].offset /\ c.size >= ChunkSize

\* All metadata create_for_file produces tiles its file, even if the file
\* grows, shrinks or changes while it is read: this is what the receiver's
\* arithmetic on offsets takes for granted.
MetaTiles ==
    /\ \A p \in RemotePath : index[p] # NoEntry => Tiles(index[p].meta)
    /\ \A i \in DOMAIN events : events[i].kind = "MetaCreated" => Tiles(events[i].entry.meta)

\* A transfer never sends more than the requested chunk, and of a file nobody
\* changed it sends exactly the blocks the chunk was hashed from, in order,
\* all of them by the time it is over: short reads, buffers that reach beyond
\* the chunk and metadata created anew meanwhile make no difference.
SentIsChunk ==
    \A t \in Task : tasks[t] # NoTask =>
        LET r == tasks[t] IN
        /\ Len(r.sent) <= r.chunk.size
        /\ r.local \notin Changing =>
              /\ r.sent = SubSeq(r.chunk.hash, 1, Len(r.sent))
              /\ Over(r) => r.sent = r.chunk.hash

\* Every transfer comes to an end, whatever happens to the file: one that has
\* become shorter than its metadata says does not keep it sending empty blocks
\* for ever, and of one that has become longer no more than the chunk is read.
TransferEnds == \A t \in Task : tasks[t] # NoTask ~> tasks[t] = NoTask

\* Every upload of a file of bounded length comes to an end, although the file is
\* rewritten for ever, longer and shorter than what was read of it already.  (A
\* file that only grows, as fast as it is read, keeps create_for_file reading;
\* Content bounds the length here.)
UploadEnds == \A j \in Job : jobs[j] # NoJob ~> jobs[j] = NoJob

\* README.md: after the metadata is generated, rstr uploads it to the server.
\* A file that gets into the list, or gets new metadata, has its metadata on
\* the way to the server or sent, and this stays so until the process dies:
\* only dying between the save of the index and the write to the socket
\* (main.rs, MetaCreated) leaves a file that is listed and never published.
OnTheWay(p) ==
    \/ index[p] = NoEntry
    \/ p \in published
    \/ \E i \in DOMAIN events :
          events[i] = Message([type |-> "PublishMeta", path |-> p, meta |-> index[p].meta])

PublishedUnlessDead ==
    [][\A p \in RemotePath : OnTheWay(p) => OnTheWay(p)' \/ state' = "Crashed"]_vars
=============================================================================
