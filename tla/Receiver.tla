------------------------------- MODULE Receiver -------------------------------
(***************************************************************************)
(* The receiving client: struct Receiver of rstr_client/src/client.rs, the *)
(* receiver's half of the event loop in rstr_client/src/main.rs, and the   *)
(* index it keeps (rstr_core/src/meta.rs).                                 *)
(*                                                                         *)
(* The environment is open.  The server may send any message at any time,  *)
(* in particular blocks of data that belong to an earlier request, for a   *)
(* TransmitChunk names neither its file nor its offset.  The user may      *)
(* click anything at any time, the disk may fail in the middle of a write, *)
(* and the process may die and be started again.                           *)
(*                                                                         *)
(* A file is a sequence of blocks (elements of Byte).  The hash of a chunk *)
(* is idealised as its very contents: XXH3 is taken to have no collisions. *)
(* Chunk indices count from 0 as in the code, TLA+ sequences from 1.       *)
(***************************************************************************)
EXTENDS Integers, Sequences, FiniteSets

CONSTANTS
    Path,        \* remote paths
    Local,       \* local paths the user can choose from
    Locals(_),   \* the local paths the user saves a given remote file to
    Byte,        \* the contents of a block
    Zero,        \* what File::set_len fills a file with
    Data,        \* the payloads a TransmitChunk may carry
    Meta,        \* the metadata the server may send
    NoPath,      \* PathBuf::new(), the local path of a file not asked for
    NoEntry,     \* no entry in the index for a path
    NoFile,      \* requesting_chunk is None
    UpCap,       \* bound on the events of one kind waiting in the event channel
    MaxHashed,   \* bound on the blocks received for one request
    SaveMayTear  \* TRUE if the process may die while it saves the index

Chunk == [offset : Nat, size : Nat \ {0}, hash : Seq(Byte)]

\* A Meta as create_for_file builds it: the chunks are not empty, lie one
\* behind the other and end where the file ends.
IsMeta(m) ==
    /\ m.size \in Nat
    /\ m.meta_modified \in Nat
    /\ m.chunks \in Seq(Chunk)
    /\ \A i, j \in DOMAIN m.chunks :
          i < j => m.chunks[i].offset + m.chunks[i].size <= m.chunks[j].offset
    /\ \A i \in DOMAIN m.chunks :
          /\ Len(m.chunks[i].hash) = m.chunks[i].size
          /\ i = Len(m.chunks) => m.chunks[i].offset + m.chunks[i].size = m.size

Entry == [local_path : Local \cup {NoPath}, received_chunks : SUBSET Nat, meta : Meta]

Requesting == [remote_path : Path, chunk_index : Nat, current_offset : Nat, hashed : Seq(Byte)]

ASSUME MetaAssumption == \A m \in Meta : IsMeta(m)
ASSUME DataAssumption == Data \subseteq Seq(Byte) /\ Zero \in Byte
ASSUME LocalAssumption == NoPath \notin Local /\ \A p \in Path : Locals(p) \subseteq Local
ASSUME NoneAssumption == NoEntry \notin Entry /\ NoFile \notin Requesting
ASSUME ShelfAssumption == NoEntry \notin [meta : Meta, copy : Seq(Seq(Byte))]
ASSUME BoundAssumption == UpCap \in Nat \ {0} /\ MaxHashed \in Nat /\ SaveMayTear \in BOOLEAN

VARIABLES
    state,            \* Receiver.state; "None" before a login, "Crashed" after a panic
    requesting_chunk, \* Receiver.requesting_chunk
    index,            \* Receiver.index, the entry of each path
    last_updated,     \* Receiver.last_updated
    logged_in,        \* the number of LoggedInAsReceiver events waiting
    up,               \* the SendMessage events waiting to be written to the socket
    files,            \* the contents of the local files
    torn              \* is the index file on disk cut off?

vars == <<state, requesting_chunk, index, last_updated, logged_in, up, files, torn>>

-----------------------------------------------------------------------------
(***************************************************************************)
(* Files.                                                                  *)
(***************************************************************************)
\* Slip: a file is opened to be written from scratch.
set_len_truncating(f, n) == [i \in 1 .. n |-> Zero]

\* Slip: a file is made longer but never shorter.
set_len_growing(f, n) ==
    [i \in 1 .. (IF n > Len(f) THEN n ELSE Len(f)) |-> IF i <= Len(f) THEN f[i] ELSE Zero]

set_len(f, n) == [i \in 1 .. n |-> IF i <= Len(f) THEN f[i] ELSE Zero]

\* Writing b at offset o; a gap before it reads as zeroes.  Writing nothing
\* changes nothing, even beyond the end.
write_at(f, o, b) ==
    LET n == IF b # <<>> /\ o + Len(b) > Len(f) THEN o + Len(b) ELSE Len(f) IN
    [i \in 1 .. n |-> IF o < i /\ i <= o + Len(b) THEN b[i - o]
                      ELSE IF i <= Len(f) THEN f[i] ELSE Zero]

-----------------------------------------------------------------------------
(***************************************************************************)
(* The index (MetaIndex).  It is written to disk by every operation that   *)
(* changes it, so memory and disk agree whenever the event loop is at rest. *)
(***************************************************************************)
add_for_meta(m) == [local_path |-> NoPath, received_chunks |-> {}, meta |-> m]

\* Slip: the marks are kept when another local file is chosen.
change_local_marked(e, l) == [e EXCEPT !.local_path = l]

change_local(e, l) == [e EXCEPT !.local_path = l, !.received_chunks = {}]

mark_received(e, k) == [e EXCEPT !.received_chunks = @ \cup {k}]

Known(p) == index[p] # NoEntry

\* i64::MIN, for an empty index.
MinTime == -1

get_last_updated(ix) ==
    LET T == {ix[p].meta.meta_modified : p \in {q \in Path : ix[q] # NoEntry}} IN
    IF \E t \in T : \A u \in T : u <= t
    THEN CHOOSE t \in T : \A u \in T : u <= t
    ELSE MinTime

Undownloaded(e) == {k \in 0 .. Len(e.meta.chunks) - 1 : k \notin e.received_chunks}

\* Slip: the search begins and ends with the first chunk.
find_first_chunk(e) == 0

find_first_undownloaded(e) ==
    CHOOSE k \in Undownloaded(e) : \A j \in Undownloaded(e) : k <= j

-----------------------------------------------------------------------------
Init ==
    /\ state = "None"
    /\ requesting_chunk = NoFile
    /\ index = [p \in Path |-> NoEntry]
    /\ last_updated = MinTime
    /\ logged_in = 0
    /\ up = <<>>
    /\ files = [l \in Local |-> <<>>]
    /\ torn = FALSE

Running == state \in {"Initializing", "Idle", "RequestedChunk"}

\* Slip: one event more than there is room for.
CanSendOffByOne == Len(up) <= UpCap

CanSend == Len(up) < UpCap

send_message(m) == CanSend /\ up' = Append(up, m)

\* The event loop panics (every unwrap in it), or the process is killed: what
\* was in memory is gone.
Die ==
    /\ state' = "Crashed"
    /\ requesting_chunk' = NoFile
    /\ last_updated' = MinTime
    /\ logged_in' = 0
    /\ up' = <<>>

\* Dying in MetaIndex::save, between File::create and the flush.
DieInSave == SaveMayTear /\ torn' = TRUE /\ Die /\ UNCHANGED index

Crash ==
    /\ state # "Crashed"
    /\ Die
    /\ UNCHANGED <<index, files, torn>>

Restart ==
    /\ state = "Crashed"
    /\ state' = "None"
    /\ UNCHANGED <<requesting_chunk, index, last_updated, logged_in, up, files, torn>>

-----------------------------------------------------------------------------
(***************************************************************************)
(* The user's events.                                                      *)
(***************************************************************************)

\* Receiver::new reads the index from disk.
NewReceiver ==
    /\ ~torn
    /\ state' = "Initializing"
    /\ requesting_chunk' = NoFile
    /\ last_updated' = get_last_updated(index)

\* Slip: an index that cannot be read is taken for an empty one.
LogInForgetting ==
    /\ state # "Crashed"
    /\ index' = IF torn THEN [p \in Path |-> NoEntry] ELSE index
    /\ state' = "Initializing"
    /\ requesting_chunk' = NoFile
    /\ last_updated' = get_last_updated(index')
    /\ send_message([type |-> "Login"])
    /\ UNCHANGED <<logged_in, files, torn>>

\* A new Receiver replaces the one there may be; the unwrap of a failed load
\* panics.
LogInAsReceiver ==
    /\ state # "Crashed"
    /\ \/ /\ NewReceiver
          /\ send_message([type |-> "Login"])
          /\ UNCHANGED logged_in
       \/ torn /\ Die
    /\ UNCHANGED <<index, files, torn>>

request_meta(after) ==
    /\ state = "Idle"
    /\ send_message([type |-> "RequestMeta", after |-> after])

\* LoggedInAsReceiver asks for the metadata newer than the newest it has.
LoggedInAsReceiver ==
    /\ logged_in > 0
    /\ \/ /\ request_meta(get_last_updated(index))
          /\ logged_in' = logged_in - 1
          /\ UNCHANGED <<state, requesting_chunk, last_updated>>
       \/ state # "Idle" /\ Die
    /\ UNCHANGED <<index, files, torn>>

\* The message goes out with the hash this client knows for the chunk.
request_chunk(e, p, k) ==
    /\ send_message([type |-> "RequestChunk", path |-> p, index |-> k,
                     hash |-> e.meta.chunks[k + 1].hash])
    /\ requesting_chunk' = [remote_path |-> p, chunk_index |-> k,
                            current_offset |-> e.meta.chunks[k + 1].offset, hashed |-> <<>>]
    /\ state' = "RequestedChunk"

\* request_file: the local path is changed and saved before the first chunk is
\* asked for, which fails for a file without chunks.
FileRequested(p, l) ==
    /\ Running
    /\ \/ /\ state = "Idle" /\ Known(p)
          /\ \/ DieInSave
             \/ LET e == change_local(index[p], l) IN
                /\ index' = [index EXCEPT ![p] = e]
                /\ UNCHANGED torn
                /\ IF e.meta.chunks = <<>>
                   THEN Die
                   ELSE request_chunk(e, p, 0) /\ UNCHANGED <<last_updated, logged_in>>
       \/ ~(state = "Idle" /\ Known(p)) /\ Die /\ UNCHANGED <<index, torn>>
    /\ UNCHANGED files

\* Slip: a download is resumed although one is running.
FileResumedAnytime(p) ==
    /\ Running
    /\ Known(p) /\ Undownloaded(index[p]) # {}
    /\ request_chunk(index[p], p, find_first_undownloaded(index[p]))
    /\ UNCHANGED <<index, files, torn, last_updated, logged_in>>

FileResumed(p) ==
    /\ Running
    /\ LET ok == state = "Idle" /\ Known(p) /\ Undownloaded(index[p]) # {} IN
       \/ /\ ok
          /\ request_chunk(index[p], p, find_first_undownloaded(index[p]))
          /\ UNCHANGED <<last_updated, logged_in>>
       \/ ~ok /\ Die
    /\ UNCHANGED <<index, files, torn>>

\* stop_transmition leaves requesting_chunk as it is.
DownloadStopped ==
    /\ Running
    /\ \/ /\ state = "RequestedChunk"
          /\ send_message([type |-> "StopChunk"])
          /\ state' = "Idle"
          /\ UNCHANGED <<requesting_chunk, last_updated, logged_in>>
       \/ state # "RequestedChunk" /\ Die
    /\ UNCHANGED <<index, files, torn>>

-----------------------------------------------------------------------------
(***************************************************************************)
(* process_message.  In a state that does not expect it a message is       *)
(* dropped (WrongState) and nothing changes.                               *)
(***************************************************************************)
Dropped == Running /\ UNCHANGED vars

LoginSuccess ==
    \/ /\ state = "Initializing"
       /\ logged_in < UpCap
       /\ state' = "Idle"
       /\ logged_in' = logged_in + 1
       /\ UNCHANGED <<requesting_chunk, index, last_updated, up, files, torn>>
    \/ state # "Initializing" /\ Dropped

\* Slip: the comparison the wrong way round.
NotifyUpdatedBackwards(t) ==
    \/ /\ t < last_updated
       /\ request_meta(last_updated)
       /\ UNCHANGED <<state, requesting_chunk, index, last_updated, logged_in, files, torn>>
    \/ ~(state = "Idle" /\ t < last_updated) /\ Dropped

\* last_updated is compared and sent, but never advanced.
NotifyUpdated(t) ==
    \/ /\ t > last_updated
       /\ request_meta(last_updated)
       /\ UNCHANGED <<state, requesting_chunk, index, last_updated, logged_in, files, torn>>
    \/ ~(state = "Idle" /\ t > last_updated) /\ Dropped

\* Slip: metadata is accepted while a chunk is awaited.
TransmitMetaAnytime(ms) ==
    /\ Running
    /\ index' = [p \in Path |-> IF p \in DOMAIN ms THEN add_for_meta(ms[p]) ELSE index[p]]
    /\ UNCHANGED <<state, requesting_chunk, last_updated, logged_in, up, files, torn>>

\* Every entry the server sends replaces the one there was, with nothing
\* received and no local path.  ms maps the paths of the message to metadata.
TransmitMeta(ms) ==
    \/ /\ state = "Idle"
       /\ \/ /\ index' = [p \in Path |-> IF p \in DOMAIN ms THEN add_for_meta(ms[p]) ELSE index[p]]
             /\ UNCHANGED <<state, requesting_chunk, last_updated, logged_in, up, torn>>
          \/ DieInSave
       /\ UNCHANGED files
    \/ state # "Idle" /\ Dropped

\* The file's contents when writing b fails: nothing happened, or the length
\* was set and some of b was written.
Failed(f, n, o, b) == {f} \cup {write_at(set_len(f, n), o, SubSeq(b, 1, i)) : i \in 0 .. Len(b)}

\* The write fails: the client keeps its offset and its hash.
WriteError(l, n, o, b) ==
    /\ \/ l = NoPath /\ UNCHANGED files
       \/ l # NoPath /\ \E f \in Failed(files[l], n, o, b) : files' = [files EXCEPT ![l] = f]
    /\ UNCHANGED <<state, requesting_chunk, index, last_updated, logged_in, up, torn>>

\* What follows a successful write: the chunk goes on, its hash is wrong, or
\* it is marked and the next one is asked for.
Advance(r, e, b) ==
    LET c == e.meta.chunks[r.chunk_index + 1]
        q == [r EXCEPT !.current_offset = @ + Len(b), !.hashed = @ \o b]
        d == mark_received(e, r.chunk_index)
    IN  \/ /\ q.current_offset < c.offset + c.size \/ q.hashed # c.hash
           /\ requesting_chunk' = q
           /\ UNCHANGED <<state, index, last_updated, logged_in, up, torn>>
        \/ /\ q.current_offset >= c.offset + c.size
           /\ q.hashed = c.hash
           /\ \/ DieInSave
              \/ /\ index' = [index EXCEPT ![r.remote_path] = d]
                 /\ IF Undownloaded(d) # {}
                    THEN request_chunk(d, r.remote_path, find_first_undownloaded(d))
                    ELSE /\ state' = "Idle"
                         /\ requesting_chunk' = NoFile
                         /\ UNCHANGED up
                 /\ UNCHANGED <<last_updated, logged_in, torn>>

\* The block goes to the current offset of the requested chunk, whatever it
\* was meant for, in full even if it reaches beyond the chunk.
TransmitChunk(b) ==
    \/ /\ state = "RequestedChunk"
       /\ Len(requesting_chunk.hashed) + Len(b) <= MaxHashed
       /\ LET r == requesting_chunk
              e == index[r.remote_path]
              l == e.local_path
              n == e.meta.size
              o == r.current_offset
          IN  \/ WriteError(l, n, o, b)
              \/ /\ l # NoPath
                 /\ files' = [files EXCEPT ![l] = write_at(set_len(@, n), o, b)]
                 /\ Advance(r, e, b)
    \/ state # "RequestedChunk" /\ Dropped

\* The event loop writes a message to the socket.
SendMessage ==
    /\ up # <<>>
    /\ up' = Tail(up)
    /\ UNCHANGED <<state, requesting_chunk, index, last_updated, logged_in, files, torn>>

Next ==
    \/ LogInAsReceiver
    \/ LoggedInAsReceiver
    \/ \E p \in Path : \E l \in Locals(p) : FileRequested(p, l)
    \/ \E p \in Path : FileResumed(p)
    \/ DownloadStopped
    \/ LoginSuccess
    \/ \E m \in Meta : NotifyUpdated(m.meta_modified)
    \/ \E P \in SUBSET Path : \E ms \in [P -> Meta] : TransmitMeta(ms)
    \/ \E b \in Data : TransmitChunk(b)
    \/ SendMessage
    \/ Crash
    \/ Restart

Spec == Init /\ [][Next]_vars

-----------------------------------------------------------------------------
(***************************************************************************)
(* Properties.                                                             *)
(***************************************************************************)
Message ==
         [type : {"Login", "StopChunk"}]
    \cup [type : {"RequestMeta"}, after : Nat \cup {MinTime}]
    \cup [type : {"RequestChunk"}, path : Path, index : Nat, hash : Seq(Byte)]

\* The type invariant.
TypeOK ==
    /\ state \in {"None", "Initializing", "Idle", "RequestedChunk", "Crashed"}
    /\ requesting_chunk \in Requesting \cup {NoFile}
    /\ index \in [Path -> Entry \cup {NoEntry}]
    /\ last_updated \in Nat \cup {MinTime}
    /\ logged_in \in 0 .. UpCap
    /\ up \in Seq(Message)
    /\ Len(up) <= UpCap
    /\ files \in [Local -> Seq(Byte)]
    /\ torn \in BOOLEAN

\* The contents of chunk c are in the file f where they belong.
OnDisk(f, c) ==
    /\ c.offset + c.size <= Len(f)
    /\ \A i \in 1 .. c.size : f[c.offset + i] = c.hash[i]

\* A chunk marked as received is on disk, intact: whatever blocks arrive from
\* whichever request, through stops, resumes, failed writes and crashes, the
\* index never claims what the file does not hold (process_transmit_chunk
\* writes and syncs, then compares the hash, then marks).
Integrity ==
    \A p \in Path : Known(p) =>
        \A k \in index[p].received_chunks :
            OnDisk(files[index[p].local_path], index[p].meta.chunks[k + 1])

Complete(p) == Known(p) /\ index[p].meta.chunks # <<>> /\ Undownloaded(index[p]) = {}

\* A file shown as Downloaded has the length of the original: nothing a block
\* wrote beyond the end of the file is left (set_len before every write).
WholeFile ==
    \A p \in Path : Complete(p) => Len(files[index[p].local_path]) = index[p].meta.size

\* While a chunk is awaited, the file it is of is in the index and the chunk
\* is one of the file's and the first one not received yet, so that none of
\* the four unwraps and lookups of process_transmit_chunk can fail, even
\* after metadata was replaced between a stop and a resume.
RequestValid ==
    state = "RequestedChunk" =>
        /\ requesting_chunk # NoFile
        /\ Known(requesting_chunk.remote_path)
        /\ LET e == index[requesting_chunk.remote_path] IN
           /\ requesting_chunk.chunk_index \in Undownloaded(e)
           /\ e.received_chunks = 0 .. requesting_chunk.chunk_index - 1

\* The requested chunk has been filled up but its hash was wrong.
Mismatched ==
    /\ state = "RequestedChunk"
    /\ LET c == index[requesting_chunk.remote_path].meta.chunks[requesting_chunk.chunk_index + 1] IN
       Len(requesting_chunk.hashed) >= c.size

\* After InvalidHash no message gets the download going again: the state stays
\* RequestedChunk, and no chunk is marked, until the user stops the download
\* or the client is started anew.
MismatchIsFinal ==
    [][Mismatched /\ state' = "RequestedChunk" => Mismatched' /\ UNCHANGED index]_vars

\* README.md: an interrupted transfer can always be continued from where it
\* stopped.  So when the client has been started again after it had received
\* something, the index that says where it stopped can be read.
ResumePossible ==
    state = "None" /\ (\E p \in Path : Known(p) /\ index[p].received_chunks # {}) => ~torn

\* What the index and the local files say of the file p, in the terms of
\* Download: the copy is read back from disk, chunk by chunk.
Shelf ==
    [p \in Path |->
        IF ~Known(p) THEN NoEntry
        ELSE [meta |-> index[p].meta,
              copy |-> [i \in {k + 1 : k \in index[p].received_chunks} |->
                          LET c == index[p].meta.chunks[i] IN
                          SubSeq(files[index[p].local_path], c.offset + 1, c.offset + c.size)]]]

Promise == INSTANCE Download WITH shelf <- Shelf

\* The receiver keeps what Download promises: whatever blocks arrive, writes
\* fail or processes die, what is on disk of a file grows by whole, right
\* chunks in their order and is never damaged afterwards (request_file,
\* process_transmit_meta, process_transmit_chunk).
KeepsPromise == Promise!Spec
=============================================================================
