----------------------------- MODULE SenderProofs -----------------------------
(***************************************************************************)
(* Proofs about Sender, for any files, sizes of chunks and buffers, and    *)
(* any number of jobs and transfers.                                       *)
(***************************************************************************)
EXTENDS Sender, SequenceTheorems, TLAPS

JobState ==
    [todo : Seq(Upload), chunks : Seq(Chunk), chunk_offset : Nat, chunk_hash : Seq(Bytes),
     file_size : Nat, eof : BOOLEAN]

TaskState ==
    [local : Local, chunk : Chunk, count : Nat, next : {"read", "send", "done"},
     read_buf : Seq(Bytes), sent : Seq(Bytes), cancelled : BOOLEAN]

IndexEntry == [local_path : Local, meta : FileMeta]

NewEntry == [path : RemotePath, local_path : Local, meta : FileMeta]

-----------------------------------------------------------------------------
(***************************************************************************)
(* The inductive invariant.                                                *)
(***************************************************************************)

\* The blocks b are those of the file f from offset o on.
ReadFrom(b, f, o) == o + Len(b) <= Len(f) /\ \A i \in 1 .. Len(b) : b[i] = f[o + i]

\* The chunk c was hashed from the file f as it is.
HashedFrom(c, f) == c.offset + c.size <= Len(f) /\ ReadFrom(c.hash, f, c.offset)

\* Metadata of the local file l, which is f: its chunks cs tile a file of size
\* n, and this one if nobody changes it.
GoodMeta(cs, n, l, f) ==
    /\ Tiles([size |-> n, chunks |-> cs])
    /\ l \notin Changing => \A i \in DOMAIN cs : HashedFrom(cs[i], f)

\* A job reads the file f of its first upload; its closed chunks have the full
\* size and tile the file up to the chunk that is open, which was read from
\* there on.
GoodJob(r, f) ==
    /\ r.todo # <<>>
    /\ GoodMeta(r.chunks, r.chunk_offset, Head(r.todo).local, f)
    /\ \A i \in DOMAIN r.chunks : r.chunks[i].size >= ChunkSize
    /\ r.file_size = r.chunk_offset + Len(r.chunk_hash)
    /\ Head(r.todo).local \notin Changing => ReadFrom(r.chunk_hash, f, r.chunk_offset)

\* A transfer, from the file f, has sent what it has counted as long as it goes
\* on.  If nobody changes the file this is the beginning of the chunk, what is
\* in the buffer goes on with it, and a transfer that is over has sent it all.
GoodTask(r, f) ==
    /\ Len(r.chunk.hash) = r.chunk.size
    /\ Len(r.sent) <= r.chunk.size
    /\ ~Over(r) => Len(r.sent) = r.count /\ r.count < r.chunk.size
    /\ r.local \notin Changing =>
          /\ HashedFrom(r.chunk, f)
          /\ \A i \in 1 .. Len(r.sent) : r.sent[i] = r.chunk.hash[i]
          /\ r.next = "send" =>
                r.read_buf # <<>> /\ ReadFrom(r.read_buf, f, r.chunk.offset + r.count)
          /\ Over(r) => Len(r.sent) = r.chunk.size

JobsInv == \A j \in Job : jobs[j] # NoJob => GoodJob(jobs[j], files[Head(jobs[j].todo).local])

TasksInv == \A t \in Task : tasks[t] # NoTask => GoodTask(tasks[t], files[tasks[t].local])

GoodEntry(e, f) == GoodMeta(e.meta.chunks, e.meta.size, e.local_path, f)

IndexInv == \A p \in RemotePath : index[p] # NoEntry => GoodEntry(index[p], files[index[p].local_path])

GoodEvent(e, fs) == e.kind = "MetaCreated" => GoodEntry(e.entry, fs[e.entry.local_path])

EventsInv == \A i \in DOMAIN events : GoodEvent(events[i], files)

IInv == TypeOK /\ JobsInv /\ TasksInv /\ IndexInv /\ EventsInv

-----------------------------------------------------------------------------
(***************************************************************************)
(* Sequences, chunks and files.                                            *)
(***************************************************************************)

\* The n blocks of f from offset o on.
Part(f, o, n) == SubSeq(f, o + 1, o + n)

\* A part of a file is what is read there.
LEMMA PartFacts ==
    ASSUME NEW f \in Seq(Bytes), NEW o \in Nat, NEW n \in Nat, o + n <= Len(f)
    PROVE  /\ Part(f, o, n) \in Seq(Bytes)
           /\ Len(Part(f, o, n)) = n
           /\ ReadFrom(Part(f, o, n), f, o)
<1>0. PICK b : b = SubSeq(f, o + 1, o + n)
  OBVIOUS
<1>1. \A j \in o + 1 .. o + n : f[j] \in Bytes
  OBVIOUS
<1>2. /\ b \in Seq(Bytes)
      /\ Len(b) = (IF o + 1 <= o + n THEN (o + n) - (o + 1) + 1 ELSE 0)
      /\ \A j \in 1 .. (o + n) - (o + 1) + 1 : b[j] = f[o + 1 + j - 1]
  BY <1>0, <1>1, SubSeqProperties
<1>3. (o + n) - (o + 1) + 1 = n /\ (~(o + 1 <= o + n) => n = 0)
  OBVIOUS
<1>4. Len(b) = n
  BY <1>2, <1>3
<1>5. \A j \in 1 .. n : o + 1 + j - 1 = o + j
  OBVIOUS
<1>6. \A j \in 1 .. n : b[j] = f[o + j]
  BY <1>2, <1>3, <1>5
<1> QED BY <1>0, <1>2, <1>4, <1>6 DEF ReadFrom, Part

\* A part from the beginning.
LEMMA PrefixFacts ==
    ASSUME NEW f \in Seq(Bytes), NEW n \in Nat, n <= Len(f)
    PROVE  /\ SubSeq(f, 1, n) \in Seq(Bytes)
           /\ Len(SubSeq(f, 1, n)) = n
           /\ \A i \in 1 .. n : SubSeq(f, 1, n)[i] = f[i]
<1>1. 0 + n <= Len(f) /\ 0 \in Nat /\ 0 + 1 = 1 /\ 0 + n = n
  OBVIOUS
<1>2. SubSeq(f, 1, n) = Part(f, 0, n)
  BY <1>1 DEF Part
<1>3. PICK b : b = Part(f, 0, n)
  OBVIOUS
<1>4. b \in Seq(Bytes) /\ Len(b) = n /\ ReadFrom(b, f, 0)
  BY <1>1, <1>3, PartFacts
<1>5. \A i \in 1 .. n : 0 + i = i
  OBVIOUS
<1>6. \A i \in 1 .. n : b[i] = f[i]
  BY <1>4, <1>5 DEF ReadFrom
<1> QED BY <1>2, <1>3, <1>4, <1>6

\* Joining two sequences of blocks.
LEMMA JoinFacts ==
    ASSUME NEW a \in Seq(Bytes), NEW b \in Seq(Bytes)
    PROVE  /\ a \o b \in Seq(Bytes)
           /\ Len(a \o b) = Len(a) + Len(b)
           /\ \A i \in 1 .. Len(a) + Len(b) :
                 (a \o b)[i] = IF i <= Len(a) THEN a[i] ELSE b[i - Len(a)]
BY ConcatProperties

\* Reading on where the last read ended.
LEMMA ReadOn ==
    ASSUME NEW f \in Seq(Bytes), NEW a \in Seq(Bytes), NEW b \in Seq(Bytes), NEW o \in Nat
    PROVE  /\ a \o b \in Seq(Bytes)
           /\ Len(a \o b) = Len(a) + Len(b)
           /\ ReadFrom(a, f, o) /\ ReadFrom(b, f, o + Len(a)) => ReadFrom(a \o b, f, o)
<1>1. PICK c : c = a \o b
  OBVIOUS
<1>2. /\ c \in Seq(Bytes)
      /\ Len(c) = Len(a) + Len(b)
      /\ \A i \in 1 .. Len(a) + Len(b) : c[i] = IF i <= Len(a) THEN a[i] ELSE b[i - Len(a)]
  BY <1>1
<1>3. ASSUME ReadFrom(a, f, o), ReadFrom(b, f, o + Len(a)) PROVE ReadFrom(c, f, o)
  <2>1. PICK x \in Nat : x = Len(a)
    OBVIOUS
  <2>2. PICK y \in Nat : y = Len(b)
    OBVIOUS
  <2>3. /\ (o + x) + y <= Len(f)
        /\ \A i \in 1 .. x : a[i] = f[o + i]
        /\ \A i \in 1 .. y : b[i] = f[(o + x) + i]
    BY <1>3, <2>1, <2>2 DEF ReadFrom
  <2>4. ASSUME NEW i \in 1 .. x + y PROVE c[i] = f[o + i]
    <3>1. CASE i <= x
      BY <1>2, <2>1, <2>2, <2>3, <3>1
    <3>2. CASE ~(i <= x)
      <4>1. i - x \in 1 .. y /\ (o + x) + (i - x) = o + i
        BY <3>2
      <4>2. c[i] = b[i - x]
        BY <1>2, <2>1, <2>2, <3>2
      <4> QED BY <2>3, <4>1, <4>2
    <3> QED BY <3>1, <3>2
  <2>5. Len(c) = x + y /\ o + (x + y) = (o + x) + y
    BY <1>2, <2>1, <2>2
  <2> QED BY <2>3, <2>4, <2>5 DEF ReadFrom
<1> QED BY <1>1, <1>2, <1>3

\* What Tiles says, chunk by chunk.
LEMMA TilesFacts ==
    ASSUME NEW cs \in Seq(Chunk), NEW n \in Nat
    PROVE  Tiles([size |-> n, chunks |-> cs]) <=>
              /\ cs = <<>> => n = 0
              /\ \A i \in 1 .. Len(cs) :
                    /\ i = 1 => cs[i].offset = 0
                    /\ cs[i].size > 0
                    /\ Len(cs[i].hash) = cs[i].size
                    /\ i = Len(cs) => cs[i].offset + cs[i].size = n
                    /\ i # Len(cs) => /\ cs[i].offset + cs[i].size = cs[i + 1].offset
                                      /\ cs[i].size >= ChunkSize
<1>1. PICK m : m = [size |-> n, chunks |-> cs]
  OBVIOUS
<1>2. m.size = n /\ m.chunks = cs /\ DOMAIN cs = 1 .. Len(cs)
  BY <1>1
<1> QED BY <1>1, <1>2 DEF Tiles

\* The same for metadata that is a record already.
LEMMA TilesRecord ==
    ASSUME NEW m \in FileMeta
    PROVE  Tiles(m) <=> Tiles([size |-> m.size, chunks |-> m.chunks])
BY DEF FileMeta

\* What is appended to a sequence comes last.
LEMMA AppendFacts ==
    ASSUME NEW S, NEW s \in Seq(S), NEW x \in S, NEW z, z = Append(s, x)
    PROVE  /\ z \in Seq(S)
           /\ Len(z) = Len(s) + 1
           /\ DOMAIN z = 1 .. Len(s) + 1
           /\ Len(s) \in Nat
           /\ DOMAIN s = 1 .. Len(s)
           /\ \A i \in 1 .. Len(s) : z[i] = s[i]
           /\ z[Len(s) + 1] = x
OBVIOUS

\* Closing the open chunk of a job, if there is anything in it.
LEMMA CloseFacts ==
    ASSUME NEW r \in JobState, NEW f, GoodJob(r, f), Len(r.chunk_hash) > 0,
           NEW q, q = CloseChunk(r)
    PROVE  /\ q \in JobState
           /\ q.todo = r.todo
           /\ q.file_size = r.file_size
           /\ q.chunk_offset = r.file_size
           /\ q.chunk_hash = <<>>
           /\ GoodMeta(q.chunks, q.file_size, Head(r.todo).local, f)
           /\ Len(r.chunk_hash) >= ChunkSize => \A i \in DOMAIN q.chunks : q.chunks[i].size >= ChunkSize
<1>1. /\ r.chunks \in Seq(Chunk)
      /\ r.chunk_offset \in Nat
      /\ r.chunk_hash \in Seq(Bytes)
      /\ r.file_size \in Nat
      /\ Len(r.chunk_hash) \in Nat
  BY DEF JobState
<1>2. PICK c : c = [offset |-> r.chunk_offset, size |-> Len(r.chunk_hash), hash |-> r.chunk_hash]
  OBVIOUS
<1>3. /\ c \in Chunk
      /\ c.offset = r.chunk_offset
      /\ c.size = Len(r.chunk_hash)
      /\ c.hash = r.chunk_hash
  BY <1>1, <1>2 DEF Chunk
<1>4. PICK cs : cs = Append(r.chunks, c)
  OBVIOUS
<1>5. PICK n \in Nat : n = Len(r.chunks)
  BY <1>1
<1>6. /\ cs \in Seq(Chunk)
      /\ Len(cs) = n + 1
      /\ DOMAIN cs = 1 .. n + 1
      /\ DOMAIN r.chunks = 1 .. n
      /\ \A i \in 1 .. n : cs[i] = r.chunks[i]
      /\ cs[n + 1] = c
  BY <1>1, <1>3, <1>4, <1>5, AppendFacts
<1>7. q = [r EXCEPT !.chunks = cs, !.chunk_offset = r.file_size, !.chunk_hash = <<>>]
  BY <1>2, <1>4 DEF CloseChunk, JobState
<1>8. /\ q \in JobState
      /\ q.todo = r.todo
      /\ q.file_size = r.file_size
      /\ q.chunk_offset = r.file_size
      /\ q.chunk_hash = <<>>
      /\ q.chunks = cs
  <2>1. <<>> \in Seq(Bytes)
    OBVIOUS
  <2> QED BY <1>1, <1>6, <1>7, <2>1 DEF JobState
<1>9. /\ Tiles([size |-> r.chunk_offset, chunks |-> r.chunks])
      /\ Head(r.todo).local \notin Changing =>
            \A i \in 1 .. n : HashedFrom(r.chunks[i], f)
      /\ \A i \in 1 .. n : r.chunks[i].size >= ChunkSize
      /\ r.file_size = r.chunk_offset + Len(r.chunk_hash)
      /\ Head(r.todo).local \notin Changing => ReadFrom(r.chunk_hash, f, r.chunk_offset)
  BY <1>6 DEF GoodJob, GoodMeta
<1>10. /\ r.chunks = <<>> => r.chunk_offset = 0
       /\ \A i \in 1 .. n :
             /\ i = 1 => r.chunks[i].offset = 0
             /\ r.chunks[i].size > 0
             /\ Len(r.chunks[i].hash) = r.chunks[i].size
             /\ i = n => r.chunks[i].offset + r.chunks[i].size = r.chunk_offset
             /\ i # n => /\ r.chunks[i].offset + r.chunks[i].size = r.chunks[i + 1].offset
                         /\ r.chunks[i].size >= ChunkSize
  BY <1>1, <1>5, <1>9, TilesFacts
<1>11. Tiles([size |-> r.file_size, chunks |-> cs])
  <2>1. cs # <<>>
    BY <1>6
  <2>2. ASSUME NEW i \in 1 .. n + 1
        PROVE  /\ i = 1 => cs[i].offset = 0
               /\ cs[i].size > 0
               /\ Len(cs[i].hash) = cs[i].size
               /\ i = n + 1 => cs[i].offset + cs[i].size = r.file_size
               /\ i # n + 1 => /\ cs[i].offset + cs[i].size = cs[i + 1].offset
                               /\ cs[i].size >= ChunkSize
    <3>1. CASE i = n + 1
      <4>1. i = 1 => r.chunks = <<>>
        BY <1>1, <1>5, <3>1
      <4> QED BY <1>3, <1>6, <1>9, <1>10, <3>1, <4>1
    <3>2. CASE i # n + 1
      <4>1. i \in 1 .. n
        BY <3>2
      <4>2. cs[i] = r.chunks[i]
        BY <1>6, <4>1
      <4>3. cs[i].offset + cs[i].size = cs[i + 1].offset
        <5>1. CASE i = n
          BY <1>3, <1>6, <1>10, <4>1, <4>2, <5>1
        <5>2. CASE i # n
          <6>1. i + 1 \in 1 .. n
            BY <4>1, <5>2
          <6> QED BY <1>6, <1>10, <4>1, <4>2, <5>2, <6>1
        <5> QED BY <5>1, <5>2
      <4> QED BY <1>9, <1>10, <3>2, <4>1, <4>2, <4>3
    <3> QED BY <3>1, <3>2
  <2>3. \A i \in 1 .. Len(cs) :
           /\ i = 1 => cs[i].offset = 0
           /\ cs[i].size > 0
           /\ Len(cs[i].hash) = cs[i].size
           /\ i = Len(cs) => cs[i].offset + cs[i].size = r.file_size
           /\ i # Len(cs) => /\ cs[i].offset + cs[i].size = cs[i + 1].offset
                             /\ cs[i].size >= ChunkSize
    BY <1>6, <2>2
  <2> QED BY <1>1, <1>6, <2>1, <2>3, TilesFacts
<1>12. ASSUME Head(r.todo).local \notin Changing, NEW i \in 1 .. n + 1
       PROVE  HashedFrom(cs[i], f)
  <2>1. CASE i = n + 1
    BY <1>3, <1>6, <1>9, <1>12, <2>1 DEF HashedFrom, ReadFrom
  <2>2. CASE i # n + 1
    <3>1. i \in 1 .. n
      BY <2>2
    <3> QED BY <1>6, <1>9, <1>12, <3>1
  <2> QED BY <2>1, <2>2
<1>13. ASSUME Len(r.chunk_hash) >= ChunkSize, NEW i \in 1 .. n + 1
       PROVE  cs[i].size >= ChunkSize
  <2>1. CASE i = n + 1
    BY <1>3, <1>6, <1>13, <2>1
  <2>2. CASE i # n + 1
    <3>1. i \in 1 .. n
      BY <2>2
    <3> QED BY <1>6, <1>9, <3>1
  <2> QED BY <2>1, <2>2
<1> QED BY <1>6, <1>8, <1>11, <1>12, <1>13 DEF GoodMeta

\* Hashing the bytes that come next in the file.
LEMMA HashedFacts ==
    ASSUME NEW r \in JobState, NEW f \in Seq(Bytes), NEW b \in Seq(Bytes), GoodJob(r, f),
           ReadFrom(b, f, r.file_size), NEW q, q = Hashed(r, b)
    PROVE  q \in JobState /\ q.todo = r.todo /\ GoodJob(q, f)
<1>1. r.chunk_hash \in Seq(Bytes) /\ r.file_size \in Nat /\ r.chunk_offset \in Nat
  BY DEF JobState
<1>2. PICK h : h = r.chunk_hash \o b
  OBVIOUS
<1>3. r.file_size = r.chunk_offset + Len(r.chunk_hash)
  BY DEF GoodJob
<1>4. /\ h \in Seq(Bytes)
      /\ Len(h) = Len(r.chunk_hash) + Len(b)
      /\ ReadFrom(r.chunk_hash, f, r.chunk_offset) => ReadFrom(h, f, r.chunk_offset)
  BY <1>1, <1>2, <1>3, ReadOn
<1>5. PICK n : n = r.file_size + Len(b)
  OBVIOUS
<1>6. n \in Nat /\ n = r.chunk_offset + Len(h) /\ Len(h) \in Nat
  <2>1. PICK x \in Nat : x = Len(r.chunk_hash)
    BY <1>1
  <2>2. PICK y \in Nat : y = Len(b)
    OBVIOUS
  <2>3. PICK z \in Nat : z = r.chunk_offset
    BY <1>1
  <2>4. n = (z + x) + y /\ Len(h) = x + y
    BY <1>3, <1>4, <1>5, <2>1, <2>2, <2>3
  <2>5. (z + x) + y = z + (x + y) /\ x + y \in Nat
    OBVIOUS
  <2> QED BY <2>3, <2>4, <2>5
<1>7. PICK s : s = [r EXCEPT !.chunk_hash = h, !.file_size = n]
  OBVIOUS
<1>8. /\ s \in JobState
      /\ s.todo = r.todo
      /\ s.chunks = r.chunks
      /\ s.chunk_offset = r.chunk_offset
      /\ s.chunk_hash = h
      /\ s.file_size = n
  BY <1>4, <1>6, <1>7 DEF JobState
<1>9. GoodJob(s, f)
  BY <1>4, <1>6, <1>8 DEF GoodJob
<1>10. q = IF Len(h) >= ChunkSize THEN CloseChunk(s) ELSE s
  BY <1>2, <1>5, <1>7, <1>8 DEF Hashed, JobState
<1>11. CASE Len(h) >= ChunkSize
  <2>1. q = CloseChunk(s) /\ Len(s.chunk_hash) > 0 /\ Len(s.chunk_hash) >= ChunkSize
    BY <1>6, <1>8, <1>10, <1>11, SizeAssumption
  <2>2. /\ q \in JobState
        /\ q.todo = s.todo
        /\ q.file_size = s.file_size
        /\ q.chunk_offset = s.file_size
        /\ q.chunk_hash = <<>>
        /\ GoodMeta(q.chunks, q.file_size, Head(s.todo).local, f)
        /\ \A i \in DOMAIN q.chunks : q.chunks[i].size >= ChunkSize
    BY <1>8, <1>9, <2>1, CloseFacts
  <2>3. Len(q.chunk_hash) = 0 /\ q.file_size = q.chunk_offset + 0
    BY <1>6, <1>8, <2>2
  <2>4. r.todo # <<>>
    BY DEF GoodJob
  <2>5. Head(r.todo).local \notin Changing => ReadFrom(q.chunk_hash, f, q.chunk_offset)
    <3>1. ReadFrom(b, f, r.file_size)
      OBVIOUS
    <3>2. n <= Len(f)
      BY <1>5, <3>1 DEF ReadFrom
    <3> QED BY <1>6, <1>8, <2>2, <2>3, <3>2 DEF ReadFrom
  <2> QED BY <1>8, <2>2, <2>3, <2>4, <2>5 DEF GoodJob
<1>12. CASE ~(Len(h) >= ChunkSize)
  BY <1>8, <1>9, <1>10, <1>12
<1> QED BY <1>11, <1>12

\* A job that has its next file before it is a good one.
LEMMA FreshFacts ==
    ASSUME NEW todo \in Seq(Upload), todo # <<>>, NEW f \in Seq(Bytes)
    PROVE  Fresh(todo) \in JobState /\ Fresh(todo).todo = todo /\ GoodJob(Fresh(todo), f)
<1>1. PICK r : r = Fresh(todo)
  OBVIOUS
<1>2. <<>> \in Seq(Bytes) /\ <<>> \in Seq(Chunk) /\ Len(<<>>) = 0
  OBVIOUS
<1>3. r = [todo |-> todo, chunks |-> <<>>, chunk_offset |-> 0, chunk_hash |-> <<>>, file_size |-> 0,
           eof |-> FALSE]
  BY <1>1 DEF Fresh
<1>4. /\ r.todo = todo /\ r.chunks = <<>> /\ r.chunk_offset = 0 /\ r.chunk_hash = <<>>
      /\ r.file_size = 0
  BY <1>3
<1>5. r \in JobState
  BY <1>2, <1>3 DEF JobState
<1>6. DOMAIN <<>> = {}
  OBVIOUS
<1>7. Tiles([size |-> 0, chunks |-> <<>>])
  BY <1>6 DEF Tiles
<1>8. GoodMeta(r.chunks, r.chunk_offset, Head(r.todo).local, f)
  BY <1>4, <1>6, <1>7 DEF GoodMeta
<1>9. ReadFrom(<<>>, f, 0)
  BY <1>2 DEF ReadFrom
<1>10. r.file_size = r.chunk_offset + Len(r.chunk_hash)
  BY <1>2, <1>4
<1>11. GoodJob(r, f)
  BY <1>4, <1>6, <1>8, <1>9, <1>10 DEF GoodJob
<1> QED BY <1>1, <1>4, <1>5, <1>11

\* After a file the job is over or goes on with the next one.
LEMMA AdvancedFacts ==
    ASSUME NEW r \in JobState, r.todo # <<>>, NEW q, q = Advanced(r), q # NoJob, TypeOK
    PROVE  q \in JobState /\ GoodJob(q, files[Head(q.todo).local])
<1>1. PICK todo : todo = Tail(r.todo)
  OBVIOUS
<1>2. todo \in Seq(Upload) /\ todo # <<>> /\ q = Fresh(todo)
  <2>1. Len(r.todo) # 1 /\ q = Fresh(todo)
    BY <1>1 DEF Advanced
  <2>2. r.todo \in Seq(Upload) /\ Len(r.todo) > 0 /\ Len(r.todo) \in Nat
    BY DEF JobState
  <2>3. todo \in Seq(Upload) /\ Len(todo) = Len(r.todo) - 1
    BY <1>1, <2>2
  <2>4. Len(todo) # 0
    BY <2>1, <2>2, <2>3
  <2>5. todo # <<>>
    <3>1. Len(<<>>) = 0
      OBVIOUS
    <3> QED BY <2>4, <3>1
  <2> QED BY <2>1, <2>3, <2>5
<1>3. Head(todo) \in Upload
  BY <1>2
<1>4. files[Head(todo).local] \in Seq(Bytes)
  BY <1>3, ContentAssumption DEF TypeOK, Upload
<1> QED BY <1>2, <1>4, FreshFacts

\* The first file of a job is one of the local files.
LEMMA JobFile ==
    ASSUME TypeOK, NEW r \in JobState, r.todo # <<>>
    PROVE  /\ Head(r.todo) \in Upload
           /\ Head(r.todo).local \in Local
           /\ Head(r.todo).path \in RemotePath
           /\ files[Head(r.todo).local] \in Seq(Bytes)
<1>1. Head(r.todo) \in Upload
  BY DEF JobState
<1> QED BY <1>1, ContentAssumption DEF Upload, TypeOK

\* An event is put into the channel.
LEMMA EventPut ==
    ASSUME TypeOK, EventsInv, Room(events), NEW e \in Event, GoodEvent(e, files),
           events' = Append(events, e), files' = files
    PROVE  events' \in Seq(Event) /\ Len(events') <= EventCap /\ EventsInv'
<1>1. events \in Seq(Event) /\ Len(events) < EventCap
  BY DEF TypeOK, Room
<1>2. /\ events' \in Seq(Event)
      /\ Len(events') = Len(events) + 1
      /\ DOMAIN events' = 1 .. Len(events) + 1
      /\ Len(events) \in Nat
      /\ DOMAIN events = 1 .. Len(events)
      /\ \A i \in 1 .. Len(events) : events'[i] = events[i]
      /\ events'[Len(events) + 1] = e
  BY <1>1, AppendFacts
<1>3. \A i \in DOMAIN events' : i \in 1 .. Len(events) \/ i = Len(events) + 1
  BY <1>2
<1>4. EventsInv'
  BY <1>2, <1>3 DEF EventsInv, GoodEvent, GoodEntry
<1> QED BY <1>1, <1>2, <1>4, SizeAssumption

\* The first event is taken out of the channel.
LEMMA EventTaken ==
    ASSUME TypeOK, EventsInv, events # <<>>, NEW z, z = Tail(events)
    PROVE  /\ Head(events) \in Event
           /\ GoodEvent(Head(events), files)
           /\ z \in Seq(Event)
           /\ Len(z) < EventCap
           /\ \A i \in DOMAIN z : GoodEvent(z[i], files)
<1>1. events \in Seq(Event) /\ Len(events) <= EventCap /\ Len(events) \in Nat /\ Len(events) > 0
  BY DEF TypeOK
<1>2. /\ Head(events) = events[1]
      /\ Head(events) \in Event
      /\ z \in Seq(Event)
      /\ Len(z) = Len(events) - 1
      /\ \A i \in 1 .. Len(z) : z[i] = events[i + 1]
      /\ DOMAIN z = 1 .. Len(z)
      /\ DOMAIN events = 1 .. Len(events)
  BY <1>1
<1>3. \A i \in 1 .. Len(z) : i + 1 \in 1 .. Len(events)
  BY <1>1, <1>2
<1>4. 1 \in 1 .. Len(events)
  BY <1>1
<1> QED BY <1>1, <1>2, <1>3, <1>4, SizeAssumption DEF EventsInv

-----------------------------------------------------------------------------
(***************************************************************************)
(* The steps.                                                              *)
(***************************************************************************)

\* The parts of the type invariant, by name.
LEMMA Types ==
    TypeOK <=>
        /\ state \in {"None", "Initializing", "Idle", "Crashed"}
        /\ index \in [RemotePath -> IndexEntry \cup {NoEntry}]
        /\ token \in Task \cup {NoTask}
        /\ jobs \in [Job -> JobState \cup {NoJob}]
        /\ tasks \in [Task -> TaskState \cup {NoTask}]
        /\ events \in Seq(Event)
        /\ Len(events) <= EventCap
        /\ files \in [Local -> Content]
        /\ published \subseteq RemotePath
        /\ torn \in BOOLEAN
BY DEF TypeOK, IndexEntry, JobState, TaskState

\* What nobody touches stays good.
LEMMA Frame ==
    ASSUME files' = files
    PROVE  /\ JobsInv /\ jobs' = jobs => JobsInv'
           /\ TasksInv /\ tasks' = tasks => TasksInv'
           /\ IndexInv /\ index' = index => IndexInv'
           /\ EventsInv /\ events' = events => EventsInv'
BY DEF JobsInv, TasksInv, IndexInv, EventsInv

\* One job goes on, or is over.
LEMMA JobStep ==
    ASSUME IInv, files' = files, NEW j \in Job, NEW q, jobs' = [jobs EXCEPT ![j] = q],
           q # NoJob => q \in JobState /\ GoodJob(q, files[Head(q.todo).local])
    PROVE  jobs' \in [Job -> JobState \cup {NoJob}] /\ JobsInv'
<1>1. jobs \in [Job -> JobState \cup {NoJob}]
  BY Types DEF IInv
<1>2. \A i \in Job : jobs'[i] = IF i = j THEN q ELSE jobs[i]
  BY <1>1
<1>3. jobs' \in [Job -> JobState \cup {NoJob}]
  BY <1>1
<1>4. JobsInv'
  BY <1>2 DEF IInv, JobsInv
<1> QED BY <1>3, <1>4

\* One transfer goes on, or is over.
LEMMA TaskStep ==
    ASSUME IInv, files' = files, NEW t \in Task, NEW q, tasks' = [tasks EXCEPT ![t] = q],
           q # NoTask => q \in TaskState /\ GoodTask(q, files[q.local])
    PROVE  tasks' \in [Task -> TaskState \cup {NoTask}] /\ TasksInv'
<1>1. tasks \in [Task -> TaskState \cup {NoTask}]
  BY Types DEF IInv
<1>2. \A i \in Task : tasks'[i] = IF i = t THEN q ELSE tasks[i]
  BY <1>1
<1>3. tasks' \in [Task -> TaskState \cup {NoTask}]
  BY <1>1
<1>4. TasksInv'
  BY <1>2 DEF IInv, TasksInv
<1> QED BY <1>3, <1>4

\* A job that is running.
LEMMA JobOfIInv ==
    ASSUME IInv, NEW j \in Job, jobs[j] # NoJob
    PROVE  /\ jobs[j] \in JobState
           /\ GoodJob(jobs[j], files[Head(jobs[j].todo).local])
           /\ jobs[j].todo # <<>>
           /\ Head(jobs[j].todo) \in Upload
           /\ Head(jobs[j].todo).local \in Local
           /\ Head(jobs[j].todo).path \in RemotePath
           /\ files[Head(jobs[j].todo).local] \in Seq(Bytes)
<1>1. jobs[j] \in JobState
  BY Types DEF IInv
<1>2. GoodJob(jobs[j], files[Head(jobs[j].todo).local])
  BY DEF IInv, JobsInv
<1>3. jobs[j].todo # <<>>
  BY <1>2 DEF GoodJob
<1> QED BY <1>1, <1>2, <1>3, JobFile DEF IInv

\* A transfer that is running.
LEMMA TaskOfIInv ==
    ASSUME IInv, NEW t \in Task, tasks[t] # NoTask
    PROVE  /\ tasks[t] \in TaskState
           /\ GoodTask(tasks[t], files[tasks[t].local])
           /\ tasks[t].local \in Local
           /\ files[tasks[t].local] \in Seq(Bytes)
<1>1. tasks[t] \in TaskState
  BY Types DEF IInv
<1>2. tasks[t].local \in Local
  BY <1>1 DEF TaskState
<1>3. files[tasks[t].local] \in Seq(Bytes)
  BY <1>2, Types, ContentAssumption DEF IInv
<1> QED BY <1>1, <1>2, <1>3 DEF IInv, TasksInv

\* The initial state satisfies the invariant.
LEMMA InitIInv == Init => IInv
<1> SUFFICES ASSUME Init PROVE IInv
  OBVIOUS
<1>1. events = <<>> /\ <<>> \in Seq(Event) /\ Len(<<>>) = 0 /\ DOMAIN <<>> = {}
  BY DEF Init
<1>2. TypeOK
  <2>1. events \in Seq(Event) /\ Len(events) <= EventCap
    BY <1>1, SizeAssumption
  <2>2. /\ jobs \in [Job -> JobState \cup {NoJob}]
        /\ tasks \in [Task -> TaskState \cup {NoTask}]
        /\ index \in [RemotePath -> IndexEntry \cup {NoEntry}]
    BY DEF Init
  <2> QED BY <2>1, <2>2, Types DEF Init
<1>3. JobsInv /\ TasksInv /\ IndexInv
  BY DEF Init, JobsInv, TasksInv, IndexInv
<1>4. EventsInv
  BY <1>1 DEF EventsInv
<1> QED BY <1>2, <1>3, <1>4 DEF IInv

\* When the process ends only the index and the files are left.
LEMMA DieIInv ==
    ASSUME IInv, Die, index' = index, torn' \in BOOLEAN
    PROVE  IInv'
<1>1. events' = <<>> /\ <<>> \in Seq(Event) /\ Len(<<>>) = 0 /\ DOMAIN <<>> = {}
  BY DEF Die
<1>2. state' = "Crashed" /\ token' = NoTask /\ UNCHANGED <<index, files, published>>
  BY DEF Die
<1>3. jobs' = [j \in Job |-> NoJob] /\ tasks' = [t \in Task |-> NoTask]
  BY DEF Die
<1>4. TypeOK'
  <2>1. events' \in Seq(Event) /\ Len(events') <= EventCap
    BY <1>1, SizeAssumption
  <2>2. /\ jobs' \in [Job -> JobState \cup {NoJob}]
        /\ tasks' \in [Task -> TaskState \cup {NoTask}]
    BY <1>3
  <2> QED BY <1>2, <2>1, <2>2 DEF IInv, TypeOK, JobState, TaskState
<1>5. JobsInv' /\ TasksInv'
  BY <1>3 DEF JobsInv, TasksInv
<1>6. IndexInv'
  BY <1>2, Frame DEF IInv
<1>7. EventsInv'
  BY <1>1 DEF EventsInv
<1> QED BY <1>4, <1>5, <1>6, <1>7 DEF IInv

\* A new job starts with its first file.
LEMMA SpawnIInv ==
    ASSUME IInv, NEW todo \in Seq(Upload), todo # <<>>, Spawn(todo)
    PROVE  IInv'
<1>1. UNCHANGED <<state, index, token, tasks, events, files, published, torn>>
  BY DEF Spawn
<1>2. PICK j \in Job : jobs' = [jobs EXCEPT ![j] = Fresh(todo)]
  BY DEF Spawn
<1>3. Head(todo) \in Upload
  OBVIOUS
<1>4. files[Head(todo).local] \in Seq(Bytes)
  BY <1>3, ContentAssumption DEF IInv, TypeOK, Upload
<1>5. /\ Fresh(todo) \in JobState
      /\ Fresh(todo).todo = todo
      /\ GoodJob(Fresh(todo), files[Head(todo).local])
  BY <1>4, FreshFacts
<1>6. jobs' \in [Job -> JobState \cup {NoJob}] /\ JobsInv'
  BY <1>1, <1>2, <1>5, JobStep
<1>7. TypeOK'
  BY <1>1, <1>6 DEF IInv, TypeOK, JobState
<1> QED BY <1>1, <1>6, <1>7, Frame DEF IInv

\* The user's events, and the server's answer to a login.
LEMMA UserIInv ==
    ASSUME IInv,
           \/ LogInAsSender
           \/ LoginSuccess
           \/ \E l \in Local : \E p \in RawPath : UploadMeta(l, p)
           \/ \E ls \in Selection : \E d \in Directory : UploadMultipleMeta(d, ls)
    PROVE  IInv'
<1>t. TypeOK
  BY DEF IInv
<1>1. CASE LogInAsSender
  <2>1. CASE Die /\ UNCHANGED <<index, torn>>
    BY <1>t, <2>1, DieIInv DEF TypeOK
  <2>2. CASE /\ Room(events)
             /\ state' = "Initializing"
             /\ token' = NoTask
             /\ events' = Append(events, Message([type |-> "Login"]))
             /\ UNCHANGED <<jobs, tasks, files, published, index, torn>>
    <3>1. PICK e : e = Message([type |-> "Login"])
      OBVIOUS
    <3>2. e \in Event /\ e.kind = "SendMessage"
      BY <3>1 DEF Message, Event, Payload
    <3>3. events' \in Seq(Event) /\ Len(events') <= EventCap /\ EventsInv'
      BY <1>t, <2>2, <3>1, <3>2, EventPut DEF IInv, GoodEvent
    <3>4. TypeOK'
      BY <1>t, <2>2, <3>3 DEF TypeOK
    <3> QED BY <2>2, <3>3, <3>4, Frame DEF IInv
  <2> QED BY <1>1, <2>1, <2>2 DEF LogInAsSender
<1>2. CASE LoginSuccess
  <2>1. state' = "Idle" /\ UNCHANGED <<index, token, jobs, tasks, events, files, published, torn>>
    BY <1>2 DEF LoginSuccess
  <2>2. TypeOK'
    BY <1>t, <2>1 DEF TypeOK
  <2> QED BY <2>1, <2>2, Frame DEF IInv
<1>3. CASE \E l \in Local : \E p \in RawPath : UploadMeta(l, p)
  <2>1. PICK l \in Local, p \in RawPath : Spawn(<<[local |-> l, path |-> normalize_path(p)]>>)
    BY <1>3 DEF UploadMeta, create_meta
  <2>2. PICK u : u = [local |-> l, path |-> normalize_path(p)]
    OBVIOUS
  <2>3. normalize_path(p) \in RemotePath
    BY DEF RemotePath
  <2>4. u \in Upload
    BY <2>2, <2>3 DEF Upload
  <2>5. <<u>> \in Seq(Upload) /\ <<u>> # <<>>
    BY <2>4
  <2> QED BY <2>1, <2>2, <2>5, SpawnIInv
<1>4. CASE \E ls \in Selection : \E d \in Directory : UploadMultipleMeta(d, ls)
  <2>1. PICK ls \in Selection, d \in Directory :
           Spawn([i \in DOMAIN ls |-> [local |-> ls[i], path |-> InDirectory(d, ls[i])]])
    BY <1>4 DEF UploadMultipleMeta, create_multiple_meta
  <2>2. PICK z : z = [i \in DOMAIN ls |-> [local |-> ls[i], path |-> InDirectory(d, ls[i])]]
    OBVIOUS
  <2>3. ls \in Seq(Local) /\ ls # <<>> /\ DOMAIN ls = 1 .. Len(ls) /\ Len(ls) \in Nat
    BY FileAssumption
  <2>4. \A i \in 1 .. Len(ls) : [local |-> ls[i], path |-> InDirectory(d, ls[i])] \in Upload
    BY <2>3 DEF RemotePath, Upload
  <2>5. z \in Seq(Upload) /\ Len(z) = Len(ls)
    BY <2>2, <2>3, <2>4
  <2>6. z # <<>>
    <3>1. Len(<<>>) = 0 /\ Len(ls) # 0
      BY <2>3
    <3> QED BY <2>5, <3>1
  <2> QED BY <2>1, <2>2, <2>5, <2>6, SpawnIInv
<1> QED BY <1>1, <1>2, <1>3, <1>4

\* What create_for_file has made of a file goes into the index, and what is
\* published is what the index says.
LEMMA MetaCreatedIInv ==
    ASSUME IInv, MetaCreated
    PROVE  IInv'
<1>t. TypeOK /\ EventsInv
  BY DEF IInv
<1>1. events # <<>> /\ Head(events).kind = "MetaCreated"
  BY DEF MetaCreated
<1>2. PICK z : z = Tail(events)
  OBVIOUS
<1>3. /\ Head(events) \in Event
      /\ GoodEvent(Head(events), files)
      /\ z \in Seq(Event)
      /\ Len(z) < EventCap
      /\ \A i \in DOMAIN z : GoodEvent(z[i], files)
  BY <1>t, <1>1, <1>2, EventTaken
<1>4. PICK e : e = Head(events).entry
  OBVIOUS
<1>5. e \in NewEntry /\ GoodEntry(e, files[e.local_path])
  BY <1>1, <1>3, <1>4 DEF Event, NewEntry, GoodEvent
<1>6. e.path \in RemotePath /\ e.local_path \in Local /\ e.meta \in FileMeta
  BY <1>5 DEF NewEntry
<1>7. CASE torn' = TRUE /\ Die /\ UNCHANGED index
  BY <1>7, DieIInv
<1>8. CASE /\ on_meta_created(e)
           /\ events' = Append(z, publish_meta(e))
           /\ UNCHANGED <<state, token, jobs, tasks, files, torn>>
  <2>1. PICK d : d = [local_path |-> e.local_path, meta |-> e.meta]
    OBVIOUS
  <2>2. d \in IndexEntry /\ d.local_path = e.local_path /\ d.meta = e.meta
    BY <1>6, <2>1 DEF IndexEntry
  <2>3. index \in [RemotePath -> IndexEntry \cup {NoEntry}]
    BY <1>t, Types
  <2>4. index' = [index EXCEPT ![e.path] = d] /\ published' = published \ {e.path}
    BY <1>8, <2>1 DEF on_meta_created
  <2>5. index' \in [RemotePath -> IndexEntry \cup {NoEntry}]
    BY <2>2, <2>3, <2>4
  <2>6. IndexInv'
    <3>1. ASSUME NEW p \in RemotePath, index'[p] # NoEntry
          PROVE  GoodEntry(index'[p], files[index'[p].local_path])
      <4>1. CASE p = e.path
        BY <1>5, <2>2, <2>3, <2>4, <4>1 DEF GoodEntry
      <4>2. CASE p # e.path
        <5>1. index'[p] = index[p]
          BY <2>3, <2>4, <4>2
        <5> QED BY <3>1, <5>1 DEF IInv, IndexInv
      <4> QED BY <4>1, <4>2
    <3> QED BY <1>8, <3>1 DEF IndexInv
  <2>7. PICK y : y = publish_meta(e)
    OBVIOUS
  <2>8. y \in Event /\ y.kind = "SendMessage"
    BY <1>6, <2>7 DEF publish_meta, Message, Event, Payload
  <2>9. /\ events' \in Seq(Event)
        /\ Len(events') = Len(z) + 1
        /\ DOMAIN events' = 1 .. Len(z) + 1
        /\ Len(z) \in Nat
        /\ DOMAIN z = 1 .. Len(z)
        /\ \A i \in 1 .. Len(z) : events'[i] = z[i]
        /\ events'[Len(z) + 1] = y
    BY <1>3, <1>8, <2>7, <2>8, AppendFacts
  <2>10. EventsInv'
    <3>1. \A i \in DOMAIN events' : i \in 1 .. Len(z) \/ i = Len(z) + 1
      BY <2>9
    <3>2. \A i \in DOMAIN events' : GoodEvent(events'[i], files)
      BY <1>3, <2>8, <2>9, <3>1 DEF GoodEvent
    <3> QED BY <1>8, <3>2 DEF EventsInv
  <2>11. Len(events') <= EventCap
    BY <1>3, <2>9, SizeAssumption
  <2>12. TypeOK'
    <3>1. published' \subseteq RemotePath
      BY <1>t, <2>4 DEF TypeOK
    <3> QED BY <1>t, <1>8, <2>5, <2>9, <2>11, <3>1 DEF TypeOK, IndexEntry
  <2> QED BY <1>8, <2>6, <2>10, <2>12, Frame DEF IInv
<1> QED BY <1>2, <1>4, <1>7, <1>8 DEF MetaCreated

\* A message goes out on the socket.
LEMMA SendMessageIInv ==
    ASSUME IInv, SendMessage
    PROVE  IInv'
<1>t. TypeOK /\ EventsInv
  BY DEF IInv
<1>1. events # <<>> /\ Head(events).kind = "SendMessage"
  BY DEF SendMessage
<1>2. /\ Head(events) \in Event
      /\ Tail(events) \in Seq(Event)
      /\ Len(Tail(events)) < EventCap
      /\ \A i \in DOMAIN Tail(events) : GoodEvent(Tail(events)[i], files)
  BY <1>t, <1>1, EventTaken
<1>3. /\ events' = Tail(events)
      /\ UNCHANGED <<state, index, token, jobs, tasks, files, torn>>
  BY DEF SendMessage
<1>4. PICK m : m = Head(events).message
  OBVIOUS
<1>5. m \in Payload
  BY <1>1, <1>2, <1>4 DEF Event
<1>6. m.type = "PublishMeta" => m.path \in RemotePath
  BY <1>5 DEF Payload
<1>7. published' \subseteq RemotePath
  BY <1>t, <1>4, <1>6 DEF SendMessage, TypeOK
<1>8. EventsInv'
  BY <1>2, <1>3 DEF EventsInv
<1>9. Len(events') <= EventCap
  BY <1>2, <1>3, SizeAssumption
<1>10. TypeOK'
  BY <1>t, <1>2, <1>3, <1>7, <1>9 DEF TypeOK
<1> QED BY <1>3, <1>8, <1>10, Frame DEF IInv

\* A transfer starts with a chunk of the index and nothing sent.
LEMMA RequestIInv ==
    ASSUME IInv, NEW p \in RemotePath, NEW k \in Nat, NEW h,
           process_request_chunk(p, k, h)
    PROVE  IInv'
<1>t. TypeOK
  BY DEF IInv
<1>1. UNCHANGED <<state, index, jobs, events, files, published, torn>>
  BY DEF process_request_chunk
<1>2. CASE UNCHANGED <<token, tasks>>
  <2>1. TypeOK'
    BY <1>t, <1>1, <1>2 DEF TypeOK
  <2> QED BY <1>1, <1>2, <2>1, Frame DEF IInv
<1>3. CASE ~UNCHANGED <<token, tasks>>
  <2>1. PICK e : e = index[p]
    OBVIOUS
  <2>2. e # NoEntry /\ k < Len(e.meta.chunks)
    BY <1>3, <2>1 DEF process_request_chunk
  <2>3. e \in IndexEntry /\ GoodEntry(e, files[e.local_path])
    BY <1>t, <2>1, <2>2, Types DEF IInv, IndexInv
  <2>4. PICK c : c = e.meta.chunks[k + 1]
    OBVIOUS
  <2>5. e.meta \in FileMeta /\ e.local_path \in Local
    BY <2>3 DEF IndexEntry
  <2>6. /\ e.meta.chunks \in Seq(Chunk)
        /\ e.meta.size \in Nat
        /\ DOMAIN e.meta.chunks = 1 .. Len(e.meta.chunks)
        /\ Len(e.meta.chunks) \in Nat
        /\ k \in Nat
    BY <2>5, SizeAssumption DEF FileMeta
  <2>7. k + 1 \in 1 .. Len(e.meta.chunks)
    BY <2>2, <2>6
  <2>8. c \in Chunk
    BY <2>4, <2>6, <2>7
  <2>9. c.offset \in Nat /\ c.size \in Nat /\ c.hash \in Seq(Bytes)
    BY <2>8 DEF Chunk
  <2>10. c.size > 0 /\ Len(c.hash) = c.size
    <3>1. Tiles([size |-> e.meta.size, chunks |-> e.meta.chunks])
      BY <2>3 DEF GoodEntry, GoodMeta
    <3> QED BY <2>4, <2>6, <2>7, <3>1, TilesFacts
  <2>11. e.local_path \notin Changing => HashedFrom(c, files[e.local_path])
    BY <2>3, <2>4, <2>6, <2>7 DEF GoodEntry, GoodMeta
  <2>12. PICK r : r = [local |-> e.local_path, chunk |-> c, count |-> 0, next |-> "read",
                       read_buf |-> <<>>, sent |-> <<>>, cancelled |-> FALSE]
    OBVIOUS
  <2>13. PICK t \in Task : token' = t /\ tasks' = [tasks EXCEPT ![t] = r]
    BY <1>3, <2>1, <2>4, <2>12 DEF process_request_chunk
  <2>14. <<>> \in Seq(Bytes) /\ Len(<<>>) = 0
    OBVIOUS
  <2>15. /\ r.local = e.local_path /\ r.chunk = c /\ r.count = 0 /\ r.next = "read"
         /\ r.sent = <<>>
    BY <2>12
  <2>16. r \in TaskState
    BY <2>5, <2>8, <2>12, <2>14 DEF TaskState
  <2>17. GoodTask(r, files[r.local])
    BY <2>9, <2>10, <2>11, <2>14, <2>15 DEF GoodTask, Over
  <2>18. tasks' \in [Task -> TaskState \cup {NoTask}] /\ TasksInv'
    BY <1>1, <2>13, <2>16, <2>17, TaskStep
  <2>19. TypeOK'
    BY <1>t, <1>1, <2>13, <2>18 DEF TypeOK, TaskState
  <2> QED BY <1>1, <2>18, <2>19, Frame DEF IInv
<1> QED BY <1>2, <1>3

\* Cancelling a transfer changes nothing of what it has sent.
LEMMA StopIInv ==
    ASSUME IInv, StopChunk
    PROVE  IInv'
<1>t. TypeOK /\ tasks \in [Task -> TaskState \cup {NoTask}]
  BY Types DEF IInv
<1>1. /\ UNCHANGED <<state, index, token, jobs, events, files, published, torn>>
      /\ tasks' = [t \in Task |-> IF t = token /\ tasks[t] # NoTask
                                  THEN [tasks[t] EXCEPT !.cancelled = TRUE] ELSE tasks[t]]
  BY DEF StopChunk
<1>2. ASSUME NEW t \in Task
      PROVE  \/ tasks'[t] = tasks[t]
             \/ /\ tasks[t] # NoTask
                /\ tasks'[t] \in TaskState
                /\ tasks'[t].local = tasks[t].local
                /\ GoodTask(tasks'[t], files[tasks[t].local])
  <2>1. CASE t = token /\ tasks[t] # NoTask
    <3>1. PICK r : r = tasks[t]
      OBVIOUS
    <3>2. r \in TaskState /\ GoodTask(r, files[r.local])
      BY <2>1, <3>1, TaskOfIInv
    <3>3. PICK q : q = [r EXCEPT !.cancelled = TRUE]
      OBVIOUS
    <3>4. /\ q \in TaskState
          /\ q.local = r.local /\ q.chunk = r.chunk /\ q.count = r.count /\ q.next = r.next
          /\ q.read_buf = r.read_buf /\ q.sent = r.sent
      BY <3>2, <3>3 DEF TaskState
    <3>5. GoodTask(q, files[r.local])
      BY <3>2, <3>4 DEF GoodTask, Over
    <3> QED BY <1>1, <2>1, <3>1, <3>3, <3>4, <3>5
  <2>2. CASE ~(t = token /\ tasks[t] # NoTask)
    BY <1>1, <2>2
  <2> QED BY <2>1, <2>2
<1>3. tasks' \in [Task -> TaskState \cup {NoTask}]
  <2>1. \A t \in Task : tasks'[t] \in TaskState \cup {NoTask}
    BY <1>t, <1>2
  <2>2. tasks' = [t \in Task |-> tasks'[t]]
    BY <1>1
  <2> QED BY <2>1, <2>2
<1>4. TasksInv'
  BY <1>1, <1>2 DEF IInv, TasksInv
<1>5. TypeOK'
  BY <1>t, <1>1, <1>3 DEF TypeOK, TaskState
<1> QED BY <1>1, <1>4, <1>5, Frame DEF IInv

\* A metadata job reads on, reaches the end, gives up or ends one file.
LEMMA JobIInv ==
    ASSUME IInv, NEW j \in Job,
           Read(j) \/ ReadEof(j) \/ FileDone(j) \/ OpenFails(j) \/ ReadPanics(j)
    PROVE  IInv'
<1>t. TypeOK
  BY DEF IInv
<1>1. jobs[j] # NoJob /\ UNCHANGED <<state, index, token, tasks, files, published, torn>>
  BY DEF Read, ReadEof, FileDone, OpenFails, ReadPanics, JobOnly
<1>2. PICK r : r = jobs[j]
  OBVIOUS
<1>3. PICK f : f = files[Head(r.todo).local]
  OBVIOUS
<1>4. /\ r \in JobState
      /\ GoodJob(r, f)
      /\ r.todo # <<>>
      /\ Head(r.todo) \in Upload
      /\ Head(r.todo).local \in Local
      /\ Head(r.todo).path \in RemotePath
      /\ f \in Seq(Bytes)
  BY <1>1, <1>2, <1>3, JobOfIInv
<1>5. ASSUME NEW q, jobs' = [jobs EXCEPT ![j] = q],
             q # NoJob => q \in JobState /\ GoodJob(q, files[Head(q.todo).local]),
             events' \in Seq(Event), Len(events') <= EventCap, EventsInv'
      PROVE  IInv'
  <2>1. jobs' \in [Job -> JobState \cup {NoJob}] /\ JobsInv'
    BY <1>1, <1>5, JobStep
  <2>2. TypeOK'
    BY <1>t, <1>1, <1>5, <2>1 DEF TypeOK, JobState
  <2> QED BY <1>1, <1>5, <2>1, <2>2, Frame DEF IInv
<1>6. UNCHANGED events => events' \in Seq(Event) /\ Len(events') <= EventCap /\ EventsInv'
  BY <1>t, <1>1, Frame DEF IInv, TypeOK
<1>7. CASE Read(j)
  <2>1. PICK n \in 1 .. BufSize :
           /\ r.file_size + n <= Len(f)
           /\ jobs' = [jobs EXCEPT ![j] = Hashed(r, SubSeq(f, r.file_size + 1, r.file_size + n))]
    BY <1>2, <1>3, <1>7 DEF Read
  <2>2. PICK b : b = SubSeq(f, r.file_size + 1, r.file_size + n)
    OBVIOUS
  <2>3. n \in Nat /\ r.file_size \in Nat
    BY <1>4, SizeAssumption DEF JobState
  <2>4. b \in Seq(Bytes) /\ ReadFrom(b, f, r.file_size)
    <3>1. PICK o \in Nat : o = r.file_size
      BY <2>3
    <3>2. f \in Seq(Bytes) /\ o + n <= Len(f) /\ b = Part(f, o, n)
      BY <1>4, <2>1, <2>2, <3>1 DEF Part
    <3>3. b \in Seq(Bytes) /\ ReadFrom(b, f, o)
      BY <2>3, <3>2, PartFacts
    <3> QED BY <3>1, <3>3
  <2>5. PICK q : q = Hashed(r, b)
    OBVIOUS
  <2>6. q \in JobState /\ q.todo = r.todo /\ GoodJob(q, f)
    BY <1>4, <2>4, <2>5, HashedFacts
  <2> QED BY <1>3, <1>5, <1>6, <1>7, <2>1, <2>2, <2>5, <2>6 DEF Read
<1>8. CASE ReadEof(j)
  <2>1. jobs' = [jobs EXCEPT ![j].eof = TRUE] /\ UNCHANGED events
    BY <1>8 DEF ReadEof
  <2>2. PICK q : q = [r EXCEPT !.eof = TRUE]
    OBVIOUS
  <2>3. /\ q \in JobState
        /\ q.todo = r.todo /\ q.chunks = r.chunks /\ q.chunk_offset = r.chunk_offset
        /\ q.chunk_hash = r.chunk_hash /\ q.file_size = r.file_size
    BY <1>4, <2>2 DEF JobState
  <2>4. GoodJob(q, f)
    BY <1>4, <2>3 DEF GoodJob
  <2>5. jobs' = [jobs EXCEPT ![j] = q]
    <3>1. [jobs EXCEPT ![j].eof = TRUE] = [jobs EXCEPT ![j] = [jobs[j] EXCEPT !.eof = TRUE]]
      BY Zenon
    <3> QED BY <1>2, <2>1, <2>2, <3>1
  <2> QED BY <1>3, <1>5, <1>6, <2>1, <2>3, <2>4, <2>5
<1>9. CASE FileDone(j)
  <2>1. PICK q : q = IF Len(r.chunk_hash) > 0 THEN CloseChunk(r) ELSE r
    OBVIOUS
  <2>2. PICK m : m = [size |-> q.file_size, chunks |-> q.chunks]
    OBVIOUS
  <2>3. PICK d : d = [path |-> Head(r.todo).path, local_path |-> Head(r.todo).local, meta |-> m]
    OBVIOUS
  <2>4. PICK e : e = [kind |-> "MetaCreated", entry |-> d]
    OBVIOUS
  <2>5. /\ Room(events)
        /\ events' = Append(events, e)
        /\ jobs' = [jobs EXCEPT ![j] = Advanced(r)]
    BY <1>2, <1>9, <2>1, <2>2, <2>3, <2>4 DEF FileDone
  <2>6. q \in JobState /\ GoodMeta(q.chunks, q.file_size, Head(r.todo).local, f)
    <3>1. CASE Len(r.chunk_hash) > 0
      BY <1>4, <2>1, <3>1, CloseFacts
    <3>2. CASE ~(Len(r.chunk_hash) > 0)
      <4>1. r.file_size = r.chunk_offset + Len(r.chunk_hash)
        BY <1>4 DEF GoodJob
      <4>2. Len(r.chunk_hash) \in Nat /\ r.chunk_offset \in Nat
        BY <1>4 DEF JobState
      <4>3. r.file_size = r.chunk_offset
        BY <3>2, <4>1, <4>2
      <4> QED BY <1>4, <2>1, <3>2, <4>3 DEF GoodJob
    <3> QED BY <3>1, <3>2
  <2>7. m \in FileMeta /\ m.size = q.file_size /\ m.chunks = q.chunks
    BY <2>2, <2>6 DEF FileMeta, JobState
  <2>8. d.local_path = Head(r.todo).local /\ d.meta = m
    BY <2>3
  <2>9. e \in Event /\ e.entry = d
    BY <1>4, <2>3, <2>4, <2>7 DEF Event
  <2>10. GoodEvent(e, files)
    BY <1>3, <2>6, <2>7, <2>8, <2>9 DEF GoodEvent, GoodEntry
  <2>11. events' \in Seq(Event) /\ Len(events') <= EventCap /\ EventsInv'
    BY <1>t, <1>1, <2>5, <2>9, <2>10, EventPut DEF IInv
  <2>12. PICK a : a = Advanced(r)
    OBVIOUS
  <2>13. a # NoJob => a \in JobState /\ GoodJob(a, files[Head(a.todo).local])
    BY <1>t, <1>4, <2>12, AdvancedFacts
  <2> QED BY <1>5, <2>5, <2>11, <2>12, <2>13
<1>10. CASE OpenFails(j)
  <2>1. PICK a : a = Advanced(r)
    OBVIOUS
  <2>2. a # NoJob => a \in JobState /\ GoodJob(a, files[Head(a.todo).local])
    BY <1>t, <1>4, <2>1, AdvancedFacts
  <2> QED BY <1>2, <1>5, <1>6, <1>10, <2>1, <2>2 DEF OpenFails
<1>11. CASE ReadPanics(j)
  BY <1>5, <1>6, <1>11 DEF ReadPanics
<1> QED BY <1>7, <1>8, <1>9, <1>10, <1>11

\* What is read next of an unchanged file goes on with the chunk.
LEMMA ReadsGood ==
    ASSUME NEW r \in TaskState, NEW f \in Seq(Bytes), GoodTask(r, f), r.next = "read",
           NEW b \in FillBuf(f, r.chunk.offset + r.count),
           NEW q, q = [r EXCEPT !.read_buf = b, !.next = "send"]
    PROVE  q \in TaskState /\ q.local = r.local /\ GoodTask(q, f)
<1>1. r.chunk \in Chunk /\ r.count \in Nat /\ r.sent \in Seq(Bytes)
  BY DEF TaskState
<1>2. r.chunk.offset \in Nat /\ r.chunk.size \in Nat /\ r.chunk.hash \in Seq(Bytes)
  BY <1>1 DEF Chunk
<1>3. PICK o \in Nat : o = r.chunk.offset + r.count
  BY <1>1, <1>2
<1>4. Len(f) \in Nat
  OBVIOUS
<1>5. /\ b \in Seq(Bytes)
      /\ o < Len(f) => b # <<>> /\ ReadFrom(b, f, o)
  <2>1. CASE o >= Len(f)
    <3>1. b = <<>>
      BY <1>3, <2>1 DEF FillBuf
    <3> QED BY <1>4, <2>1, <3>1
  <2>2. CASE ~(o >= Len(f))
    <3>1. PICK n \in 1 .. BufSize : o + n <= Len(f) /\ b = SubSeq(f, o + 1, o + n)
      BY <1>3, <2>2 DEF FillBuf
    <3>2. n \in Nat /\ n # 0
      BY SizeAssumption
    <3>3. b \in Seq(Bytes) /\ Len(b) = n /\ ReadFrom(b, f, o)
      <4>1. PICK m \in Nat : m = n
        BY <3>2
      <4>2. o + m <= Len(f) /\ b = Part(f, o, m)
        BY <3>1, <4>1 DEF Part
      <4>3. b \in Seq(Bytes) /\ Len(b) = m /\ ReadFrom(b, f, o)
        BY <4>2, PartFacts
      <4> QED BY <4>1, <4>3
    <3>4. Len(<<>>) = 0
      OBVIOUS
    <3> QED BY <3>2, <3>3, <3>4
  <2> QED BY <2>1, <2>2
<1>6. /\ q \in TaskState
      /\ q.local = r.local /\ q.chunk = r.chunk /\ q.count = r.count /\ q.next = "send"
      /\ q.read_buf = b /\ q.sent = r.sent
  BY <1>5 DEF TaskState
<1>7. r.count < r.chunk.size
  BY DEF GoodTask, Over
<1>8. ASSUME r.local \notin Changing PROVE o < Len(f)
  <2>1. r.chunk.offset + r.chunk.size <= Len(f)
    BY <1>8 DEF GoodTask, HashedFrom
  <2> QED BY <1>1, <1>2, <1>3, <1>4, <1>7, <2>1
<1> QED BY <1>3, <1>5, <1>6, <1>8 DEF GoodTask, Over

\* The block that a transfer sends, and the transfer afterwards.
BlockOf(r) == SubSeq(r.read_buf, 1, Boundary(r, Len(r.read_buf)))

AfterBlock(r) ==
    [r EXCEPT !.count = @ + Len(r.read_buf), !.sent = @ \o BlockOf(r), !.read_buf = <<>>,
              !.next = IF Again(r, Len(r.read_buf)) THEN "read" ELSE "done"]

\* What is sent of the buffer goes on with the chunk, and ends where it ends.
LEMMA SendsGood ==
    ASSUME NEW r \in TaskState, NEW f \in Seq(Bytes), GoodTask(r, f), r.next = "send"
    PROVE  /\ BlockOf(r) \in Seq(Bytes)
           /\ AfterBlock(r) \in TaskState
           /\ AfterBlock(r).local = r.local
           /\ GoodTask(AfterBlock(r), f)
<1>a. PICK n : n = Len(r.read_buf)
  OBVIOUS
<1>b. PICK b : b = BlockOf(r)
  OBVIOUS
<1>c. PICK q : q = AfterBlock(r)
  OBVIOUS
<1>1. r.chunk \in Chunk /\ r.read_buf \in Seq(Bytes) /\ r.sent \in Seq(Bytes)
  BY DEF TaskState
<1>2. r.chunk.hash \in Seq(Bytes)
  BY <1>1 DEF Chunk
<1>3. PICK o \in Nat : o = r.chunk.offset
  BY <1>1 DEF Chunk
<1>4. PICK z \in Nat : z = r.chunk.size
  BY <1>1 DEF Chunk
<1>5. PICK k \in Nat : k = r.count
  BY DEF TaskState
<1>6. Len(r.sent) = k /\ k < z /\ Len(r.chunk.hash) = z /\ n \in Nat
  BY <1>1, <1>4, <1>5, <1>a DEF GoodTask, Over
<1>7. PICK m : m = Boundary(r, n)
  OBVIOUS
<1>8. m = (IF n < z - k THEN n ELSE z - k) /\ m \in Nat
  <2>1. m = IF n < z - k THEN n ELSE z - k
    BY <1>4, <1>5, <1>7 DEF Boundary
  <2>2. z - k \in Nat
    BY <1>6
  <2> QED BY <1>6, <2>1, <2>2
<1>9. b \in Seq(Bytes) /\ Len(b) = m /\ \A i \in 1 .. m : b[i] = r.read_buf[i]
  <2>1. m <= n
    BY <1>6, <1>8
  <2>2. b = SubSeq(r.read_buf, 1, m)
    BY <1>7, <1>a, <1>b DEF BlockOf
  <2> QED BY <1>1, <1>8, <1>a, <2>1, <2>2, PrefixFacts
<1>10. PICK s : s = r.sent \o b
  OBVIOUS
<1>11. /\ s \in Seq(Bytes)
       /\ Len(s) = k + m
       /\ \A i \in 1 .. k + m : s[i] = IF i <= k THEN r.sent[i] ELSE b[i - k]
  <2>1. Len(r.sent) = k /\ Len(b) = m
    BY <1>6, <1>9
  <2>2. /\ r.sent \o b \in Seq(Bytes)
        /\ Len(r.sent \o b) = Len(r.sent) + Len(b)
        /\ \A i \in 1 .. Len(r.sent) + Len(b) :
              (r.sent \o b)[i] = IF i <= Len(r.sent) THEN r.sent[i] ELSE b[i - Len(r.sent)]
    BY <1>1, <1>9, JoinFacts
  <2> QED BY <1>10, <2>1, <2>2
<1>12. PICK x \in {"read", "done"} : x = IF Again(r, n) THEN "read" ELSE "done"
  OBVIOUS
<1>13. /\ q \in TaskState
       /\ q.local = r.local /\ q.chunk = r.chunk /\ q.count = k + n /\ q.next = x
       /\ q.sent = s
  <2>1. q = [r EXCEPT !.count = k + n, !.sent = s, !.read_buf = <<>>, !.next = x]
    BY <1>5, <1>10, <1>12, <1>a, <1>b, <1>c DEF AfterBlock, TaskState
  <2>2. <<>> \in Seq(Bytes) /\ k + n \in Nat
    BY <1>6
  <2> QED BY <1>11, <2>1, <2>2 DEF TaskState
<1>14. k + m <= z
  BY <1>6, <1>8
<1>15. x = "read" <=> n > 0 /\ k + n < z
  BY <1>4, <1>5, <1>12 DEF Again
<1>16. x = "read" => m = n
  BY <1>6, <1>8, <1>15
<1>17. ASSUME r.local \notin Changing
       PROVE  /\ HashedFrom(r.chunk, f)
              /\ \A i \in 1 .. k + m : s[i] = r.chunk.hash[i]
              /\ x = "done" => k + m = z
  <2>1. /\ HashedFrom(r.chunk, f)
        /\ \A i \in 1 .. k : r.sent[i] = r.chunk.hash[i]
        /\ r.read_buf # <<>>
        /\ ReadFrom(r.read_buf, f, o + k)
    BY <1>3, <1>5, <1>6, <1>17 DEF GoodTask
  <2>7. n = Len(r.read_buf)
    BY <1>a
  <2>2. \A i \in 1 .. z : r.chunk.hash[i] = f[o + i]
    BY <1>3, <1>6, <2>1 DEF HashedFrom, ReadFrom
  <2>3. \A i \in 1 .. n : r.read_buf[i] = f[(o + k) + i]
    BY <2>1, <2>7 DEF ReadFrom
  <2>4. n # 0
    BY <1>1, <2>1, <2>7
  <2>5. x = "done" => k + m = z
    BY <1>6, <1>8, <1>15, <2>4
  <2>6. ASSUME NEW i \in 1 .. k + m PROVE s[i] = r.chunk.hash[i]
    <3>1. CASE i <= k
      BY <1>11, <2>1, <3>1
    <3>2. CASE ~(i <= k)
      <4>1. /\ i - k \in 1 .. m
            /\ i - k \in 1 .. n
            /\ i \in 1 .. z
            /\ (o + k) + (i - k) = o + i
        <5>1. m <= n /\ k + m <= z /\ m \in Nat /\ n \in Nat
          BY <1>6, <1>8, <1>14
        <5> QED BY <3>2, <5>1
      <4>2. s[i] = b[i - k]
        BY <1>11, <3>2
      <4>3. b[i - k] = f[o + i]
        BY <1>9, <2>3, <4>1
      <4> QED BY <2>2, <4>1, <4>2, <4>3
    <3> QED BY <3>1, <3>2
  <2> QED BY <2>1, <2>5, <2>6
<1>18. GoodTask(q, f)
  <2>1. Len(q.chunk.hash) = q.chunk.size /\ Len(q.sent) <= q.chunk.size
    BY <1>4, <1>6, <1>11, <1>13, <1>14
  <2>2. ~Over(q) => Len(q.sent) = q.count /\ q.count < q.chunk.size
    BY <1>4, <1>11, <1>13, <1>15, <1>16 DEF Over
  <2>3. ASSUME q.local \notin Changing
        PROVE  /\ HashedFrom(q.chunk, f)
               /\ \A i \in 1 .. Len(q.sent) : q.sent[i] = q.chunk.hash[i]
               /\ Over(q) => Len(q.sent) = q.chunk.size
    BY <1>4, <1>11, <1>13, <1>17, <2>3 DEF Over
  <2>4. q.next # "send"
    BY <1>13
  <2> QED BY <2>1, <2>2, <2>3, <2>4 DEF GoodTask
<1> QED BY <1>9, <1>13, <1>18, <1>b, <1>c

\* A transfer reads, sends or ends.
LEMMA TransferIInv ==
    ASSUME IInv, NEW t \in Task,
           \/ TransferReads(t)
           \/ TransferSends(t)
           \/ TransferFinished(t)
           \/ TransferCancelled(t)
           \/ TransferPanics(t)
    PROVE  IInv'
<1>t. TypeOK
  BY DEF IInv
<1>1. tasks[t] # NoTask /\ UNCHANGED <<state, index, token, jobs, files, published, torn>>
  BY DEF TransferReads, TransferSends, TransferFinished, TransferCancelled, TransferPanics,
         TaskOnly, EndTask
<1>2. PICK r : r = tasks[t]
  OBVIOUS
<1>3. PICK f : f = files[r.local]
  OBVIOUS
<1>4. r \in TaskState /\ GoodTask(r, f) /\ f \in Seq(Bytes)
  BY <1>1, <1>2, <1>3, TaskOfIInv
<1>5. ASSUME NEW q, tasks' = [tasks EXCEPT ![t] = q],
             q # NoTask => q \in TaskState /\ GoodTask(q, files[q.local]),
             events' \in Seq(Event), Len(events') <= EventCap, EventsInv'
      PROVE  IInv'
  <2>1. tasks' \in [Task -> TaskState \cup {NoTask}] /\ TasksInv'
    BY <1>1, <1>5, TaskStep
  <2>2. TypeOK'
    BY <1>t, <1>1, <1>5, <2>1 DEF TypeOK, TaskState
  <2> QED BY <1>1, <1>5, <2>1, <2>2, Frame DEF IInv
<1>6. UNCHANGED events => events' \in Seq(Event) /\ Len(events') <= EventCap /\ EventsInv'
  BY <1>t, <1>1, Frame DEF IInv, TypeOK
<1>7. CASE TransferReads(t)
  <2>1. PICK b \in FillBuf(f, r.chunk.offset + r.count) :
           tasks' = [tasks EXCEPT ![t].read_buf = b, ![t].next = "send"]
    BY <1>2, <1>3, <1>7 DEF TransferReads
  <2>2. PICK q : q = [r EXCEPT !.read_buf = b, !.next = "send"]
    OBVIOUS
  <2>3. tasks' = [tasks EXCEPT ![t] = q]
    <3>1. tasks \in [Task -> TaskState \cup {NoTask}]
      BY <1>t, Types
    <3> QED BY <1>2, <2>1, <2>2, <3>1
  <2>4. r.next = "read" /\ UNCHANGED events
    BY <1>2, <1>7 DEF TransferReads
  <2>5. q \in TaskState /\ q.local = r.local /\ GoodTask(q, f)
    BY <1>4, <2>2, <2>4, ReadsGood
  <2> QED BY <1>3, <1>5, <1>6, <2>3, <2>4, <2>5
<1>8. CASE TransferSends(t)
  <2>1. PICK e : e = Message([type |-> "TransmitChunk", data |-> BlockOf(r)])
    OBVIOUS
  <2>2. PICK q : q = AfterBlock(r)
    OBVIOUS
  <2>3. /\ r.next = "send"
        /\ Room(events)
        /\ events' = Append(events, e)
        /\ tasks' = [tasks EXCEPT ![t] = q]
    BY <1>2, <1>8, <2>1, <2>2 DEF TransferSends, AfterBlock, BlockOf
  <2>4. BlockOf(r) \in Seq(Bytes) /\ q \in TaskState /\ q.local = r.local /\ GoodTask(q, f)
    BY <1>4, <2>2, <2>3, SendsGood
  <2>5. e \in Event /\ e.kind = "SendMessage"
    BY <2>1, <2>4 DEF Message, Event, Payload
  <2>6. events' \in Seq(Event) /\ Len(events') <= EventCap /\ EventsInv'
    BY <1>t, <1>1, <2>3, <2>5, EventPut DEF IInv, GoodEvent
  <2> QED BY <1>3, <1>5, <2>3, <2>4, <2>6
<1>9. CASE TransferFinished(t) \/ TransferCancelled(t) \/ TransferPanics(t)
  BY <1>5, <1>6, <1>9 DEF TransferFinished, TransferCancelled, TransferPanics, EndTask
<1> QED BY <1>7, <1>8, <1>9

\* Somebody writes to a file that may change: nothing is claimed of it.
LEMMA FileChangedIInv ==
    ASSUME IInv, NEW l \in Changing, NEW c \in Content, FileChanged(l, c)
    PROVE  IInv'
<1>1. /\ files' = [files EXCEPT ![l] = c]
      /\ UNCHANGED <<state, index, token, jobs, tasks, events, published, torn>>
  BY DEF FileChanged
<1>2. TypeOK'
  BY <1>1 DEF IInv, TypeOK
<1>3. \A k \in Local : k \notin Changing => files'[k] = files[k]
  BY <1>1 DEF IInv, TypeOK
<1>4. ASSUME NEW j \in Job, jobs[j] # NoJob
      PROVE  GoodJob(jobs[j], files'[Head(jobs[j].todo).local])
  <2>1. GoodJob(jobs[j], files[Head(jobs[j].todo).local]) /\ Head(jobs[j].todo).local \in Local
    BY <1>4, JobOfIInv
  <2> QED BY <1>3, <2>1 DEF GoodJob, GoodMeta
<1>5. ASSUME NEW t \in Task, tasks[t] # NoTask
      PROVE  GoodTask(tasks[t], files'[tasks[t].local])
  <2>1. GoodTask(tasks[t], files[tasks[t].local]) /\ tasks[t].local \in Local
    BY <1>5, TaskOfIInv
  <2> QED BY <1>3, <2>1 DEF GoodTask
<1>6. ASSUME NEW e, e.local_path \in Local, GoodEntry(e, files[e.local_path])
      PROVE  GoodEntry(e, files'[e.local_path])
  BY <1>3, <1>6 DEF GoodEntry, GoodMeta
<1>7. ASSUME NEW p \in RemotePath, index[p] # NoEntry
      PROVE  GoodEntry(index[p], files'[index[p].local_path])
  <2>1. index[p] \in IndexEntry /\ GoodEntry(index[p], files[index[p].local_path])
    BY <1>7, Types DEF IInv, IndexInv
  <2> QED BY <1>6, <2>1 DEF IndexEntry
<1>8. ASSUME NEW i \in DOMAIN events PROVE GoodEvent(events[i], files')
  <2>1. GoodEvent(events[i], files) /\ events[i] \in Event
    BY DEF IInv, EventsInv, TypeOK
  <2>2. events[i].kind = "MetaCreated" => events[i].entry.local_path \in Local
    BY <2>1 DEF Event
  <2> QED BY <1>6, <2>1, <2>2 DEF GoodEvent
<1>9. JobsInv' /\ TasksInv' /\ IndexInv' /\ EventsInv'
  BY <1>1, <1>4, <1>5, <1>7, <1>8 DEF JobsInv, TasksInv, IndexInv, EventsInv
<1> QED BY <1>2, <1>9 DEF IInv

\* Every step preserves the invariant.
LEMMA NextIInv ==
    ASSUME IInv, [Next]_vars
    PROVE  IInv'
<1>1. CASE \/ LogInAsSender
           \/ LoginSuccess
           \/ \E l \in Local : \E p \in RawPath : UploadMeta(l, p)
           \/ \E ls \in Selection : \E d \in Directory : UploadMultipleMeta(d, ls)
  BY <1>1, UserIInv
<1>2. CASE MetaCreated
  BY <1>2, MetaCreatedIInv
<1>3. CASE SendMessage
  BY <1>3, SendMessageIInv
<1>4. CASE \E p \in RemotePath : \E k \in 0 .. MaxIndex : \E h \in Hash : process_request_chunk(p, k, h)
  BY <1>4, RequestIInv, SizeAssumption
<1>5. CASE StopChunk
  BY <1>5, StopIInv
<1>6. CASE \E j \in Job : Read(j) \/ ReadEof(j) \/ FileDone(j) \/ OpenFails(j) \/ ReadPanics(j)
  BY <1>6, JobIInv
<1>7. CASE \E t \in Task : \/ TransferReads(t) \/ TransferSends(t) \/ TransferFinished(t)
                           \/ TransferCancelled(t) \/ TransferPanics(t)
  BY <1>7, TransferIInv
<1>8. CASE \E l \in Changing : \E c \in Content : FileChanged(l, c)
  BY <1>8, FileChangedIInv
<1>9. CASE Crash
  BY <1>9, DieIInv DEF Crash, IInv, TypeOK
<1>10. CASE Restart
  <2>1. state' = "None" /\ UNCHANGED <<index, token, jobs, tasks, events, files, published, torn>>
    BY <1>10 DEF Restart
  <2>2. TypeOK'
    BY <2>1 DEF IInv, TypeOK
  <2> QED BY <2>1, <2>2, Frame DEF IInv
<1>11. CASE UNCHANGED vars
  <2>1. UNCHANGED <<state, index, token, jobs, tasks, events, files, published, torn>>
    BY <1>11 DEF vars
  <2>2. TypeOK'
    BY <2>1 DEF IInv, TypeOK
  <2> QED BY <2>1, <2>2, Frame DEF IInv
<1> QED BY <1>1, <1>2, <1>3, <1>4, <1>5, <1>6, <1>7, <1>8, <1>9, <1>10, <1>11 DEF Next

\* The invariant holds of every behaviour.
THEOREM Invariance == Spec => []IInv
<1>1. IInv /\ [Next]_vars => IInv'
  BY NextIInv
<1> QED BY <1>1, InitIInv, PTL DEF Spec

-----------------------------------------------------------------------------
(***************************************************************************)
(* The theorems.                                                           *)
(***************************************************************************)

\* Every variable keeps its type.
THEOREM TypeCorrectness == Spec => []TypeOK
<1>1. IInv => TypeOK
  BY DEF IInv
<1> QED BY <1>1, Invariance, PTL

\* Whatever is written to a file while it is read, the metadata made of it
\* tiles a file (create_for_file).
THEOREM CreatedMetaTiles == Spec => []MetaTiles
<1>1. ASSUME IInv PROVE MetaTiles
  <2>1. ASSUME NEW p \in RemotePath, index[p] # NoEntry PROVE Tiles(index[p].meta)
    <3>1. index[p] \in IndexEntry /\ GoodEntry(index[p], files[index[p].local_path])
      BY <1>1, <2>1, Types DEF IInv, IndexInv
    <3>2. index[p].meta \in FileMeta
      BY <3>1 DEF IndexEntry
    <3> QED BY <3>1, <3>2, TilesRecord DEF GoodEntry, GoodMeta
  <2>2. ASSUME NEW i \in DOMAIN events, events[i].kind = "MetaCreated"
        PROVE  Tiles(events[i].entry.meta)
    <3>1. events[i] \in Event /\ GoodEntry(events[i].entry, files[events[i].entry.local_path])
      BY <1>1, <2>2 DEF IInv, EventsInv, GoodEvent, TypeOK
    <3>2. events[i].entry.meta \in FileMeta
      BY <2>2, <3>1 DEF Event
    <3> QED BY <3>1, <3>2, TilesRecord DEF GoodEntry, GoodMeta
  <2> QED BY <2>1, <2>2 DEF MetaTiles
<1> QED BY <1>1, Invariance, PTL

\* However short the reads and however far the last one reaches beyond the
\* chunk, a transfer sends the chunk that was asked for, of a file nobody
\* changes, and never more (process_request_chunk).
THEOREM ChunkIsSent == Spec => []SentIsChunk
<1>1. ASSUME IInv PROVE SentIsChunk
  <2> SUFFICES ASSUME NEW t \in Task, tasks[t] # NoTask, NEW r, r = tasks[t]
               PROVE  /\ Len(r.sent) <= r.chunk.size
                      /\ r.local \notin Changing =>
                            /\ r.sent = SubSeq(r.chunk.hash, 1, Len(r.sent))
                            /\ Over(r) => r.sent = r.chunk.hash
    BY DEF SentIsChunk
  <2>1. r \in TaskState /\ GoodTask(r, files[r.local])
    BY <1>1, TaskOfIInv
  <2>2. r.chunk \in Chunk /\ r.sent \in Seq(Bytes)
    BY <2>1 DEF TaskState
  <2>3. r.chunk.hash \in Seq(Bytes) /\ r.chunk.size \in Nat
    BY <2>2 DEF Chunk
  <2>4. Len(r.sent) <= r.chunk.size /\ Len(r.chunk.hash) = r.chunk.size
    BY <2>1 DEF GoodTask
  <2>5. ASSUME r.local \notin Changing
        PROVE  r.sent = SubSeq(r.chunk.hash, 1, Len(r.sent))
    <3>1. \A i \in 1 .. Len(r.sent) : r.sent[i] = r.chunk.hash[i]
      BY <2>1, <2>5 DEF GoodTask
    <3>2. PICK n \in Nat : n = Len(r.sent)
      BY <2>2
    <3>3. PICK b : b = SubSeq(r.chunk.hash, 1, n)
      OBVIOUS
    <3>4. n <= Len(r.chunk.hash)
      BY <2>4, <3>2
    <3>5. b \in Seq(Bytes) /\ Len(b) = n /\ \A i \in 1 .. n : b[i] = r.chunk.hash[i]
      BY <2>3, <3>3, <3>4, PrefixFacts
    <3>6. \A i \in 1 .. Len(r.sent) : r.sent[i] = b[i]
      BY <3>1, <3>2, <3>5
    <3> QED BY <2>2, <3>2, <3>3, <3>5, <3>6, SeqEqual
  <2>6. ASSUME r.local \notin Changing, Over(r)
        PROVE  r.sent = r.chunk.hash
    <3>1. Len(r.sent) = r.chunk.size /\ \A i \in 1 .. Len(r.sent) : r.sent[i] = r.chunk.hash[i]
      BY <2>1, <2>6 DEF GoodTask
    <3> QED BY <2>2, <2>3, <2>4, <3>1, SeqEqual
  <2> QED BY <2>4, <2>5, <2>6
<1> QED BY <1>1, Invariance, PTL

\* What is on the way stays so while events are only added.
LEMMA StillOnTheWay ==
    ASSUME TypeOK, UNCHANGED <<index, published>>,
           events' = events \/ \E e \in Event : events' = Append(events, e),
           NEW p \in RemotePath, OnTheWay(p)
    PROVE  OnTheWay(p)'
<1>1. \A i \in DOMAIN events : i \in DOMAIN events' /\ events'[i] = events[i]
  <2>1. CASE events' = events
    BY <2>1
  <2>2. CASE \E e \in Event : events' = Append(events, e)
    <3>1. PICK e \in Event : events' = Append(events, e)
      BY <2>2
    <3>2. events \in Seq(Event)
      BY DEF TypeOK
    <3>3. /\ DOMAIN events' = 1 .. Len(events) + 1
          /\ Len(events) \in Nat
          /\ DOMAIN events = 1 .. Len(events)
          /\ \A i \in 1 .. Len(events) : events'[i] = events[i]
      BY <3>1, <3>2, AppendFacts
    <3> QED BY <3>3
  <2> QED BY <2>1, <2>2
<1> QED BY <1>1 DEF OnTheWay

\* An entry of the index is replaced only together with putting its metadata
\* into the event channel, and the metadata leaves the channel only for the
\* socket: a file that is listed stays published or about to be, unless the
\* process dies (MetaCreated and SendMessage of main.rs).
THEOREM ListedIsPublished == Spec => PublishedUnlessDead
<1>1. ASSUME IInv, Next, state' # "Crashed", NEW p \in RemotePath, OnTheWay(p)
      PROVE  OnTheWay(p)'
  <2>t. TypeOK
    BY <1>1 DEF IInv
  <2>d. ~Die
    BY <1>1 DEF Die
  <2>0. ASSUME UNCHANGED <<index, published>>,
               events' = events \/ \E e \in Event : events' = Append(events, e)
        PROVE  OnTheWay(p)'
    BY <1>1, <2>t, <2>0, StillOnTheWay
  <2>1. CASE LogInAsSender
    <3>1. PICK e : e = Message([type |-> "Login"])
      OBVIOUS
    <3>2. e \in Event
      BY <3>1 DEF Message, Event, Payload
    <3>3. UNCHANGED <<index, published>> /\ events' = Append(events, e)
      BY <2>1, <2>d, <3>1 DEF LogInAsSender
    <3> QED BY <2>0, <3>2, <3>3
  <2>2. CASE \/ LoginSuccess
             \/ \E l \in Local : \E q \in RawPath : UploadMeta(l, q)
             \/ \E ls \in Selection : \E d \in Directory : UploadMultipleMeta(d, ls)
             \/ \E q \in RemotePath : \E k \in 0 .. MaxIndex : \E h \in Hash : process_request_chunk(q, k, h)
             \/ StopChunk
             \/ \E l \in Changing : \E c \in Content : FileChanged(l, c)
             \/ Restart
    BY <2>0, <2>2 DEF LoginSuccess, UploadMeta, create_meta, UploadMultipleMeta, create_multiple_meta,
                      Spawn, process_request_chunk, StopChunk, FileChanged, Restart
  <2>3. CASE MetaCreated
    <3>1. PICK e : e = Head(events).entry
      OBVIOUS
    <3>2. PICK z : z = Tail(events)
      OBVIOUS
    <3>3. /\ events # <<>>
          /\ Head(events).kind = "MetaCreated"
          /\ on_meta_created(e)
          /\ events' = Append(z, publish_meta(e))
      BY <2>3, <2>d, <3>1, <3>2 DEF MetaCreated
    <3>4. PICK y : y = publish_meta(e)
      OBVIOUS
    <3>5. Head(events) \in Event /\ z \in Seq(Event)
      BY <1>1, <2>t, <3>2, <3>3, EventTaken DEF IInv
    <3>6. e.path \in RemotePath /\ e.local_path \in Local /\ e.meta \in FileMeta
      BY <3>1, <3>3, <3>5 DEF Event
    <3>7. y \in Event
      BY <3>4, <3>6 DEF publish_meta, Message, Event, Payload
    <3>8. /\ DOMAIN events' = 1 .. Len(z) + 1
          /\ Len(z) \in Nat
          /\ \A i \in 1 .. Len(z) : events'[i] = z[i]
          /\ events'[Len(z) + 1] = y
      BY <3>3, <3>4, <3>5, <3>7, AppendFacts
    <3>9. /\ index' = [index EXCEPT ![e.path] = [local_path |-> e.local_path, meta |-> e.meta]]
          /\ published' = published \ {e.path}
      BY <3>3 DEF on_meta_created
    <3>10. CASE p = e.path
      <4>1. index'[p].meta = e.meta
        BY <2>t, <3>9, <3>10 DEF TypeOK
      <4>2. y = Message([type |-> "PublishMeta", path |-> p, meta |-> index'[p].meta])
        BY <3>4, <3>10, <4>1 DEF publish_meta
      <4>3. Len(z) + 1 \in DOMAIN events'
        BY <3>8
      <4> QED BY <3>8, <4>2, <4>3 DEF OnTheWay, Message
    <3>11. CASE p # e.path
      <4>1. index'[p] = index[p] /\ (p \in published => p \in published')
        BY <2>t, <3>9, <3>11 DEF TypeOK
      <4>2. ASSUME NEW i \in DOMAIN events,
                   events[i] = Message([type |-> "PublishMeta", path |-> p, meta |-> index[p].meta])
            PROVE  \E j \in DOMAIN events' : events'[j] = events[i]
        <5>1. events[i].kind = "SendMessage"
          BY <4>2 DEF Message
        <5>2. events \in Seq(Event) /\ Head(events) = events[1] /\ i \in 1 .. Len(events)
          BY <2>t, <3>3 DEF TypeOK
        <5>3. i # 1
          BY <3>3, <5>1, <5>2
        <5>4. Len(z) = Len(events) - 1 /\ \A j \in 1 .. Len(z) : z[j] = events[j + 1]
          BY <3>2, <3>3, <5>2
        <5>5. i - 1 \in 1 .. Len(z) /\ (i - 1) + 1 = i
          BY <5>2, <5>3, <5>4
        <5>6. i - 1 \in DOMAIN events' /\ events'[i - 1] = events[i]
          BY <3>8, <5>4, <5>5
        <5> QED BY <5>6
      <4> QED BY <1>1, <4>1, <4>2 DEF OnTheWay, Message
    <3> QED BY <3>10, <3>11
  <2>4. CASE SendMessage
    <3>1. PICK m : m = Head(events).message
      OBVIOUS
    <3>2. /\ events # <<>>
          /\ Head(events).kind = "SendMessage"
          /\ published' = IF m.type = "PublishMeta" /\ m.meta = index[m.path].meta
                          THEN published \cup {m.path} ELSE published
          /\ events' = Tail(events)
          /\ index' = index
      BY <2>4, <3>1 DEF SendMessage
    <3>3. ASSUME NEW i \in DOMAIN events,
                 events[i] = Message([type |-> "PublishMeta", path |-> p, meta |-> index[p].meta])
          PROVE  p \in published' \/ \E j \in DOMAIN events' : events'[j] = events[i]
      <4>1. events \in Seq(Event) /\ Head(events) = events[1] /\ i \in 1 .. Len(events)
        BY <2>t, <3>2 DEF TypeOK
      <4>2. CASE i = 1
        <5>1. m = [type |-> "PublishMeta", path |-> p, meta |-> index[p].meta]
          BY <3>1, <3>3, <4>1, <4>2 DEF Message
        <5>2. m.type = "PublishMeta" /\ m.path = p /\ m.meta = index[p].meta
          BY <5>1
        <5> QED BY <3>2, <5>2
      <4>3. CASE i # 1
        <5>1. /\ Len(events') = Len(events) - 1
              /\ DOMAIN events' = 1 .. Len(events')
              /\ \A j \in 1 .. Len(events') : events'[j] = events[j + 1]
          BY <3>2, <4>1
        <5>2. i - 1 \in 1 .. Len(events') /\ (i - 1) + 1 = i
          BY <4>1, <4>3, <5>1
        <5>3. i - 1 \in DOMAIN events' /\ events'[i - 1] = events[i]
          BY <5>1, <5>2
        <5> QED BY <5>3
      <4> QED BY <4>2, <4>3
    <3>4. p \in published => p \in published'
      BY <3>2
    <3> QED BY <1>1, <3>2, <3>3, <3>4 DEF OnTheWay, Message
  <2>5. CASE \E j \in Job : Read(j) \/ ReadEof(j) \/ FileDone(j) \/ OpenFails(j) \/ ReadPanics(j)
    <3>1. PICK j \in Job : Read(j) \/ ReadEof(j) \/ FileDone(j) \/ OpenFails(j) \/ ReadPanics(j)
      BY <2>5
    <3>2. UNCHANGED <<index, published>> /\ events' \in Seq(Event)
      <4>1. TypeOK'
        BY <1>1, <2>5, JobIInv DEF IInv
      <4> QED BY <3>1, <4>1 DEF Read, ReadEof, FileDone, OpenFails, ReadPanics, JobOnly, TypeOK
    <3>3. CASE FileDone(j)
      <4>1. PICK e : events' = Append(events, e)
        BY <3>3 DEF FileDone
      <4>2. events \in Seq(Event)
        BY <2>t DEF TypeOK
      <4>3. e \in Event
        <5>1. PICK n \in Nat : n = Len(events)
          BY <4>2
        <5>2. n + 1 \in 1 .. Len(events') /\ events'[n + 1] = e
          BY <4>1, <4>2, <5>1
        <5> QED BY <3>2, <5>2
      <4> QED BY <2>0, <3>2, <4>1, <4>3
    <3>4. CASE ~FileDone(j)
      BY <2>0, <3>1, <3>2, <3>4 DEF Read, ReadEof, OpenFails, ReadPanics
    <3> QED BY <3>3, <3>4
  <2>6. CASE \E t \in Task : \/ TransferReads(t) \/ TransferSends(t) \/ TransferFinished(t)
                             \/ TransferCancelled(t) \/ TransferPanics(t)
    <3>1. PICK t \in Task : \/ TransferReads(t) \/ TransferSends(t) \/ TransferFinished(t)
                            \/ TransferCancelled(t) \/ TransferPanics(t)
      BY <2>6
    <3>2. UNCHANGED <<index, published>>
      BY <3>1 DEF TransferReads, TransferSends, TransferFinished, TransferCancelled, TransferPanics,
                  TaskOnly, EndTask
    <3>3. CASE TransferSends(t)
      <4>1. PICK r : r = tasks[t]
        OBVIOUS
      <4>2. r \in TaskState /\ GoodTask(r, files[r.local]) /\ files[r.local] \in Seq(Bytes)
            /\ r.next = "send"
        BY <1>1, <3>3, <4>1, TaskOfIInv DEF TransferSends
      <4>3. PICK e : e = Message([type |-> "TransmitChunk", data |-> BlockOf(r)])
        OBVIOUS
      <4>4. BlockOf(r) \in Seq(Bytes)
        BY <4>2, SendsGood
      <4>5. e \in Event
        BY <4>3, <4>4 DEF Message, Event, Payload
      <4>6. events' = Append(events, e)
        BY <3>3, <4>1, <4>3 DEF TransferSends, BlockOf
      <4> QED BY <2>0, <3>2, <4>5, <4>6
    <3>4. CASE ~TransferSends(t)
      BY <2>0, <3>1, <3>2, <3>4 DEF TransferReads, TransferFinished, TransferCancelled,
                                    TransferPanics, EndTask
    <3> QED BY <3>3, <3>4
  <2>7. ~Crash
    BY <2>d DEF Crash
  <2> QED BY <1>1, <2>1, <2>2, <2>3, <2>4, <2>5, <2>6, <2>7 DEF Next
<1>2. IInv /\ [Next]_vars => [\A p \in RemotePath : OnTheWay(p) => OnTheWay(p)' \/ state' = "Crashed"]_vars
  BY <1>1
<1> QED BY <1>2, Invariance, PTL DEF Spec, PublishedUnlessDead
=============================================================================
