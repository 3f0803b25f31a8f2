---------------------------- MODULE ReceiverProofs ----------------------------
(***************************************************************************)
(* Proofs about Receiver, for any number of files, any metadata of the     *)
(* shape create_for_file gives it and any blocks.                          *)
(***************************************************************************)
EXTENDS Receiver, SequenceTheorems, WellFoundedInduction, TLAPS

\* The user never saves another remote file to a local file of p.  Nothing in
\* the client checks this, so what is said of the disk is said of such files.
Alone(p) == \A q \in Path : q # p => Locals(p) \cap Locals(q) = {}

DisjointLocals == \A p \in Path : Alone(p)

-----------------------------------------------------------------------------
(***************************************************************************)
(* Numbers, files, chunks and sequences.                                   *)
(***************************************************************************)

\* The natural numbers are well-ordered.
LEMMA NatOrder == \E R : IsWellFoundedOn(R, Nat) /\ \A i, j \in Nat : <<i, j>> \in R <=> i < j
<1>1. IsWellFoundedOn(OpToRel(<, Nat), Nat)
  BY NatLessThanWellFounded
<1>2. OpToRel(<, Nat) = {ss \in Nat \X Nat : ss[1] < ss[2]}
  BY DEF OpToRel
<1>3. \A i, j \in Nat : <<i, j>> \in {ss \in Nat \X Nat : ss[1] < ss[2]} <=> i < j
  OBVIOUS
<1> WITNESS {ss \in Nat \X Nat : ss[1] < ss[2]}
<1> QED BY <1>1, <1>2, <1>3, Zenon

\* A set of numbers has a least element: induction in a form the provers take.
LEMMA LeastNumber ==
    ASSUME NEW T \in SUBSET Nat, T # {}
    PROVE  \E n \in T : \A m \in T : n <= m
<1>1. PICK R : IsWellFoundedOn(R, Nat) /\ \A i, j \in Nat : <<i, j>> \in R <=> i < j
  BY NatOrder, Zenon
<1>2. \E n \in T : \A m \in T : ~(<<m, n>> \in R)
  <2>1. IsWellFoundedOn(R, Nat)
    BY <1>1
  <2>2. T \subseteq Nat
    OBVIOUS
  <2>3. \A U : U \subseteq Nat /\ U # {} => \E x \in U : \A y \in U : ~(<<y, x>> \in R)
    BY <2>1, WFMin
  <2> QED BY <2>2, <2>3
<1>3. PICK n \in T : \A m \in T : ~(<<m, n>> \in R)
  BY <1>2, Zenon
<1>4. \A m \in T : ~(m < n)
  BY <1>1, <1>3, Zenon
<1> QED BY <1>4

\* w is f, made n long, with b written at o.
Written(w, f, n, o, b) ==
    /\ w \in Seq(Byte)
    /\ Len(w) \in Nat
    /\ Len(w) >= n
    /\ b # <<>> => Len(w) >= o + Len(b)
    /\ o + Len(b) <= n => Len(w) = n
    /\ \A i \in 1 .. Len(f) : i <= n /\ i <= o => w[i] = f[i]
    /\ \A i \in 1 .. Len(b) : w[o + i] = b[i]

\* What set_len followed by a write does to a file.
LEMMA WriteFacts ==
    ASSUME NEW f \in Seq(Byte), NEW n \in Nat, NEW o \in Nat, NEW b \in Seq(Byte)
    PROVE  Written(write_at(set_len(f, n), o, b), f, n, o, b)
<1>0. PICK w : w = write_at(set_len(f, n), o, b)
  OBVIOUS
<1> DEFINE s == set_len(f, n)
<1>1. /\ s \in Seq(Byte)
      /\ Len(s) = n
      /\ \A i \in 1 .. n : s[i] = IF i <= Len(f) THEN f[i] ELSE Zero
  BY DataAssumption DEF set_len
<1> HIDE DEF s
<1>2. w = write_at(s, o, b)
  BY <1>0 DEF s
<1> DEFINE k == IF b # <<>> /\ o + Len(b) > Len(s) THEN o + Len(b) ELSE Len(s)
<1>3. /\ k \in Nat /\ k >= n /\ (o + Len(b) <= n => k = n)
      /\ b # <<>> => k >= o + Len(b)
  BY <1>1
<1>4. w = [i \in 1 .. k |-> IF o < i /\ i <= o + Len(b) THEN b[i - o]
                            ELSE IF i <= Len(s) THEN s[i] ELSE Zero]
  BY <1>2 DEF write_at
<1> HIDE DEF k
<1>5. w \in Seq(Byte) /\ Len(w) = k
  <2>1. \A i \in 1 .. k : (IF o < i /\ i <= o + Len(b) THEN b[i - o]
                           ELSE IF i <= Len(s) THEN s[i] ELSE Zero) \in Byte
    BY <1>1, <1>3, DataAssumption
  <2> QED BY <1>3, <1>4, <2>1
<1>6. \A i \in 1 .. Len(f) : i <= n /\ i <= o => w[i] = f[i]
  BY <1>1, <1>3, <1>4
<1>7. \A i \in 1 .. Len(b) : w[o + i] = b[i]
  BY <1>1, <1>3, <1>4
<1>8. Written(w, f, n, o, b)
  BY <1>3, <1>5, <1>6, <1>7 DEF Written
<1> QED BY <1>0, <1>8

\* What MetaAssumption says about one chunk and the ones before it.
LEMMA ChunkFacts ==
    ASSUME NEW m \in Meta, NEW i \in 1 .. Len(m.chunks)
    PROVE  /\ m.size \in Nat
           /\ Len(m.chunks) \in Nat
           /\ m.chunks[i].offset \in Nat
           /\ m.chunks[i].size \in Nat \ {0}
           /\ m.chunks[i].hash \in Seq(Byte)
           /\ Len(m.chunks[i].hash) = m.chunks[i].size
           /\ m.chunks[i].offset + m.chunks[i].size <= m.size
           /\ i = Len(m.chunks) => m.chunks[i].offset + m.chunks[i].size = m.size
           /\ \A j \in 1 .. Len(m.chunks) :
                 j < i => m.chunks[j].offset + m.chunks[j].size <= m.chunks[i].offset
<1> DEFINE c == m.chunks
           n == Len(m.chunks)
<1>1. /\ m.size \in Nat
      /\ c \in Seq(Chunk)
      /\ n \in Nat
      /\ DOMAIN c = 1 .. n
      /\ \A k, j \in 1 .. n : k < j => c[k].offset + c[k].size <= c[j].offset
      /\ \A k \in 1 .. n : /\ Len(c[k].hash) = c[k].size
                           /\ k = n => c[k].offset + c[k].size = m.size
  BY MetaAssumption DEF IsMeta
<1>2. \A k \in 1 .. n : c[k] \in Chunk
  BY <1>1
<1>3. \A k \in 1 .. n : /\ c[k].offset \in Nat
                        /\ c[k].size \in Nat \ {0}
                        /\ c[k].hash \in Seq(Byte)
  BY <1>2 DEF Chunk
<1> HIDE DEF c, n
<1>4. c[i].offset + c[i].size <= m.size
  <2>1. CASE i = n
    BY <1>1, <1>3, <2>1 DEF n
  <2>2. CASE i # n
    <3>1. n \in 1 .. n /\ i \in 1 .. n /\ i < n
      BY <1>1, <2>2 DEF n
    <3>2. c[i].offset + c[i].size <= c[n].offset /\ c[n].offset + c[n].size = m.size
      BY <1>1, <3>1
    <3> QED BY <1>1, <1>3, <3>1, <3>2
  <2> QED BY <2>1, <2>2
<1> QED BY <1>1, <1>3, <1>4 DEF c, n

\* In an entry whose received chunks are the first k, the next one is k.
LEMMA NextChunk ==
    ASSUME NEW e \in Entry, NEW k \in 0 .. Len(e.meta.chunks), e.received_chunks = 0 .. k - 1
    PROVE  /\ Len(e.meta.chunks) \in Nat
           /\ Undownloaded(e) = k .. Len(e.meta.chunks) - 1
           /\ Undownloaded(e) # {} <=> k < Len(e.meta.chunks)
           /\ k < Len(e.meta.chunks) => find_first_undownloaded(e) = k
<1> DEFINE n == Len(e.meta.chunks)
<1>1. n \in Nat
  BY MetaAssumption DEF Entry, IsMeta
<1>2. Undownloaded(e) = k .. n - 1
  BY <1>1 DEF Undownloaded
<1> HIDE DEF n
<1>3. ASSUME k < n PROVE find_first_undownloaded(e) = k
  <2>1. k \in Undownloaded(e) /\ \A j \in Undownloaded(e) : k <= j
    BY <1>1, <1>2, <1>3
  <2>2. \A i \in Undownloaded(e) : (\A j \in Undownloaded(e) : i <= j) => i = k
    BY <1>1, <1>2, <2>1
  <2> QED BY <2>1, <2>2 DEF find_first_undownloaded
<1>4. Undownloaded(e) # {} <=> k < n
  BY <1>1, <1>2
<1> QED BY <1>1, <1>2, <1>3, <1>4 DEF n

\* A message may be put into the event channel when there is room.
LEMMA SendFacts ==
    ASSUME TypeOK, NEW m \in Message, send_message(m)
    PROVE  up' \in Seq(Message) /\ Len(up') <= UpCap
BY BoundAssumption DEF TypeOK, send_message, CanSend

-----------------------------------------------------------------------------
(***************************************************************************)
(* The inductive invariant.                                                *)
(***************************************************************************)

\* The entry e of path p, whose local file is f: the chunks received are the
\* first ones, and, unless another file is saved there too, they are on disk
\* and a complete file has its length.
GoodEntry(p, e, f) ==
    /\ e.local_path \in Locals(p) \cup {NoPath}
    /\ \E k \in 0 .. Len(e.meta.chunks) : e.received_chunks = 0 .. k - 1
    /\ e.received_chunks # {} => e.local_path # NoPath
    /\ Alone(p) =>
          /\ \A k \in e.received_chunks : OnDisk(f, e.meta.chunks[k + 1])
          /\ e.meta.chunks # <<>> /\ Undownloaded(e) = {} => Len(f) = e.meta.size

EntriesInv ==
    \A p \in Path : Known(p) => GoodEntry(p, index[p], files[index[p].local_path])

\* The request r for a chunk of e, whose local file is f: it is for the first
\* chunk not received, its offset and its hash have taken in the same blocks,
\* these blocks are on disk (unless another file is saved there too), and once
\* there are enough of them they are the wrong ones.
GoodRequest(r, e, f) ==
    LET c == e.meta.chunks[r.chunk_index + 1] IN
    /\ r.chunk_index \in 0 .. Len(e.meta.chunks) - 1
    /\ e.received_chunks = 0 .. r.chunk_index - 1
    /\ r.current_offset = c.offset + Len(r.hashed)
    /\ Alone(r.remote_path) /\ Len(r.hashed) < c.size =>
          /\ r.hashed # <<>> => r.current_offset <= Len(f)
          /\ \A i \in 1 .. Len(r.hashed) : f[c.offset + i] = r.hashed[i]
    /\ Len(r.hashed) >= c.size => r.hashed # c.hash

RequestInv ==
    state = "RequestedChunk" =>
        /\ requesting_chunk \in Requesting
        /\ index[requesting_chunk.remote_path] \in Entry
        /\ LET e == index[requesting_chunk.remote_path] IN
           GoodRequest(requesting_chunk, e, files[e.local_path])

IInv == TypeOK /\ EntriesInv /\ RequestInv

\* An entry of the index is an entry.
LEMMA KnownEntry ==
    ASSUME TypeOK, NEW p \in Path
    PROVE  Known(p) <=> index[p] \in Entry
BY NoneAssumption DEF TypeOK, Known

\* An entry without a local file is good over any file.
LEMMA FrameEntry ==
    ASSUME NEW p \in Path, NEW e \in Entry, NEW f, NEW g, GoodEntry(p, e, f),
           e.local_path = NoPath
    PROVE  GoodEntry(p, e, g)
<1>1. e.received_chunks = {}
  BY DEF GoodEntry
<1>2. PICK k \in 0 .. Len(e.meta.chunks) : e.received_chunks = 0 .. k - 1
  BY DEF GoodEntry
<1>3. Len(e.meta.chunks) \in Nat /\ (Undownloaded(e) = {} => k = Len(e.meta.chunks))
  BY <1>2, NextChunk
<1>4. k = 0
  <2>1. k # 0 => 0 \in 0 .. k - 1
    BY <1>3
  <2> QED BY <1>1, <1>2, <2>1
<1>5. e.meta.chunks \in Seq(Chunk)
  BY MetaAssumption DEF Entry, IsMeta
<1>6. ~(e.meta.chunks # <<>> /\ Undownloaded(e) = {})
  BY <1>3, <1>4, <1>5
<1> QED BY <1>1, <1>6 DEF GoodEntry

\* An entry nothing has been received for is good.
LEMMA FreshEntry ==
    ASSUME NEW p \in Path, NEW e \in Entry, NEW f, e.received_chunks = {},
           e.local_path \in Locals(p) \cup {NoPath}
    PROVE  GoodEntry(p, e, f)
<1>1. Len(e.meta.chunks) \in Nat /\ e.meta.chunks \in Seq(Chunk)
  BY MetaAssumption DEF Entry, IsMeta
<1>2. 0 \in 0 .. Len(e.meta.chunks) /\ e.received_chunks = 0 .. 0 - 1
  BY <1>1
<1>3. Undownloaded(e) = {} => e.meta.chunks = <<>>
  <2>1. Undownloaded(e) # {} <=> 0 < Len(e.meta.chunks)
    BY <1>2, NextChunk
  <2> QED BY <1>1, <2>1
<1> QED BY <1>2, <1>3 DEF GoodEntry

\* Asking for the first chunk not received is a good request.
LEMMA FreshRequest ==
    ASSUME TypeOK, NEW p \in Path, NEW e \in Entry, NEW f,
           NEW k \in 0 .. Len(e.meta.chunks) - 1, e.received_chunks = 0 .. k - 1,
           request_chunk(e, p, k)
    PROVE  /\ requesting_chunk' \in Requesting
           /\ requesting_chunk'.remote_path = p
           /\ GoodRequest(requesting_chunk', e, f)
           /\ state' = "RequestedChunk"
           /\ up' \in Seq(Message)
           /\ Len(up') <= UpCap
<1> DEFINE c == e.meta.chunks[k + 1]
<1>1. /\ e.meta \in Meta
      /\ Len(e.meta.chunks) \in Nat
      /\ k \in Nat
      /\ k + 1 \in 1 .. Len(e.meta.chunks)
  BY MetaAssumption DEF Entry, IsMeta
<1>2. c.offset \in Nat /\ c.size \in Nat \ {0} /\ c.hash \in Seq(Byte)
  BY <1>1, ChunkFacts
<1>3. [type |-> "RequestChunk", path |-> p, index |-> k, hash |-> c.hash] \in Message
  BY <1>1, <1>2 DEF Message
<1>4. up' \in Seq(Message) /\ Len(up') <= UpCap
  BY <1>3, SendFacts DEF request_chunk
<1>5. <<>> \in Seq(Byte) /\ Len(<<>>) = 0
  OBVIOUS
<1>6. /\ requesting_chunk' = [remote_path |-> p, chunk_index |-> k,
                              current_offset |-> c.offset, hashed |-> <<>>]
      /\ state' = "RequestedChunk"
  BY DEF request_chunk
<1>7. requesting_chunk' \in Requesting /\ requesting_chunk'.remote_path = p
  BY <1>1, <1>2, <1>5, <1>6 DEF Requesting
<1>8. GoodRequest(requesting_chunk', e, f)
  <2>1. /\ requesting_chunk'.chunk_index = k
        /\ requesting_chunk'.current_offset = c.offset
        /\ requesting_chunk'.hashed = <<>>
    BY <1>6
  <2> QED BY <1>1, <1>2, <1>5, <2>1 DEF GoodRequest
<1> QED BY <1>4, <1>6, <1>7, <1>8

\* The initial state satisfies the invariant.
LEMMA InitIInv == Init => IInv
<1> SUFFICES ASSUME Init PROVE IInv
  OBVIOUS
<1>1. TypeOK
  <2>1. <<>> \in Seq(Byte) /\ <<>> \in Seq(Message) /\ Len(<<>>) = 0
    OBVIOUS
  <2>2. 0 \in 0 .. UpCap /\ 0 <= UpCap
    BY BoundAssumption
  <2>3. files \in [Local -> Seq(Byte)]
    BY <2>1 DEF Init
  <2>4. up \in Seq(Message) /\ Len(up) <= UpCap /\ logged_in \in 0 .. UpCap
    BY <2>1, <2>2 DEF Init
  <2> QED BY <2>3, <2>4 DEF Init, TypeOK
<1>2. EntriesInv
  BY DEF Init, EntriesInv, Known
<1>3. RequestInv
  BY DEF Init, RequestInv
<1> QED BY <1>1, <1>2, <1>3 DEF IInv

\* When the client dies, what is on disk is as it was.
LEMMA DieIInv ==
    ASSUME IInv, Die, UNCHANGED <<index, files>>, torn' \in BOOLEAN
    PROVE  IInv'
<1>1. TypeOK'
  BY BoundAssumption DEF IInv, TypeOK, Die, MinTime
<1>2. EntriesInv'
  BY DEF IInv, EntriesInv, Known
<1>3. RequestInv'
  BY DEF Die, RequestInv
<1> QED BY <1>1, <1>2, <1>3 DEF IInv

\* A step that leaves the request, the index and the files alone.
LEMMA SameIInv ==
    ASSUME IInv, UNCHANGED <<requesting_chunk, index, files, torn>>,
           state' \in {"Initializing", "Idle"} \/ state' = state,
           state' \in {"None", "Initializing", "Idle", "RequestedChunk", "Crashed"},
           last_updated' \in Nat \cup {MinTime}, logged_in' \in 0 .. UpCap,
           up' \in Seq(Message), Len(up') <= UpCap
    PROVE  IInv'
<1>1. TypeOK'
  BY DEF IInv, TypeOK
<1>2. EntriesInv'
  BY DEF IInv, EntriesInv, Known
<1>3. RequestInv'
  BY DEF IInv, RequestInv
<1> QED BY <1>1, <1>2, <1>3 DEF IInv

\* A stuttering step.
LEMMA StutterIInv ==
    ASSUME IInv, UNCHANGED vars
    PROVE  IInv'
BY DEF IInv, TypeOK, EntriesInv, RequestInv, Known, vars

\* A newest timestamp is a timestamp.
LEMMA LastUpdatedType ==
    ASSUME TypeOK
    PROVE  get_last_updated(index) \in Nat \cup {MinTime}
<1> DEFINE T == {index[p].meta.meta_modified : p \in {q \in Path : index[q] # NoEntry}}
<1>1. T \subseteq Nat
  <2>1. \A q \in Path : index[q] # NoEntry => index[q].meta \in Meta
    BY DEF TypeOK, Entry
  <2> QED BY <2>1, MetaAssumption DEF IsMeta
<1> HIDE DEF T
<1>2. get_last_updated(index) = IF \E t \in T : \A u \in T : u <= t
                                THEN CHOOSE t \in T : \A u \in T : u <= t ELSE MinTime
  BY DEF get_last_updated, T
<1> QED BY <1>1, <1>2

-----------------------------------------------------------------------------
(***************************************************************************)
(* The steps.                                                              *)
(***************************************************************************)

\* What a good request says, about the chunk c it is for.
RequestShape(r, e, f, c) ==
    /\ r.remote_path \in Path
    /\ r.chunk_index \in Nat
    /\ r.chunk_index + 1 \in 1 .. Len(e.meta.chunks)
    /\ r.hashed \in Seq(Byte)
    /\ Len(r.hashed) \in Nat
    /\ r.current_offset \in Nat
    /\ r.current_offset = c.offset + Len(r.hashed)
    /\ Len(r.hashed) >= c.size => r.hashed # c.hash
    /\ Alone(r.remote_path) /\ Len(r.hashed) < c.size =>
          /\ r.hashed # <<>> => r.current_offset <= Len(f)
          /\ \A i \in 1 .. Len(r.hashed) : f[c.offset + i] = r.hashed[i]
    /\ e.meta \in Meta
    /\ e.meta.size \in Nat
    /\ Len(e.meta.chunks) \in Nat
    /\ e.received_chunks = 0 .. r.chunk_index - 1
    /\ c.offset \in Nat
    /\ c.size \in Nat \ {0}
    /\ c.hash \in Seq(Byte)
    /\ Len(c.hash) = c.size
    /\ c.offset + c.size <= e.meta.size
    /\ r.chunk_index + 1 = Len(e.meta.chunks) => c.offset + c.size = e.meta.size
    /\ \A j \in 1 .. Len(e.meta.chunks) : j < r.chunk_index + 1 =>
          e.meta.chunks[j].offset + e.meta.chunks[j].size <= c.offset

\* A good request has this shape.
LEMMA RequestFacts ==
    ASSUME NEW r \in Requesting, NEW e \in Entry, NEW f, GoodRequest(r, e, f),
           NEW c, c = e.meta.chunks[r.chunk_index + 1]
    PROVE  RequestShape(r, e, f, c)
<1>1. /\ r.remote_path \in Path
      /\ r.chunk_index \in Nat
      /\ r.hashed \in Seq(Byte)
      /\ r.current_offset \in Nat
  BY DEF Requesting
<1>2. Len(r.hashed) \in Nat
  BY <1>1
<1>3. e.meta \in Meta
  BY DEF Entry
<1>4. e.meta.size \in Nat /\ Len(e.meta.chunks) \in Nat
  BY <1>3, MetaAssumption DEF IsMeta
<1>5. /\ r.chunk_index \in 0 .. Len(e.meta.chunks) - 1
      /\ e.received_chunks = 0 .. r.chunk_index - 1
      /\ r.current_offset = c.offset + Len(r.hashed)
      /\ Alone(r.remote_path) /\ Len(r.hashed) < c.size =>
            /\ r.hashed # <<>> => r.current_offset <= Len(f)
            /\ \A i \in 1 .. Len(r.hashed) : f[c.offset + i] = r.hashed[i]
      /\ Len(r.hashed) >= c.size => r.hashed # c.hash
  BY DEF GoodRequest
<1>6. r.chunk_index + 1 \in 1 .. Len(e.meta.chunks)
  BY <1>1, <1>4, <1>5
<1>7. /\ c.offset \in Nat
      /\ c.size \in Nat \ {0}
      /\ c.hash \in Seq(Byte)
      /\ Len(c.hash) = c.size
      /\ c.offset + c.size <= e.meta.size
      /\ r.chunk_index + 1 = Len(e.meta.chunks) => c.offset + c.size = e.meta.size
      /\ \A j \in 1 .. Len(e.meta.chunks) : j < r.chunk_index + 1 =>
            e.meta.chunks[j].offset + e.meta.chunks[j].size <= c.offset
  BY <1>3, <1>6, ChunkFacts
<1> QED BY <1>1, <1>2, <1>3, <1>4, <1>5, <1>6, <1>7 DEF RequestShape

\* A write at the current offset of a request touches neither the chunks
\* received before nor the blocks of this one.
LEMMA WriteKeeps ==
    ASSUME NEW p \in Path, NEW r \in Requesting, NEW e \in Entry,
           NEW f \in Seq(Byte), NEW b \in Seq(Byte), NEW w,
           Written(w, f, e.meta.size, r.current_offset, b),
           p = r.remote_path, GoodEntry(p, e, f), GoodRequest(r, e, f)
    PROVE  w \in Seq(Byte) /\ GoodEntry(p, e, w) /\ GoodRequest(r, e, w)
<1>0. PICK c : c = e.meta.chunks[r.chunk_index + 1]
  OBVIOUS
<1>1. /\ r.chunk_index \in Nat
      /\ r.chunk_index + 1 \in 1 .. Len(e.meta.chunks)
      /\ r.hashed \in Seq(Byte)
      /\ Len(r.hashed) \in Nat
      /\ r.current_offset \in Nat
      /\ r.current_offset = c.offset + Len(r.hashed)
      /\ Len(r.hashed) >= c.size => r.hashed # c.hash
      /\ Alone(r.remote_path) /\ Len(r.hashed) < c.size =>
            /\ r.hashed # <<>> => r.current_offset <= Len(f)
            /\ \A i \in 1 .. Len(r.hashed) : f[c.offset + i] = r.hashed[i]
      /\ e.meta \in Meta
      /\ e.meta.size \in Nat
      /\ Len(e.meta.chunks) \in Nat
      /\ e.received_chunks = 0 .. r.chunk_index - 1
      /\ c.offset \in Nat
      /\ c.size \in Nat \ {0}
      /\ c.offset + c.size <= e.meta.size
      /\ \A j \in 1 .. Len(e.meta.chunks) : j < r.chunk_index + 1 =>
            e.meta.chunks[j].offset + e.meta.chunks[j].size <= c.offset
  <2>1. RequestShape(r, e, f, c)
    BY <1>0, RequestFacts
  <2> QED BY <2>1 DEF RequestShape
<1>2. PICK n \in Nat : n = e.meta.size
  BY <1>1
<1>3. PICK o \in Nat : o = r.current_offset
  BY <1>1
<1>4. /\ w \in Seq(Byte)
      /\ Len(w) \in Nat
      /\ Len(w) >= n
      /\ \A i \in 1 .. Len(f) : i <= n /\ i <= o => w[i] = f[i]
  <2>1. Written(w, f, n, o, b)
    BY <1>2, <1>3
  <2> QED BY <2>1 DEF Written
<1>5. Len(f) \in Nat
  OBVIOUS
<1>6. GoodEntry(p, e, w)
  <2>1. ASSUME Alone(p), NEW j \in e.received_chunks
        PROVE  OnDisk(w, e.meta.chunks[j + 1])
    <3>0. PICK d : d = e.meta.chunks[j + 1]
      OBVIOUS
    <3>1. j \in 0 .. r.chunk_index - 1
      BY <1>1
    <3>2. j + 1 \in 1 .. Len(e.meta.chunks) /\ j + 1 < r.chunk_index + 1
      <4>1. /\ r.chunk_index \in Nat /\ Len(e.meta.chunks) \in Nat
            /\ r.chunk_index + 1 <= Len(e.meta.chunks)
        BY <1>1
      <4> QED BY <3>1, <4>1
    <3>3. d.offset \in Nat /\ d.size \in Nat \ {0}
      BY <1>1, <3>0, <3>2, ChunkFacts
    <3>4. d.offset + d.size <= c.offset
      BY <1>1, <3>0, <3>2
    <3>5. OnDisk(f, d)
      BY <2>1, <3>0 DEF GoodEntry
    <3>6. d.offset + d.size <= Len(f) /\ \A i \in 1 .. d.size : f[d.offset + i] = d.hash[i]
      BY <3>5 DEF OnDisk
    <3>7. c.offset <= n /\ c.offset <= o
      <4>1. /\ c.offset \in Nat /\ c.size \in Nat /\ Len(r.hashed) \in Nat
            /\ c.offset + c.size <= n /\ o = c.offset + Len(r.hashed)
        BY <1>1, <1>2, <1>3
      <4> QED BY <4>1
    <3>8. \A i \in 1 .. d.size : w[d.offset + i] = f[d.offset + i]
      <4> SUFFICES ASSUME NEW i \in 1 .. d.size PROVE w[d.offset + i] = f[d.offset + i]
        OBVIOUS
      <4>1. PICK x : x = d.offset + i
        OBVIOUS
      <4>2. x \in 1 .. Len(f) /\ x <= n /\ x <= o
        <5>1. /\ d.offset \in Nat /\ d.size \in Nat /\ c.offset \in Nat
              /\ d.offset + d.size <= c.offset /\ d.offset + d.size <= Len(f)
          BY <1>1, <3>3, <3>4, <3>6
        <5> QED BY <4>1, <5>1, <1>5, <3>7, SMTT(30)
      <4> QED BY <4>1, <4>2, <1>4
    <3>9. d.offset + d.size <= Len(w)
      <4>1. PICK x \in Nat : x = d.offset + d.size
        BY <3>3
      <4>2. c.offset \in Nat /\ x <= c.offset /\ c.offset <= n /\ n <= Len(w) /\ Len(w) \in Nat
        BY <1>1, <1>4, <3>4, <3>7, <4>1
      <4>3. x <= Len(w)
        BY <4>2
      <4> QED BY <4>1, <4>3
    <3> QED BY <3>0, <3>6, <3>8, <3>9 DEF OnDisk
  <2>2. Undownloaded(e) # {}
    <3>1. /\ r.chunk_index \in Nat /\ Len(e.meta.chunks) \in Nat
          /\ r.chunk_index + 1 <= Len(e.meta.chunks)
      BY <1>1
    <3>2. r.chunk_index \in 0 .. Len(e.meta.chunks) /\ r.chunk_index < Len(e.meta.chunks)
      BY <3>1
    <3> QED BY <1>1, <3>2, NextChunk
  <2> QED BY <2>1, <2>2 DEF GoodEntry
<1>7. GoodRequest(r, e, w)
  <2>1. ASSUME Alone(r.remote_path), Len(r.hashed) < c.size
        PROVE  /\ r.hashed # <<>> => r.current_offset <= Len(w)
               /\ \A i \in 1 .. Len(r.hashed) : w[c.offset + i] = r.hashed[i]
    <3>1. o <= Len(w)
      <4>1. /\ c.offset \in Nat /\ c.size \in Nat /\ Len(r.hashed) \in Nat
            /\ c.offset + c.size <= n /\ o = c.offset + Len(r.hashed)
        BY <1>1, <1>2, <1>3
      <4> QED BY <1>4, <2>1, <4>1
    <3>2. ASSUME NEW i \in 1 .. Len(r.hashed)
          PROVE  w[c.offset + i] = r.hashed[i]
      <4>0. PICK x : x = c.offset + i
        OBVIOUS
      <4>1. r.hashed # <<>>
        BY <1>1
      <4>2. o <= Len(f)
        BY <1>1, <1>3, <2>1, <4>1
      <4>3. x \in 1 .. Len(f) /\ x <= n /\ x <= o
        <5>1. /\ c.offset \in Nat /\ c.size \in Nat /\ Len(r.hashed) \in Nat
              /\ c.offset + c.size <= n /\ o = c.offset + Len(r.hashed)
          BY <1>1, <1>2, <1>3
        <5> QED BY <5>1, <1>5, <2>1, <4>0, <4>2, SMTT(30)
      <4>4. f[x] = r.hashed[i]
        BY <1>1, <2>1, <4>0
      <4> QED BY <1>4, <4>0, <4>3, <4>4
    <3> QED BY <1>3, <3>1, <3>2
  <2>2. r.chunk_index \in 0 .. Len(e.meta.chunks) - 1
    BY <1>1
  <2> QED BY <1>0, <1>1, <2>1, <2>2 DEF GoodRequest
<1> QED BY <1>4, <1>6, <1>7

\* The request after block b.
After(r, b) == [r EXCEPT !.current_offset = @ + Len(b), !.hashed = @ \o b]

\* What becomes of a request when b has been written at its offset.
LEMMA AfterFacts ==
    ASSUME NEW r \in Requesting, NEW b \in Seq(Byte), NEW q, q = After(r, b)
    PROVE  /\ q \in Requesting
           /\ q.remote_path = r.remote_path
           /\ q.chunk_index = r.chunk_index
           /\ q.current_offset = r.current_offset + Len(b)
           /\ q.hashed = r.hashed \o b
           /\ q.hashed \in Seq(Byte)
           /\ Len(q.hashed) = Len(r.hashed) + Len(b)
           /\ \A i \in 1 .. Len(q.hashed) :
                 q.hashed[i] = IF i <= Len(r.hashed) THEN r.hashed[i] ELSE b[i - Len(r.hashed)]
<1>1. r.hashed \in Seq(Byte) /\ r.current_offset \in Nat
  BY DEF Requesting
<1>2. PICK h : h = r.hashed \o b
  OBVIOUS
<1>3. /\ h \in Seq(Byte)
      /\ Len(h) = Len(r.hashed) + Len(b)
      /\ \A i \in 1 .. Len(h) :
            h[i] = IF i <= Len(r.hashed) THEN r.hashed[i] ELSE b[i - Len(r.hashed)]
  BY <1>1, <1>2
<1>4. PICK o : o = r.current_offset + Len(b)
  OBVIOUS
<1>5. o \in Nat
  BY <1>1, <1>4
<1>6. q = [r EXCEPT !.current_offset = o, !.hashed = h]
  BY <1>2, <1>4 DEF After, Requesting
<1>7. /\ q \in Requesting
      /\ q.remote_path = r.remote_path
      /\ q.chunk_index = r.chunk_index
      /\ q.current_offset = o
      /\ q.hashed = h
  BY <1>3, <1>5, <1>6 DEF Requesting
<1> QED BY <1>2, <1>3, <1>4, <1>7

\* When b has been written, the blocks taken in since the request are on disk.
LEMMA BlocksOnDisk ==
    ASSUME NEW r \in Requesting, NEW e \in Entry, NEW f \in Seq(Byte), NEW b \in Seq(Byte),
           NEW w, Written(w, f, e.meta.size, r.current_offset, b),
           GoodRequest(r, e, w),
           NEW q, q = After(r, b),
           NEW c, c = e.meta.chunks[r.chunk_index + 1],
           Alone(r.remote_path), Len(r.hashed) < c.size
    PROVE  /\ q.current_offset <= Len(w)
           /\ \A i \in 1 .. Len(q.hashed) : w[c.offset + i] = q.hashed[i]
<1>1. /\ Len(r.hashed) \in Nat
      /\ r.current_offset = c.offset + Len(r.hashed)
      /\ c.offset \in Nat
      /\ \A i \in 1 .. Len(r.hashed) : w[c.offset + i] = r.hashed[i]
  <2>1. RequestShape(r, e, w, c)
    BY RequestFacts
  <2> QED BY <2>1 DEF RequestShape
<1>2. /\ q.current_offset = r.current_offset + Len(b)
      /\ Len(q.hashed) = Len(r.hashed) + Len(b)
      /\ \A i \in 1 .. Len(q.hashed) :
            q.hashed[i] = IF i <= Len(r.hashed) THEN r.hashed[i] ELSE b[i - Len(r.hashed)]
  BY AfterFacts
<1>3. \A i \in 1 .. Len(b) : w[r.current_offset + i] = b[i]
  BY DEF Written
<1>4. Len(b) \in Nat /\ Len(w) \in Nat
  BY DEF Written
<1>5. ASSUME NEW i \in 1 .. Len(q.hashed) PROVE w[c.offset + i] = q.hashed[i]
  <2>1. CASE i <= Len(r.hashed)
    <3>1. i \in 1 .. Len(r.hashed)
      BY <1>1, <1>2, <1>4, <2>1
    <3> QED BY <1>1, <1>2, <2>1, <3>1
  <2>2. CASE ~(i <= Len(r.hashed))
    <3>1. PICK j : j = i - Len(r.hashed)
      OBVIOUS
    <3>2. j \in 1 .. Len(b) /\ r.current_offset + j = c.offset + i
      <4>1. /\ c.offset \in Nat /\ Len(r.hashed) \in Nat /\ Len(b) \in Nat
            /\ r.current_offset = c.offset + Len(r.hashed)
            /\ Len(q.hashed) = Len(r.hashed) + Len(b)
        BY <1>1, <1>2, <1>4
      <4>2. i \in 1 .. Len(r.hashed) + Len(b)
        BY <4>1
      <4>3. PICK x \in Nat : x = Len(r.hashed)
        BY <4>1
      <4>4. PICK y \in Nat : y = Len(b)
        BY <4>1
      <4>5. PICK a \in Nat : a = c.offset
        BY <4>1
      <4>6. j = i - x /\ i \in 1 .. x + y /\ ~(i <= x) /\ r.current_offset = a + x
        BY <2>2, <3>1, <4>1, <4>2, <4>3, <4>4, <4>5
      <4>7. j \in 1 .. y /\ (a + x) + j = a + i
        BY <4>6
      <4> QED BY <4>4, <4>5, <4>6, <4>7
    <3>3. w[r.current_offset + j] = b[j]
      BY <1>3, <3>2
    <3>4. q.hashed[i] = b[j]
      BY <1>2, <2>2, <3>1
    <3> QED BY <3>2, <3>3, <3>4
  <2> QED BY <2>1, <2>2
<1>6. q.current_offset <= Len(w)
  <2>1. CASE b # <<>>
    BY <1>2, <2>1 DEF Written
  <2>2. CASE b = <<>>
    <3>1. RequestShape(r, e, w, c)
      BY RequestFacts
    <3>2. /\ c.size \in Nat /\ e.meta.size \in Nat /\ c.offset + c.size <= e.meta.size
          /\ Len(w) >= e.meta.size
      BY <3>1 DEF RequestShape, Written
    <3>3. PICK x \in Nat : x = Len(r.hashed)
      BY <1>1
    <3>4. PICK a \in Nat : a = c.offset
      BY <1>1
    <3>5. q.current_offset = a + x
      <4>1. Len(b) = 0
        BY <2>2
      <4>2. q.current_offset = (c.offset + Len(r.hashed)) + Len(b)
        BY <1>1, <1>2
      <4> QED BY <3>3, <3>4, <4>1, <4>2
    <3>6. x < c.size
      BY <3>3
    <3>7. PICK y \in Nat : y = c.size
      BY <3>2
    <3>8. PICK z \in Nat : z = e.meta.size
      BY <3>2
    <3>9. x < y /\ a + y <= z /\ z <= Len(w)
      BY <1>4, <3>2, <3>4, <3>6, <3>7, <3>8
    <3> QED BY <1>4, <3>5, <3>9
  <2> QED BY <2>1, <2>2
<1> QED BY <1>5, <1>6

\* The chunk goes on, or is full and wrong: the request stays good.
LEMMA RequestGoesOn ==
    ASSUME NEW r \in Requesting, NEW e \in Entry, NEW f \in Seq(Byte), NEW b \in Seq(Byte),
           NEW w, Written(w, f, e.meta.size, r.current_offset, b),
           GoodRequest(r, e, w),
           NEW q, q = After(r, b),
           NEW c, c = e.meta.chunks[r.chunk_index + 1],
           q.current_offset < c.offset + c.size \/ q.hashed # c.hash
    PROVE  GoodRequest(q, e, w)
<1>1. /\ r.chunk_index + 1 \in 1 .. Len(e.meta.chunks)
      /\ r.chunk_index \in Nat
      /\ Len(e.meta.chunks) \in Nat
      /\ e.received_chunks = 0 .. r.chunk_index - 1
      /\ Len(r.hashed) \in Nat
      /\ r.current_offset = c.offset + Len(r.hashed)
      /\ c.offset \in Nat
      /\ c.size \in Nat
  <2>1. RequestShape(r, e, w, c)
    BY RequestFacts
  <2> QED BY <2>1 DEF RequestShape
<1>2. /\ q.chunk_index = r.chunk_index
      /\ q.remote_path = r.remote_path
      /\ q.current_offset = r.current_offset + Len(b)
      /\ Len(q.hashed) = Len(r.hashed) + Len(b)
  BY AfterFacts
<1>3. Len(b) \in Nat
  OBVIOUS
<1>4. /\ c.offset \in Nat /\ c.size \in Nat /\ Len(r.hashed) \in Nat /\ Len(q.hashed) \in Nat
      /\ q.current_offset = c.offset + Len(q.hashed)
      /\ Len(r.hashed) <= Len(q.hashed)
  <2>1. PICK x \in Nat : x = Len(r.hashed)
    BY <1>1
  <2>2. PICK y \in Nat : y = Len(b)
    BY <1>3
  <2>3. PICK a \in Nat : a = c.offset
    BY <1>1
  <2>4. q.current_offset = (a + x) + y /\ Len(q.hashed) = x + y
    BY <1>1, <1>2, <2>1, <2>2, <2>3
  <2>5. (a + x) + y = a + (x + y) /\ x <= x + y /\ x + y \in Nat
    OBVIOUS
  <2> QED BY <1>1, <2>1, <2>3, <2>4, <2>5
<1>5. Len(q.hashed) >= c.size => q.hashed # c.hash
  <2>1. Len(q.hashed) >= c.size => ~(q.current_offset < c.offset + c.size)
    <3>1. PICK x \in Nat : x = Len(q.hashed)
      BY <1>4
    <3>2. PICK y \in Nat : y = c.size
      BY <1>4
    <3>3. PICK a \in Nat : a = c.offset
      BY <1>4
    <3>4. x >= y => ~(a + x < a + y)
      OBVIOUS
    <3> QED BY <1>4, <3>1, <3>2, <3>3, <3>4
  <2> QED BY <2>1
<1>6. ASSUME Alone(r.remote_path), Len(q.hashed) < c.size
      PROVE  /\ q.current_offset <= Len(w)
             /\ \A i \in 1 .. Len(q.hashed) : w[c.offset + i] = q.hashed[i]
  <2>1. Len(r.hashed) < c.size
    BY <1>4, <1>6
  <2> QED BY <1>6, <2>1, BlocksOnDisk
<1>7. r.chunk_index \in 0 .. Len(e.meta.chunks) - 1
  BY <1>1
<1> QED BY <1>1, <1>2, <1>4, <1>5, <1>6, <1>7 DEF GoodRequest

\* The chunk is full and right: marking it leaves the entry good.
LEMMA ChunkReceived ==
    ASSUME NEW p \in Path, NEW r \in Requesting, NEW e \in Entry, p = r.remote_path,
           NEW f \in Seq(Byte), NEW b \in Seq(Byte),
           NEW w, Written(w, f, e.meta.size, r.current_offset, b),
           GoodEntry(p, e, w), GoodRequest(r, e, w),
           NEW q, q = After(r, b),
           NEW c, c = e.meta.chunks[r.chunk_index + 1],
           q.hashed = c.hash, e.local_path # NoPath,
           NEW d, d = mark_received(e, r.chunk_index)
    PROVE  /\ d \in Entry
           /\ d.local_path = e.local_path
           /\ d.received_chunks = 0 .. (r.chunk_index + 1) - 1
           /\ r.chunk_index + 1 \in 0 .. Len(d.meta.chunks)
           /\ GoodEntry(p, d, w)
<1> DEFINE k == r.chunk_index
<1>1. /\ k + 1 \in 1 .. Len(e.meta.chunks)
      /\ k \in Nat
      /\ Len(e.meta.chunks) \in Nat
      /\ e.meta.size \in Nat
      /\ e.received_chunks = 0 .. k - 1
      /\ r.hashed \in Seq(Byte)
      /\ Len(r.hashed) \in Nat
      /\ r.current_offset = c.offset + Len(r.hashed)
      /\ Len(r.hashed) >= c.size => r.hashed # c.hash
      /\ c.offset \in Nat
      /\ c.size \in Nat
      /\ Len(c.hash) = c.size
      /\ c.offset + c.size <= e.meta.size
      /\ k + 1 = Len(e.meta.chunks) => c.offset + c.size = e.meta.size
  <2>1. RequestShape(r, e, w, c)
    BY RequestFacts
  <2> QED BY <2>1 DEF RequestShape
<1> HIDE DEF k
<1>2. /\ q.current_offset = r.current_offset + Len(b)
      /\ q.hashed = r.hashed \o b
      /\ Len(q.hashed) = Len(r.hashed) + Len(b)
  BY AfterFacts
<1>3. /\ Len(b) \in Nat /\ Len(r.hashed) \in Nat /\ c.size \in Nat /\ c.offset \in Nat
      /\ Len(r.hashed) + Len(b) = c.size
      /\ r.current_offset = c.offset + Len(r.hashed)
      /\ q.current_offset = r.current_offset + Len(b)
  BY <1>1, <1>2
<1>n. q.current_offset = c.offset + c.size
  BY <1>3
<1>4. Len(r.hashed) < c.size
  <2>1. Len(r.hashed) >= c.size => Len(b) = 0
    BY <1>3
  <2>2. Len(b) = 0 => b = <<>>
    OBVIOUS
  <2>3. b = <<>> => q.hashed = r.hashed
    BY <1>1, <1>2
  <2>4. ~(Len(r.hashed) >= c.size)
    BY <1>1, <2>1, <2>2, <2>3
  <2> QED BY <1>3, <2>4
<1>5. ASSUME Alone(p) PROVE OnDisk(w, c)
  <2>1. /\ q.current_offset <= Len(w)
        /\ \A i \in 1 .. Len(q.hashed) : w[c.offset + i] = q.hashed[i]
    BY <1>4, <1>5, BlocksOnDisk
  <2>2. q.current_offset = c.offset + c.size /\ Len(q.hashed) = c.size
    BY <1>1, <1>n
  <2> QED BY <2>1, <2>2 DEF OnDisk
<1>6. /\ d \in Entry
      /\ d.local_path = e.local_path
      /\ d.meta = e.meta
      /\ d.received_chunks = e.received_chunks \cup {k}
  BY <1>1 DEF mark_received, Entry, k
<1>7. d.received_chunks = 0 .. (k + 1) - 1 /\ k + 1 \in 0 .. Len(d.meta.chunks)
  BY <1>1, <1>6
<1>8. Undownloaded(d) # {} <=> k + 1 < Len(d.meta.chunks)
  BY <1>6, <1>7, NextChunk
<1>9. Undownloaded(d) = {} => Len(w) = e.meta.size
  <2>1. Undownloaded(d) = {} => k + 1 = Len(e.meta.chunks)
    BY <1>1, <1>6, <1>8
  <2>2. r.current_offset + Len(b) = c.offset + c.size
    BY <1>3, <1>n
  <2>3. r.current_offset + Len(b) <= e.meta.size
    BY <1>1, <2>2
  <2> QED BY <2>3 DEF Written
<1>10. ASSUME Alone(p) PROVE \A j \in d.received_chunks : OnDisk(w, d.meta.chunks[j + 1])
  <2>1. \A j \in e.received_chunks : OnDisk(w, e.meta.chunks[j + 1])
    BY <1>10 DEF GoodEntry
  <2> QED BY <1>5, <1>6, <1>10, <2>1 DEF k
<1>11. d.local_path \in Locals(p) \cup {NoPath}
  BY <1>6 DEF GoodEntry
<1> QED BY <1>6, <1>7, <1>9, <1>10, <1>11 DEF GoodEntry, k

\* A change of one entry's local file leaves the other entries good.
LEMMA OneFile ==
    ASSUME IInv, NEW p \in Path, NEW e \in Entry, index[p] = e,
           NEW l, l = e.local_path, l # NoPath,
           NEW w \in Seq(Byte), files' = [files EXCEPT ![l] = w], GoodEntry(p, e, w)
    PROVE  /\ files' \in [Local -> Seq(Byte)]
           /\ files'[l] = w
           /\ \A z \in Path : Known(z) => GoodEntry(z, index[z], files'[index[z].local_path])
<1>1. l \in Local
  BY DEF Entry
<1>2. files \in [Local -> Seq(Byte)]
  BY DEF IInv, TypeOK
<1>3. /\ files' \in [Local -> Seq(Byte)]
      /\ files'[l] = w
      /\ \A m \in Local : m # l => files'[m] = files[m]
  BY <1>1, <1>2
<1>4. ASSUME NEW z \in Path, Known(z)
      PROVE  GoodEntry(z, index[z], files'[index[z].local_path])
  <2>0. PICK d : d = index[z]
    OBVIOUS
  <2>1. d \in Entry
    BY <1>4, <2>0, KnownEntry DEF IInv
  <2>2. GoodEntry(z, d, files[d.local_path])
    BY <1>4, <2>0 DEF IInv, EntriesInv
  <2>3. CASE z = p
    BY <1>3, <2>0, <2>3
  <2>4. CASE d.local_path = NoPath
    BY <2>0, <2>1, <2>2, <2>4, FrameEntry
  <2>5. CASE z # p /\ d.local_path # NoPath /\ Alone(z)
    <3>1. d.local_path \in Locals(z) /\ l \in Locals(p)
      BY <2>2, <2>5 DEF GoodEntry
    <3>2. d.local_path # l
      BY <2>5, <3>1 DEF Alone
    <3>3. d.local_path \in Local
      BY <2>1, <2>5 DEF Entry
    <3>4. files'[d.local_path] = files[d.local_path]
      BY <1>3, <3>2, <3>3
    <3> QED BY <2>0, <2>2, <3>4
  <2>6. CASE ~Alone(z)
    BY <2>0, <2>2, <2>6 DEF GoodEntry
  <2> QED BY <2>3, <2>4, <2>5, <2>6
<1> QED BY <1>3, <1>4

\* A block arrives while a chunk is awaited.
LEMMA TransmitChunkIInv ==
    ASSUME IInv, NEW b \in Seq(Byte), TransmitChunk(b), state = "RequestedChunk"
    PROVE  IInv'
<1> DEFINE r == requesting_chunk
           e == index[r.remote_path]
           l == e.local_path
           f == files[l]
           n == e.meta.size
           o == r.current_offset
<1>1. r \in Requesting /\ e \in Entry /\ GoodRequest(r, e, f) /\ TypeOK /\ EntriesInv
  BY DEF IInv, RequestInv
<1>2. \/ WriteError(l, n, o, b)
      \/ /\ l # NoPath
         /\ files' = [files EXCEPT ![l] = write_at(set_len(@, n), o, b)]
         /\ Advance(r, e, b)
  BY DEF TransmitChunk
<1> HIDE DEF r
<1>3. r.remote_path \in Path /\ b \in Seq(Byte)
  BY <1>1 DEF Requesting
<1>4. Known(r.remote_path) /\ GoodEntry(r.remote_path, e, f)
  BY <1>1, <1>3, KnownEntry DEF EntriesInv
<1>5. l # NoPath => l \in Local /\ f \in Seq(Byte)
  BY <1>1 DEF Entry, TypeOK
<1> HIDE DEF e, f, l, n, o
<1>d. /\ index[r.remote_path] = e /\ e.local_path = l /\ files[l] = f
      /\ e.meta.size = n /\ r.current_offset = o /\ requesting_chunk = r
  BY DEF r, e, f, l, n, o
<1>w. ASSUME NEW a \in Seq(Byte), l # NoPath
      PROVE  Written(write_at(set_len(f, n), o, a), f, n, o, a)
  <2>1. n \in Nat /\ o \in Nat
    BY <1>1, <1>d, MetaAssumption DEF Entry, Requesting, IsMeta
  <2> QED BY <1>5, <1>w, <2>1, WriteFacts
<1>6. CASE WriteError(l, n, o, b)
  <2>1. UNCHANGED <<state, requesting_chunk, index, last_updated, logged_in, up, torn>>
    BY <1>6 DEF WriteError
  <2>2. CASE files' = files
    <3>1. UNCHANGED vars
      BY <2>1, <2>2 DEF vars
    <3> QED BY <3>1, StutterIInv
  <2>3. CASE l # NoPath /\ \E g \in Failed(f, n, o, b) : files' = [files EXCEPT ![l] = g]
    <3>1. PICK g \in Failed(f, n, o, b) : files' = [files EXCEPT ![l] = g]
      BY <2>3
    <3>2. CASE g = f
      <4>1. files' = files
        BY <1>1, <1>5, <1>d, <2>3, <3>1, <3>2 DEF TypeOK
      <4> QED BY <2>2, <4>1
    <3>3. CASE \E i \in 0 .. Len(b) : g = write_at(set_len(f, n), o, SubSeq(b, 1, i))
      <4>1. PICK i \in 0 .. Len(b) : g = write_at(set_len(f, n), o, SubSeq(b, 1, i))
        BY <3>3
      <4>2. SubSeq(b, 1, i) \in Seq(Byte)
        BY <1>3
      <4>3. g \in Seq(Byte) /\ GoodEntry(r.remote_path, e, g) /\ GoodRequest(r, e, g)
        <5>1. PICK a \in Seq(Byte) : a = SubSeq(b, 1, i)
          BY <4>2
        <5>2. Written(g, f, e.meta.size, r.current_offset, a)
          BY <1>d, <1>w, <2>3, <4>1, <5>1
        <5>3. f \in Seq(Byte)
          BY <1>5, <2>3
        <5> QED BY <1>1, <1>3, <1>4, <5>2, <5>3, WriteKeeps
      <4>4. /\ files' \in [Local -> Seq(Byte)]
            /\ files'[l] = g
            /\ \A z \in Path : Known(z) => GoodEntry(z, index[z], files'[index[z].local_path])
        <5>1. /\ r.remote_path \in Path /\ e \in Entry /\ index[r.remote_path] = e
              /\ l = e.local_path /\ l # NoPath
          BY <1>1, <1>3, <1>d, <2>3
        <5> QED BY <3>1, <4>3, <5>1, OneFile, Zenon
      <4>5. TypeOK'
        BY <1>1, <2>1, <4>4 DEF TypeOK
      <4>6. EntriesInv'
        BY <2>1, <4>4 DEF EntriesInv, Known
      <4>7. RequestInv'
        BY <1>1, <1>d, <2>1, <4>3, <4>4 DEF RequestInv
      <4> QED BY <4>5, <4>6, <4>7 DEF IInv
    <3> QED BY <3>1, <3>2, <3>3 DEF Failed
  <2> QED BY <1>6, <1>d, <2>2, <2>3 DEF WriteError
<1>7. ASSUME l # NoPath, Advance(r, e, b),
             files' = [files EXCEPT ![l] = write_at(set_len(@, n), o, b)]
      PROVE  IInv'
  <2>0. PICK w : w = write_at(set_len(f, n), o, b)
    OBVIOUS
  <2>1. Written(w, f, n, o, b)
    BY <1>3, <1>7, <1>w, <2>0
  <2>2. w \in Seq(Byte) /\ GoodEntry(r.remote_path, e, w) /\ GoodRequest(r, e, w)
    <3>1. Written(w, f, e.meta.size, r.current_offset, b)
      BY <1>d, <2>1
    <3>2. f \in Seq(Byte)
      BY <1>5, <1>7
    <3> QED BY <1>1, <1>3, <1>4, <3>1, <3>2, WriteKeeps
  <2>3. files' = [files EXCEPT ![l] = w]
    BY <1>1, <1>5, <1>7, <1>d, <2>0 DEF TypeOK
  <2>4. /\ files' \in [Local -> Seq(Byte)]
        /\ files'[l] = w
        /\ \A z \in Path : Known(z) => GoodEntry(z, index[z], files'[index[z].local_path])
    <3>1. /\ r.remote_path \in Path /\ e \in Entry /\ index[r.remote_path] = e
          /\ l = e.local_path /\ l # NoPath
      BY <1>1, <1>3, <1>7, <1>d
    <3> QED BY <2>2, <2>3, <3>1, OneFile, Zenon
  <2>5. PICK q : q = After(r, b)
    OBVIOUS
  <2>6. PICK c : c = e.meta.chunks[r.chunk_index + 1]
    OBVIOUS
  <2>7. PICK d : d = mark_received(e, r.chunk_index)
    OBVIOUS
  <2>8. q \in Requesting /\ q.remote_path = r.remote_path
    BY <1>1, <1>3, <2>5, AfterFacts
  <2>9. \/ /\ q.current_offset < c.offset + c.size \/ q.hashed # c.hash
           /\ requesting_chunk' = q
           /\ UNCHANGED <<state, index, last_updated, logged_in, up, torn>>
        \/ /\ q.hashed = c.hash
           /\ \/ DieInSave
              \/ /\ index' = [index EXCEPT ![r.remote_path] = d]
                 /\ IF Undownloaded(d) # {}
                    THEN request_chunk(d, r.remote_path, find_first_undownloaded(d))
                    ELSE state' = "Idle" /\ requesting_chunk' = NoFile /\ UNCHANGED up
                 /\ UNCHANGED <<last_updated, logged_in, torn>>
    BY <1>7, <2>5, <2>6, <2>7 DEF Advance, After
  <2>10. ASSUME q.current_offset < c.offset + c.size \/ q.hashed # c.hash,
                requesting_chunk' = q,
                UNCHANGED <<state, index, last_updated, logged_in, up, torn>>
         PROVE  IInv'
    <3>1. GoodRequest(q, e, w)
      BY <1>1, <1>3, <1>5, <1>7, <1>d, <2>2, <2>1, <2>5, <2>6, <2>10, RequestGoesOn
    <3>2. TypeOK'
      BY <1>1, <2>4, <2>8, <2>10 DEF TypeOK
    <3>3. EntriesInv'
      BY <2>4, <2>10 DEF EntriesInv, Known
    <3>4. RequestInv'
      BY <1>1, <1>d, <2>4, <2>8, <2>10, <3>1 DEF RequestInv
    <3> QED BY <3>2, <3>3, <3>4 DEF IInv
  <2>11. ASSUME DieInSave PROVE IInv'
    <3>1. TypeOK'
      BY <1>1, <2>4, <2>11, BoundAssumption DEF TypeOK, DieInSave, Die, MinTime
    <3>2. EntriesInv'
      BY <2>4, <2>11 DEF EntriesInv, Known, DieInSave
    <3>3. RequestInv'
      BY <2>11 DEF RequestInv, DieInSave, Die
    <3> QED BY <3>1, <3>2, <3>3 DEF IInv
  <2>12. ASSUME q.hashed = c.hash,
                index' = [index EXCEPT ![r.remote_path] = d],
                IF Undownloaded(d) # {}
                THEN request_chunk(d, r.remote_path, find_first_undownloaded(d))
                ELSE state' = "Idle" /\ requesting_chunk' = NoFile /\ UNCHANGED up,
                UNCHANGED <<last_updated, logged_in, torn>>
         PROVE  IInv'
    <3>1. PICK k : k = r.chunk_index + 1
      OBVIOUS
    <3>2. /\ d \in Entry
          /\ d.local_path = l
          /\ d.received_chunks = 0 .. k - 1
          /\ k \in 0 .. Len(d.meta.chunks)
          /\ GoodEntry(r.remote_path, d, w)
      <4>1. /\ Written(w, f, e.meta.size, r.current_offset, b)
            /\ f \in Seq(Byte)
            /\ e.local_path # NoPath
        BY <1>5, <1>7, <1>d, <2>1
      <4>2. /\ d \in Entry
            /\ d.local_path = e.local_path
            /\ d.received_chunks = 0 .. (r.chunk_index + 1) - 1
            /\ r.chunk_index + 1 \in 0 .. Len(d.meta.chunks)
            /\ GoodEntry(r.remote_path, d, w)
        BY <1>1, <1>3, <2>2, <2>5, <2>6, <2>7, <2>12, <4>1, ChunkReceived
      <4> QED BY <1>d, <3>1, <4>2
    <3>3. /\ Len(d.meta.chunks) \in Nat
          /\ Undownloaded(d) # {} <=> k < Len(d.meta.chunks)
          /\ k < Len(d.meta.chunks) => find_first_undownloaded(d) = k
      BY <3>2, NextChunk
    <3>4. /\ index' \in [Path -> Entry \cup {NoEntry}]
          /\ index'[r.remote_path] = d
          /\ \A z \in Path : z # r.remote_path => index'[z] = index[z]
      BY <1>1, <1>3, <2>12, <3>2 DEF TypeOK
    <3>5. EntriesInv'
      BY <2>4, <3>2, <3>4 DEF EntriesInv, Known
    <3>6. CASE Undownloaded(d) # {}
      <4>1. request_chunk(d, r.remote_path, k) /\ k \in 0 .. Len(d.meta.chunks) - 1
        BY <2>12, <3>2, <3>3, <3>6
      <4>2. /\ requesting_chunk' \in Requesting
            /\ requesting_chunk'.remote_path = r.remote_path
            /\ GoodRequest(requesting_chunk', d, w)
            /\ state' = "RequestedChunk"
            /\ up' \in Seq(Message)
            /\ Len(up') <= UpCap
        BY <1>1, <1>3, <3>2, <4>1, FreshRequest
      <4>3. TypeOK'
        BY <1>1, <2>4, <2>12, <3>4, <4>2 DEF TypeOK
      <4>4. RequestInv'
        BY <2>4, <3>2, <3>4, <4>2 DEF RequestInv
      <4> QED BY <3>5, <4>3, <4>4 DEF IInv
    <3>7. CASE Undownloaded(d) = {}
      <4>1. state' = "Idle" /\ requesting_chunk' = NoFile /\ UNCHANGED up
        BY <2>12, <3>7
      <4>2. TypeOK'
        BY <1>1, <2>4, <2>12, <3>4, <4>1 DEF TypeOK
      <4>3. RequestInv'
        BY <4>1 DEF RequestInv
      <4> QED BY <3>5, <4>2, <4>3 DEF IInv
    <3> QED BY <3>6, <3>7
  <2> QED BY <2>9, <2>10, <2>11, <2>12
<1> QED BY <1>2, <1>6, <1>7

\* The user's clicks and the login.
LEMMA UserIInv ==
    ASSUME IInv, LogInAsReceiver \/ LoggedInAsReceiver \/ DownloadStopped
    PROVE  IInv'
<1>t. TypeOK /\ get_last_updated(index) \in Nat \cup {MinTime}
  BY LastUpdatedType DEF IInv
<1>1. ASSUME Die, UNCHANGED <<index, files, torn>> PROVE IInv'
  <2>1. torn' \in BOOLEAN
    BY <1>t, <1>1 DEF TypeOK
  <2> QED BY <1>1, <2>1, DieIInv
<1>2. ASSUME LogInAsReceiver PROVE IInv'
  <2>1. CASE torn
    BY <1>1, <1>2, <2>1 DEF LogInAsReceiver, NewReceiver
  <2>2. CASE ~torn
    <3>1. [type |-> "Login"] \in Message
      BY DEF Message
    <3>2. up' \in Seq(Message) /\ Len(up') <= UpCap
      BY <1>2, <1>t, <2>2, <3>1, SendFacts DEF LogInAsReceiver, NewReceiver
    <3>3. /\ state' = "Initializing" /\ requesting_chunk' = NoFile
          /\ last_updated' = get_last_updated(index)
          /\ UNCHANGED <<logged_in, index, files, torn>>
      BY <1>2, <2>2 DEF LogInAsReceiver, NewReceiver
    <3>4. TypeOK'
      BY <1>t, <3>2, <3>3 DEF TypeOK
    <3>5. EntriesInv' /\ RequestInv'
      BY <3>3 DEF IInv, EntriesInv, RequestInv, Known
    <3> QED BY <3>4, <3>5 DEF IInv
  <2> QED BY <2>1, <2>2
<1>3. ASSUME LoggedInAsReceiver PROVE IInv'
  <2>1. CASE state # "Idle"
    BY <1>1, <1>3, <2>1 DEF LoggedInAsReceiver, request_meta
  <2>2. CASE state = "Idle"
    <3>1. PICK m : m = [type |-> "RequestMeta", after |-> get_last_updated(index)]
      OBVIOUS
    <3>2. m \in Message
      BY <1>t, <3>1 DEF Message
    <3>3. /\ send_message(m)
          /\ logged_in' = logged_in - 1 /\ logged_in > 0
          /\ UNCHANGED <<state, requesting_chunk, last_updated, index, files, torn>>
      BY <1>3, <2>2, <3>1 DEF LoggedInAsReceiver, request_meta
    <3>4. up' \in Seq(Message) /\ Len(up') <= UpCap
      BY <1>t, <3>2, <3>3, SendFacts
    <3>5. logged_in' \in 0 .. UpCap /\ last_updated' \in Nat \cup {MinTime}
      BY <1>t, <3>3, BoundAssumption DEF TypeOK
    <3> QED BY <2>2, <3>3, <3>4, <3>5, SameIInv
  <2> QED BY <2>1, <2>2
<1>4. ASSUME DownloadStopped PROVE IInv'
  <2>1. CASE state # "RequestedChunk"
    BY <1>1, <1>4, <2>1 DEF DownloadStopped
  <2>2. CASE state = "RequestedChunk"
    <3>1. [type |-> "StopChunk"] \in Message
      BY DEF Message
    <3>2. up' \in Seq(Message) /\ Len(up') <= UpCap
      BY <1>4, <1>t, <2>2, <3>1, SendFacts DEF DownloadStopped
    <3>3. /\ state' = "Idle"
          /\ UNCHANGED <<requesting_chunk, last_updated, logged_in, index, files, torn>>
      BY <1>4, <2>2 DEF DownloadStopped
    <3>4. logged_in' \in 0 .. UpCap /\ last_updated' \in Nat \cup {MinTime}
      BY <1>t, <3>3 DEF TypeOK
    <3> QED BY <3>2, <3>3, <3>4, SameIInv
  <2> QED BY <2>1, <2>2
<1> QED BY <1>2, <1>3, <1>4

\* A download is asked for: the entry loses its marks before its first chunk
\* is requested.
LEMMA FileRequestedIInv ==
    ASSUME IInv, NEW p \in Path, NEW l \in Locals(p), FileRequested(p, l)
    PROVE  IInv'
<1>t. TypeOK /\ EntriesInv /\ l \in Local
  BY LocalAssumption DEF IInv
<1>1. ASSUME ~(state = "Idle" /\ Known(p)) PROVE IInv'
  <2>1. Die /\ UNCHANGED <<index, torn, files>>
    BY <1>1 DEF FileRequested
  <2>2. torn' \in BOOLEAN
    BY <1>t, <2>1 DEF TypeOK
  <2> QED BY <2>1, <2>2, DieIInv
<1>2. ASSUME DieInSave, UNCHANGED files PROVE IInv'
  BY <1>2, DieIInv DEF DieInSave
<1>3. ASSUME state = "Idle", Known(p), ~DieInSave PROVE IInv'
  <2>1. index[p] \in Entry
    BY <1>3, <1>t, KnownEntry
  <2>2. PICK e : e = change_local(index[p], l)
    OBVIOUS
  <2>3. /\ e \in Entry
        /\ e.received_chunks = {}
        /\ e.local_path = l
    BY <1>t, <2>1, <2>2 DEF Entry, change_local
  <2>4. /\ index' = [index EXCEPT ![p] = e]
        /\ UNCHANGED <<torn, files>>
        /\ IF e.meta.chunks = <<>>
           THEN Die ELSE request_chunk(e, p, 0) /\ UNCHANGED <<last_updated, logged_in>>
    BY <1>3, <2>2 DEF FileRequested
  <2>5. /\ index' \in [Path -> Entry \cup {NoEntry}]
        /\ index'[p] = e
        /\ \A z \in Path : z # p => index'[z] = index[z]
    BY <1>t, <2>3, <2>4 DEF TypeOK
  <2>6. \A f : GoodEntry(p, e, f)
    BY <2>3, FreshEntry
  <2>7. EntriesInv'
    BY <1>t, <2>4, <2>5, <2>6 DEF EntriesInv, Known
  <2>8. CASE e.meta.chunks = <<>>
    <3>1. Die
      BY <2>4, <2>8
    <3>2. TypeOK'
      BY <1>t, <2>4, <2>5, <3>1, BoundAssumption DEF TypeOK, Die, MinTime
    <3>3. RequestInv'
      BY <3>1 DEF RequestInv, Die
    <3> QED BY <2>7, <3>2, <3>3 DEF IInv
  <2>9. CASE e.meta.chunks # <<>>
    <3>1. request_chunk(e, p, 0) /\ UNCHANGED <<last_updated, logged_in>>
      BY <2>4, <2>9
    <3>2. 0 \in 0 .. Len(e.meta.chunks) - 1 /\ e.received_chunks = 0 .. 0 - 1
      <4>1. e.meta.chunks \in Seq(Chunk)
        BY <2>3, MetaAssumption DEF Entry, IsMeta
      <4> QED BY <2>3, <2>9, <4>1
    <3>3. PICK f : f = files[l]
      OBVIOUS
    <3>4. /\ requesting_chunk' \in Requesting
          /\ requesting_chunk'.remote_path = p
          /\ GoodRequest(requesting_chunk', e, f)
          /\ state' = "RequestedChunk"
          /\ up' \in Seq(Message)
          /\ Len(up') <= UpCap
      BY <1>t, <2>3, <3>1, <3>2, FreshRequest
    <3>5. TypeOK'
      BY <1>t, <2>4, <2>5, <3>1, <3>4 DEF TypeOK
    <3>6. RequestInv'
      BY <2>3, <2>4, <2>5, <3>3, <3>4 DEF RequestInv
    <3> QED BY <2>7, <3>5, <3>6 DEF IInv
  <2> QED BY <2>8, <2>9
<1> QED BY <1>1, <1>2, <1>3 DEF FileRequested

\* A download is resumed with the first chunk not received.
LEMMA FileResumedIInv ==
    ASSUME IInv, NEW p \in Path, FileResumed(p)
    PROVE  IInv'
<1>t. TypeOK /\ EntriesInv
  BY DEF IInv
<1> DEFINE ok == state = "Idle" /\ Known(p) /\ Undownloaded(index[p]) # {}
<1>0. UNCHANGED <<index, files, torn>>
  BY DEF FileResumed
<1>1. ASSUME ~ok PROVE IInv'
  <2>1. Die
    BY <1>1 DEF FileResumed
  <2>2. torn' \in BOOLEAN
    BY <1>0, <1>t DEF TypeOK
  <2> QED BY <1>0, <2>1, <2>2, DieIInv
<1>2. ASSUME ok PROVE IInv'
  <2>0. PICK e : e = index[p]
    OBVIOUS
  <2>1. e \in Entry /\ GoodEntry(p, e, files[e.local_path])
    BY <1>2, <1>t, <2>0, KnownEntry DEF EntriesInv
  <2>2. PICK k \in 0 .. Len(e.meta.chunks) : e.received_chunks = 0 .. k - 1
    BY <2>1 DEF GoodEntry
  <2>3. /\ Len(e.meta.chunks) \in Nat
        /\ Undownloaded(e) # {} <=> k < Len(e.meta.chunks)
        /\ k < Len(e.meta.chunks) => find_first_undownloaded(e) = k
    BY <2>1, <2>2, NextChunk
  <2>4. k \in 0 .. Len(e.meta.chunks) - 1 /\ find_first_undownloaded(e) = k
    BY <1>2, <2>0, <2>3
  <2>5. request_chunk(e, p, k) /\ UNCHANGED <<last_updated, logged_in>>
    BY <1>2, <2>0, <2>4 DEF FileResumed
  <2>6. PICK f : f = files[e.local_path]
    OBVIOUS
  <2>7. /\ requesting_chunk' \in Requesting
        /\ requesting_chunk'.remote_path = p
        /\ GoodRequest(requesting_chunk', e, f)
        /\ state' = "RequestedChunk"
        /\ up' \in Seq(Message)
        /\ Len(up') <= UpCap
    BY <1>t, <2>1, <2>2, <2>4, <2>5, FreshRequest
  <2>8. TypeOK'
    BY <1>0, <1>t, <2>5, <2>7 DEF TypeOK
  <2>9. EntriesInv'
    BY <1>0, <1>t DEF EntriesInv, Known
  <2>10. RequestInv'
    BY <1>0, <2>0, <2>1, <2>6, <2>7 DEF RequestInv
  <2> QED BY <2>8, <2>9, <2>10 DEF IInv
<1> QED BY <1>1, <1>2

\* The messages of the server other than a block, and the socket.
LEMMA MessageIInv ==
    ASSUME IInv,
           \/ LoginSuccess
           \/ \E t \in Nat : NotifyUpdated(t)
           \/ SendMessage
    PROVE  IInv'
<1>t. TypeOK
  BY DEF IInv
<1>0. ASSUME Dropped PROVE IInv'
  BY <1>0, StutterIInv DEF Dropped
<1>1. ASSUME LoginSuccess, ~Dropped PROVE IInv'
  <2>1. /\ logged_in < UpCap /\ logged_in' = logged_in + 1
        /\ state' = "Idle"
        /\ UNCHANGED <<requesting_chunk, index, last_updated, up, files, torn>>
    BY <1>1 DEF LoginSuccess
  <2>2. logged_in' \in 0 .. UpCap
    BY <1>t, <2>1, BoundAssumption DEF TypeOK
  <2>3. last_updated' \in Nat \cup {MinTime} /\ up' \in Seq(Message) /\ Len(up') <= UpCap
    BY <1>t, <2>1 DEF TypeOK
  <2> QED BY <2>1, <2>2, <2>3, SameIInv
<1>2. ASSUME NEW t \in Nat, NotifyUpdated(t), ~Dropped PROVE IInv'
  <2>0. PICK x : x = [type |-> "RequestMeta", after |-> last_updated]
    OBVIOUS
  <2>1. /\ send_message(x)
        /\ UNCHANGED <<state, requesting_chunk, index, last_updated, logged_in, files, torn>>
    BY <1>2, <2>0 DEF NotifyUpdated, request_meta
  <2>2. x \in Message
    BY <1>t, <2>0 DEF Message, TypeOK
  <2>3. up' \in Seq(Message) /\ Len(up') <= UpCap
    BY <1>t, <2>1, <2>2, SendFacts
  <2>4. /\ logged_in' \in 0 .. UpCap /\ last_updated' \in Nat \cup {MinTime}
        /\ state' \in {"None", "Initializing", "Idle", "RequestedChunk", "Crashed"}
    BY <1>t, <2>1 DEF TypeOK
  <2> QED BY <2>1, <2>3, <2>4, SameIInv
<1>3. ASSUME SendMessage PROVE IInv'
  <2>1. UNCHANGED <<state, requesting_chunk, index, last_updated, logged_in, files, torn>>
    BY <1>3 DEF SendMessage
  <2>2. up' \in Seq(Message) /\ Len(up') <= UpCap
    <3>1. up \in Seq(Message) /\ up # <<>> /\ Len(up) <= UpCap /\ up' = Tail(up)
      BY <1>3, <1>t DEF SendMessage, TypeOK
    <3>2. up' \in Seq(Message) /\ Len(up') = Len(up) - 1
      BY <3>1
    <3> QED BY <3>1, <3>2, BoundAssumption
  <2>3. /\ logged_in' \in 0 .. UpCap /\ last_updated' \in Nat \cup {MinTime}
        /\ state' \in {"None", "Initializing", "Idle", "RequestedChunk", "Crashed"}
    BY <1>t, <2>1 DEF TypeOK
  <2> QED BY <2>1, <2>2, <2>3, SameIInv
<1> QED BY <1>0, <1>1, <1>2, <1>3

\* New metadata replaces entries, and nothing has been received for them.
LEMMA TransmitMetaIInv ==
    ASSUME IInv, NEW P \in SUBSET Path, NEW ms \in [P -> Meta], TransmitMeta(ms)
    PROVE  IInv'
<1>t. TypeOK /\ EntriesInv
  BY DEF IInv
<1>0. ASSUME Dropped PROVE IInv'
  BY <1>0, StutterIInv DEF Dropped
<1>1. ASSUME DieInSave, UNCHANGED files PROVE IInv'
  BY <1>1, DieIInv DEF DieInSave
<1>2. ASSUME ~Dropped, ~DieInSave PROVE IInv'
  <2>1. /\ state = "Idle"
        /\ index' = [p \in Path |-> IF p \in DOMAIN ms THEN add_for_meta(ms[p]) ELSE index[p]]
        /\ UNCHANGED <<state, requesting_chunk, last_updated, logged_in, up, torn, files>>
    BY <1>2 DEF TransmitMeta
  <2>2. ASSUME NEW p \in Path
        PROVE  \/ index'[p] = index[p]
               \/ index'[p] \in Entry /\ \A f : GoodEntry(p, index'[p], f)
    <3>1. CASE p \in P
      <4>1. index'[p] = add_for_meta(ms[p]) /\ ms[p] \in Meta
        BY <2>1, <3>1
      <4>2. /\ index'[p] \in Entry
            /\ index'[p].received_chunks = {}
            /\ index'[p].local_path = NoPath
        BY <4>1 DEF add_for_meta, Entry
      <4> QED BY <4>2, FreshEntry
    <3>2. CASE p \notin P
      BY <2>1, <3>2
    <3> QED BY <3>1, <3>2
  <2>3. index' \in [Path -> Entry \cup {NoEntry}]
    <3>1. \A p \in Path : index'[p] \in Entry \cup {NoEntry}
      BY <1>t, <2>2 DEF TypeOK
    <3>2. index' = [p \in Path |-> index'[p]]
      BY <2>1
    <3> QED BY <3>1, <3>2
  <2>4. TypeOK'
    BY <1>t, <2>1, <2>3 DEF TypeOK
  <2>5. EntriesInv'
    BY <1>t, <2>1, <2>2 DEF EntriesInv, Known
  <2>6. RequestInv'
    BY <2>1 DEF RequestInv
  <2> QED BY <2>4, <2>5, <2>6 DEF IInv
<1> QED BY <1>0, <1>1, <1>2 DEF TransmitMeta

\* The client dies and is started again.
LEMMA CrashIInv ==
    ASSUME IInv, Crash \/ Restart
    PROVE  IInv'
<1>1. CASE Crash
  <2>1. Die /\ UNCHANGED <<index, files>> /\ torn' = torn
    BY <1>1 DEF Crash
  <2>2. torn' \in BOOLEAN
    BY <2>1 DEF IInv, TypeOK
  <2> QED BY <2>1, <2>2, DieIInv
<1>2. CASE Restart
  <2>1. TypeOK'
    BY <1>2 DEF IInv, TypeOK, Restart
  <2>2. EntriesInv' /\ RequestInv'
    BY <1>2 DEF IInv, EntriesInv, RequestInv, Known, Restart
  <2> QED BY <2>1, <2>2 DEF IInv
<1> QED BY <1>1, <1>2

\* Every step preserves the invariant.
LEMMA NextIInv ==
    ASSUME IInv, [Next]_vars
    PROVE  IInv'
<1>1. CASE LogInAsReceiver \/ LoggedInAsReceiver \/ DownloadStopped
  BY <1>1, UserIInv
<1>2. CASE \E p \in Path : \E l \in Locals(p) : FileRequested(p, l)
  BY <1>2, FileRequestedIInv
<1>3. CASE \E p \in Path : FileResumed(p)
  BY <1>3, FileResumedIInv
<1>4. CASE LoginSuccess \/ (\E m \in Meta : NotifyUpdated(m.meta_modified)) \/ SendMessage
  <2>1. \A m \in Meta : m.meta_modified \in Nat
    BY MetaAssumption DEF IsMeta
  <2> QED BY <1>4, <2>1, MessageIInv
<1>5. CASE \E P \in SUBSET Path : \E ms \in [P -> Meta] : TransmitMeta(ms)
  BY <1>5, TransmitMetaIInv
<1>6. CASE \E b \in Data : TransmitChunk(b)
  <2>1. PICK b \in Data : TransmitChunk(b)
    BY <1>6
  <2>2. CASE state = "RequestedChunk"
    BY <2>1, <2>2, TransmitChunkIInv, DataAssumption
  <2>3. CASE state # "RequestedChunk"
    <3>1. UNCHANGED vars
      BY <2>1, <2>3 DEF TransmitChunk, Dropped
    <3> QED BY <3>1, StutterIInv
  <2> QED BY <2>2, <2>3
<1>7. CASE Crash \/ Restart
  BY <1>7, CrashIInv
<1>8. CASE UNCHANGED vars
  BY <1>8, StutterIInv
<1> QED BY <1>1, <1>2, <1>3, <1>4, <1>5, <1>6, <1>7, <1>8 DEF Next

\* The invariant holds of every behaviour.
THEOREM Invariance == Spec => []IInv
<1>1. Init => IInv
  BY InitIInv
<1>2. IInv /\ [Next]_vars => IInv'
  BY NextIInv
<1> QED BY <1>1, <1>2, PTL DEF Spec

-----------------------------------------------------------------------------
(***************************************************************************)
(* The theorems.                                                           *)
(***************************************************************************)

\* Every variable keeps its type; in particular the offset and the hash of a
\* request, whatever blocks come in.
THEOREM TypeCorrectness == Spec => []TypeOK
<1>1. IInv => TypeOK
  BY DEF IInv
<1> QED BY <1>1, Invariance, PTL

\* Integrity and WholeFile of the one file p.
SoundFile(p) ==
    LET e == index[p]
        f == files[e.local_path]
    IN  Known(p) => /\ \A k \in e.received_chunks : OnDisk(f, e.meta.chunks[k + 1])
                    /\ Complete(p) => Len(f) = e.meta.size

\* A file is not damaged by what becomes of others: of every file that is saved
\* where no other is, the chunks received are on disk and its length is right
\* when it is complete, also if other files overwrite each other
\* (request_file, process_transmit_chunk).
THEOREM FilesAreApart == Spec => [](\A p \in Path : Alone(p) => SoundFile(p))
<1>1. IInv => \A p \in Path : Alone(p) => SoundFile(p)
  BY DEF IInv, EntriesInv, GoodEntry, SoundFile, Complete
<1> QED BY <1>1, Invariance, PTL

\* Whatever blocks arrive, for whichever request they were meant, a chunk the
\* index marks as received is on disk (process_transmit_chunk).
THEOREM ReceivedIsOnDisk == DisjointLocals => (Spec => []Integrity)
<1> SUFFICES ASSUME DisjointLocals PROVE Spec => []Integrity
  OBVIOUS
<1>1. IInv => Integrity
  BY DEF DisjointLocals, IInv, EntriesInv, GoodEntry, Integrity
<1> QED BY <1>1, Invariance, PTL

\* A file that is complete has the length its metadata says.
THEOREM CompleteIsWhole == DisjointLocals => (Spec => []WholeFile)
<1> SUFFICES ASSUME DisjointLocals PROVE Spec => []WholeFile
  OBVIOUS
<1>1. IInv => WholeFile
  BY DEF DisjointLocals, IInv, EntriesInv, GoodEntry, WholeFile, Complete
<1> QED BY <1>1, Invariance, PTL

\* The lookups of process_transmit_chunk succeed whenever a block is accepted.
THEOREM RequestsAreValid == Spec => []RequestValid
<1>1. IInv => RequestValid
  <2> SUFFICES ASSUME IInv, state = "RequestedChunk" PROVE RequestValid
    BY DEF RequestValid
  <2>0. PICK r : r = requesting_chunk
    OBVIOUS
  <2>1. PICK e : e = index[r.remote_path]
    OBVIOUS
  <2>2. r \in Requesting /\ e \in Entry /\ GoodRequest(r, e, files[e.local_path])
    BY <2>0, <2>1 DEF IInv, RequestInv
  <2>3. r # NoFile /\ e # NoEntry
    BY <2>2, NoneAssumption
  <2>4. r.chunk_index \in 0 .. Len(e.meta.chunks) - 1 /\ e.received_chunks = 0 .. r.chunk_index - 1
    BY <2>2 DEF GoodRequest
  <2>5. r.chunk_index \in Undownloaded(e)
    <3>1. r.chunk_index \in Nat
      BY <2>2 DEF Requesting
    <3> QED BY <2>4, <3>1 DEF Undownloaded
  <2> QED BY <2>0, <2>1, <2>3, <2>4, <2>5 DEF RequestValid, Known
<1> QED BY <1>1, Invariance, PTL

\* A chunk that is full and wrong cannot become right.
LEMMA FullStaysWrong ==
    ASSUME NEW r \in Requesting, NEW e \in Entry, NEW f, GoodRequest(r, e, f),
           NEW b \in Seq(Byte), NEW q, q = After(r, b),
           NEW c, c = e.meta.chunks[r.chunk_index + 1],
           Len(r.hashed) >= c.size
    PROVE  q.hashed # c.hash /\ Len(q.hashed) >= c.size
<1>1. /\ Len(r.hashed) \in Nat /\ c.size \in Nat /\ r.hashed \in Seq(Byte)
      /\ Len(c.hash) = c.size
      /\ r.hashed # c.hash
  <2>1. RequestShape(r, e, f, c)
    BY RequestFacts
  <2> QED BY <2>1 DEF RequestShape
<1>2. q.hashed = r.hashed \o b /\ Len(q.hashed) = Len(r.hashed) + Len(b) /\ Len(b) \in Nat
  BY AfterFacts
<1>3. Len(q.hashed) >= c.size /\ (Len(q.hashed) = c.size => Len(b) = 0)
  <2>1. PICK x \in Nat : x = Len(r.hashed)
    BY <1>1
  <2>2. PICK y \in Nat : y = Len(b)
    BY <1>2
  <2>3. PICK z \in Nat : z = c.size
    BY <1>1
  <2>4. x >= z => x + y >= z /\ (x + y = z => y = 0)
    OBVIOUS
  <2>5. Len(q.hashed) = x + y
    BY <1>2, <2>1, <2>2
  <2> QED BY <2>1, <2>2, <2>3, <2>4, <2>5
<1>4. Len(b) = 0 => b = <<>>
  OBVIOUS
<1>5. b = <<>> => q.hashed = r.hashed
  BY <1>1, <1>2
<1> QED BY <1>1, <1>3, <1>4, <1>5

\* Once the hash of a full chunk was wrong (InvalidHash), the download neither
\* goes on nor marks a chunk while the client is in RequestedChunk.
THEOREM MismatchesAreFinal == Spec => MismatchIsFinal
<1>1. ASSUME IInv, Mismatched, state' = "RequestedChunk", [Next]_vars
      PROVE  Mismatched' /\ UNCHANGED index
  <2> DEFINE r == requesting_chunk
             e == index[r.remote_path]
             c == e.meta.chunks[r.chunk_index + 1]
  <2>1. state = "RequestedChunk" /\ Len(r.hashed) >= c.size
    BY <1>1 DEF Mismatched
  <2>2. ASSUME UNCHANGED <<requesting_chunk, index>> PROVE Mismatched' /\ UNCHANGED index
    BY <1>1, <2>2 DEF Mismatched
  <2>3. ASSUME NEW b \in Data, TransmitChunk(b) PROVE Mismatched' /\ UNCHANGED index
    <3>1. r \in Requesting /\ e \in Entry /\ GoodRequest(r, e, files[e.local_path])
      BY <1>1, <2>1 DEF IInv, RequestInv
    <3>2. b \in Seq(Byte)
      BY DataAssumption
    <3>3. \/ UNCHANGED <<requesting_chunk, index>>
          \/ Advance(r, e, b)
      BY <2>1, <2>3 DEF TransmitChunk, WriteError
    <3>4. PICK q : q = After(r, b)
      OBVIOUS
    <3>5. q.hashed # c.hash /\ Len(q.hashed) >= c.size
      BY <2>1, <3>1, <3>2, <3>4, FullStaysWrong
    <3>6. ASSUME Advance(r, e, b) PROVE requesting_chunk' = q /\ index' = index
      BY <3>4, <3>5, <3>6 DEF Advance, After
    <3>7. q.remote_path = r.remote_path /\ q.chunk_index = r.chunk_index
      BY <3>1, <3>2, <3>4, AfterFacts
    <3> HIDE DEF r, e, c
    <3>8. ASSUME Advance(r, e, b) PROVE Mismatched'
      <4>1. index'[requesting_chunk'.remote_path] = e
        BY <3>6, <3>7, <3>8 DEF e
      <4> QED BY <1>1, <3>5, <3>6, <3>7, <3>8, <4>1 DEF Mismatched, c
    <3> QED BY <2>2, <3>3, <3>6, <3>8
  <2>4. UNCHANGED vars => UNCHANGED <<requesting_chunk, index>>
    BY DEF vars
  <2>5. ~LogInAsReceiver /\ ~LoggedInAsReceiver /\ ~DownloadStopped /\ ~Crash /\ ~Restart
    BY <1>1, <2>1 DEF LogInAsReceiver, NewReceiver, LoggedInAsReceiver, request_meta, DownloadStopped,
                        Crash, Restart, Die
  <2>6. \A p \in Path : ~FileResumed(p) /\ \A l \in Locals(p) : ~FileRequested(p, l)
    BY <1>1, <2>1 DEF FileResumed, FileRequested, Die
  <2>7. LoginSuccess => UNCHANGED vars
    BY <2>1 DEF LoginSuccess, Dropped
  <2>8. \A m \in Meta : NotifyUpdated(m.meta_modified) => UNCHANGED vars
    BY <2>1 DEF NotifyUpdated, request_meta, Dropped
  <2>9. \A P \in SUBSET Path : \A ms \in [P -> Meta] : TransmitMeta(ms) => UNCHANGED vars
    BY <2>1 DEF TransmitMeta, Dropped
  <2>10. SendMessage => UNCHANGED <<requesting_chunk, index>>
    BY DEF SendMessage
  <2> QED BY <1>1, <2>2, <2>3, <2>4, <2>5, <2>6, <2>7, <2>8, <2>9, <2>10 DEF Next
<1>2. IInv /\ [Next]_vars =>
        [Mismatched /\ state' = "RequestedChunk" => Mismatched' /\ UNCHANGED index]_vars
  BY <1>1
<1> QED BY <1>2, Invariance, PTL DEF Spec, MismatchIsFinal

-----------------------------------------------------------------------------
(***************************************************************************)
(* Receiver implements Download: the index and the local files together    *)
(* are a shelf of copies that grow by whole chunks, in their order.        *)
(*                                                                         *)
(* What is read back from disk for the shelf is, by the invariant, what    *)
(* the metadata says of the chunks that are marked.  So the shelf depends  *)
(* on the index alone, and each step is looked at for what it does to the  *)
(* index.                                                                  *)
(***************************************************************************)

\* The copy of a file, by the metadata and the marks of its entry.
MarkedCopy(e) == [i \in {k + 1 : k \in e.received_chunks} |-> e.meta.chunks[i].hash]

OnShelf(e) == [meta |-> e.meta, copy |-> MarkedCopy(e)]

Marked == [p \in Path |-> IF Known(p) THEN OnShelf(index[p]) ELSE NoEntry]

\* The blocks of a chunk that is on disk are the ones that were hashed.
LEMMA ReadBack ==
    ASSUME NEW f \in Seq(Byte), NEW m \in Meta, NEW i \in 1 .. Len(m.chunks),
           NEW c, c = m.chunks[i], OnDisk(f, c)
    PROVE  SubSeq(f, c.offset + 1, c.offset + c.size) = c.hash
<1>1. /\ c.offset \in Nat
      /\ c.size \in Nat \ {0}
      /\ c.hash \in Seq(Byte)
      /\ Len(c.hash) = c.size
  BY ChunkFacts
<1>2. c.offset + c.size <= Len(f) /\ \A j \in 1 .. c.size : f[c.offset + j] = c.hash[j]
  BY DEF OnDisk
<1> DEFINE s == SubSeq(f, c.offset + 1, c.offset + c.size)
<1>3. s \in Seq(Byte) /\ Len(s) = c.size /\ \A j \in 1 .. c.size : s[j] = f[c.offset + j]
  <2>1. PICK a \in Nat : a = c.offset
    BY <1>1
  <2>2. PICK n \in Nat \ {0} : n = c.size
    BY <1>1
  <2>3. \A j \in a + 1 .. a + n : f[j] \in Byte
    BY <1>2, <2>1, <2>2
  <2>4. /\ SubSeq(f, a + 1, a + n) \in Seq(Byte)
        /\ Len(SubSeq(f, a + 1, a + n)) =
              (IF a + 1 <= a + n THEN (a + n) - (a + 1) + 1 ELSE 0)
        /\ \A j \in 1 .. (a + n) - (a + 1) + 1 : SubSeq(f, a + 1, a + n)[j] = f[a + 1 + j - 1]
    BY <2>3, SubSeqProperties
  <2>5. a + 1 <= a + n /\ (a + n) - (a + 1) + 1 = n
    OBVIOUS
  <2>6. \A j \in 1 .. n : a + 1 + j - 1 = a + j
    OBVIOUS
  <2>7. s = SubSeq(f, a + 1, a + n)
    BY <2>1, <2>2
  <2> HIDE DEF s
  <2>8. s \in Seq(Byte) /\ Len(s) = n
    BY <2>4, <2>5, <2>7
  <2>9. \A j \in 1 .. n : s[j] = f[a + j]
    BY <2>4, <2>5, <2>6, <2>7
  <2> QED BY <2>1, <2>2, <2>8, <2>9
<1> HIDE DEF s
<1>4. \A j \in 1 .. Len(s) : s[j] = c.hash[j]
  BY <1>2, <1>3
<1>5. s = c.hash
  BY <1>1, <1>3, <1>4, SeqEqual
<1> QED BY <1>5 DEF s

\* The copy of an entry whose first k chunks are marked is the first k chunks.
LEMMA MarkedFacts ==
    ASSUME NEW e \in Entry, NEW k \in 0 .. Len(e.meta.chunks), e.received_chunks = 0 .. k - 1
    PROVE  /\ MarkedCopy(e) = [i \in 1 .. k |-> e.meta.chunks[i].hash]
           /\ MarkedCopy(e) \in Seq(Seq(Byte))
           /\ Len(MarkedCopy(e)) = k
<1>1. Len(e.meta.chunks) \in Nat /\ e.meta \in Meta
  BY MetaAssumption DEF Entry, IsMeta
<1>2. {j + 1 : j \in 0 .. k - 1} = 1 .. k
  <2>1. \A i \in 1 .. k : i - 1 \in 0 .. k - 1 /\ i = (i - 1) + 1
    BY <1>1
  <2>2. \A j \in 0 .. k - 1 : j + 1 \in 1 .. k
    BY <1>1
  <2> QED BY <2>1, <2>2
<1>3. MarkedCopy(e) = [i \in 1 .. k |-> e.meta.chunks[i].hash]
  BY <1>2 DEF MarkedCopy
<1>4. \A i \in 1 .. k : e.meta.chunks[i].hash \in Seq(Byte)
  <2>1. \A i \in 1 .. k : i \in 1 .. Len(e.meta.chunks)
    BY <1>1
  <2> QED BY <1>1, <2>1, ChunkFacts
<1>5. k \in Nat
  BY <1>1
<1> QED BY <1>3, <1>4, <1>5

\* The first chunks of a known file are marked.
LEMMA MarksArePrefix ==
    ASSUME IInv, NEW p \in Path, Known(p)
    PROVE  /\ index[p] \in Entry
           /\ \E k \in 0 .. Len(index[p].meta.chunks) : index[p].received_chunks = 0 .. k - 1
BY KnownEntry DEF IInv, EntriesInv, GoodEntry

\* What is read back from disk is what the metadata says of the marked chunks.
ShelfInv == Shelf = Marked

LEMMA ShelfIsMarked == DisjointLocals /\ IInv => ShelfInv
<1> SUFFICES ASSUME DisjointLocals, IInv PROVE Shelf = Marked
  BY DEF ShelfInv
<1> SUFFICES ASSUME NEW p \in Path, Known(p)
             PROVE  [meta |-> index[p].meta,
                     copy |-> [i \in {k + 1 : k \in index[p].received_chunks} |->
                                 LET c == index[p].meta.chunks[i] IN
                                 SubSeq(files[index[p].local_path], c.offset + 1, c.offset + c.size)]]
                    = OnShelf(index[p])
  BY DEF Shelf, Marked
<1>1. PICK e \in Entry : e = index[p]
  BY MarksArePrefix
<1>2. PICK f : f = files[e.local_path]
  OBVIOUS
<1>3. GoodEntry(p, e, f)
  BY <1>1, <1>2 DEF IInv, EntriesInv
<1>4. PICK n \in 0 .. Len(e.meta.chunks) : e.received_chunks = 0 .. n - 1
  BY <1>3 DEF GoodEntry
<1>5. Len(e.meta.chunks) \in Nat /\ e.meta \in Meta
  BY MetaAssumption DEF Entry, IsMeta
<1>6. ASSUME NEW i \in {k + 1 : k \in e.received_chunks}
      PROVE  SubSeq(f, e.meta.chunks[i].offset + 1, e.meta.chunks[i].offset + e.meta.chunks[i].size)
             = e.meta.chunks[i].hash
  <2>1. PICK k \in e.received_chunks : i = k + 1
    OBVIOUS
  <2>2. i \in 1 .. Len(e.meta.chunks)
    BY <1>4, <1>5, <2>1
  <2>3. OnDisk(f, e.meta.chunks[i])
    BY <1>3, <2>1 DEF GoodEntry, DisjointLocals
  <2>4. f \in Seq(Byte)
    <3>1. e.local_path # NoPath /\ e.local_path \in Local \cup {NoPath}
      BY <1>3, <2>1 DEF GoodEntry, Entry
    <3> QED BY <1>2, <3>1 DEF IInv, TypeOK
  <2> QED BY <1>5, <2>2, <2>3, <2>4, ReadBack
<1> QED BY <1>1, <1>2, <1>6 DEF OnShelf, MarkedCopy

-----------------------------------------------------------------------------
(***************************************************************************)
(* The steps, by what they do to the index.                                *)
(***************************************************************************)

\* The shelf entry of a known file is not NoEntry.
LEMMA KnownIsShelved ==
    ASSUME IInv, NEW p \in Path
    PROVE  /\ Known(p) => Marked[p] = OnShelf(index[p]) /\ Marked[p] # NoEntry
           /\ ~Known(p) => Marked[p] = NoEntry
<1>1. ASSUME Known(p) PROVE OnShelf(index[p]) # NoEntry
  <2>1. PICK k \in 0 .. Len(index[p].meta.chunks) : index[p].received_chunks = 0 .. k - 1
    BY <1>1, MarksArePrefix
  <2>2. index[p] \in Entry /\ index[p].meta \in Meta
    BY <1>1, MarksArePrefix DEF Entry
  <2>3. MarkedCopy(index[p]) \in Seq(Seq(Byte))
    BY <2>1, <2>2, MarkedFacts
  <2>4. OnShelf(index[p]) \in [meta : Meta, copy : Seq(Seq(Byte))]
    BY <2>2, <2>3 DEF OnShelf
  <2> QED BY <2>4, ShelfAssumption
<1> QED BY <1>1 DEF Marked

\* Nothing happens to the index.
LEMMA SameShelf ==
    ASSUME index' = index
    PROVE  Marked' = Marked
BY DEF Marked, Known, OnShelf, MarkedCopy

\* request_file empties the copy.
LEMMA ChooseStep ==
    ASSUME IInv, NEW p \in Path, NEW l \in Locals(p), Known(p),
           index' = [index EXCEPT ![p] = change_local(index[p], l)]
    PROVE  Marked[p] # NoEntry /\ Marked' = [Marked EXCEPT ![p].copy = <<>>]
<1>1. index[p] \in Entry /\ index \in [Path -> Entry \cup {NoEntry}]
  BY MarksArePrefix DEF IInv, TypeOK
<1>2. PICK d : d = change_local(index[p], l)
  OBVIOUS
<1>3. d \in Entry /\ d.meta = index[p].meta /\ d.received_chunks = {}
  BY <1>1, <1>2, LocalAssumption DEF change_local, Entry
<1>4. MarkedCopy(d) = <<>>
  <2>1. Len(d.meta.chunks) \in Nat
    BY <1>3, MetaAssumption DEF Entry, IsMeta
  <2>2. 0 \in 0 .. Len(d.meta.chunks) /\ d.received_chunks = 0 .. 0 - 1
    BY <1>3, <2>1
  <2>3. MarkedCopy(d) \in Seq(Seq(Byte)) /\ Len(MarkedCopy(d)) = 0
    BY <1>3, <2>2, MarkedFacts
  <2> QED BY <2>3
<1>5. d # NoEntry
  BY <1>3, NoneAssumption
<1>6. \A q \in Path : index'[q] = IF q = p THEN d ELSE index[q]
  BY <1>1, <1>2
<1>7. Marked' = [q \in Path |-> IF q = p THEN [meta |-> index[p].meta, copy |-> <<>>] ELSE Marked[q]]
  <2>1. Marked' = [q \in Path |-> IF index'[q] # NoEntry
                                  THEN [meta |-> index'[q].meta, copy |-> MarkedCopy(index'[q])]
                                  ELSE NoEntry]
    BY DEF Marked, Known, OnShelf, MarkedCopy
  <2>2. \A q \in Path : Marked[q] = IF index[q] # NoEntry
                                    THEN [meta |-> index[q].meta, copy |-> MarkedCopy(index[q])]
                                    ELSE NoEntry
    BY DEF Marked, Known, OnShelf
  <2> QED BY <1>3, <1>4, <1>5, <1>6, <2>1, <2>2
<1>8. Marked[p] = [meta |-> index[p].meta, copy |-> MarkedCopy(index[p])]
  BY DEF Marked, OnShelf
<1>9. Marked' = [Marked EXCEPT ![p].copy = <<>>]
  <2>1. PICK m : m = Marked
    OBVIOUS
  <2>2. m = [q \in Path |-> m[q]]
    BY <2>1 DEF Marked
  <2>3. [m EXCEPT ![p].copy = <<>>] =
        [q \in Path |-> IF q = p THEN [meta |-> index[p].meta, copy |-> <<>>] ELSE m[q]]
    BY <1>8, <2>1, <2>2
  <2> QED BY <1>7, <2>1, <2>3
<1> QED BY <1>9, KnownIsShelved

\* process_transmit_meta puts the metadata of the message, and nothing of the
\* files, on the shelf.
LEMMA LearnStep ==
    ASSUME NEW P \in SUBSET Path, NEW ms \in [P -> Meta],
           index' = [p \in Path |-> IF p \in DOMAIN ms THEN add_for_meta(ms[p]) ELSE index[p]]
    PROVE  Marked' = [p \in Path |-> IF p \in DOMAIN ms THEN [meta |-> ms[p], copy |-> <<>>]
                                     ELSE Marked[p]]
<1>1. ASSUME NEW m \in Meta
      PROVE  add_for_meta(m) # NoEntry /\ OnShelf(add_for_meta(m)) = [meta |-> m, copy |-> <<>>]
  <2>1. PICK e : e = add_for_meta(m)
    OBVIOUS
  <2>2. e \in Entry /\ e.meta = m /\ e.received_chunks = {}
    BY <2>1 DEF add_for_meta, Entry
  <2>3. Len(e.meta.chunks) \in Nat
    BY <2>2, MetaAssumption DEF IsMeta
  <2>4. 0 \in 0 .. Len(e.meta.chunks) /\ e.received_chunks = 0 .. 0 - 1
    BY <2>2, <2>3
  <2>5. MarkedCopy(e) = <<>>
    <3>1. MarkedCopy(e) \in Seq(Seq(Byte)) /\ Len(MarkedCopy(e)) = 0
      BY <2>2, <2>4, MarkedFacts
    <3> QED BY <3>1
  <2> QED BY <2>1, <2>2, <2>5, NoneAssumption DEF OnShelf
<1>2. \A p \in Path : p \in DOMAIN ms => index'[p] = add_for_meta(ms[p]) /\ ms[p] \in Meta
  OBVIOUS
<1>3. \A p \in Path : p \notin DOMAIN ms => index'[p] = index[p]
  OBVIOUS
<1>4. ASSUME NEW p \in Path
      PROVE  Marked'[p] = IF p \in DOMAIN ms THEN [meta |-> ms[p], copy |-> <<>>] ELSE Marked[p]
  <2>1. Marked'[p] = IF index'[p] # NoEntry THEN OnShelf(index'[p]) ELSE NoEntry
    BY DEF Marked, Known, OnShelf, MarkedCopy
  <2>2. Marked[p] = IF index[p] # NoEntry THEN OnShelf(index[p]) ELSE NoEntry
    BY DEF Marked, Known
  <2> QED BY <1>1, <1>2, <1>3, <2>1, <2>2
<1>5. Marked' = [p \in Path |-> Marked'[p]]
  BY DEF Marked
<1> QED BY <1>4, <1>5

\* A sequence that has one element more than another is the other with this
\* element appended.
LEMMA OneLonger ==
    ASSUME NEW S, NEW a \in Seq(S), NEW b \in Seq(S), NEW h \in S,
           Len(b) = Len(a) + 1, \A i \in 1 .. Len(a) : b[i] = a[i], b[Len(a) + 1] = h
    PROVE  b = Append(a, h)
<1>1. PICK z \in Seq(S) : z = Append(a, h)
  OBVIOUS
<1>2. Len(z) = Len(a) + 1 /\ \A i \in 1 .. Len(a) + 1 : z[i] = IF i <= Len(a) THEN a[i] ELSE h
  BY <1>1
<1>3. \A i \in 1 .. Len(b) : b[i] = z[i]
  BY <1>2
<1> QED BY <1>1, <1>2, <1>3, SeqEqual

\* Marking the chunk that was asked for puts the next chunk on the shelf.
LEMMA ReceiveStep ==
    ASSUME IInv, NEW p \in Path, Known(p),
           NEW k \in 0 .. Len(index[p].meta.chunks) - 1, index[p].received_chunks = 0 .. k - 1,
           index' = [index EXCEPT ![p] = mark_received(index[p], k)]
    PROVE  /\ Marked[p] # NoEntry
           /\ Len(Marked[p].copy) = k
           /\ k < Len(Marked[p].meta.chunks)
           /\ Marked' = [Marked EXCEPT ![p].copy = Append(@, Marked[p].meta.chunks[k + 1].hash)]
<1>1. PICK e \in Entry : e = index[p]
  BY MarksArePrefix
<1>2. Len(e.meta.chunks) \in Nat /\ e.meta \in Meta
  BY MetaAssumption DEF Entry, IsMeta
<1>3. PICK d : d = mark_received(e, k)
  OBVIOUS
<1>4. k \in Nat /\ k < Len(e.meta.chunks) /\ k \in 0 .. Len(e.meta.chunks)
      /\ k + 1 \in 0 .. Len(e.meta.chunks)
  BY <1>1, <1>2
<1>5. d \in Entry /\ d.meta = e.meta /\ d.received_chunks = 0 .. (k + 1) - 1
  <2>1. d \in Entry /\ d.meta = e.meta /\ d.received_chunks = e.received_chunks \cup {k}
    BY <1>3, <1>4 DEF mark_received, Entry
  <2>2. (0 .. k - 1) \cup {k} = 0 .. (k + 1) - 1
    BY <1>4
  <2> QED BY <1>1, <2>1, <2>2
<1> DEFINE h == e.meta.chunks[k + 1].hash
<1>6. /\ MarkedCopy(e) = [i \in 1 .. k |-> e.meta.chunks[i].hash]
      /\ MarkedCopy(e) \in Seq(Seq(Byte))
      /\ Len(MarkedCopy(e)) = k
  BY <1>1, <1>4, MarkedFacts
<1>7. /\ MarkedCopy(d) = [i \in 1 .. k + 1 |-> e.meta.chunks[i].hash]
      /\ MarkedCopy(d) \in Seq(Seq(Byte))
      /\ Len(MarkedCopy(d)) = k + 1
  BY <1>4, <1>5, MarkedFacts
<1>8. MarkedCopy(d) = Append(MarkedCopy(e), h)
  <2>1. PICK a \in Seq(Seq(Byte)) : a = MarkedCopy(e)
    BY <1>6
  <2>2. PICK b \in Seq(Seq(Byte)) : b = MarkedCopy(d)
    BY <1>7
  <2>3. h \in Seq(Byte)
    <3>1. k + 1 \in 1 .. Len(e.meta.chunks)
      BY <1>2, <1>4
    <3> QED BY <1>2, <3>1, ChunkFacts
  <2>4. /\ Len(b) = k + 1 /\ Len(a) = k
        /\ \A i \in 1 .. k : b[i] = a[i]
        /\ b[k + 1] = h
    BY <1>4, <1>6, <1>7, <2>1, <2>2
  <2> HIDE DEF h
  <2>5. b = Append(a, h)
    BY <2>3, <2>4, OneLonger
  <2> QED BY <2>1, <2>2, <2>5
<1>9. d # NoEntry
  BY <1>5, NoneAssumption
<1>10. \A q \in Path : index'[q] = IF q = p THEN d ELSE index[q]
  BY <1>1, <1>3 DEF IInv, TypeOK
<1>11. Marked' = [q \in Path |-> IF q = p THEN [meta |-> e.meta, copy |-> MarkedCopy(d)]
                                 ELSE Marked[q]]
  BY <1>5, <1>9, <1>10 DEF Marked, Known, OnShelf, MarkedCopy
<1>12. Marked[p] = [meta |-> e.meta, copy |-> MarkedCopy(e)]
  BY <1>1 DEF Marked, OnShelf
<1>13. Marked' = [Marked EXCEPT ![p].copy = Append(@, Marked[p].meta.chunks[k + 1].hash)]
  <2>1. PICK m : m = Marked
    OBVIOUS
  <2>2. m = [q \in Path |-> m[q]]
    BY <2>1 DEF Marked
  <2>3. m[p].copy = MarkedCopy(e) /\ m[p].meta = e.meta
    BY <1>12, <2>1
  <2>4. PICK x : x = Append(m[p].copy, m[p].meta.chunks[k + 1].hash)
    OBVIOUS
  <2>5. x = MarkedCopy(d)
    BY <1>8, <2>3, <2>4
  <2>6. [m EXCEPT ![p].copy = x] =
        [q \in Path |-> IF q = p THEN [meta |-> e.meta, copy |-> x] ELSE m[q]]
    BY <1>12, <2>1, <2>2
  <2>7. Marked' = [m EXCEPT ![p].copy = x]
    BY <1>11, <2>1, <2>5, <2>6
  <2> HIDE DEF h
  <2>8. [m EXCEPT ![p].copy = Append(@, m[p].meta.chunks[k + 1].hash)] = [m EXCEPT ![p].copy = x]
    BY <2>4
  <2>9. Marked' = [m EXCEPT ![p].copy = Append(@, m[p].meta.chunks[k + 1].hash)]
    BY <2>7, <2>8
  <2> QED BY <2>1, <2>9
<1>14. Marked[p] # NoEntry
  BY KnownIsShelved
<1>15. Len(Marked[p].copy) = k /\ k < Len(Marked[p].meta.chunks)
  BY <1>4, <1>6, <1>12
<1> QED BY <1>13, <1>14, <1>15

\* The index stays as it is or changes the way it does in a step.
IndexMoves ==
    \/ index' = index
    \/ \E p \in Path : \E l \in Locals(p) :
          Known(p) /\ index' = [index EXCEPT ![p] = change_local(index[p], l)]
    \/ \E P \in SUBSET Path : \E ms \in [P -> Meta] :
          index' = [p \in Path |-> IF p \in DOMAIN ms THEN add_for_meta(ms[p]) ELSE index[p]]
    \/ \E p \in Path : \E k \in 0 .. Len(index[p].meta.chunks) - 1 :
          /\ Known(p)
          /\ index[p].received_chunks = 0 .. k - 1
          /\ index' = [index EXCEPT ![p] = mark_received(index[p], k)]

\* A block of data marks the chunk that is awaited, or changes nothing.
LEMMA BlockMoves ==
    ASSUME IInv, NEW b, TransmitChunk(b)
    PROVE  IndexMoves
<1>1. SUFFICES ASSUME index' # index
               PROVE  \E p \in Path : \E k \in 0 .. Len(index[p].meta.chunks) - 1 :
                         /\ Known(p)
                         /\ index[p].received_chunks = 0 .. k - 1
                         /\ index' = [index EXCEPT ![p] = mark_received(index[p], k)]
  BY DEF IndexMoves
<1>2. PICK r : r = requesting_chunk
  OBVIOUS
<1>3. PICK e : e = index[r.remote_path]
  OBVIOUS
<1>4. state = "RequestedChunk" /\ Advance(r, e, b)
  BY <1>1, <1>2, <1>3 DEF TransmitChunk, WriteError, Dropped, vars
<1>5. index' = [index EXCEPT ![r.remote_path] = mark_received(e, r.chunk_index)]
  BY <1>1, <1>4 DEF Advance, DieInSave
<1>6. r \in Requesting /\ e \in Entry /\ GoodRequest(r, e, files[e.local_path])
  BY <1>2, <1>3, <1>4 DEF IInv, RequestInv
<1>7. /\ r.chunk_index \in 0 .. Len(e.meta.chunks) - 1
      /\ e.received_chunks = 0 .. r.chunk_index - 1
      /\ r.remote_path \in Path
  BY <1>6 DEF GoodRequest, Requesting
<1>8. Known(r.remote_path)
  BY <1>3, <1>6, NoneAssumption DEF Known
<1> QED BY <1>3, <1>5, <1>7, <1>8

\* What a step does to the index.
LEMMA StepOnIndex ==
    ASSUME IInv, Next
    PROVE  IndexMoves
<1>1. CASE LogInAsReceiver \/ LoggedInAsReceiver \/ DownloadStopped \/ SendMessage \/ Crash \/ Restart
  BY <1>1 DEF IndexMoves, LogInAsReceiver, LoggedInAsReceiver, DownloadStopped, SendMessage, Crash, Restart
<1>2. CASE \E p \in Path : \E l \in Locals(p) : FileRequested(p, l)
  BY <1>2 DEF IndexMoves, FileRequested, DieInSave
<1>3. CASE \E p \in Path : FileResumed(p)
  BY <1>3 DEF IndexMoves, FileResumed
<1>4. CASE LoginSuccess \/ \E m \in Meta : NotifyUpdated(m.meta_modified)
  BY <1>4 DEF IndexMoves, LoginSuccess, NotifyUpdated, Dropped, vars
<1>5. CASE \E P \in SUBSET Path : \E ms \in [P -> Meta] : TransmitMeta(ms)
  BY <1>5 DEF IndexMoves, TransmitMeta, DieInSave, Dropped, vars
<1>6. CASE \E b \in Data : TransmitChunk(b)
  BY <1>6, BlockMoves
<1> QED BY <1>1, <1>2, <1>3, <1>4, <1>5, <1>6 DEF Next

\* Seen as a shelf, the index moves the way Download says.
LEMMA MovesOnShelf ==
    ASSUME IInv, ShelfInv, ShelfInv', IndexMoves
    PROVE  [Promise!Next]_Shelf
<1>1. Shelf = Marked /\ Shelf' = Marked'
  BY DEF ShelfInv
<1>2. ASSUME index' = index PROVE Shelf' = Shelf
  BY <1>1, <1>2, SameShelf
<1>3. ASSUME NEW p \in Path, NEW l \in Locals(p), Known(p),
             index' = [index EXCEPT ![p] = change_local(index[p], l)]
      PROVE  Promise!Choose(p)
  BY <1>1, <1>3, ChooseStep DEF Promise!Choose
<1>4. ASSUME NEW P \in SUBSET Path, NEW ms \in [P -> Meta],
             index' = [p \in Path |-> IF p \in DOMAIN ms THEN add_for_meta(ms[p]) ELSE index[p]]
      PROVE  Promise!Learn(ms)
  BY <1>1, <1>4, LearnStep DEF Promise!Learn
<1>5. ASSUME NEW p \in Path, NEW k \in 0 .. Len(index[p].meta.chunks) - 1, Known(p),
             index[p].received_chunks = 0 .. k - 1,
             index' = [index EXCEPT ![p] = mark_received(index[p], k)]
      PROVE  Promise!Receive(p)
  BY <1>1, <1>5, ReceiveStep DEF Promise!Receive
<1> QED BY <1>2, <1>3, <1>4, <1>5 DEF IndexMoves, Promise!Next

\* The receiver implements Download: whatever it does to the index and to the
\* files is, seen as a shelf of copies, a step of Download or none, so that a
\* copy grows by the next chunk of the file only and is never damaged
\* (request_file, process_transmit_meta, process_transmit_chunk).
THEOREM Implementation == DisjointLocals => (Spec => KeepsPromise)
<1> SUFFICES ASSUME DisjointLocals PROVE Spec => KeepsPromise
  OBVIOUS
<1>1. Init => Promise!Init
  BY DEF Init, Promise!Init, Shelf, Known
<1>2. IInv /\ ShelfInv /\ ShelfInv' /\ [Next]_vars => [Promise!Next]_Shelf
  <2> SUFFICES ASSUME IInv, ShelfInv, ShelfInv', [Next]_vars PROVE [Promise!Next]_Shelf
    OBVIOUS
  <2>1. IndexMoves
    <3>1. CASE UNCHANGED vars
      BY <3>1 DEF vars, IndexMoves
    <3> QED BY <3>1, StepOnIndex
  <2> QED BY <2>1, MovesOnShelf
<1> QED BY <1>1, <1>2, Invariance, ShelfIsMarked, PTL DEF Spec, KeepsPromise, Promise!Spec
=============================================================================
