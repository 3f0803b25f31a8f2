---------------------------- MODULE TransferProofs ----------------------------
(***************************************************************************)
(* Proofs about Transfer: the invariants of Receiver and Sender hold in    *)
(* the composition, and with what the relay does with the messages between *)
(* them a download is, from end to end, the sender's file.                 *)
(***************************************************************************)
EXTENDS Transfer, ReceiverProofs

SP == INSTANCE SenderProofs WITH
        Local <- DOMAIN Original, Name <- SourceName, RawPath <- Path, Directory <- {},
        Selection <- {}, Changing <- {}, Content <- {Original[l] : l \in DOMAIN Original},
        Hash <- Seq(Byte), Job <- {},
        state <- sender_state, index <- Listed, jobs <- [j \in {} |-> NoJob],
        files <- Original, published <- {}, torn <- ~TRUE

-----------------------------------------------------------------------------
(***************************************************************************)
(* The inductive invariant.                                                *)
(***************************************************************************)

\* The messages on their way to the server or to a client.
Wire ==
         Message
    \cup S!Payload
    \cup [type : {"LoginSuccess", "ClientDisconnected"}]
    \cup [type : {"TransmitMeta"}, meta : {<<>>}]

Packet == [from : Role, message : Wire]

RelayInv ==
    /\ conn \in [Role -> {"in", "dead", "out", "open"}]
    /\ inbox \in Seq(Packet)
    /\ outgoing \in [Role -> Seq(Wire)]
    /\ \A r \in Role : Len(outgoing[r]) <= NetCap

HistoryInv == clicks \in 0 .. MaxClicks /\ lost \subseteq Role /\ fresh \in BOOLEAN

\* Both clients are logged in, and no end of a connection waits to be handled.
Calm ==
    /\ \A r \in Role : conn[r] = "in"
    /\ \A i \in DOMAIN inbox : inbox[i].message.type # "ClientDisconnected"

LossInv == lost = {} => Calm

\* The receiver knows every file by the metadata the sender lists it with.
MetaInv == \A p \in Path : index[p] \in Entry /\ SameMeta(index[p].meta, Listed[p].meta)

TInv == IInv /\ SP!IInv /\ RelayInv /\ HistoryInv /\ LossInv /\ MetaInv

-----------------------------------------------------------------------------
(***************************************************************************)
(* The clients.                                                            *)
(***************************************************************************)

\* What the receiver does in a transfer.
ReceiverActs ==
    \/ LogInAsReceiver \/ LoggedInAsReceiver \/ DownloadStopped
    \/ \E p \in Path : \E l \in Locals(p) : FileRequested(p, l)
    \/ \E p \in Path : FileResumed(p)
    \/ LoginSuccess \/ SendMessage
    \/ TransmitMeta(<<>>)
    \/ \E b \in Seq(Byte) : TransmitChunk(b)
    \/ Crash \/ Restart

\* What the sender does in a transfer.
SenderActs ==
    \/ S!LogInAsSender \/ S!LoginSuccess
    \/ S!SendMessage
    \/ \E p \in Path : \E k \in Nat : \E h \in Seq(Byte) : S!process_request_chunk(p, k, h)
    \/ S!StopChunk
    \/ \E t \in Task : \/ S!TransferReads(t) \/ S!TransferSends(t)
                       \/ S!TransferFinished(t) \/ S!TransferCancelled(t)
    \/ S!Crash \/ S!Restart

\* The receiver keeps its invariant.
LEMMA ReceiverIInv ==
    ASSUME IInv, ReceiverActs \/ UNCHANGED vars
    PROVE  IInv'
<1>1. CASE LogInAsReceiver \/ LoggedInAsReceiver \/ DownloadStopped
  BY <1>1, UserIInv
<1>2. CASE \E p \in Path : \E l \in Locals(p) : FileRequested(p, l)
  BY <1>2, FileRequestedIInv
<1>3. CASE \E p \in Path : FileResumed(p)
  BY <1>3, FileResumedIInv
<1>4. CASE LoginSuccess \/ SendMessage
  BY <1>4, MessageIInv
<1>5. CASE TransmitMeta(<<>>)
  <2>1. {} \in SUBSET Path /\ <<>> \in [{} -> Meta]
    OBVIOUS
  <2> QED BY <1>5, <2>1, TransmitMetaIInv
<1>6. CASE \E b \in Seq(Byte) : TransmitChunk(b)
  <2>1. PICK b \in Seq(Byte) : TransmitChunk(b)
    BY <1>6
  <2>2. CASE state = "RequestedChunk"
    BY <2>1, <2>2, TransmitChunkIInv
  <2>3. CASE state # "RequestedChunk"
    <3>1. UNCHANGED vars
      BY <2>1, <2>3 DEF TransmitChunk, Dropped
    <3> QED BY <3>1, StutterIInv
  <2> QED BY <2>2, <2>3
<1>7. CASE Crash \/ Restart
  BY <1>7, CrashIInv
<1>8. CASE UNCHANGED vars
  BY <1>8, StutterIInv
<1> QED BY <1>1, <1>2, <1>3, <1>4, <1>5, <1>6, <1>7, <1>8 DEF ReceiverActs

\* It never changes the metadata it knows a file by.
LEMMA ReceiverMeta ==
    ASSUME IInv, MetaInv, ReceiverActs \/ UNCHANGED vars
    PROVE  \A p \in Path : index'[p] \in Entry /\ index'[p].meta = index[p].meta
<1>t. index \in [Path -> Entry \cup {NoEntry}]
  BY DEF IInv, TypeOK
<1>1. ASSUME NEW q \in Path, NEW d \in Entry, d.meta = index[q].meta,
             index' = [index EXCEPT ![q] = d]
      PROVE  \A p \in Path : index'[p] \in Entry /\ index'[p].meta = index[p].meta
  BY <1>t, <1>1 DEF MetaInv
<1>2. CASE UNCHANGED index
  BY <1>2 DEF MetaInv
<1>3. CASE \/ LogInAsReceiver \/ LoggedInAsReceiver \/ DownloadStopped
           \/ \E p \in Path : FileResumed(p)
           \/ LoginSuccess \/ SendMessage
           \/ Crash \/ Restart
           \/ UNCHANGED vars
  BY <1>2, <1>3 DEF LogInAsReceiver, LoggedInAsReceiver, DownloadStopped, FileResumed, LoginSuccess,
     SendMessage, Crash, Restart, vars, Dropped
<1>4. ASSUME NEW p \in Path, NEW l \in Locals(p), FileRequested(p, l), ~UNCHANGED index
      PROVE  \A q \in Path : index'[q] \in Entry /\ index'[q].meta = index[q].meta
  <2>1. index' = [index EXCEPT ![p] = change_local(index[p], l)]
    BY <1>4 DEF FileRequested, DieInSave
  <2>2. index[p] \in Entry
    BY DEF MetaInv
  <2>3. change_local(index[p], l) \in Entry /\ change_local(index[p], l).meta = index[p].meta
    BY <2>2, LocalAssumption DEF change_local, Entry
  <2> QED BY <1>1, <2>1, <2>3
<1>5. CASE TransmitMeta(<<>>)
  <2>1. index' = [p \in Path |-> IF p \in DOMAIN <<>> THEN add_for_meta(<<>>[p]) ELSE index[p]]
           \/ UNCHANGED index
    BY <1>5 DEF TransmitMeta, DieInSave, Dropped, vars
  <2>2. DOMAIN <<>> = {}
    OBVIOUS
  <2>3. UNCHANGED index
    BY <1>t, <2>1, <2>2
  <2> QED BY <1>2, <2>3
<1>6. ASSUME NEW b \in Seq(Byte), TransmitChunk(b), ~UNCHANGED index
      PROVE  \A p \in Path : index'[p] \in Entry /\ index'[p].meta = index[p].meta
  <2>1. PICK r : r = requesting_chunk
    OBVIOUS
  <2>2. state = "RequestedChunk" /\ Advance(r, index[r.remote_path], b)
    BY <1>6, <2>1 DEF TransmitChunk, WriteError, Dropped, vars
  <2>3. r.remote_path \in Path /\ r.chunk_index \in Nat
    BY <2>1, <2>2 DEF IInv, RequestInv, Requesting
  <2>4. PICK e : e = index[r.remote_path]
    OBVIOUS
  <2>5. PICK d : d = mark_received(e, r.chunk_index)
    OBVIOUS
  <2>6. index' = [index EXCEPT ![r.remote_path] = d]
    BY <1>6, <2>2, <2>4, <2>5 DEF Advance, DieInSave
  <2>7. e \in Entry
    BY <2>3, <2>4 DEF MetaInv
  <2>8. d \in Entry /\ d.meta = e.meta
    BY <2>3, <2>5, <2>7 DEF mark_received, Entry
  <2> QED BY <1>1, <2>3, <2>4, <2>6, <2>8
<1> QED BY <1>2, <1>3, <1>4, <1>5, <1>6 DEF ReceiverActs

\* So it goes on to know every file by the metadata the sender lists.
LEMMA ReceiverMetaInv ==
    ASSUME IInv, MetaInv, ReceiverActs \/ UNCHANGED vars
    PROVE  MetaInv'
<1>1. \A p \in Path : index'[p] \in Entry /\ index'[p].meta = index[p].meta
  BY ReceiverMeta
<1> QED BY <1>1 DEF MetaInv, SameMeta

\* What Sender takes for granted of its constants.
LEMMA SenderConstants ==
    /\ ChunkSize \in Nat \ {0} /\ BufSize \in Nat \ {0} /\ EventCap \in Nat \ {0} /\ MaxIndex \in Nat
    /\ {} \subseteq DOMAIN Original /\ {} \subseteq Seq(DOMAIN Original) \ {<<>>}
    /\ SaveMayTear \in BOOLEAN
    /\ {Original[l] : l \in DOMAIN Original} \subseteq Seq(SP!Bytes)
<1>1. ASSUME NEW l \in DOMAIN Original PROVE Original[l] \in Seq(SP!Bytes)
  <2>1. PICK c : c = Original[l]
    OBVIOUS
  <2>2. c \in Seq(Byte)
    BY <2>1, OriginalAssumption
  <2>3. \A i \in 1 .. Len(c) : c[i] \in SP!Bytes
    BY <2>1, <2>2 DEF SP!Bytes
  <2>4. c \in Seq(SP!Bytes)
    BY <2>2, <2>3
  <2> QED BY <2>1, <2>4
<1> QED BY <1>1, SenderAssumption, BoundAssumption

\* The definitions Transfer takes from Sender are those the proofs about Sender
\* are about.
LEMMA SameSender ==
    /\ SP!RemotePath = Path
    /\ SP!Bytes = S!Bytes /\ SP!FileMeta = S!FileMeta
    /\ SP!Payload = S!Payload /\ SP!Event = S!Event
    /\ SP!TypeOK <=> S!TypeOK
<1>1. SP!RemotePath = S!RemotePath
  BY DEF S!RemotePath, SP!RemotePath, S!normalize_path, SP!normalize_path,
         S!InDirectory, SP!InDirectory, S!Blank, SP!Blank
<1>2. SP!Bytes = S!Bytes
  BY DEF S!Bytes, SP!Bytes
<1>3. SP!Chunk = S!Chunk /\ SP!FileMeta = S!FileMeta /\ SP!Upload = S!Upload
  BY <1>1, <1>2 DEF S!Chunk, SP!Chunk, S!FileMeta, SP!FileMeta, S!Upload, SP!Upload
<1>4. SP!Payload = S!Payload /\ SP!Event = S!Event
  BY <1>1, <1>2, <1>3 DEF S!Payload, SP!Payload, S!Event, SP!Event
<1>5. SP!TypeOK <=> S!TypeOK
  BY <1>1, <1>2, <1>3, <1>4 DEF S!TypeOK, SP!TypeOK
<1> QED BY <1>1, <1>2, <1>3, <1>4, <1>5, PathAssumption

\* The sender keeps its invariant.
LEMMA SenderIInv ==
    ASSUME SP!IInv, SenderActs \/ UNCHANGED senderVars
    PROVE  SP!IInv'
<1>1. CASE S!LogInAsSender \/ S!LoginSuccess
  <2>1. SP!LogInAsSender \/ SP!LoginSuccess
    BY <1>1 DEF S!LogInAsSender, SP!LogInAsSender, S!LoginSuccess, SP!LoginSuccess,
       S!Running, SP!Running, S!Room, SP!Room, S!Message, SP!Message, S!Die, SP!Die
  <2> QED BY <2>1, SP!UserIInv, SenderConstants
<1>2. CASE S!SendMessage
  <2>1. SP!SendMessage
    BY <1>2 DEF S!SendMessage, SP!SendMessage
  <2> QED BY <2>1, SP!SendMessageIInv, SenderConstants
<1>3. CASE \E p \in Path : \E k \in Nat : \E h \in Seq(Byte) : S!process_request_chunk(p, k, h)
  <2>1. PICK p \in Path, k \in Nat, h \in Seq(Byte) : S!process_request_chunk(p, k, h)
    BY <1>3
  <2>2. SP!process_request_chunk(p, k, h)
    BY <2>1 DEF S!process_request_chunk, SP!process_request_chunk, S!Running, SP!Running
  <2>3. p \in SP!RemotePath
    BY SameSender
  <2> QED BY <2>2, <2>3, SP!RequestIInv, SenderConstants
<1>4. CASE S!StopChunk
  <2>1. SP!StopChunk
    BY <1>4 DEF S!StopChunk, SP!StopChunk, S!Running, SP!Running
  <2> QED BY <2>1, SP!StopIInv, SenderConstants
<1>5. ASSUME NEW t \in Task,
             \/ S!TransferReads(t) \/ S!TransferSends(t)
             \/ S!TransferFinished(t) \/ S!TransferCancelled(t)
      PROVE  SP!IInv'
  <2>1. S!TransferReads(t) => SP!TransferReads(t)
    BY DEF S!TransferReads, SP!TransferReads, S!FillBuf, SP!FillBuf, S!TaskOnly, SP!TaskOnly
  <2>2. S!TransferSends(t) => SP!TransferSends(t)
    BY DEF S!TransferSends, SP!TransferSends, S!Room, SP!Room, S!Boundary, SP!Boundary,
           S!Again, SP!Again, S!Message, SP!Message, S!TaskOnly, SP!TaskOnly
  <2>3. /\ S!TransferFinished(t) => SP!TransferFinished(t)
        /\ S!TransferCancelled(t) => SP!TransferCancelled(t)
    BY DEF S!TransferFinished, SP!TransferFinished, S!TransferCancelled, SP!TransferCancelled,
           S!Over, SP!Over, S!EndTask, SP!EndTask
  <2> QED BY <1>5, <2>1, <2>2, <2>3, SP!TransferIInv, SenderConstants
<1>6. CASE S!Crash \/ S!Restart \/ UNCHANGED senderVars
  <2>1. SP!Crash \/ SP!Restart \/ UNCHANGED SP!vars
    BY <1>6 DEF S!Crash, SP!Crash, S!Die, SP!Die, S!Restart, SP!Restart, senderVars, SP!vars
  <2>2. [SP!Next]_(SP!vars)
    BY <2>1 DEF SP!Next
  <2> QED BY <2>2, SP!NextIInv, SenderConstants
<1> QED BY <1>1, <1>2, <1>3, <1>4, <1>5, <1>6 DEF SenderActs

-----------------------------------------------------------------------------
(***************************************************************************)
(* The relay.                                                              *)
(***************************************************************************)

\* What a message on its way carries.
LEMMA WireFacts ==
    ASSUME NEW m \in Wire
    PROVE  /\ m.type = "TransmitChunk" => m.data \in Seq(Byte)
           /\ m.type = "TransmitMeta" => m.meta = <<>>
           /\ m.type = "RequestChunk" => m.path \in Path /\ m.index \in Nat /\ m.hash \in Seq(Byte)
<1>1. S!Bytes \subseteq Byte
  <2>1. ASSUME NEW l \in DOMAIN Original, NEW i \in DOMAIN Original[l] PROVE Original[l][i] \in Byte
    BY OriginalAssumption
  <2> QED BY <2>1 DEF S!Bytes
<1>2. \A d \in Seq(S!Bytes) : d \in Seq(Byte)
  BY <1>1
<1>3. CASE m \in S!Payload
  BY <1>2, <1>3 DEF S!Payload
<1>4. CASE m \in Message
  BY <1>4 DEF Message
<1>5. CASE m \notin S!Payload /\ m \notin Message
  BY <1>5 DEF Wire
<1> QED BY <1>3, <1>4, <1>5

\* What is put into a queue comes last, and what is left of it was in it.
LEMMA QueueFacts ==
    ASSUME NEW T, NEW s \in Seq(T)
    PROVE  /\ \A x \in T : /\ Append(s, x) \in Seq(T)
                           /\ Len(Append(s, x)) = Len(s) + 1
                           /\ \A i \in DOMAIN Append(s, x) : \/ i \in DOMAIN s /\ Append(s, x)[i] = s[i]
                                                             \/ Append(s, x)[i] = x
           /\ s # <<>> => /\ Head(s) \in T
                          /\ Tail(s) \in Seq(T)
                          /\ Len(Tail(s)) = Len(s) - 1
                          /\ 1 \in DOMAIN s /\ Head(s) = s[1]
                          /\ \A i \in DOMAIN Tail(s) : i + 1 \in DOMAIN s /\ Tail(s)[i] = s[i + 1]
OBVIOUS

\* The connection of r ends.
LEMMA EndedFacts ==
    ASSUME RelayInv, NEW box \in Seq(Packet), NEW r \in Role, Ended(box, r)
    PROVE  RelayInv'
<1>1. CASE conn[r] \in {"out", "dead"}
  BY <1>1 DEF Ended, RelayInv
<1>2. CASE conn[r] \notin {"out", "dead"}
  <2>1. PICK x : x = [from |-> r, message |-> [type |-> "ClientDisconnected"]]
    OBVIOUS
  <2>2. x \in Packet
    BY <2>1 DEF Packet, Wire
  <2>3. /\ inbox' = Append(box, x)
        /\ outgoing' = [outgoing EXCEPT ![r] = <<>>]
        /\ conn' = [conn EXCEPT ![r] = "dead"]
    BY <1>2, <2>1 DEF Ended
  <2>4. inbox' \in Seq(Packet)
    BY <2>2, <2>3, QueueFacts
  <2>5. <<>> \in Seq(Wire) /\ Len(<<>>) = 0 /\ 0 <= NetCap
    BY TransferAssumption
  <2>6. outgoing' \in [Role -> Seq(Wire)] /\ \A q \in Role : Len(outgoing'[q]) <= NetCap
    BY <2>3, <2>5 DEF RelayInv
  <2>7. conn' \in [Role -> {"in", "dead", "out", "open"}]
    BY <2>3 DEF RelayInv
  <2> QED BY <2>4, <2>6, <2>7 DEF RelayInv
<1> QED BY <1>1, <1>2

\* A message is put into the queue of r.
LEMMA PutFacts ==
    ASSUME RelayInv, NEW r \in Role, NEW m \in Wire, Room(r),
           outgoing' = [outgoing EXCEPT ![r] = Append(@, m)]
    PROVE  outgoing' \in [Role -> Seq(Wire)] /\ \A q \in Role : Len(outgoing'[q]) <= NetCap
<1>1. outgoing[r] \in Seq(Wire) /\ Len(outgoing[r]) < NetCap
  BY DEF RelayInv, Room
<1>2. Append(outgoing[r], m) \in Seq(Wire) /\ Len(Append(outgoing[r], m)) = Len(outgoing[r]) + 1
  BY <1>1, QueueFacts
<1>3. Len(Append(outgoing[r], m)) <= NetCap
  BY <1>1, <1>2, TransferAssumption
<1>4. outgoing' = [q \in Role |-> IF q = r THEN Append(outgoing[r], m) ELSE outgoing[q]]
  BY DEF RelayInv
<1> QED BY <1>2, <1>3, <1>4 DEF RelayInv

\* The server has taken a message.
LEMMA TakenFacts ==
    ASSUME RelayInv, inbox # <<>>
    PROVE  /\ Tail(inbox) \in Seq(Packet)
           /\ Head(inbox).from \in Role /\ Head(inbox).message \in Wire
           /\ Calm => /\ Head(inbox).message.type # "ClientDisconnected"
                      /\ \A i \in DOMAIN Tail(inbox) : Tail(inbox)[i].message.type # "ClientDisconnected"
<1>1. inbox \in Seq(Packet)
  BY DEF RelayInv
<1>2. /\ Head(inbox) \in Packet
      /\ Tail(inbox) \in Seq(Packet)
      /\ 1 \in DOMAIN inbox /\ Head(inbox) = inbox[1]
      /\ \A i \in DOMAIN Tail(inbox) : i + 1 \in DOMAIN inbox /\ Tail(inbox)[i] = inbox[i + 1]
  BY <1>1, QueueFacts
<1>3. Calm => \A i \in DOMAIN inbox : inbox[i].message.type # "ClientDisconnected"
  BY DEF Calm
<1>4. Head(inbox).from \in Role /\ Head(inbox).message \in Wire
  BY <1>2 DEF Packet
<1> QED BY <1>2, <1>3, <1>4

\* A message is forwarded; as long as both clients are logged in, none is
\* disconnected for it.
LEMMA ForwardFacts ==
    ASSUME RelayInv, inbox # <<>>, NEW a \in Role, NEW r \in Role, NEW m \in Wire, Forward(a, r, m)
    PROVE  RelayInv' /\ (Calm => Calm')
<1>1. Tail(inbox) \in Seq(Packet)
  BY TakenFacts
<1>2. CASE conn[r] = "in"
  <2>1. /\ Room(r)
        /\ outgoing' = [outgoing EXCEPT ![r] = Append(@, m)]
        /\ inbox' = Tail(inbox) /\ conn' = conn
    BY <1>2 DEF Forward
  <2>2. outgoing' \in [Role -> Seq(Wire)] /\ \A q \in Role : Len(outgoing'[q]) <= NetCap
    BY <2>1, PutFacts
  <2>3. RelayInv'
    BY <1>1, <2>1, <2>2 DEF RelayInv
  <2>4. Calm => Calm'
    BY <2>1, TakenFacts DEF Calm
  <2> QED BY <2>3, <2>4
<1>3. CASE conn[r] # "in"
  <2>1. Ended(Tail(inbox), a)
    BY <1>3 DEF Forward
  <2>2. ~Calm
    BY <1>3 DEF Calm
  <2> QED BY <1>1, <2>1, <2>2, EndedFacts
<1> QED BY <1>2, <1>3

\* The server handles a message.
LEMMA ServerFacts ==
    ASSUME RelayInv, ServerHandles
    PROVE  RelayInv' /\ (Calm => Calm')
<1>1. PICK a, m : a = Head(inbox).from /\ m = Head(inbox).message
  OBVIOUS
<1>2. inbox # <<>> /\ a \in Role /\ m \in Wire
  BY <1>1, TakenFacts DEF ServerHandles
<1>3. "Sender" \in Role /\ "Receiver" \in Role
  BY DEF Role
<1>4. CASE m.type = "RequestChunk" /\ handle_request_chunk(a, m)
  BY <1>2, <1>3, <1>4, ForwardFacts DEF handle_request_chunk
<1>5. CASE m.type = "StopChunk" /\ handle_stop_chunk(a, m)
  BY <1>2, <1>3, <1>5, ForwardFacts DEF handle_stop_chunk
<1>6. CASE m.type = "TransmitChunk" /\ handle_transmit_chunk(a, m)
  <2>1. [type |-> "StopChunk"] \in Wire
    BY DEF Wire, Message
  <2> QED BY <1>2, <1>3, <1>6, <2>1, ForwardFacts DEF handle_transmit_chunk
<1>7. CASE m.type = "Login" /\ handle_login(a)
  <2>1. PICK x : x = [type |-> "LoginSuccess"]
    OBVIOUS
  <2>2. x \in Wire
    BY <2>1 DEF Wire
  <2>3. /\ Room(a)
        /\ conn' = [conn EXCEPT ![a] = "in"]
        /\ outgoing' = [outgoing EXCEPT ![a] = Append(@, x)]
        /\ inbox' = Tail(inbox)
    BY <1>7, <2>1 DEF handle_login
  <2>4. outgoing' \in [Role -> Seq(Wire)] /\ \A q \in Role : Len(outgoing'[q]) <= NetCap
    BY <1>2, <2>2, <2>3, PutFacts
  <2>5. Tail(inbox) \in Seq(Packet)
    BY <1>2, TakenFacts
  <2>6. RelayInv'
    BY <1>2, <2>3, <2>4, <2>5 DEF RelayInv
  <2>7. Calm => Calm'
    BY <1>2, <2>3, TakenFacts DEF Calm, RelayInv
  <2> QED BY <2>6, <2>7
<1>8. CASE m.type = "RequestMeta" /\ handle_request_meta(a)
  <2>1. [type |-> "TransmitMeta", meta |-> <<>>] \in Wire
    BY DEF Wire
  <2> QED BY <1>2, <1>8, <2>1, ForwardFacts DEF handle_request_meta
<1>9. CASE m.type = "ClientDisconnected" /\ ClientDisconnected(a)
  <2>1. ~Calm
    BY <1>1, <1>2, <1>9, TakenFacts
  <2>2. Tail(inbox) \in Seq(Packet)
    BY <1>2, TakenFacts
  <2>3. RelayInv'
    BY <1>2, <1>9, <2>2 DEF RelayInv, ClientDisconnected
  <2> QED BY <2>1, <2>3
<1> QED BY <1>1, <1>4, <1>5, <1>6, <1>7, <1>8, <1>9 DEF ServerHandles

\* A client sends a message to the server.
LEMMA PostFacts ==
    ASSUME RelayInv, NEW r \in Role, NEW m \in Wire, m.type # "ClientDisconnected", Post(r, m)
    PROVE  RelayInv' /\ (Calm => Calm')
<1>1. PICK x : x = [from |-> r, message |-> m]
  OBVIOUS
<1>2. x \in Packet /\ x.message.type # "ClientDisconnected"
  BY <1>1 DEF Packet
<1>3. inbox' = Append(inbox, x) /\ UNCHANGED <<outgoing, conn>>
  BY <1>1 DEF Post
<1>4. inbox \in Seq(Packet)
  BY DEF RelayInv
<1>5. /\ inbox' \in Seq(Packet)
      /\ \A i \in DOMAIN inbox' : \/ i \in DOMAIN inbox /\ inbox'[i] = inbox[i]
                                  \/ inbox'[i] = x
  BY <1>2, <1>3, <1>4, QueueFacts
<1>6. RelayInv'
  BY <1>3, <1>5 DEF RelayInv
<1>7. Calm => Calm'
  BY <1>2, <1>3, <1>5 DEF Calm
<1> QED BY <1>6, <1>7

\* A client takes a message from the server.
LEMMA TakeFacts ==
    ASSUME RelayInv, NEW r \in Role, Take(r)
    PROVE  RelayInv' /\ (Calm => Calm') /\ Head(outgoing[r]) \in Wire
<1>1. outgoing[r] \in Seq(Wire) /\ outgoing[r] # <<>> /\ Len(outgoing[r]) <= NetCap
  BY DEF RelayInv, Take
<1>2. /\ Head(outgoing[r]) \in Wire
      /\ Tail(outgoing[r]) \in Seq(Wire)
      /\ Len(Tail(outgoing[r])) = Len(outgoing[r]) - 1
      /\ Len(outgoing[r]) \in Nat
  BY <1>1, QueueFacts
<1>3. Len(Tail(outgoing[r])) <= NetCap
  BY <1>1, <1>2, TransferAssumption
<1>4. /\ outgoing' = [q \in Role |-> IF q = r THEN Tail(outgoing[r]) ELSE outgoing[q]]
      /\ UNCHANGED <<inbox, conn>>
  BY DEF Take, RelayInv
<1>5. RelayInv'
  BY <1>2, <1>3, <1>4 DEF RelayInv
<1>6. Calm => Calm'
  BY <1>4 DEF Calm
<1> QED BY <1>2, <1>5, <1>6

-----------------------------------------------------------------------------
(***************************************************************************)
(* The steps.                                                              *)
(***************************************************************************)

\* In every step each client does something it does, or nothing.
LEMMA ClientsStep ==
    ASSUME RelayInv, [TransferNext]_transferVars
    PROVE  /\ ReceiverActs \/ UNCHANGED vars
           /\ SenderActs \/ UNCHANGED senderVars
<1>1. ASSUME NEW p \in Path, NEW l \in Locals(p), Download(p, l)
      PROVE  FileRequested(p, l) /\ UNCHANGED senderVars
  BY <1>1 DEF Download, User
<1>2. ASSUME NEW p \in Path, Resume(p) PROVE FileResumed(p) /\ UNCHANGED senderVars
  BY <1>2 DEF Resume, User
<1>3. ASSUME Stop PROVE DownloadStopped /\ UNCHANGED senderVars
  BY <1>3 DEF Stop, User
<1>4. ASSUME ReceiverTakes
      PROVE  /\ \/ \E b \in Seq(Byte) : TransmitChunk(b)
                \/ LoginSuccess \/ TransmitMeta(<<>>)
             /\ UNCHANGED senderVars
  <2>1. PICK m : m = Head(outgoing["Receiver"])
    OBVIOUS
  <2>2. "Receiver" \in Role
    BY DEF Role
  <2>3. m \in Wire
    BY <1>4, <2>1, <2>2, TakeFacts DEF ReceiverTakes
  <2>4. /\ \/ m.type = "TransmitChunk" /\ TransmitChunk(m.data)
           \/ LoginSuccess
           \/ m.type = "TransmitMeta" /\ TransmitMeta(m.meta)
        /\ UNCHANGED senderVars
    BY <1>4, <2>1 DEF ReceiverTakes
  <2> QED BY <2>3, <2>4, WireFacts
<1>5. ASSUME SenderTakes PROVE SenderActs /\ UNCHANGED vars
  <2>1. PICK m : m = Head(outgoing["Sender"])
    OBVIOUS
  <2>2. "Sender" \in Role
    BY DEF Role
  <2>3. m \in Wire
    BY <1>5, <2>1, <2>2, TakeFacts DEF SenderTakes
  <2>4. /\ \/ m.type = "RequestChunk" /\ S!process_request_chunk(m.path, m.index, m.hash)
           \/ S!StopChunk
           \/ S!LoginSuccess
        /\ UNCHANGED vars
    BY <1>5, <2>1 DEF SenderTakes
  <2> QED BY <2>3, <2>4, WireFacts DEF SenderActs
<1>6. ASSUME NEW t \in Task, Transfers(t) PROVE SenderActs /\ UNCHANGED vars
  BY <1>6 DEF Transfers, SenderActs
<1>7. ASSUME NEW r \in Role, Dies(r) \/ Returns(r) \/ LogsIn(r)
      PROVE  /\ ReceiverActs \/ UNCHANGED vars
             /\ SenderActs \/ UNCHANGED senderVars
  BY <1>7 DEF Dies, Returns, LogsIn, ReceiverActs, SenderActs
<1>8. ASSUME ReceiverSends PROVE SendMessage /\ UNCHANGED senderVars
  BY <1>8 DEF ReceiverSends
<1>9. ASSUME ReceiverLogsOn PROVE LoggedInAsReceiver /\ UNCHANGED senderVars
  BY <1>9 DEF ReceiverLogsOn
<1>10. ASSUME SenderSends PROVE S!SendMessage /\ UNCHANGED vars
  BY <1>10 DEF SenderSends
<1>11. ASSUME ServerHandles \/ AtRest \/ UNCHANGED transferVars PROVE UNCHANGED <<vars, senderVars>>
  BY <1>11 DEF ServerHandles, AtRest, transferVars
<1> QED BY <1>1, <1>2, <1>3, <1>4, <1>5, <1>6, <1>7, <1>8, <1>9, <1>10, <1>11
        DEF TransferNext, ReceiverActs, SenderActs

\* A click changes nothing of the relay.
LEMMA UserFacts ==
    ASSUME RelayInv, HistoryInv, LossInv,
           \/ \E p \in Path : \E l \in Locals(p) : Download(p, l)
           \/ \E p \in Path : Resume(p)
           \/ Stop
    PROVE  RelayInv' /\ HistoryInv' /\ LossInv'
<1>1. clicks < MaxClicks /\ clicks' = clicks + 1 /\ UNCHANGED <<relayVars, lost>>
  BY DEF Download, Resume, Stop, User
<1>2. clicks' \in 0 .. MaxClicks
  BY <1>1, TransferAssumption DEF HistoryInv
<1>3. Quiet \in BOOLEAN
  BY DEF Quiet
<1>4. fresh' \in BOOLEAN
  BY <1>3 DEF Download, Resume, Stop
<1>5. RelayInv' /\ LossInv'
  BY <1>1 DEF RelayInv, LossInv, Calm, relayVars
<1> QED BY <1>1, <1>2, <1>4, <1>5 DEF HistoryInv

\* A client dies, comes back or logs in: while no client has died of itself,
\* the server has ended no connection.
LEMMA DiesFacts ==
    ASSUME RelayInv, HistoryInv, LossInv, NEW r \in Role, Dies(r) \/ Returns(r) \/ LogsIn(r)
    PROVE  RelayInv' /\ HistoryInv' /\ LossInv'
<1>1. CASE Dies(r)
  <2>1. RelayInv'
    BY <1>1, EndedFacts DEF Dies, RelayInv
  <2>2. HistoryInv'
    BY <1>1 DEF Dies, HistoryInv
  <2>3. LossInv'
    <3>1. CASE lost' = lost \cup {r}
      BY <3>1 DEF LossInv
    <3>2. CASE ~Connected(r) /\ UNCHANGED lost
      BY <3>2 DEF LossInv, Calm, Connected
    <3> QED BY <1>1, <3>1, <3>2 DEF Dies
  <2> QED BY <2>1, <2>2, <2>3
<1>2. CASE Returns(r)
  <2>1. /\ conn[r] = "out" /\ conn' = [conn EXCEPT ![r] = "open"]
        /\ UNCHANGED <<inbox, outgoing, clicks, lost, fresh>>
    BY <1>2 DEF Returns, history
  <2>2. RelayInv' /\ HistoryInv'
    BY <2>1 DEF RelayInv, HistoryInv
  <2>3. lost # {}
    BY <2>1 DEF LossInv, Calm
  <2> QED BY <2>1, <2>2, <2>3 DEF LossInv
<1>3. CASE LogsIn(r)
  BY <1>3 DEF LogsIn, relayVars, history, RelayInv, HistoryInv, LossInv, Calm
<1> QED BY <1>1, <1>2, <1>3

\* What the relay does in every step.
LEMMA RelayStep ==
    ASSUME TypeOK, SP!TypeOK, RelayInv, HistoryInv, LossInv, [TransferNext]_transferVars
    PROVE  RelayInv' /\ HistoryInv' /\ LossInv'
<1>0. "Sender" \in Role /\ "Receiver" \in Role
  BY DEF Role
<1>1. ASSUME RelayInv', Calm => Calm', UNCHANGED history
      PROVE  RelayInv' /\ HistoryInv' /\ LossInv'
  BY <1>1 DEF history, HistoryInv, LossInv
<1>2. CASE ReceiverSends
  <2>1. PICK m : m = Head(up)
    OBVIOUS
  <2>2. up \in Seq(Message) /\ up # <<>> /\ Post("Receiver", m)
    BY <1>2, <2>1 DEF ReceiverSends, SendMessage, TypeOK
  <2>3. m \in Message
    BY <2>1, <2>2
  <2>4. m \in Wire /\ m.type # "ClientDisconnected"
    BY <2>3 DEF Wire, Message
  <2> QED BY <1>0, <1>1, <2>2, <2>4, PostFacts DEF Post
<1>3. CASE SenderSends
  <2>1. PICK e : e = Head(events)
    OBVIOUS
  <2>2. events \in Seq(S!Event) /\ events # <<>> /\ e.kind = "SendMessage" /\ Post("Sender", e.message)
    BY <1>3, <2>1, SameSender DEF SenderSends, S!SendMessage, SP!TypeOK
  <2>3. e \in S!Event
    BY <2>1, <2>2
  <2>4. e.message \in S!Payload
    BY <2>2, <2>3 DEF S!Event
  <2>5. e.message \in Wire /\ e.message.type # "ClientDisconnected"
    BY <2>4 DEF Wire, S!Payload
  <2> QED BY <1>0, <1>1, <2>2, <2>5, PostFacts DEF Post
<1>4. CASE ReceiverTakes \/ SenderTakes
  BY <1>0, <1>1, <1>4, TakeFacts DEF ReceiverTakes, SenderTakes, Take
<1>5. CASE ServerHandles
  BY <1>1, <1>5, ServerFacts DEF ServerHandles
<1>6. CASE ReceiverLogsOn \/ (\E t \in Task : Transfers(t)) \/ AtRest \/ UNCHANGED transferVars
  <2>1. UNCHANGED <<relayVars, history>>
    BY <1>6 DEF ReceiverLogsOn, Transfers, AtRest, transferVars
  <2>2. RelayInv' /\ (Calm => Calm')
    BY <2>1 DEF relayVars, RelayInv, Calm
  <2> QED BY <1>1, <2>1, <2>2
<1>7. CASE \/ \E p \in Path : \E l \in Locals(p) : Download(p, l)
           \/ \E p \in Path : Resume(p)
           \/ Stop
  BY <1>7, UserFacts
<1>8. CASE \E r \in Role : Dies(r) \/ Returns(r) \/ LogsIn(r)
  BY <1>8, DiesFacts
<1> QED BY <1>2, <1>3, <1>4, <1>5, <1>6, <1>7, <1>8 DEF TransferNext

\* The sender starts with metadata created from its files as they are.
LEMMA SenderInit ==
    ASSUME TransferInit
    PROVE  SP!IInv
<1>1. /\ sender_state = "Idle"
      /\ token = NoTask /\ tasks = [t \in Task |-> NoTask]
      /\ events = <<>>
  BY DEF TransferInit
<1>2. <<>> \in Seq(SP!Event) /\ Len(<<>>) = 0 /\ DOMAIN <<>> = {} /\ 0 <= EventCap
  BY SenderAssumption
<1>3. Listed \in [SP!RemotePath -> [local_path : DOMAIN Original, meta : SP!FileMeta] \cup {NoEntry}]
  BY ListedAssumption, SameSender
<1>4. SP!TypeOK
  <2>1. [j \in {} |-> NoJob] \in
           [{} -> [todo : Seq(SP!Upload), chunks : Seq(SP!Chunk), chunk_offset : Nat,
                   chunk_hash : Seq(SP!Bytes), file_size : Nat, eof : BOOLEAN] \cup {NoJob}]
    OBVIOUS
  <2>2. Original \in [DOMAIN Original -> {Original[l] : l \in DOMAIN Original}]
    BY OriginalAssumption
  <2>3. /\ events \in Seq(SP!Event) /\ Len(events) <= EventCap
        /\ token \in Task \cup {NoTask}
    BY <1>1, <1>2
  <2> QED BY <1>1, <1>3, <2>1, <2>2, <2>3 DEF SP!TypeOK
<1>5. SP!JobsInv /\ SP!TasksInv
  BY <1>1 DEF SP!JobsInv, SP!TasksInv
<1>6. SP!EventsInv
  BY <1>1, <1>2 DEF SP!EventsInv
<1>7. SP!IndexInv
  <2>1. ASSUME NEW p \in Path PROVE SP!GoodEntry(Listed[p], Original[Listed[p].local_path])
    <3>1. PICK m : m = Listed[p].meta
      OBVIOUS
    <3>2. PICK f : f = Original[Listed[p].local_path]
      OBVIOUS
    <3>3. m \in SP!FileMeta /\ f \in Seq(Byte)
      BY <3>1, <3>2, ListedAssumption, OriginalAssumption, SameSender
    <3>4. S!Tiles(m) /\ \A i \in DOMAIN m.chunks : OnDisk(f, m.chunks[i])
      BY <3>1, <3>2, ListedAssumption
    <3>5. SP!Tiles(m)
      BY <3>4 DEF S!Tiles, SP!Tiles
    <3>6. m.chunks \in Seq(SP!Chunk) /\ m = [size |-> m.size, chunks |-> m.chunks]
      BY <3>3 DEF SP!FileMeta
    <3>7. ASSUME NEW i \in DOMAIN m.chunks PROVE SP!HashedFrom(m.chunks[i], f)
      <4>1. PICK c : c = m.chunks[i]
        OBVIOUS
      <4>2. c \in SP!Chunk /\ OnDisk(f, c)
        BY <3>4, <3>6, <4>1
      <4>3. Len(c.hash) = c.size
        BY <3>5, <4>1 DEF SP!Tiles
      <4> QED BY <4>1, <4>2, <4>3 DEF OnDisk, SP!Chunk, SP!HashedFrom, SP!ReadFrom
    <3> QED BY <3>1, <3>2, <3>5, <3>6, <3>7 DEF SP!GoodEntry, SP!GoodMeta
  <2> QED BY <2>1, SameSender DEF SP!IndexInv
<1> QED BY <1>4, <1>5, <1>6, <1>7 DEF SP!IInv

\* The receiver starts with nothing received.
LEMMA ReceiverInit ==
    ASSUME TransferInit
    PROVE  IInv /\ MetaInv
<1>1. ASSUME NEW p \in Path
      PROVE  /\ index[p] \in Entry
             /\ index[p].received_chunks = {} /\ index[p].local_path = NoPath
             /\ index[p].meta.meta_modified \in Nat
  <2>1. PICK m \in Meta : index[p] = add_for_meta(m)
    BY DEF TransferInit
  <2> QED BY <2>1, MetaAssumption DEF add_for_meta, Entry, IsMeta
<1>2. MetaInv
  BY <1>1 DEF TransferInit, MetaInv
<1>3. index \in [Path -> Entry \cup {NoEntry}]
  BY <1>1 DEF TransferInit
<1>4. last_updated \in Nat \cup {MinTime}
  <2>1. PICK T : T = {index[p].meta.meta_modified : p \in {q \in Path : index[q] # NoEntry}}
    OBVIOUS
  <2>2. T \subseteq Nat
    BY <1>1, <2>1
  <2>3. last_updated = IF \E t \in T : \A u \in T : u <= t
                       THEN CHOOSE t \in T : \A u \in T : u <= t ELSE MinTime
    BY <2>1 DEF TransferInit, get_last_updated
  <2> QED BY <2>2, <2>3
<1>5. TypeOK
  <2>1. /\ <<>> \in Seq(Byte) /\ <<>> \in Seq(Message) /\ Len(<<>>) = 0
        /\ 0 \in 0 .. UpCap /\ 0 <= UpCap
    BY BoundAssumption
  <2>2. files \in [Local -> Seq(Byte)]
    BY <2>1 DEF TransferInit
  <2>3. /\ state = "Idle" /\ requesting_chunk = NoFile /\ torn = FALSE
        /\ up \in Seq(Message) /\ Len(up) <= UpCap /\ logged_in \in 0 .. UpCap
    BY <2>1 DEF TransferInit
  <2> QED BY <1>3, <1>4, <2>2, <2>3 DEF TypeOK
<1>6. EntriesInv
  BY <1>1, FreshEntry DEF EntriesInv
<1>7. RequestInv
  BY DEF TransferInit, RequestInv
<1> QED BY <1>2, <1>5, <1>6, <1>7 DEF IInv

\* The initial state satisfies the invariant.
LEMMA InitTInv == TransferInit => TInv
<1> SUFFICES ASSUME TransferInit PROVE TInv
  OBVIOUS
<1>1. RelayInv
  <2>1. <<>> \in Seq(Packet) /\ <<>> \in Seq(Wire) /\ Len(<<>>) = 0 /\ 0 <= NetCap
    BY TransferAssumption
  <2>2. inbox \in Seq(Packet)
    BY <2>1 DEF TransferInit
  <2>3. outgoing \in [Role -> Seq(Wire)] /\ \A r \in Role : Len(outgoing[r]) <= NetCap
    BY <2>1 DEF TransferInit
  <2> QED BY <2>2, <2>3 DEF TransferInit, RelayInv
<1>2. HistoryInv
  <2>1. clicks = 0 /\ lost = {} /\ fresh = FALSE
    BY DEF TransferInit
  <2>2. 0 \in 0 .. MaxClicks
    BY TransferAssumption
  <2> QED BY <2>1, <2>2 DEF HistoryInv
<1>3. LossInv
  <2>1. DOMAIN <<>> = {}
    OBVIOUS
  <2> QED BY <2>1 DEF TransferInit, LossInv, Calm
<1> QED BY <1>1, <1>2, <1>3, SenderInit, ReceiverInit DEF TInv

\* Every step preserves the invariant.
LEMMA NextTInv ==
    ASSUME TInv, [TransferNext]_transferVars
    PROVE  TInv'
<1>1. /\ ReceiverActs \/ UNCHANGED vars
      /\ SenderActs \/ UNCHANGED senderVars
  BY ClientsStep DEF TInv
<1>2. IInv' /\ MetaInv'
  BY <1>1, ReceiverIInv, ReceiverMetaInv DEF TInv
<1>3. SP!IInv'
  BY <1>1, SenderIInv DEF TInv
<1>4. TypeOK /\ SP!TypeOK
  BY DEF TInv, IInv, SP!IInv
<1>5. RelayInv' /\ HistoryInv' /\ LossInv'
  BY <1>4, RelayStep DEF TInv
<1> QED BY <1>2, <1>3, <1>5 DEF TInv

\* The invariant holds of every behaviour.
THEOREM TransferInvariance == TransferSpec => []TInv
<1>1. TInv /\ [TransferNext]_transferVars => TInv'
  BY NextTInv
<1> QED BY <1>1, InitTInv, PTL DEF TransferSpec

-----------------------------------------------------------------------------
(***************************************************************************)
(* The theorems.                                                           *)
(***************************************************************************)

\* Every variable of both clients and of the relay keeps its type.
THEOREM TransferTypeCorrectness == TransferSpec => []TransferTypeOK
<1>1. TInv => TransferTypeOK
  <2> SUFFICES ASSUME TInv PROVE TransferTypeOK
    OBVIOUS
  <2>1. TypeOK /\ S!TypeOK
    BY SameSender DEF TInv, IInv, SP!IInv
  <2>2. \A i \in DOMAIN inbox : inbox[i].from \in Role
    <3>1. inbox \in Seq(Packet)
      BY DEF TInv, RelayInv
    <3>2. \A i \in DOMAIN inbox : inbox[i] \in Packet
      BY <3>1
    <3> QED BY <3>2 DEF Packet
  <2> QED BY <2>1, <2>2 DEF TInv, RelayInv, HistoryInv, TransferTypeOK
<1> QED BY <1>1, TransferInvariance, PTL

\* The server ends the connection of a client only if one of them has died.
THEOREM CutOnlyAfterLoss == TransferSpec => []CutNeedsLoss
<1>1. TInv => CutNeedsLoss
  BY DEF TInv, LossInv, Calm, CutNeedsLoss
<1> QED BY <1>1, TransferInvariance, PTL

-----------------------------------------------------------------------------
(***************************************************************************)
(* From end to end.                                                        *)
(***************************************************************************)

\* The chunks of a file leave out nothing of it.
LEMMA ChunksCover ==
    ASSUME NEW m \in S!FileMeta, S!Tiles(m), NEW i \in 1 .. m.size
    PROVE  \E k \in DOMAIN m.chunks :
              m.chunks[k].offset < i /\ i <= m.chunks[k].offset + m.chunks[k].size
<1>1. PICK cs : cs = m.chunks
  OBVIOUS
<1>2. PICK n \in Nat : n = Len(cs)
  BY <1>1 DEF S!FileMeta
<1>3. m.size \in Nat /\ cs \in Seq(S!Chunk) /\ DOMAIN cs = 1 .. n
  BY <1>1, <1>2 DEF S!FileMeta
<1>4. \A k \in 1 .. n : cs[k].offset \in Nat /\ cs[k].size \in Nat
  <2>1. \A k \in 1 .. n : cs[k] \in S!Chunk
    BY <1>3
  <2> QED BY <2>1 DEF S!Chunk
<1>5. /\ cs = <<>> => m.size = 0
      /\ \A k \in 1 .. n :
            /\ k = 1 => cs[k].offset = 0
            /\ k = n => cs[k].offset + cs[k].size = m.size
            /\ k # n => cs[k].offset + cs[k].size = cs[k + 1].offset
  BY <1>1, <1>2, <1>3 DEF S!Tiles
<1>6. PICK T : T = {k \in 1 .. n : i <= cs[k].offset + cs[k].size}
  OBVIOUS
<1>7. n \in T
  <2>1. cs # <<>>
    BY <1>3, <1>5
  <2>2. n \in 1 .. n
    BY <1>2, <1>3, <2>1
  <2>3. cs[n].offset + cs[n].size = m.size
    BY <1>5, <2>2
  <2> QED BY <1>3, <1>6, <2>2, <2>3
<1>8. PICK k \in T : \A j \in T : k <= j
  <2>1. T \in SUBSET Nat /\ T # {}
    BY <1>6, <1>7
  <2> QED BY <2>1, LeastNumber
<1>9. k \in 1 .. n /\ i <= cs[k].offset + cs[k].size
  BY <1>6, <1>8
<1>10. cs[k].offset < i
  <2>1. CASE k = 1
    BY <1>5, <1>9, <2>1
  <2>2. CASE k # 1
    <3>1. PICK j \in 1 .. n : j = k - 1
      BY <1>9, <2>2
    <3>2. j \notin T
      BY <1>8, <1>9, <3>1
    <3>3. i > cs[j].offset + cs[j].size
      BY <1>4, <1>6, <3>2
    <3>4. cs[j].offset + cs[j].size = cs[k].offset
      BY <1>5, <1>9, <3>1
    <3> QED BY <3>3, <3>4
  <2> QED BY <2>1, <2>2
<1> QED BY <1>1, <1>3, <1>9, <1>10

\* Two files that hold the same chunks, leaving out nothing, are the same.
LEMMA SameFile ==
    ASSUME NEW m \in S!FileMeta, S!Tiles(m), NEW f \in Seq(Byte), NEW g \in Seq(Byte),
           Len(f) = m.size, Len(g) = m.size,
           \A k \in DOMAIN m.chunks : OnDisk(f, m.chunks[k]) /\ OnDisk(g, m.chunks[k])
    PROVE  f = g
<1>1. ASSUME NEW i \in 1 .. m.size PROVE f[i] = g[i]
  <2>1. PICK k \in DOMAIN m.chunks :
           m.chunks[k].offset < i /\ i <= m.chunks[k].offset + m.chunks[k].size
    BY ChunksCover
  <2>2. PICK c : c = m.chunks[k]
    OBVIOUS
  <2>3. c \in S!Chunk
    BY <2>2 DEF S!FileMeta
  <2>4. c.offset \in Nat /\ c.size \in Nat /\ i \in Nat
    BY <2>3 DEF S!Chunk, S!FileMeta
  <2>5. PICK j \in 1 .. c.size : c.offset + j = i
    <3>1. i - c.offset \in 1 .. c.size /\ c.offset + (i - c.offset) = i
      BY <2>1, <2>2, <2>4
    <3> QED BY <3>1
  <2>6. f[c.offset + j] = c.hash[j] /\ g[c.offset + j] = c.hash[j]
    BY <2>2, <2>5 DEF OnDisk
  <2> QED BY <2>5, <2>6
<1> QED BY <1>1

\* EndToEnd of the one file p.
Arrived(p) == Complete(p) => files[index[p].local_path] = Original[Listed[p].local_path]

\* A file shown as downloaded is the sender's file, block for block, whatever
\* becomes of other files, if no other is saved to the same local file: its
\* chunks are on disk, they are those the sender listed, and these leave out
\* nothing of the file (process_transmit_chunk, create_for_file).
THEOREM AloneIsOriginal == TransferSpec => [](\A p \in Path : Alone(p) => Arrived(p))
<1>1. TInv => \A p \in Path : Alone(p) => Arrived(p)
  <2> SUFFICES ASSUME TInv, NEW p \in Path, Alone(p), Complete(p)
               PROVE  files[index[p].local_path] = Original[Listed[p].local_path]
    BY DEF Arrived
  <2>1. PICK e : e = index[p]
    OBVIOUS
  <2>2. PICK f : f = files[e.local_path]
    OBVIOUS
  <2>3. PICK m : m = Listed[p].meta
    OBVIOUS
  <2>4. PICK g : g = Original[Listed[p].local_path]
    OBVIOUS
  <2>5. e \in Entry /\ e.meta.size = m.size /\ e.meta.chunks = m.chunks
    BY <2>1, <2>3 DEF TInv, MetaInv, SameMeta
  <2>6. /\ m \in S!FileMeta /\ S!Tiles(m) /\ m.size = Len(g)
        /\ g \in Seq(Byte)
        /\ \A k \in DOMAIN m.chunks : OnDisk(g, m.chunks[k])
    BY <2>3, <2>4, ListedAssumption, OriginalAssumption
  <2>7. m.chunks # <<>> /\ Undownloaded(e) = {} /\ GoodEntry(p, e, f)
    BY <2>1, <2>2, <2>5 DEF Complete, TInv, IInv, EntriesInv
  <2>8. DOMAIN m.chunks = 1 .. Len(m.chunks) /\ Len(m.chunks) \in Nat
    BY <2>6 DEF S!FileMeta
  <2>9. ASSUME NEW k \in DOMAIN m.chunks PROVE k - 1 \in e.received_chunks /\ OnDisk(f, m.chunks[k])
    <3>1. k - 1 \in 0 .. Len(e.meta.chunks) - 1 /\ (k - 1) + 1 = k
      BY <2>5, <2>8
    <3>2. k - 1 \in e.received_chunks
      BY <2>7, <3>1 DEF Undownloaded
    <3> QED BY <2>5, <2>7, <3>1, <3>2 DEF GoodEntry
  <2>10. Len(f) = m.size
    BY <2>5, <2>7 DEF GoodEntry
  <2>11. f \in Seq(Byte)
    <3>1. 1 \in DOMAIN m.chunks
      <4>1. m.chunks \in Seq(S!Chunk)
        BY <2>6 DEF S!FileMeta
      <4> QED BY <2>7, <4>1
    <3>2. e.received_chunks # {}
      BY <2>9, <3>1
    <3>3. e.local_path # NoPath
      BY <2>7, <3>2 DEF GoodEntry
    <3>4. e.local_path \in Local
      BY <2>5, <3>3 DEF Entry
    <3> QED BY <2>2, <3>4 DEF TInv, IInv, TypeOK
  <2> QED BY <2>1, <2>2, <2>4, <2>6, <2>9, <2>10, <2>11, SameFile
<1> QED BY <1>1, TransferInvariance, PTL

\* A file shown as downloaded is the sender's file, if the user saves no two
\* files to the same local file.
THEOREM DownloadIsOriginal == DisjointLocals => (TransferSpec => []EndToEnd)
<1> SUFFICES ASSUME DisjointLocals PROVE TransferSpec => []EndToEnd
  OBVIOUS
<1>1. (\A p \in Path : Alone(p) => Arrived(p)) => EndToEnd
  BY DEF DisjointLocals, Arrived, EndToEnd
<1> QED BY <1>1, AloneIsOriginal, PTL

\* What becomes of the receiver's files in a transfer is what Download allows:
\* stops, resumes, late blocks and lost clients do no more than let the next
\* whole chunk of a file be there, or the user begin a file again
\* (request_file, process_transmit_chunk).
THEOREM DownloadOnShelf == DisjointLocals => (TransferSpec => [][Promise!Next]_Shelf)
<1> SUFFICES ASSUME DisjointLocals PROVE TransferSpec => [][Promise!Next]_Shelf
  OBVIOUS
<1>1. TInv => IInv /\ ShelfInv
  BY ShelfIsMarked DEF TInv
<1>2. ASSUME TInv, TInv', [TransferNext]_transferVars PROVE [Promise!Next]_Shelf
  <2>1. IInv /\ ShelfInv /\ ShelfInv'
    BY <1>1, <1>2, PTL
  <2>2. ReceiverActs \/ UNCHANGED vars
    BY <1>2, ClientsStep DEF TInv
  <2>3. CASE LogInAsReceiver \/ LoggedInAsReceiver \/ DownloadStopped \/ SendMessage \/ Crash \/ Restart
             \/ LoginSuccess \/ \E p \in Path : FileResumed(p) \/ \E l \in Locals(p) : FileRequested(p, l)
    BY <2>1, <2>3, StepOnIndex, MovesOnShelf DEF Next
  <2>4. CASE TransmitMeta(<<>>)
    <3>1. {} \in SUBSET Path /\ <<>> \in [{} -> Meta]
      OBVIOUS
    <3>2. Next
      BY <2>4, <3>1 DEF Next
    <3> QED BY <2>1, <3>2, StepOnIndex, MovesOnShelf
  <2>5. CASE \E b \in Seq(Byte) : TransmitChunk(b)
    BY <2>1, <2>5, BlockMoves, MovesOnShelf
  <2>6. CASE UNCHANGED vars
    <3>1. IndexMoves
      BY <2>6 DEF vars, IndexMoves
    <3> QED BY <2>1, <3>1, MovesOnShelf
  <2> QED BY <2>2, <2>3, <2>4, <2>5, <2>6 DEF ReceiverActs
<1> QED BY <1>2, TransferInvariance, PTL DEF TransferSpec
=============================================================================
