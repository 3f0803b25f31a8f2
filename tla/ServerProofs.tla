----------------------------- MODULE ServerProofs -----------------------------
(***************************************************************************)
(* Proofs about Server, for any number of peers, channels of any capacity  *)
(* and any payloads.                                                       *)
(***************************************************************************)
EXTENDS Server, SequenceTheorems, TLAPS

-----------------------------------------------------------------------------
(***************************************************************************)
(* What a turn of handle_clients does to the table and to the channels.    *)
(***************************************************************************)

\* One message other than LoginSuccess and NotifySenderStatus is put into the
\* channel of an identified client.
Relays(r, m) ==
    /\ UNCHANGED <<running, clients>>
    /\ r \in Addr
    /\ clients[r] \in Role
    /\ m \in ServerPayload
    /\ m.type \notin {"LoginSuccess", "NotifySenderStatus"}
    /\ Alive(r)
    /\ Len(outgoing[r]) < OutgoingCap
    /\ outgoing' = [outgoing EXCEPT ![r] = Append(@, m)]

Silent == UNCHANGED <<running, clients, outgoing>>

\* A handler leaves the table alone and sends at most one plain message, or
\* it panics, or it is handle_login accepting the peer.
HandlerEffect(a, m) ==
    \/ Silent
    \/ \E r \in Addr, p \in ServerPayload : Relays(r, p)
    \/ Panic
    \/ m.type = "Login" /\ MayLogin(a, m) /\ handle_login(a, m)

\* Each handler of the server task has one of these effects, keeps the index
\* well typed and cancels no address but known ones.
LEMMA HandlerEffects ==
    ASSUME TypeOK, NEW a \in Addr, NEW m \in ClientPayload,
           clients[a] # "None", handle_message(a, m)
    PROVE  /\ HandlerEffect(a, m)
           /\ index' \in [Path -> Meta \cup {NoMeta}]
           /\ cancelled' \subseteq Addr
<1> USE DEF HandlerEffect
<1>f. ASSUME NEW r \in Addr, NEW p \in ServerPayload, clients[r] \in Role,
             p.type \notin {"LoginSuccess", "NotifySenderStatus"}, Forward(a, r, p)
      PROVE  /\ Silent \/ Relays(r, p)
             /\ UNCHANGED index
             /\ cancelled' \subseteq Addr
  <2>1. CASE Alive(r)
    BY <1>f, <2>1 DEF Forward, Relays, Sent, CanSend, Ok, TypeOK
  <2>2. CASE ~Alive(r)
    BY <1>f, <2>2 DEF Forward, Silent, Sent, Err, TypeOK
  <2> QED BY <2>1, <2>2
<1>r. ASSUME Reject(a)
      PROVE  Silent /\ UNCHANGED index /\ cancelled' \subseteq Addr
  BY <1>r DEF Reject, Silent, Err, TypeOK
<1>t. index \in [Path -> Meta \cup {NoMeta}]
  BY DEF TypeOK
<1>1. CASE m.type = "Login" /\ handle_login(a, m)
  <2>1. CASE ~MayLogin(a, m)
    BY <1>1, <2>1, <1>r, <1>t DEF handle_login
  <2>2. CASE MayLogin(a, m)
    BY <1>1, <2>2 DEF handle_login, TypeOK, Ok, Err
  <2> QED BY <2>1, <2>2
<1>2. CASE m.type = "PublishMeta" /\ handle_publish_meta(a, m)
  <2>1. m.path \in Path /\ m.file \in File
    BY <1>2 DEF ClientPayload
  <2>2. CASE clients[a] # "Sender"
    BY <1>2, <2>2, <1>r, <1>t DEF handle_publish_meta
  <2>3. CASE clients[a] = "Sender"
    <3>1. index' \in [Path -> Meta \cup {NoMeta}]
      BY <1>2, <2>1, <2>3, SMTT(30) DEF handle_publish_meta, Meta, TypeOK
    <3>2. CASE Panic
      BY <3>1, <3>2 DEF Panic, TypeOK
    <3>3. CASE Ok /\ UNCHANGED <<running, clients, outgoing>>
      BY <3>1, <3>3 DEF Ok, Silent, TypeOK
    <3>4. ASSUME NEW r \in get_by_type("Receiver"), Alive(r), CanSend(r), Ok,
                 outgoing' = Sent(outgoing, r, [type |-> "NotifyUpdated", last_modified |-> now]),
                 UNCHANGED <<running, clients>>
          PROVE  \E p \in ServerPayload : Relays(r, p) /\ cancelled' \subseteq Addr
      <4> DEFINE p == [type |-> "NotifyUpdated", last_modified |-> now]
      <4>1. p \in ServerPayload
        BY DEF TypeOK, ServerPayload
      <4>2. Relays(r, p)
        BY <3>4, <4>1 DEF Relays, get_by_type, Sent, CanSend, Role
      <4> QED BY <3>4, <4>1, <4>2 DEF Ok, TypeOK
    <3> QED BY <1>2, <2>3, <3>1, <3>2, <3>3, <3>4 DEF handle_publish_meta, get_by_type
  <2> QED BY <2>2, <2>3
<1>3. CASE m.type = "RemoveMeta" /\ handle_remove_meta(a, m)
  <2>1. m.path \in Path
    BY <1>3 DEF ClientPayload
  <2>2. CASE clients[a] # "Sender"
    BY <1>3, <2>2, <1>r, <1>t DEF handle_remove_meta
  <2>3. CASE clients[a] = "Sender"
    <3>1. index' \in [Path -> Meta \cup {NoMeta}]
      BY <1>3, <2>1, <2>3 DEF handle_remove_meta, TypeOK
    <3>2. CASE Panic
      BY <3>1, <3>2 DEF Panic, TypeOK
    <3>3. CASE Ok /\ UNCHANGED <<running, clients, outgoing>>
      BY <3>1, <3>3 DEF Ok, Silent, TypeOK
    <3> QED BY <1>3, <2>3, <3>2, <3>3 DEF handle_remove_meta
  <2> QED BY <2>2, <2>3
<1>4. CASE m.type = "RequestMeta" /\ handle_request_meta(a, m)
  <2>1. CASE clients[a] = "Unidentified"
    BY <1>4, <2>1, <1>r, <1>t DEF handle_request_meta
  <2>2. CASE clients[a] # "Unidentified"
    <3> DEFINE p == [type |-> "TransmitMeta", meta |-> get_modified_after(m.after)]
    <3>1. get_modified_after(m.after) \in SUBSET [path : Path, meta : Meta]
      BY DEF get_modified_after, TypeOK
    <3>2. p \in ServerPayload
      BY <3>1 DEF ServerPayload
    <3>3. clients[a] \in Role
      BY <2>2 DEF TypeOK, ClientType
    <3> QED BY <1>4, <2>2, <3>2, <3>3, <1>f, <1>t DEF handle_request_meta
  <2> QED BY <2>1, <2>2
<1>5. ASSUME m.type \in {"RequestChunk", "StopChunk"}, ToSender(a, m)
      PROVE  /\ HandlerEffect(a, m)
             /\ index' \in [Path -> Meta \cup {NoMeta}]
             /\ cancelled' \subseteq Addr
  <2>1. m \in ServerPayload
    BY <1>5 DEF ClientPayload, ServerPayload
  <2>2. ASSUME NEW s \in get_by_type("Sender"), Forward(a, s, m)
        PROVE  /\ Silent \/ Relays(s, m)
               /\ UNCHANGED index
               /\ cancelled' \subseteq Addr
    BY <1>5, <2>1, <2>2, <1>f DEF get_by_type, Role
  <2> QED BY <1>5, <2>1, <2>2, <1>r, <1>t DEF ToSender, get_by_type
<1>6. CASE m.type = "TransmitChunk" /\ handle_transmit_chunk(a, m)
  <2>1. m \in ServerPayload /\ [type |-> "StopChunk"] \in ServerPayload
    BY <1>6 DEF ClientPayload, ServerPayload
  <2>2. ASSUME NEW s \in get_by_type("Receiver"), Forward(a, s, m)
        PROVE  /\ Silent \/ Relays(s, m)
               /\ UNCHANGED index
               /\ cancelled' \subseteq Addr
    BY <1>6, <2>1, <2>2, <1>f DEF get_by_type, Role
  <2>3. ASSUME clients[a] = "Sender", Forward(a, a, [type |-> "StopChunk"])
        PROVE  /\ Silent \/ Relays(a, [type |-> "StopChunk"])
               /\ UNCHANGED index
               /\ cancelled' \subseteq Addr
    BY <2>1, <2>3, <1>f DEF Role
  <2> QED BY <1>6, <2>1, <2>2, <2>3, <1>r, <1>t DEF handle_transmit_chunk, get_by_type
<1>7. CASE m.type = "Error" /\ Ok /\ UNCHANGED <<running, clients, index, outgoing>>
  BY <1>7, <1>t DEF Ok, Silent, TypeOK
<1>8. CASE m.type = "Unsupported" /\ Reject(a)
  BY <1>8, <1>r, <1>t
<1> QED
  BY <1>1, <1>2, <1>3, <1>4, <1>5, <1>6, <1>7, <1>8
  DEF handle_message, handle_request_chunk, handle_stop_chunk

-----------------------------------------------------------------------------
(***************************************************************************)
(* The inductive invariant.                                                *)
(***************************************************************************)

\* What message_rx holds about an address: ClientConnected first and only
\* while the address is not in the table, ClientDisconnected last and only
\* once the connection task has ended.  A connection that has not ended is in
\* the table or about to be.
ChannelInv ==
    /\ ~running => message_rx = <<>> /\ \A a \in Addr : clients[a] = "None"
    /\ \A j \in DOMAIN message_rx :
          /\ message_rx[j].kind = "ClientConnected" =>
                /\ clients[message_rx[j].addr] = "None"
                /\ \A i \in 1 .. j - 1 : message_rx[i].addr # message_rx[j].addr
          /\ message_rx[j].kind # "ClientConnected" =>
                \/ clients[message_rx[j].addr] # "None"
                \/ \E i \in 1 .. j - 1 : /\ message_rx[i].kind = "ClientConnected"
                                         /\ message_rx[i].addr = message_rx[j].addr
          /\ message_rx[j].kind = "ClientDisconnected" =>
                /\ conn[message_rx[j].addr] = "none"
                /\ \A i \in j + 1 .. Len(message_rx) : message_rx[i].addr # message_rx[j].addr
    /\ running => \A a \in Addr : conn[a] # "none" =>
          \/ clients[a] # "None"
          \/ \E i \in DOMAIN message_rx : /\ message_rx[i].kind = "ClientConnected"
                                          /\ message_rx[i].addr = a

\* Nothing is sent to a peer before it has logged in, and nothing is left in
\* the channel of a connection that has ended.
QuietInv ==
    \A a \in Addr :
        /\ conn[a] # "open" => outgoing[a] = <<>>
        /\ running /\ clients[a] \notin Role => outgoing[a] = <<>>
        /\ running /\ conn[a] = "open" /\ clients[a] \notin Role => delivered[a] = Nothing
        /\ running /\ conn[a] = "open" /\ clients[a] \in Role =>
              delivered[a].login \/ outgoing[a] # <<>>

IInv ==
    /\ TypeOK
    /\ ChannelInv
    /\ QuietInv
    /\ OneClientPerRole
    /\ LoginFirst
    /\ StatusAccurate

\* The initial state satisfies the invariant.
LEMMA InitIInv == Init => IInv
<1> SUFFICES ASSUME Init PROVE IInv
  OBVIOUS
<1>1. TypeOK
  BY CapAssumption, TimeAssumption
  DEF Init, TypeOK, Nothing, Status, Time, ClientType
<1>2. ChannelInv /\ QuietInv /\ OneClientPerRole /\ LoginFirst /\ StatusAccurate
  BY DEF Init, ChannelInv, QuietInv, OneClientPerRole, LoginFirst, StatusAccurate, Role, Alive, Nothing
<1> QED BY <1>1, <1>2 DEF IInv

\* What Append and Tail do to a channel.
LEMMA AppendFacts ==
    ASSUME NEW S, NEW s \in Seq(S), NEW m \in S
    PROVE  /\ Append(s, m) \in Seq(S)
           /\ Len(Append(s, m)) = Len(s) + 1
           /\ DOMAIN Append(s, m) = 1 .. Len(s) + 1
           /\ \A i \in 1 .. Len(s) : Append(s, m)[i] = s[i]
           /\ Append(s, m)[Len(s) + 1] = m
OBVIOUS

LEMMA TailFacts ==
    ASSUME NEW S, NEW s \in Seq(S), s # <<>>
    PROVE  /\ Tail(s) \in Seq(S)
           /\ Len(s) \in Nat \ {0}
           /\ Len(Tail(s)) = Len(s) - 1
           /\ DOMAIN Tail(s) = 1 .. Len(s) - 1
           /\ \A i \in 1 .. Len(s) - 1 : Tail(s)[i] = s[i + 1]
           /\ Head(s) = s[1]
           /\ Head(s) \in S
OBVIOUS

\* A turn of handle_clients, whatever it found: the table changes at most at
\* the address at the head of the channel, unless the task panics.
LEMMA TurnEffects ==
    ASSUME TypeOK, ChannelInv, handle_clients,
           NEW h, h = Head(message_rx)
    PROVE  /\ running
           /\ h \in ServerMessage
           /\ h.addr \in Addr
           /\ h.kind = "ClientConnected" <=> clients[h.addr] = "None"
           /\ \/ h.kind = "ClientConnected" /\ ClientConnected(h.addr)
              \/ h.kind = "ClientDisconnected" /\ ClientDisconnected(h.addr)
              \/ /\ h.kind = "Message"
                 /\ h.message \in ClientPayload
                 /\ HandlerEffect(h.addr, h.message)
           /\ index' \in [Path -> Meta \cup {NoMeta}]
           /\ cancelled' \subseteq Addr
           /\ message_rx' = IF running' THEN Tail(message_rx) ELSE <<>>
           /\ UNCHANGED <<now, conn, delivered>>
<1>1. /\ running
      /\ message_rx # <<>>
      /\ message_rx \in Seq(ServerMessage)
  BY DEF handle_clients, TypeOK
<1>2. /\ h \in ServerMessage
      /\ h = message_rx[1]
      /\ 1 \in DOMAIN message_rx
  BY <1>1, TailFacts
<1>3. h.addr \in Addr
  BY <1>2 DEF ServerMessage
<1>4. h.kind = "ClientConnected" <=> clients[h.addr] = "None"
  BY <1>2 DEF ChannelInv
<1>5. CASE h.kind = "ClientConnected" /\ ClientConnected(h.addr)
  BY <1>1, <1>2, <1>3, <1>4, <1>5 DEF handle_clients, ClientConnected, Ok, TypeOK
<1>6. CASE h.kind = "ClientDisconnected" /\ ClientDisconnected(h.addr)
  BY <1>1, <1>2, <1>3, <1>4, <1>6 DEF handle_clients, ClientDisconnected, Ok, TypeOK
<1>7. CASE h.kind = "Message" /\ handle_message(h.addr, h.message)
  <2>1. h.message \in ClientPayload
    BY <1>2, <1>7 DEF ServerMessage
  <2>2. clients[h.addr] # "None"
    BY <1>4, <1>7
  <2> QED BY <1>1, <1>2, <1>3, <1>4, <1>7, <2>1, <2>2, HandlerEffects DEF handle_clients
<1> QED BY <1>5, <1>6, <1>7 DEF handle_clients

\* handle_login accepting a peer.
LEMMA LoginEffects ==
    ASSUME TypeOK, QuietInv, running, NEW a \in Addr, NEW m \in ClientPayload,
           m.type = "Login", MayLogin(a, m), handle_login(a, m)
    PROVE  /\ m.login_type \in Role
           /\ clients' = [clients EXCEPT ![a] = m.login_type]
           /\ UNCHANGED running
           /\ \/ ~Alive(a) /\ UNCHANGED outgoing
              \/ /\ Alive(a)
                 /\ outgoing[a] = <<>>
                 /\ delivered[a] = Nothing
                 /\ \/ /\ m.login_type = "Receiver"
                       /\ outgoing' = [outgoing EXCEPT ![a] =
                             IF exists_by_type("Sender")
                             THEN <<LoginSuccess, Connected>> ELSE <<LoginSuccess>>]
                    \/ /\ m.login_type = "Sender"
                       /\ notify_sender_status([outgoing EXCEPT ![a] = <<LoginSuccess>>], Connected)
<1>1. m.login_type \in Role
  BY DEF ClientPayload
<1>2. UNCHANGED running /\ clients' = [clients EXCEPT ![a] = m.login_type]
  BY DEF handle_login
<1>3. Alive(a) => outgoing[a] = <<>> /\ delivered[a] = Nothing
  BY DEF MayLogin, QuietInv, Alive, Role
<1>4. Alive(a) => Sent(outgoing, a, LoginSuccess) = [outgoing EXCEPT ![a] = <<LoginSuccess>>]
  BY <1>3 DEF Sent, TypeOK
<1>5. Alive(a) => Sent([outgoing EXCEPT ![a] = <<LoginSuccess>>], a, Connected)
                    = [outgoing EXCEPT ![a] = <<LoginSuccess, Connected>>]
  BY DEF Sent, TypeOK
<1> QED BY <1>1, <1>2, <1>3, <1>4, <1>5 DEF handle_login

\* notify_sender_status reaches the Receiver, if it is there and alive.
LEMMA NotifyEffects ==
    ASSUME TypeOK, OneClientPerRole, NEW m \in ServerPayload,
           NEW out \in [Addr -> Seq(ServerPayload)], notify_sender_status(out, m)
    PROVE  \/ /\ outgoing' = out
              /\ \A r \in Addr : clients[r] = "Receiver" => ~Alive(r)
           \/ \E r \in Addr : /\ clients[r] = "Receiver"
                              /\ Alive(r)
                              /\ Len(outgoing[r]) < OutgoingCap
                              /\ outgoing' = [out EXCEPT ![r] = Append(@, m)]
                              /\ \A b \in Addr : clients[b] = "Receiver" => b = r
<1>1. CASE get_by_type("Receiver") = {} /\ outgoing' = out
  BY <1>1 DEF get_by_type
<1>2. ASSUME NEW r \in get_by_type("Receiver"), CanSend(r), outgoing' = Sent(out, r, m)
      PROVE  \/ /\ outgoing' = out
                /\ \A b \in Addr : clients[b] = "Receiver" => ~Alive(b)
             \/ /\ clients[r] = "Receiver"
                /\ Alive(r)
                /\ Len(outgoing[r]) < OutgoingCap
                /\ outgoing' = [out EXCEPT ![r] = Append(@, m)]
                /\ \A b \in Addr : clients[b] = "Receiver" => b = r
  <2>1. \A b \in Addr : clients[b] = "Receiver" => b = r
    BY DEF OneClientPerRole, Role, get_by_type
  <2> QED BY <1>2, <2>1 DEF Sent, CanSend, get_by_type
<1> QED BY <1>1, <1>2 DEF notify_sender_status, get_by_type

\* The messages of the login exchange are messages of the server.
LEMMA LoginPayloads ==
    /\ LoginSuccess \in ServerPayload
    /\ Connected \in ServerPayload
    /\ Disconnected \in ServerPayload
    /\ LoginSuccess.type = "LoginSuccess"
    /\ Connected.type = "NotifySenderStatus" /\ Connected.status = "Connected"
    /\ Disconnected.type = "NotifySenderStatus" /\ Disconnected.status = "Disconnected"
BY DEF LoginSuccess, Connected, Disconnected, ServerPayload, Status

\* A turn of handle_clients preserves the type invariant.
LEMMA TurnTypeOK ==
    ASSUME IInv, handle_clients
    PROVE  TypeOK'
<1> DEFINE h == Head(message_rx)
<1> USE DEF IInv
<1>t. /\ running \in BOOLEAN
      /\ message_rx \in Seq(ServerMessage)
      /\ Len(message_rx) <= MessageCap
      /\ clients \in [Addr -> ClientType \cup {"None"}]
      /\ now \in Time
      /\ conn \in [Addr -> {"none", "open", "dropped"}]
      /\ outgoing \in [Addr -> Seq(ServerPayload)]
      /\ \A a \in Addr : Len(outgoing[a]) <= OutgoingCap
      /\ delivered \in [Addr -> [login : BOOLEAN, status : Status]]
      /\ MessageCap \in Nat /\ OutgoingCap \in Nat \ {0, 1}
  BY CapAssumption DEF TypeOK
<1>h. /\ running
      /\ h.addr \in Addr
      /\ h.kind = "ClientConnected" <=> clients[h.addr] = "None"
      /\ \/ h.kind = "ClientConnected" /\ ClientConnected(h.addr)
         \/ h.kind = "ClientDisconnected" /\ ClientDisconnected(h.addr)
         \/ /\ h.kind = "Message"
            /\ h.message \in ClientPayload
            /\ HandlerEffect(h.addr, h.message)
      /\ index' \in [Path -> Meta \cup {NoMeta}]
      /\ cancelled' \subseteq Addr
      /\ message_rx' = IF running' THEN Tail(message_rx) ELSE <<>>
      /\ UNCHANGED <<now, conn, delivered>>
  BY TurnEffects
<1>s. /\ message_rx' \in Seq(ServerMessage)
      /\ Len(message_rx') <= MessageCap
  <2>1. message_rx # <<>>
    BY DEF handle_clients
  <2> QED BY <1>h, <1>t, <2>1, TailFacts
<1>a. ASSUME NEW r \in Addr, NEW m \in ServerPayload, Len(outgoing[r]) < OutgoingCap,
             outgoing' = [outgoing EXCEPT ![r] = Append(@, m)]
      PROVE  /\ outgoing' \in [Addr -> Seq(ServerPayload)]
             /\ \A a \in Addr : Len(outgoing'[a]) <= OutgoingCap
  <2>1. /\ Append(outgoing[r], m) \in Seq(ServerPayload)
        /\ Len(Append(outgoing[r], m)) <= OutgoingCap
    BY <1>a, <1>t, AppendFacts
  <2> QED BY <1>a, <1>t, <2>1
<1>o. /\ running' \in BOOLEAN
      /\ clients' \in [Addr -> ClientType \cup {"None"}]
      /\ outgoing' \in [Addr -> Seq(ServerPayload)]
      /\ \A a \in Addr : Len(outgoing'[a]) <= OutgoingCap
  <2>1. CASE h.kind = "ClientConnected" /\ ClientConnected(h.addr)
    BY <1>h, <1>t, <2>1 DEF ClientConnected, ClientType
  <2>2. CASE h.kind = "ClientDisconnected" /\ ClientDisconnected(h.addr)
    <3>1. running' \in BOOLEAN /\ clients' \in [Addr -> ClientType \cup {"None"}]
      BY <1>h, <1>t, <2>2 DEF ClientDisconnected, ClientType
    <3>2. CASE UNCHANGED outgoing
      BY <3>1, <3>2, <1>t
    <3>3. CASE notify_sender_status(outgoing, Disconnected)
      <4>1. TypeOK /\ OneClientPerRole /\ Disconnected \in ServerPayload
        BY LoginPayloads
      <4>2. \/ outgoing' = outgoing
            \/ \E r \in Addr : /\ Len(outgoing[r]) < OutgoingCap
                               /\ outgoing' = [outgoing EXCEPT ![r] = Append(@, Disconnected)]
        BY <3>3, <4>1, <1>t, NotifyEffects, Zenon
      <4> QED BY <3>1, <4>1, <4>2, <1>t, <1>a
    <3> QED BY <2>2, <3>2, <3>3 DEF ClientDisconnected
  <2>3. CASE h.kind = "Message" /\ h.message \in ClientPayload /\ HandlerEffect(h.addr, h.message)
    <3>1. CASE Silent
      BY <3>1, <1>t DEF Silent
    <3>2. CASE \E r \in Addr, p \in ServerPayload : Relays(r, p)
      BY <3>2, <1>t, <1>a DEF Relays
    <3>3. CASE Panic
      BY <3>3, <1>t DEF Panic
    <3>4. CASE /\ h.message.type = "Login"
               /\ MayLogin(h.addr, h.message)
               /\ handle_login(h.addr, h.message)
      <4>1. /\ h.message.login_type \in Role
            /\ clients' = [clients EXCEPT ![h.addr] = h.message.login_type]
            /\ UNCHANGED running
            /\ \/ ~Alive(h.addr) /\ UNCHANGED outgoing
               \/ outgoing' = [outgoing EXCEPT ![h.addr] =
                       IF exists_by_type("Sender")
                       THEN <<LoginSuccess, Connected>> ELSE <<LoginSuccess>>]
               \/ notify_sender_status([outgoing EXCEPT ![h.addr] = <<LoginSuccess>>], Connected)
        BY <1>h, <2>3, <3>4, LoginEffects
      <4>2. running' \in BOOLEAN /\ clients' \in [Addr -> ClientType \cup {"None"}]
        BY <1>h, <1>t, <4>1 DEF ClientType
      <4>3. /\ <<LoginSuccess>> \in Seq(ServerPayload) /\ Len(<<LoginSuccess>>) = 1
            /\ <<LoginSuccess, Connected>> \in Seq(ServerPayload)
            /\ Len(<<LoginSuccess, Connected>>) = 2
        BY LoginPayloads
      <4>4. CASE UNCHANGED outgoing
        BY <4>4, <4>2, <1>t
      <4>5. CASE outgoing' = [outgoing EXCEPT ![h.addr] =
                       IF exists_by_type("Sender")
                       THEN <<LoginSuccess, Connected>> ELSE <<LoginSuccess>>]
        BY <4>5, <4>2, <4>3, <1>t, <1>h
      <4>6. CASE notify_sender_status([outgoing EXCEPT ![h.addr] = <<LoginSuccess>>], Connected)
        <5> DEFINE out == [outgoing EXCEPT ![h.addr] = <<LoginSuccess>>]
        <5>1. out \in [Addr -> Seq(ServerPayload)] /\ \A a \in Addr : Len(out[a]) <= OutgoingCap
          BY <4>3, <1>t, <1>h
        <5>2. CASE outgoing' = out
          BY <5>1, <5>2, <4>2
        <5>3. ASSUME NEW r \in Addr, clients[r] = "Receiver", Len(outgoing[r]) < OutgoingCap,
                     outgoing' = [out EXCEPT ![r] = Append(@, Connected)]
              PROVE  /\ outgoing' \in [Addr -> Seq(ServerPayload)]
                     /\ \A a \in Addr : Len(outgoing'[a]) <= OutgoingCap
          <6>1. r # h.addr
            BY <5>3, <3>4 DEF MayLogin
          <6>2. /\ Append(out[r], Connected) \in Seq(ServerPayload)
                /\ Len(Append(out[r], Connected)) <= OutgoingCap
            BY <5>3, <6>1, <5>1, <1>t, LoginPayloads, AppendFacts
          <6> QED BY <5>1, <5>3, <6>2
        <5> HIDE DEF out
        <5>4. notify_sender_status(out, Connected)
          BY <4>6 DEF out
        <5> QED BY <5>1, <5>2, <5>3, <5>4, <4>2, NotifyEffects, LoginPayloads
      <4> QED BY <4>1, <4>4, <4>5, <4>6
    <3> QED BY <2>3, <3>1, <3>2, <3>3, <3>4 DEF HandlerEffect
  <2> QED BY <1>h, <2>1, <2>2, <2>3
<1> QED BY <1>t, <1>h, <1>s, <1>o DEF TypeOK

\* The actions of the connection tasks preserve the type invariant.
LEMMA ConnTypeOK ==
    ASSUME IInv, NEW a \in Addr,
           \/ Accept(a) \/ Refuse(a) \/ (\E m \in PeerPayload : Incoming(a, m))
           \/ IncomingPanics(a) \/ Outgoing(a) \/ EndSelect(a) \/ Disconnect(a)
    PROVE  TypeOK'
<1> USE DEF IInv
<1>t. /\ message_rx \in Seq(ServerMessage)
      /\ outgoing \in [Addr -> Seq(ServerPayload)]
      /\ \A b \in Addr : Len(outgoing[b]) <= OutgoingCap
      /\ delivered \in [Addr -> [login : BOOLEAN, status : Status]]
      /\ MessageCap \in Nat /\ OutgoingCap \in Nat \ {0, 1}
  BY CapAssumption DEF TypeOK
<1>n. Nothing \in [login : BOOLEAN, status : Status]
  BY DEF Nothing, Status
<1>a. ASSUME NEW it \in ServerMessage, Room, message_rx' = Append(message_rx, it)
      PROVE  message_rx' \in Seq(ServerMessage) /\ Len(message_rx') <= MessageCap
  BY <1>a, <1>t, AppendFacts DEF Room
<1>1. CASE Accept(a)
  <2>1. [kind |-> "ClientConnected", addr |-> a] \in ServerMessage
    BY DEF ServerMessage
  <2> QED BY <1>1, <1>a, <1>n, <1>t, <2>1 DEF Accept, TypeOK
<1>2. CASE Refuse(a)
  BY <1>2 DEF Refuse, TypeOK, vars
<1>3. ASSUME NEW m \in PeerPayload, Incoming(a, m)
      PROVE  TypeOK'
  <2>1. [kind |-> "Message", addr |-> a, message |-> m] \in ServerMessage
    BY DEF ServerMessage, PeerPayload
  <2> QED BY <1>3, <1>a, <2>1 DEF Incoming, TypeOK, connVars
<1>4. CASE IncomingPanics(a) \/ EndSelect(a)
  <2>1. /\ outgoing' \in [Addr -> Seq(ServerPayload)]
        /\ \A b \in Addr : Len(outgoing'[b]) <= OutgoingCap
    <3>1. outgoing' = [outgoing EXCEPT ![a] = <<>>]
      BY <1>4 DEF IncomingPanics, EndSelect
    <3>2. <<>> \in Seq(ServerPayload) /\ Len(<<>>) = 0
      OBVIOUS
    <3> QED BY <1>t, <3>1, <3>2
  <2> QED BY <1>4, <2>1 DEF IncomingPanics, EndSelect, TypeOK, taskVars
<1>5. CASE Outgoing(a)
  <2> DEFINE m == Head(outgoing[a])
  <2>1. /\ Tail(outgoing[a]) \in Seq(ServerPayload)
        /\ Len(Tail(outgoing[a])) <= OutgoingCap
        /\ m \in ServerPayload
    BY <1>5, <1>t, TailFacts DEF Outgoing
  <2>2. m.type = "NotifySenderStatus" => m.status \in Status
    BY <2>1 DEF ServerPayload
  <2>3. delivered' \in [Addr -> [login : BOOLEAN, status : Status]]
    BY <1>5, <1>t, <2>2 DEF Outgoing
  <2> QED BY <1>5, <1>t, <2>1, <2>3 DEF Outgoing, TypeOK, taskVars
<1>6. CASE Disconnect(a)
  <2>1. [kind |-> "ClientDisconnected", addr |-> a] \in ServerMessage
    BY DEF ServerMessage
  <2> QED BY <1>6, <1>a, <1>t, <2>1 DEF Disconnect, TypeOK
<1> QED BY <1>1, <1>2, <1>3, <1>4, <1>5, <1>6

\* A turn of handle_clients preserves the order of message_rx.
LEMMA TurnChannelInv ==
    ASSUME IInv, handle_clients
    PROVE  ChannelInv'
<1> DEFINE h == Head(message_rx)
<1> USE DEF IInv
<1>t. /\ message_rx \in Seq(ServerMessage)
      /\ message_rx # <<>>
      /\ \A i \in DOMAIN message_rx : message_rx[i].addr \in Addr
      /\ clients \in [Addr -> ClientType \cup {"None"}]
  BY DEF TypeOK, handle_clients, ServerMessage
<1>h. /\ running
      /\ h.addr \in Addr
      /\ h.kind = "ClientConnected" <=> clients[h.addr] = "None"
      /\ \/ h.kind = "ClientConnected" /\ ClientConnected(h.addr)
         \/ h.kind = "ClientDisconnected" /\ ClientDisconnected(h.addr)
         \/ /\ h.kind = "Message"
            /\ h.message \in ClientPayload
            /\ HandlerEffect(h.addr, h.message)
      /\ message_rx' = IF running' THEN Tail(message_rx) ELSE <<>>
      /\ UNCHANGED <<now, conn, delivered>>
  BY TurnEffects
<1>c. \/ ~running' /\ clients' = [a \in Addr |-> "None"]
      \/ /\ running'
         /\ \A b \in Addr : b # h.addr => clients'[b] = clients[b]
         /\ clients'[h.addr] = "None" <=> h.kind = "ClientDisconnected"
  <2>1. CASE h.kind = "ClientConnected" /\ ClientConnected(h.addr)
    BY <1>h, <1>t, <2>1 DEF ClientConnected
  <2>2. CASE h.kind = "ClientDisconnected" /\ ClientDisconnected(h.addr)
    BY <1>h, <1>t, <2>2 DEF ClientDisconnected
  <2>3. CASE h.kind = "Message" /\ h.message \in ClientPayload /\ HandlerEffect(h.addr, h.message)
    <3>1. CASE Silent \/ \E r \in Addr, p \in ServerPayload : Relays(r, p)
      BY <1>h, <2>3, <3>1 DEF Silent, Relays
    <3>2. CASE Panic
      BY <3>2 DEF Panic
    <3>3. CASE /\ h.message.type = "Login"
               /\ MayLogin(h.addr, h.message)
               /\ handle_login(h.addr, h.message)
      BY <1>h, <1>t, <2>3, <3>3, LoginEffects DEF Role
    <3> QED BY <2>3, <3>1, <3>2, <3>3 DEF HandlerEffect
  <2> QED BY <1>h, <2>1, <2>2, <2>3
<1>1. CASE ~running' /\ clients' = [a \in Addr |-> "None"]
  BY <1>1, <1>h DEF ChannelInv
<1>2. CASE /\ running'
           /\ \A b \in Addr : b # h.addr => clients'[b] = clients[b]
           /\ clients'[h.addr] = "None" <=> h.kind = "ClientDisconnected"
  <2> DEFINE q == message_rx
             r == Tail(message_rx)
  <2>1. /\ message_rx' = r
        /\ Len(q) \in Nat \ {0}
        /\ DOMAIN q = 1 .. Len(q)
        /\ Len(r) = Len(q) - 1
        /\ DOMAIN r = 1 .. Len(q) - 1
        /\ \A i \in 1 .. Len(q) - 1 : r[i] = q[i + 1]
        /\ h = q[1]
    BY <1>2, <1>h, <1>t, TailFacts
  <2>2. ASSUME NEW j \in DOMAIN r
        PROVE  /\ r[j].kind = "ClientConnected" =>
                    /\ clients'[r[j].addr] = "None"
                    /\ \A i \in 1 .. j - 1 : r[i].addr # r[j].addr
               /\ r[j].kind # "ClientConnected" =>
                    \/ clients'[r[j].addr] # "None"
                    \/ \E i \in 1 .. j - 1 : r[i].kind = "ClientConnected" /\ r[i].addr = r[j].addr
               /\ r[j].kind = "ClientDisconnected" =>
                    /\ conn'[r[j].addr] = "none"
                    /\ \A i \in j + 1 .. Len(r) : r[i].addr # r[j].addr
    <3>1. /\ j \in Nat /\ j + 1 \in DOMAIN q /\ 1 \in DOMAIN q
          /\ r[j] = q[j + 1]
          /\ r[j].addr \in Addr
          /\ \A i \in 1 .. j - 1 : r[i] = q[i + 1] /\ i + 1 \in 1 .. j
          /\ 1 \in 1 .. (j + 1) - 1
      BY <2>1, <1>t
    <3>2. h.kind = "ClientDisconnected" => r[j].addr # h.addr
      BY <2>1, <3>1 DEF ChannelInv
    <3>3. r[j].kind = "ClientConnected" =>
                    /\ clients'[r[j].addr] = "None"
                    /\ \A i \in 1 .. j - 1 : r[i].addr # r[j].addr
      <4>1. r[j].kind = "ClientConnected" =>
                    /\ clients[r[j].addr] = "None"
                    /\ \A i \in 1 .. (j + 1) - 1 : q[i].addr # r[j].addr
        BY <3>1 DEF ChannelInv
      <4>2. r[j].kind = "ClientConnected" => r[j].addr # h.addr
        BY <4>1, <3>1, <2>1
      <4> QED BY <4>1, <4>2, <3>1, <2>1, <1>2
    <3>4. r[j].kind # "ClientConnected" =>
                    \/ clients'[r[j].addr] # "None"
                    \/ \E i \in 1 .. j - 1 : r[i].kind = "ClientConnected" /\ r[i].addr = r[j].addr
      <4> SUFFICES ASSUME r[j].kind # "ClientConnected", r[j].addr # h.addr
                   PROVE  \/ clients'[r[j].addr] # "None"
                          \/ \E i \in 1 .. j - 1 : r[i].kind = "ClientConnected" /\ r[i].addr = r[j].addr
        BY <1>2, <3>2
      <4>1. \/ clients[r[j].addr] # "None"
            \/ \E i \in 1 .. (j + 1) - 1 : q[i].kind = "ClientConnected" /\ q[i].addr = r[j].addr
        BY <3>1 DEF ChannelInv
      <4>2. ASSUME NEW i \in 1 .. (j + 1) - 1, q[i].kind = "ClientConnected", q[i].addr = r[j].addr
            PROVE  \E k \in 1 .. j - 1 : r[k].kind = "ClientConnected" /\ r[k].addr = r[j].addr
        <5>1. i # 1
          BY <2>1, <4>2
        <5>2. i - 1 \in 1 .. j - 1 /\ r[i - 1] = q[i]
          BY <5>1, <3>1, <2>1
        <5> QED BY <5>2, <4>2
      <4> QED BY <4>1, <4>2, <1>2, <3>1
    <3>5. r[j].kind = "ClientDisconnected" =>
                    /\ conn'[r[j].addr] = "none"
                    /\ \A i \in j + 1 .. Len(r) : r[i].addr # r[j].addr
      <4>1. r[j].kind = "ClientDisconnected" =>
                    /\ conn[r[j].addr] = "none"
                    /\ \A i \in (j + 1) + 1 .. Len(q) : q[i].addr # r[j].addr
        BY <3>1 DEF ChannelInv
      <4>2. \A i \in j + 1 .. Len(r) : r[i] = q[i + 1] /\ i + 1 \in (j + 1) + 1 .. Len(q)
        BY <2>1, <3>1
      <4> QED BY <4>1, <4>2, <1>h
    <3> QED BY <3>3, <3>4, <3>5
  <2>3. ASSUME NEW a \in Addr, conn'[a] # "none"
        PROVE  \/ clients'[a] # "None"
               \/ \E i \in DOMAIN r : r[i].kind = "ClientConnected" /\ r[i].addr = a
    <3>1. \/ clients[a] # "None"
          \/ \E i \in DOMAIN q : q[i].kind = "ClientConnected" /\ q[i].addr = a
      BY <1>h, <2>3 DEF ChannelInv
    <3>2. CASE a = h.addr
      <4>1. h.kind # "ClientDisconnected"
        BY <2>1, <2>3, <3>2, <1>h DEF ChannelInv
      <4> QED BY <4>1, <3>2, <1>2
    <3>3. ASSUME a # h.addr, NEW i \in DOMAIN q, q[i].kind = "ClientConnected", q[i].addr = a
          PROVE  \E k \in DOMAIN r : r[k].kind = "ClientConnected" /\ r[k].addr = a
      <4>1. i # 1
        BY <2>1, <3>3
      <4>2. i - 1 \in DOMAIN r /\ r[i - 1] = q[i]
        BY <2>1, <4>1
      <4> QED BY <4>2, <3>3
    <3> QED BY <3>1, <3>2, <3>3, <1>2
  <2> QED
    <3> HIDE DEF r
    <3> QED BY <1>2, <2>1, <2>2, <2>3 DEF ChannelInv
<1> QED BY <1>c, <1>1, <1>2

\* The connection tasks preserve the order of message_rx.
LEMMA ConnChannelInv ==
    ASSUME IInv, NEW a \in Addr,
           \/ Accept(a) \/ (\E m \in PeerPayload : Incoming(a, m))
           \/ IncomingPanics(a) \/ Outgoing(a) \/ EndSelect(a) \/ Disconnect(a)
    PROVE  ChannelInv'
<1> USE DEF IInv
<1>t. /\ message_rx \in Seq(ServerMessage)
      /\ conn \in [Addr -> {"none", "open", "dropped"}]
      /\ clients \in [Addr -> ClientType \cup {"None"}]
      /\ \A i \in DOMAIN message_rx : message_rx[i].addr \in Addr
  BY DEF TypeOK, ServerMessage
<1>p. ASSUME NEW it \in ServerMessage, it.addr = a, running, UNCHANGED <<running, clients>>,
             message_rx' = Append(message_rx, it),
             it.kind = "ClientConnected" =>
                /\ clients[a] = "None"
                /\ \A i \in DOMAIN message_rx : message_rx[i].addr # a,
             it.kind # "ClientConnected" => conn[a] # "none",
             conn' = IF it.kind = "ClientConnected" THEN [conn EXCEPT ![a] = "open"]
                     ELSE IF it.kind = "Message" THEN conn ELSE [conn EXCEPT ![a] = "none"]
      PROVE  ChannelInv'
  <2> DEFINE q == message_rx
             r == Append(message_rx, it)
  <2>1. /\ Len(q) \in Nat
        /\ DOMAIN q = 1 .. Len(q)
        /\ Len(r) = Len(q) + 1
        /\ DOMAIN r = 1 .. Len(q) + 1
        /\ \A i \in 1 .. Len(q) : r[i] = q[i]
        /\ r[Len(q) + 1] = it
    BY <1>t, AppendFacts
  <2>2. \A i \in DOMAIN q : q[i].kind = "ClientDisconnected" => q[i].addr # a
    BY <1>p, <1>t DEF ChannelInv
  <2>3. it.kind # "ClientConnected" =>
            \/ clients[a] # "None"
            \/ \E i \in DOMAIN q : q[i].kind = "ClientConnected" /\ q[i].addr = a
    BY <1>p DEF ChannelInv
  <2>4. ASSUME NEW j \in DOMAIN r
        PROVE  /\ r[j].kind = "ClientConnected" =>
                    /\ clients[r[j].addr] = "None"
                    /\ \A i \in 1 .. j - 1 : r[i].addr # r[j].addr
               /\ r[j].kind # "ClientConnected" =>
                    \/ clients[r[j].addr] # "None"
                    \/ \E i \in 1 .. j - 1 : r[i].kind = "ClientConnected" /\ r[i].addr = r[j].addr
               /\ r[j].kind = "ClientDisconnected" =>
                    /\ conn'[r[j].addr] = "none"
                    /\ \A i \in j + 1 .. Len(r) : r[i].addr # r[j].addr
    <3>1. CASE j = Len(q) + 1
      <4>1. /\ r[j] = it
            /\ \A i \in 1 .. j - 1 : i \in DOMAIN q /\ r[i] = q[i]
            /\ \A i \in DOMAIN q : i \in 1 .. j - 1
            /\ j + 1 .. Len(r) = {}
        BY <2>1, <3>1
      <4>2. it.kind = "ClientDisconnected" => conn'[a] = "none"
        BY <1>p, <1>t
      <4> HIDE DEF r
      <4> QED BY <4>1, <4>2, <1>p, <2>3
    <3>2. CASE j \in DOMAIN q
      <4>1. /\ r[j] = q[j]
            /\ \A i \in 1 .. j - 1 : i \in DOMAIN q /\ r[i] = q[i]
            /\ \A i \in j + 1 .. Len(r) : (i \in j + 1 .. Len(q) /\ r[i] = q[i]) \/ r[i] = it
        BY <2>1, <3>2
      <4>2. r[j].kind = "ClientDisconnected" => conn'[r[j].addr] = "none"
        <5>1. r[j].kind = "ClientDisconnected" => conn[r[j].addr] = "none" /\ r[j].addr \in Addr
          BY <4>1, <3>2, <1>t DEF ChannelInv
        <5> QED BY <5>1, <2>2, <4>1, <3>2, <1>p, <1>t
      <4>3. /\ q[j].kind = "ClientConnected" =>
                    /\ clients[q[j].addr] = "None"
                    /\ \A i \in 1 .. j - 1 : q[i].addr # q[j].addr
            /\ q[j].kind # "ClientConnected" =>
                    \/ clients[q[j].addr] # "None"
                    \/ \E i \in 1 .. j - 1 : q[i].kind = "ClientConnected" /\ q[i].addr = q[j].addr
            /\ q[j].kind = "ClientDisconnected" =>
                    /\ q[j].addr # a
                    /\ \A i \in j + 1 .. Len(q) : q[i].addr # q[j].addr
        BY <3>2, <2>2 DEF ChannelInv
      <4> HIDE DEF r
      <4> QED BY <4>1, <4>2, <4>3, <1>p
    <3> QED BY <3>1, <3>2, <2>1
  <2>5. ASSUME NEW b \in Addr, conn'[b] # "none"
        PROVE  \/ clients[b] # "None"
               \/ \E i \in DOMAIN r : r[i].kind = "ClientConnected" /\ r[i].addr = b
    <3>1. CASE b = a /\ it.kind = "ClientConnected"
      BY <3>1, <2>1, <1>p
    <3>2. CASE ~(b = a /\ it.kind = "ClientConnected")
      <4>1. conn[b] # "none"
        BY <3>2, <2>5, <1>p, <1>t
      <4>2. \/ clients[b] # "None"
            \/ \E i \in DOMAIN q : q[i].kind = "ClientConnected" /\ q[i].addr = b
        BY <4>1, <1>p DEF ChannelInv
      <4>3. \A i \in DOMAIN q : i \in DOMAIN r /\ r[i] = q[i]
        BY <2>1
      <4> QED BY <4>2, <4>3
    <3> QED BY <3>1, <3>2
  <2> HIDE DEF r
  <2>6. message_rx' = r /\ clients' = clients /\ running'
    BY <1>p DEF r
  <2> QED BY <2>4, <2>5, <2>6 DEF ChannelInv
<1>1. CASE Accept(a)
  <2>1. [kind |-> "ClientConnected", addr |-> a] \in ServerMessage
    BY DEF ServerMessage
  <2> QED BY <1>1, <1>p, <2>1 DEF Accept
<1>2. ASSUME NEW m \in PeerPayload, Incoming(a, m)
      PROVE  ChannelInv'
  <2>1. [kind |-> "Message", addr |-> a, message |-> m] \in ServerMessage
    BY DEF ServerMessage, PeerPayload
  <2> QED BY <1>2, <1>p, <2>1 DEF Incoming, connVars
<1>3. CASE IncomingPanics(a)
  BY <1>3 DEF IncomingPanics, taskVars, ChannelInv
<1>4. CASE Outgoing(a)
  BY <1>4 DEF Outgoing, taskVars, ChannelInv
<1>5. CASE EndSelect(a)
  <2>1. \A b \in Addr : conn'[b] = "none" <=> conn[b] = "none"
    BY <1>5, <1>t DEF EndSelect
  <2>2. UNCHANGED <<running, message_rx, clients>>
    BY <1>5 DEF EndSelect, taskVars
  <2> QED BY <2>1, <2>2, <1>t DEF ChannelInv
<1>6. CASE Disconnect(a) /\ running
  <2>1. [kind |-> "ClientDisconnected", addr |-> a] \in ServerMessage
    BY DEF ServerMessage
  <2> QED BY <1>6, <1>p, <2>1 DEF Disconnect
<1>7. CASE Disconnect(a) /\ ~running
  BY <1>7, <1>t DEF Disconnect, ChannelInv
<1> QED BY <1>1, <1>2, <1>3, <1>4, <1>5, <1>6, <1>7

-----------------------------------------------------------------------------
(***************************************************************************)
(* The last status in a channel.                                           *)
(***************************************************************************)

\* A status put into the channel is then the last one.
LEMMA LastAppendStatus ==
    ASSUME NEW s \in Seq(ServerPayload), NEW m \in ServerPayload,
           m.type = "NotifySenderStatus", NEW d, NEW st
    PROVE  LastIn(Append(s, m), d, st) <=> m.status = st
<1> DEFINE r == Append(s, m)
           n == Len(s) + 1
<1>1. /\ Len(s) \in Nat
      /\ DOMAIN r = 1 .. n
      /\ n \in DOMAIN r
      /\ r[n] = m
      /\ \A j \in DOMAIN r : ~(j > n)
      /\ \A i \in DOMAIN r : i # n => n > i
  BY AppendFacts
<1> HIDE DEF r, n
<1> QED BY <1>1 DEF LastIn, r

\* Any other message leaves the last status as it was.
LEMMA LastAppendOther ==
    ASSUME NEW s \in Seq(ServerPayload), NEW m \in ServerPayload,
           m.type # "NotifySenderStatus", NEW d, NEW st
    PROVE  LastIn(Append(s, m), d, st) <=> LastIn(s, d, st)
<1> DEFINE r == Append(s, m)
           n == Len(s) + 1
<1>1. /\ Len(s) \in Nat
      /\ DOMAIN s = 1 .. Len(s)
      /\ DOMAIN r = 1 .. n
      /\ r[n] = m
      /\ \A i \in DOMAIN s : i \in DOMAIN r /\ r[i] = s[i]
      /\ \A i \in DOMAIN r : i = n \/ i \in DOMAIN s
  BY AppendFacts
<1> HIDE DEF r, n
<1> QED BY <1>1 DEF LastIn, r

\* Delivering the head of the channel leaves the last status as it was.
LEMMA LastTail ==
    ASSUME NEW s \in Seq(ServerPayload), s # <<>>, NEW d, NEW st
    PROVE  LastIn(Tail(s), IF Head(s).type = "NotifySenderStatus" THEN Head(s).status ELSE d, st)
               <=> LastIn(s, d, st)
<1> DEFINE r == Tail(s)
           e == IF Head(s).type = "NotifySenderStatus" THEN Head(s).status ELSE d
<1>1. /\ Len(s) \in Nat \ {0}
      /\ DOMAIN s = 1 .. Len(s)
      /\ 1 \in DOMAIN s
      /\ DOMAIN r = 1 .. Len(s) - 1
      /\ \A i \in DOMAIN r : i + 1 \in DOMAIN s /\ r[i] = s[i + 1]
      /\ \A i \in DOMAIN s : i = 1 \/ (i - 1 \in DOMAIN r /\ s[i] = r[i - 1])
      /\ Head(s) = s[1]
  BY TailFacts
<1>2. ASSUME LastIn(s, d, st) PROVE LastIn(r, e, st)
  <2>1. CASE (\A i \in DOMAIN s : s[i].type # "NotifySenderStatus") /\ d = st
    BY <1>1, <2>1 DEF LastIn
  <2>2. ASSUME NEW i \in DOMAIN s, s[i].type = "NotifySenderStatus", s[i].status = st,
               \A j \in DOMAIN s : j > i => s[j].type # "NotifySenderStatus"
        PROVE  LastIn(r, e, st)
    <3>1. CASE i = 1
      <4>1. \A j \in DOMAIN r : r[j].type # "NotifySenderStatus"
        BY <1>1, <2>2, <3>1
      <4> QED BY <1>1, <2>2, <3>1, <4>1 DEF LastIn
    <3>2. CASE i # 1
      <4>1. i - 1 \in DOMAIN r /\ s[i] = r[i - 1]
        BY <1>1, <3>2
      <4>2. \A j \in DOMAIN r : j > i - 1 => r[j].type # "NotifySenderStatus"
        BY <1>1, <2>2
      <4> HIDE DEF r, e
      <4> QED BY <4>1, <4>2, <2>2 DEF LastIn
    <3> QED BY <3>1, <3>2
  <2> QED BY <1>2, <2>1, <2>2 DEF LastIn
<1>3. ASSUME LastIn(r, e, st) PROVE LastIn(s, d, st)
  <2>1. CASE (\A i \in DOMAIN r : r[i].type # "NotifySenderStatus") /\ e = st
    <3>1. \A i \in DOMAIN s : i # 1 => s[i].type # "NotifySenderStatus"
      BY <1>1, <2>1
    <3>2. CASE s[1].type = "NotifySenderStatus"
      <4>1. s[1].status = st /\ \A j \in DOMAIN s : j > 1 => s[j].type # "NotifySenderStatus"
        BY <1>1, <2>1, <3>1, <3>2
      <4> QED BY <1>1, <3>2, <4>1 DEF LastIn
    <3>3. CASE s[1].type # "NotifySenderStatus"
      BY <1>1, <2>1, <3>1, <3>3 DEF LastIn
    <3> QED BY <3>2, <3>3
  <2>2. ASSUME NEW i \in DOMAIN r, r[i].type = "NotifySenderStatus", r[i].status = st,
               \A j \in DOMAIN r : j > i => r[j].type # "NotifySenderStatus"
        PROVE  LastIn(s, d, st)
    <3>1. i + 1 \in DOMAIN s /\ s[i + 1] = r[i]
      BY <1>1
    <3>2. ASSUME NEW j \in DOMAIN s, j > i + 1
          PROVE  s[j].type # "NotifySenderStatus"
      <4>1. j - 1 \in DOMAIN r /\ s[j] = r[j - 1] /\ j - 1 > i
        BY <1>1, <3>2
      <4> QED BY <4>1, <2>2
    <3> QED BY <3>1, <3>2, <2>2 DEF LastIn
  <2> QED BY <1>3, <2>1, <2>2 DEF LastIn
<1> QED BY <1>2, <1>3

-----------------------------------------------------------------------------
(***************************************************************************)
(* Roles, the login exchange and the status of the sender.                 *)
(***************************************************************************)
PeerInv == QuietInv /\ OneClientPerRole /\ LoginFirst /\ StatusAccurate

\* The login invariant of one connection.
LoginFirstIn(s, login) ==
    \A i \in DOMAIN s : s[i].type = "LoginSuccess" <=> (i = 1 /\ ~login)

\* A message other than LoginSuccess may follow once there was a LoginSuccess.
LEMMA LoginFirstAppend ==
    ASSUME NEW s \in Seq(ServerPayload), NEW m \in ServerPayload, NEW login \in BOOLEAN,
           m.type # "LoginSuccess", login \/ s # <<>>, LoginFirstIn(s, login)
    PROVE  LoginFirstIn(Append(s, m), login) /\ Append(s, m) # <<>>
<1> DEFINE r == Append(s, m)
           n == Len(s) + 1
<1>1. /\ Len(s) \in Nat
      /\ DOMAIN s = 1 .. Len(s)
      /\ DOMAIN r = 1 .. n
      /\ r[n] = m
      /\ s # <<>> => n # 1
      /\ \A i \in DOMAIN r : i = n \/ (i \in DOMAIN s /\ r[i] = s[i])
      /\ r # <<>>
  BY AppendFacts
<1> HIDE DEF r, n
<1> QED BY <1>1 DEF LoginFirstIn, r

\* Putting one more message into the channel of a live identified client.
LEMMA AppendPeerInv ==
    ASSUME TypeOK, PeerInv, running, NEW r \in Addr, NEW m \in ServerPayload,
           clients[r] \in Role, Alive(r), m.type # "LoginSuccess",
           outgoing' = [outgoing EXCEPT ![r] = Append(@, m)],
           UNCHANGED <<running, conn, delivered>>
    PROVE  /\ \A a \in Addr : conn'[a] # "open" => outgoing'[a] = <<>>
           /\ \A a \in Addr : clients[a] \notin Role => outgoing'[a] = outgoing[a]
           /\ \A a \in Addr : outgoing[a] # <<>> => outgoing'[a] # <<>>
           /\ LoginFirst'
           /\ \A a \in Addr, st \in Status :
                 IF m.type = "NotifySenderStatus" /\ a = r
                 THEN LastStatus(a, st)' <=> m.status = st
                 ELSE LastStatus(a, st)' <=> LastStatus(a, st)
<1> DEFINE s == outgoing[r]
<1>1. /\ s \in Seq(ServerPayload)
      /\ delivered[r].login \in BOOLEAN
      /\ delivered[r].login \/ s # <<>>
      /\ LoginFirstIn(s, delivered[r].login)
      /\ outgoing'[r] = Append(s, m)
      /\ \A a \in Addr : a # r => outgoing'[a] = outgoing[a]
  BY DEF TypeOK, PeerInv, QuietInv, LoginFirst, LoginFirstIn, Alive
<1>2. LoginFirstIn(outgoing'[r], delivered[r].login) /\ outgoing'[r] # <<>>
  BY <1>1, LoginFirstAppend
<1>3. LoginFirst'
  BY <1>1, <1>2 DEF LoginFirst, LoginFirstIn, PeerInv
<1>4. ASSUME NEW a \in Addr, NEW st \in Status
      PROVE  IF m.type = "NotifySenderStatus" /\ a = r
             THEN LastStatus(a, st)' <=> m.status = st
             ELSE LastStatus(a, st)' <=> LastStatus(a, st)
  <2>1. CASE a = r
    BY <1>1, <2>1, LastAppendStatus, LastAppendOther DEF LastStatus
  <2>2. CASE a # r
    BY <1>1, <2>2 DEF LastStatus
  <2> QED BY <2>1, <2>2
<1>5. \A a \in Addr : conn'[a] # "open" => outgoing'[a] = <<>>
  BY <1>1 DEF PeerInv, QuietInv, Alive
<1> QED BY <1>1, <1>2, <1>3, <1>4, <1>5

\* A relayed message disturbs nothing.
LEMMA RelayPeerInv ==
    ASSUME TypeOK, PeerInv, running, NEW r \in Addr, NEW m \in ServerPayload, Relays(r, m),
           UNCHANGED <<conn, delivered>>
    PROVE  PeerInv'
<1>1. /\ \A a \in Addr : conn'[a] # "open" => outgoing'[a] = <<>>
      /\ \A a \in Addr : clients[a] \notin Role => outgoing'[a] = outgoing[a]
      /\ \A a \in Addr : outgoing[a] # <<>> => outgoing'[a] # <<>>
      /\ LoginFirst'
      /\ \A a \in Addr, st \in Status : LastStatus(a, st)' <=> LastStatus(a, st)
  BY AppendPeerInv DEF Relays
<1>2. UNCHANGED <<running, clients>>
  BY DEF Relays
<1>3. QuietInv' /\ OneClientPerRole'
  BY <1>1, <1>2 DEF PeerInv, QuietInv, OneClientPerRole
<1>4. StatusAccurate'
  BY <1>1, <1>2 DEF PeerInv, StatusAccurate, exists_by_type, Alive, Status
<1> QED BY <1>1, <1>3, <1>4 DEF PeerInv

\* A login gives out a role nobody has, answers with LoginSuccess, and leaves
\* the receiver knowing about the sender.
LEMMA LoginPeerInv ==
    ASSUME TypeOK, PeerInv, running, NEW a \in Addr, NEW m \in ClientPayload,
           m.type = "Login", MayLogin(a, m), handle_login(a, m),
           UNCHANGED <<conn, delivered>>
    PROVE  PeerInv'
<1> USE DEF PeerInv
<1>e. /\ m.login_type \in Role
      /\ clients' = [clients EXCEPT ![a] = m.login_type]
      /\ UNCHANGED running
      /\ \/ ~Alive(a) /\ UNCHANGED outgoing
         \/ /\ Alive(a)
            /\ outgoing[a] = <<>>
            /\ delivered[a] = Nothing
            /\ \/ /\ m.login_type = "Receiver"
                  /\ outgoing' = [outgoing EXCEPT ![a] =
                        IF exists_by_type("Sender")
                        THEN <<LoginSuccess, Connected>> ELSE <<LoginSuccess>>]
               \/ /\ m.login_type = "Sender"
                  /\ notify_sender_status([outgoing EXCEPT ![a] = <<LoginSuccess>>], Connected)
  BY LoginEffects
<1>t. /\ clients \in [Addr -> ClientType \cup {"None"}]
      /\ outgoing \in [Addr -> Seq(ServerPayload)]
      /\ clients'[a] = m.login_type
      /\ \A b \in Addr : b # a => clients'[b] = clients[b]
      /\ clients[a] = "Unidentified"
      /\ \A b \in Addr : clients[b] # m.login_type
  BY <1>e DEF TypeOK, MayLogin, get_by_type
<1>o. OneClientPerRole'
  BY <1>t DEF OneClientPerRole
<1>1. CASE ~Alive(a) /\ UNCHANGED outgoing
  <2>1. QuietInv'
    BY <1>1, <1>e, <1>t DEF QuietInv, Alive, Role
  <2>2. LoginFirst'
    BY <1>1 DEF LoginFirst
  <2>3. StatusAccurate'
    BY <1>1, <1>t DEF StatusAccurate, LastStatus, Alive, exists_by_type
  <2> QED BY <1>o, <2>1, <2>2, <2>3
<1>2. ASSUME Alive(a), outgoing[a] = <<>>, delivered[a] = Nothing, m.login_type = "Receiver",
             outgoing' = [outgoing EXCEPT ![a] = IF exists_by_type("Sender")
                             THEN <<LoginSuccess, Connected>> ELSE <<LoginSuccess>>]
      PROVE  PeerInv'
  <2>1. /\ \A b \in Addr : b # a => outgoing'[b] = outgoing[b]
        /\ outgoing'[a] = IF exists_by_type("Sender")
                          THEN <<LoginSuccess, Connected>> ELSE <<LoginSuccess>>
        /\ outgoing'[a] # <<>>
    BY <1>2, <1>t
  <2>2. QuietInv'
    BY <1>2, <1>e, <1>t, <2>1 DEF QuietInv, Alive, Role
  <2>3. LoginFirst'
    BY <1>2, <2>1, LoginPayloads DEF LoginFirst, Nothing
  <2>4. LastStatus(a, "Connected")' <=> exists_by_type("Sender")
    BY <1>2, <2>1, LoginPayloads DEF LastStatus, LastIn, Nothing
  <2>5. \A b \in Addr : b # a => clients'[b] # "Receiver"
    BY <1>2, <1>t
  <2>6. exists_by_type("Sender")' <=> exists_by_type("Sender")
    BY <1>2, <1>t DEF exists_by_type
  <2>7. StatusAccurate'
    BY <2>4, <2>5, <2>6 DEF StatusAccurate, exists_by_type
  <2> QED BY <1>o, <2>2, <2>3, <2>7
<1>3. ASSUME Alive(a), outgoing[a] = <<>>, delivered[a] = Nothing, m.login_type = "Sender",
             notify_sender_status([outgoing EXCEPT ![a] = <<LoginSuccess>>], Connected)
      PROVE  PeerInv'
  <2> DEFINE out == [outgoing EXCEPT ![a] = <<LoginSuccess>>]
  <2>1. /\ out \in [Addr -> Seq(ServerPayload)]
        /\ \A b \in Addr : b # a => out[b] = outgoing[b]
        /\ out[a] = <<LoginSuccess>>
    BY <1>t, LoginPayloads
  <2> HIDE DEF out
  <2>2. \/ /\ outgoing' = out
           /\ \A r \in Addr : clients[r] = "Receiver" => ~Alive(r)
        \/ \E r \in Addr : /\ clients[r] = "Receiver"
                           /\ Alive(r)
                           /\ Len(outgoing[r]) < OutgoingCap
                           /\ outgoing' = [out EXCEPT ![r] = Append(@, Connected)]
                           /\ \A b \in Addr : clients[b] = "Receiver" => b = r
    BY <1>3, <2>1, NotifyEffects, LoginPayloads DEF out
  <2>3. exists_by_type("Sender")'
    BY <1>3, <1>t DEF exists_by_type
  <2>4. LoginFirstIn(<<LoginSuccess>>, FALSE) /\ <<LoginSuccess>> # <<>>
    BY LoginPayloads DEF LoginFirstIn
  <2>5. CASE outgoing' = out /\ \A r \in Addr : clients[r] = "Receiver" => ~Alive(r)
    <3>1. QuietInv'
      BY <1>3, <1>e, <1>t, <2>1, <2>4, <2>5 DEF QuietInv, Alive, Role
    <3>2. LoginFirst'
      BY <1>3, <2>1, <2>4, <2>5 DEF LoginFirst, LoginFirstIn, Nothing
    <3>3. \A r \in Addr : clients'[r] = "Receiver" => ~Alive(r)'
      BY <1>3, <1>t, <2>5 DEF Alive
    <3>4. StatusAccurate'
      BY <3>3 DEF StatusAccurate
    <3> QED BY <1>o, <3>1, <3>2, <3>4
  <2>6. ASSUME NEW r \in Addr, clients[r] = "Receiver", Alive(r),
               outgoing' = [out EXCEPT ![r] = Append(@, Connected)],
               \A b \in Addr : clients[b] = "Receiver" => b = r
        PROVE  PeerInv'
    <3>1. r # a
      BY <1>t, <2>6
    <3>2. /\ outgoing'[r] = Append(outgoing[r], Connected)
          /\ outgoing'[a] = <<LoginSuccess>>
          /\ \A b \in Addr : b # a /\ b # r => outgoing'[b] = outgoing[b]
      BY <2>1, <2>6, <3>1
    <3>3. /\ outgoing[r] \in Seq(ServerPayload)
          /\ delivered[r].login \in BOOLEAN
          /\ delivered[r].login \/ outgoing[r] # <<>>
          /\ LoginFirstIn(outgoing[r], delivered[r].login)
      BY <1>t, <2>6 DEF TypeOK, QuietInv, LoginFirst, LoginFirstIn, Alive, Role
    <3>4. LoginFirstIn(outgoing'[r], delivered[r].login) /\ outgoing'[r] # <<>>
      BY <3>2, <3>3, LoginFirstAppend, LoginPayloads
    <3>5. LoginFirst'
      BY <1>3, <2>4, <3>2, <3>4, SMTT(30) DEF LoginFirst, LoginFirstIn, Nothing
    <3>6. QuietInv'
      BY <1>3, <1>e, <1>t, <2>4, <2>6, <3>2, <3>4, ZenonT(40) DEF QuietInv, Alive, Role
    <3>7. LastStatus(r, "Connected")'
      BY <3>2, <3>3, LastAppendStatus, LoginPayloads DEF LastStatus
    <3>8. \A b \in Addr : clients'[b] = "Receiver" => b = r
      BY <1>3, <1>t, <2>6
    <3>9. StatusAccurate'
      BY <2>3, <3>7, <3>8 DEF StatusAccurate, exists_by_type
    <3> QED BY <1>o, <3>5, <3>6, <3>9
  <2> QED BY <2>2, <2>5, <2>6
<1> QED BY <1>e, <1>1, <1>2, <1>3

\* When the server task learns that a connection has ended, the role is free
\* and the receiver knows when it was the sender's.
LEMMA DisconnectedPeerInv ==
    ASSUME TypeOK, PeerInv, running, NEW a \in Addr, conn[a] = "none", ClientDisconnected(a),
           UNCHANGED <<conn, delivered>>
    PROVE  PeerInv'
<1> USE DEF PeerInv
<1>t. /\ clients'[a] = "None"
      /\ \A b \in Addr : b # a => clients'[b] = clients[b]
      /\ UNCHANGED running
      /\ ~Alive(a)
      /\ outgoing[a] = <<>>
  BY DEF ClientDisconnected, TypeOK, Alive, QuietInv
<1>o. OneClientPerRole'
  BY <1>t DEF OneClientPerRole, Role
<1>1. CASE clients[a] # "Sender" /\ UNCHANGED outgoing
  <2>1. QuietInv'
    BY <1>1, <1>t DEF QuietInv, Role, Alive
  <2>2. LoginFirst'
    BY <1>1 DEF LoginFirst
  <2>3. StatusAccurate'
    BY <1>1, <1>t DEF StatusAccurate, LastStatus, Alive, exists_by_type
  <2> QED BY <1>o, <2>1, <2>2, <2>3
<1>2. ASSUME clients[a] = "Sender", notify_sender_status(outgoing, Disconnected)
      PROVE  PeerInv'
  <2>1. \A b \in Addr : clients'[b] # "Sender"
    BY <1>2, <1>t DEF OneClientPerRole, Role
  <2>p. Disconnected \in ServerPayload /\ outgoing \in [Addr -> Seq(ServerPayload)]
    BY LoginPayloads DEF TypeOK
  <2>2. \/ /\ outgoing' = outgoing
           /\ \A r \in Addr : clients[r] = "Receiver" => ~Alive(r)
        \/ \E r \in Addr : /\ clients[r] = "Receiver"
                           /\ Alive(r)
                           /\ Len(outgoing[r]) < OutgoingCap
                           /\ outgoing' = [outgoing EXCEPT ![r] = Append(@, Disconnected)]
                           /\ \A b \in Addr : clients[b] = "Receiver" => b = r
    BY <1>2, <2>p, NotifyEffects, Zenon
  <2>3. CASE outgoing' = outgoing /\ \A r \in Addr : clients[r] = "Receiver" => ~Alive(r)
    <3>1. QuietInv'
      BY <1>t, <2>3 DEF QuietInv, Role, Alive
    <3>2. LoginFirst'
      BY <2>3 DEF LoginFirst
    <3>3. \A r \in Addr : clients'[r] = "Receiver" => ~Alive(r)'
      BY <1>t, <2>3 DEF Alive
    <3>4. StatusAccurate'
      BY <3>3 DEF StatusAccurate
    <3> QED BY <1>o, <3>1, <3>2, <3>4
  <2>4. ASSUME NEW r \in Addr, clients[r] = "Receiver", Alive(r),
               outgoing' = [outgoing EXCEPT ![r] = Append(@, Disconnected)],
               \A b \in Addr : clients[b] = "Receiver" => b = r
        PROVE  PeerInv'
    <3>0. r # a /\ clients[r] \in Role
      BY <1>2, <2>4 DEF Role
    <3>1. /\ \A b \in Addr : conn'[b] # "open" => outgoing'[b] = <<>>
          /\ \A b \in Addr : clients[b] \notin Role => outgoing'[b] = outgoing[b]
          /\ \A b \in Addr : outgoing[b] # <<>> => outgoing'[b] # <<>>
          /\ LoginFirst'
          /\ ~LastStatus(r, "Connected")'
      BY <1>t, <2>4, <3>0, AppendPeerInv, LoginPayloads DEF Status
    <3>2. QuietInv'
      BY <1>t, <3>1 DEF QuietInv, Role, Alive
    <3>3. \A b \in Addr : clients'[b] = "Receiver" => b = r
      BY <1>t, <2>4
    <3>4. StatusAccurate'
      BY <2>1, <3>1, <3>3 DEF StatusAccurate
    <3> QED BY <1>o, <3>1, <3>2, <3>4
  <2> QED BY <2>2, <2>3, <2>4
<1> QED BY <1>1, <1>2 DEF ClientDisconnected

\* A turn of handle_clients preserves PeerInv.
LEMMA TurnPeerInv ==
    ASSUME IInv, handle_clients
    PROVE  PeerInv'
<1> DEFINE h == Head(message_rx)
<1>i. TypeOK /\ ChannelInv /\ PeerInv
  BY DEF IInv, PeerInv
<1>t. /\ message_rx \in Seq(ServerMessage)
      /\ message_rx # <<>>
      /\ clients \in [Addr -> ClientType \cup {"None"}]
  BY <1>i DEF TypeOK, handle_clients
<1>h. /\ running
      /\ h.addr \in Addr
      /\ h.kind = "ClientConnected" <=> clients[h.addr] = "None"
      /\ \/ h.kind = "ClientConnected" /\ ClientConnected(h.addr)
         \/ h.kind = "ClientDisconnected" /\ ClientDisconnected(h.addr)
         \/ /\ h.kind = "Message"
            /\ h.message \in ClientPayload
            /\ HandlerEffect(h.addr, h.message)
      /\ UNCHANGED <<now, conn, delivered>>
  BY <1>i, TurnEffects
<1>1. CASE h.kind = "ClientConnected" /\ ClientConnected(h.addr)
  <2>1. /\ clients'[h.addr] = "Unidentified"
        /\ clients[h.addr] = "None"
        /\ \A b \in Addr : b # h.addr => clients'[b] = clients[b]
        /\ UNCHANGED <<running, outgoing, conn, delivered>>
    BY <1>1, <1>h, <1>t DEF ClientConnected
  <2>2. QuietInv' /\ OneClientPerRole'
    BY <1>i, <2>1 DEF PeerInv, QuietInv, OneClientPerRole, Role
  <2>3. LoginFirst'
    BY <1>i, <2>1 DEF PeerInv, LoginFirst
  <2>4. StatusAccurate'
    BY <1>i, <2>1 DEF PeerInv, StatusAccurate, LastStatus, Alive, exists_by_type
  <2> QED BY <2>2, <2>3, <2>4 DEF PeerInv
<1>2. CASE h.kind = "ClientDisconnected" /\ ClientDisconnected(h.addr)
  <2>1. h = message_rx[1] /\ 1 \in DOMAIN message_rx
    BY <1>t, TailFacts
  <2>2. conn[h.addr] = "none"
    BY <1>i, <1>2, <2>1 DEF ChannelInv
  <2> QED BY <1>i, <1>h, <1>2, <2>2, DisconnectedPeerInv
<1>3. CASE h.kind = "Message" /\ h.message \in ClientPayload /\ HandlerEffect(h.addr, h.message)
  <2>1. CASE Silent
    <3>1. UNCHANGED <<running, clients, outgoing, conn, delivered>>
      BY <1>h, <2>1 DEF Silent
    <3> QED BY <1>i, <3>1
        DEF PeerInv, QuietInv, OneClientPerRole, LoginFirst, StatusAccurate, LastStatus, Alive,
            exists_by_type
  <2>2. CASE \E r \in Addr, p \in ServerPayload : Relays(r, p)
    BY <1>i, <1>h, <2>2, RelayPeerInv
  <2>3. CASE Panic
    <3>1. /\ ~running'
          /\ clients' = [a \in Addr |-> "None"]
          /\ UNCHANGED <<outgoing, conn, delivered>>
      BY <1>h, <2>3 DEF Panic
    <3>2. QuietInv'
      BY <1>i, <3>1 DEF PeerInv, QuietInv
    <3>3. LoginFirst'
      BY <1>i, <3>1 DEF PeerInv, LoginFirst
    <3>4. OneClientPerRole' /\ StatusAccurate'
      BY <3>1 DEF OneClientPerRole, StatusAccurate, Role
    <3> QED BY <3>2, <3>3, <3>4 DEF PeerInv
  <2>4. CASE /\ h.message.type = "Login"
             /\ MayLogin(h.addr, h.message)
             /\ handle_login(h.addr, h.message)
    BY <1>i, <1>h, <1>3, <2>4, LoginPeerInv
  <2> QED BY <1>3, <2>1, <2>2, <2>3, <2>4 DEF HandlerEffect
<1> QED BY <1>h, <1>1, <1>2, <1>3

\* The connection tasks preserve PeerInv.
LEMMA ConnPeerInv ==
    ASSUME IInv, NEW a \in Addr,
           \/ Accept(a) \/ (\E m \in PeerPayload : Incoming(a, m))
           \/ IncomingPanics(a) \/ Outgoing(a) \/ EndSelect(a) \/ Disconnect(a)
    PROVE  PeerInv'
<1>i. QuietInv /\ OneClientPerRole /\ LoginFirst /\ StatusAccurate
  BY DEF IInv
<1>t. /\ conn \in [Addr -> {"none", "open", "dropped"}]
      /\ outgoing \in [Addr -> Seq(ServerPayload)]
      /\ delivered \in [Addr -> [login : BOOLEAN, status : Status]]
  BY DEF IInv, TypeOK
<1>o. OneClientPerRole'
  BY <1>i DEF OneClientPerRole, Accept, Incoming, IncomingPanics, Outgoing, EndSelect,
              Disconnect, taskVars
<1>1. CASE Accept(a)
  <2>1. /\ clients[a] = "None"
        /\ outgoing'[a] = <<>> /\ delivered'[a] = Nothing /\ conn'[a] = "open"
        /\ \A b \in Addr : b # a => /\ outgoing'[b] = outgoing[b]
                                    /\ delivered'[b] = delivered[b]
                                    /\ conn'[b] = conn[b]
        /\ UNCHANGED <<running, clients>>
    BY <1>1, <1>t DEF Accept
  <2>2. QuietInv'
    BY <1>i, <2>1 DEF QuietInv, Role
  <2>3. LoginFirst'
    BY <1>i, <2>1 DEF LoginFirst
  <2>4. StatusAccurate'
    BY <1>i, <2>1 DEF StatusAccurate, LastStatus, Alive, exists_by_type
  <2> QED BY <1>o, <2>2, <2>3, <2>4 DEF PeerInv
<1>2. CASE \E m \in PeerPayload : Incoming(a, m)
  <2>1. UNCHANGED <<running, clients, outgoing, conn, delivered>>
    BY <1>2 DEF Incoming, connVars
  <2> QED BY <1>i, <2>1
      DEF PeerInv, QuietInv, OneClientPerRole, LoginFirst, StatusAccurate, LastStatus, Alive,
          exists_by_type
<1>3. CASE IncomingPanics(a) \/ EndSelect(a)
  <2>1. /\ outgoing'[a] = <<>> /\ conn'[a] # "open"
        /\ \A b \in Addr : b # a => outgoing'[b] = outgoing[b] /\ conn'[b] = conn[b]
        /\ UNCHANGED <<running, clients, delivered>>
    BY <1>3, <1>t DEF IncomingPanics, EndSelect, taskVars
  <2>2. QuietInv'
    BY <1>i, <2>1 DEF QuietInv
  <2>3. LoginFirst'
    BY <1>i, <2>1 DEF LoginFirst
  <2>4. StatusAccurate'
    BY <1>i, <2>1 DEF StatusAccurate, LastStatus, Alive, exists_by_type
  <2> QED BY <1>o, <2>2, <2>3, <2>4 DEF PeerInv
<1>4. CASE Outgoing(a)
  <2> DEFINE s == outgoing[a]
             r == Tail(outgoing[a])
             m == Head(outgoing[a])
  <2>1. /\ conn[a] = "open"
        /\ s \in Seq(ServerPayload) /\ s # <<>>
        /\ outgoing'[a] = r
        /\ delivered'[a].login = (delivered[a].login \/ m.type = "LoginSuccess")
        /\ delivered'[a].status =
              IF m.type = "NotifySenderStatus" THEN m.status ELSE delivered[a].status
        /\ \A b \in Addr : b # a => outgoing'[b] = outgoing[b] /\ delivered'[b] = delivered[b]
        /\ UNCHANGED <<running, clients, conn>>
    BY <1>4, <1>t DEF Outgoing, taskVars
  <2>2. /\ Len(s) \in Nat \ {0}
        /\ DOMAIN s = 1 .. Len(s)
        /\ DOMAIN r = 1 .. Len(s) - 1
        /\ \A i \in DOMAIN r : r[i] = s[i + 1] /\ i + 1 \in DOMAIN s /\ i + 1 # 1
        /\ m = s[1] /\ 1 \in DOMAIN s
    BY <2>1, TailFacts
  <2>3. delivered'[a].login
    BY <1>i, <2>1, <2>2, ZenonT(40) DEF LoginFirst
  <2>4. \A i \in DOMAIN r : r[i].type # "LoginSuccess"
    BY <1>i, <2>2 DEF LoginFirst
  <2> HIDE DEF r
  <2>5. LoginFirst'
    BY <1>i, <2>1, <2>3, <2>4 DEF LoginFirst
  <2>6. QuietInv'
    BY <1>i, <2>1, <2>3 DEF QuietInv
  <2>7. \A b \in Addr, st \in Status : LastStatus(b, st)' <=> LastStatus(b, st)
    <3>1. \A st \in Status : LastStatus(a, st)' <=> LastStatus(a, st)
      BY <2>1, LastTail DEF LastStatus, r
    <3>2. \A b \in Addr, st \in Status : b # a => (LastStatus(b, st)' <=> LastStatus(b, st))
      BY <2>1 DEF LastStatus
    <3> QED BY <3>1, <3>2
  <2>8. StatusAccurate'
    BY <1>i, <2>1, <2>7 DEF StatusAccurate, Alive, exists_by_type, Status
  <2> QED BY <1>o, <2>5, <2>6, <2>8 DEF PeerInv
<1>5. CASE Disconnect(a)
  <2>1. /\ conn'[a] # "open" /\ conn[a] # "open"
        /\ \A b \in Addr : b # a => conn'[b] = conn[b]
        /\ UNCHANGED <<running, clients, outgoing, delivered>>
    BY <1>5, <1>t DEF Disconnect
  <2>2. QuietInv'
    BY <1>i, <2>1 DEF QuietInv
  <2>3. LoginFirst'
    BY <1>i, <2>1 DEF LoginFirst
  <2>4. StatusAccurate'
    BY <1>i, <2>1 DEF StatusAccurate, LastStatus, Alive, exists_by_type
  <2> QED BY <1>o, <2>2, <2>3, <2>4 DEF PeerInv
<1> QED BY <1>1, <1>2, <1>3, <1>4, <1>5

-----------------------------------------------------------------------------
(***************************************************************************)
(* The theorems.                                                           *)
(***************************************************************************)

\* Every step preserves the inductive invariant.
LEMMA NextIInv == IInv /\ [Next]_vars => IInv'
<1> SUFFICES ASSUME IInv, [Next]_vars PROVE IInv'
  OBVIOUS
<1>1. CASE handle_clients
  BY <1>1, TurnTypeOK, TurnChannelInv, TurnPeerInv DEF IInv, PeerInv
<1>2. ASSUME NEW a \in Addr,
             \/ Accept(a) \/ (\E m \in PeerPayload : Incoming(a, m))
             \/ IncomingPanics(a) \/ Outgoing(a) \/ EndSelect(a) \/ Disconnect(a)
      PROVE  IInv'
  <2>1. TypeOK'
    BY <1>2, ConnTypeOK
  <2>2. ChannelInv'
    BY <1>2, ConnChannelInv
  <2>3. PeerInv'
    BY <1>2, ConnPeerInv
  <2> QED BY <2>1, <2>2, <2>3 DEF IInv, PeerInv
<1>3. ASSUME UNCHANGED <<running, message_rx, clients, index, conn, cancelled, outgoing, delivered>>,
             now' \in Time
      PROVE  IInv'
  <2>1. TypeOK'
    BY <1>3 DEF IInv, TypeOK
  <2>2. ChannelInv'
    BY <1>3 DEF IInv, ChannelInv
  <2>3. QuietInv' /\ OneClientPerRole' /\ LoginFirst' /\ StatusAccurate'
    BY <1>3 DEF IInv, QuietInv, OneClientPerRole, LoginFirst, StatusAccurate, LastStatus, Alive,
                exists_by_type
  <2> QED BY <2>1, <2>2, <2>3 DEF IInv
<1>4. CASE Tick
  <2>1. now' \in Time
    BY <1>4, TimeAssumption DEF Tick, Time, IInv, TypeOK
  <2> QED BY <1>3, <1>4, <2>1 DEF Tick, taskVars, connVars
<1>5. CASE UNCHANGED vars
  BY <1>3, <1>5 DEF vars, IInv, TypeOK
<1> QED BY <1>1, <1>2, <1>4, <1>5 DEF Next, PeerGone, Cancelled, OutgoingEnded, Refuse

\* The inductive invariant holds in every reachable state.
THEOREM Invariance == Spec => []IInv
<1>1. Init => IInv
  BY InitIInv
<1>2. IInv /\ [Next]_vars => IInv'
  BY NextIInv
<1> QED BY <1>1, <1>2, PTL DEF Spec

\* Type correctness: in particular no channel exceeds its capacity.
THEOREM TypeCorrectness == Spec => []TypeOK
<1>1. IInv => TypeOK
  BY DEF IInv
<1> QED BY <1>1, Invariance, PTL

\* ClientOccupied in handle_login is enough to keep every role unique.
THEOREM RolesAreUnique == Spec => []OneClientPerRole
<1>1. IInv => OneClientPerRole
  BY DEF IInv
<1> QED BY <1>1, Invariance, PTL

\* handle_clients never meets a message about an address it does not know.
THEOREM ClientsAreKnown == Spec => []KnownClient
<1>1. IInv => KnownClient
  <2> SUFFICES ASSUME IInv, message_rx # <<>>
               PROVE  Head(message_rx).kind = "ClientConnected"
                         <=> clients[Head(message_rx).addr] = "None"
    BY DEF KnownClient
  <2>1. Head(message_rx) = message_rx[1] /\ 1 \in DOMAIN message_rx
    BY TailFacts DEF IInv, TypeOK
  <2> QED BY <2>1 DEF IInv, ChannelInv
<1> QED BY <1>1, Invariance, PTL

\* Every peer hears LoginSuccess first, and once.
THEOREM LoginIsFirst == Spec => []LoginFirst
<1>1. IInv => LoginFirst
  BY DEF IInv
<1> QED BY <1>1, Invariance, PTL

\* The receiver's last news of the sender is accurate.
THEOREM StatusIsAccurate == Spec => []StatusAccurate
<1>1. IInv => StatusAccurate
  BY DEF IInv
<1> QED BY <1>1, Invariance, PTL
=============================================================================
