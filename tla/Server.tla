-------------------------------- MODULE Server --------------------------------
(***************************************************************************)
(* The rstr server (rstr_server/src/server.rs, rstr_server/src/main.rs).   *)
(*                                                                         *)
(* One task (handle_clients) owns the table of clients and the index of    *)
(* published metadata and works through the channel message_rx in order.   *)
(* Every connection has a task of its own (handle_connection) that feeds   *)
(* that channel from its socket, drains the client's outgoing channel into *)
(* the socket, and ends when the socket fails, when the server cancels it  *)
(* or when the server task is gone.  The peers are not modelled here: a    *)
(* peer may send any payload at any time and may vanish at any time.       *)
(*                                                                         *)
(* A handler of the server task is one action.  It waits, as the code does *)
(* in outgoing.send().await, until the channels it writes to have room.    *)
(***************************************************************************)
EXTENDS Naturals, Sequences, FiniteSets

CONSTANTS
    Addr,        \* socket addresses of the peers
    Path,        \* remote paths of published files
    File,        \* contents of a Meta other than its path and its timestamps
    Chunk,       \* contents of a RequestChunkData
    Block,       \* contents of a TransmitChunkData
    MessageCap,  \* capacity of message_rx (1024*1024 in the code)
    OutgoingCap, \* capacity of an outgoing channel (1024*1024 in the code)
    MaxTime,     \* bound on the clock, in milliseconds
    SaveMayFail, \* TRUE if writing the index file can fail
    NoMeta,      \* no meta published for a path
    Key,         \* the access keys peers log in with
    PeerSends    \* the payload types the peers of an instance make use of

ASSUME CapAssumption == MessageCap \in Nat \ {0} /\ OutgoingCap \in Nat \ {0, 1}
ASSUME TimeAssumption == MaxTime \in Nat
ASSUME SaveAssumption == SaveMayFail \in BOOLEAN

VARIABLES
    running,     \* FALSE once the server task has panicked
    message_rx,  \* the channel into the server task
    clients,     \* Server.clients: the type of each known client, or "None"
    index,       \* Server.index: the meta of each published path, or NoMeta
    now,         \* the server's clock
    conn,        \* what the task of each connection is doing
    cancelled,   \* the addresses whose cancellation_token was cancelled
    outgoing,    \* the outgoing channel of each connection
    delivered    \* what the peer of each connection has been told so far

vars == <<running, message_rx, clients, index, now, conn, cancelled, outgoing, delivered>>

taskVars == <<running, message_rx, clients, index>>
connVars == <<conn, cancelled, outgoing, delivered>>

-----------------------------------------------------------------------------
(***************************************************************************)
(* Messages.                                                               *)
(***************************************************************************)
Role == {"Receiver", "Sender"}
Status == {"Connected", "Disconnected"}
Time == 0 .. MaxTime

Meta == [file : File, meta_modified : Time]

ASSUME NoMetaAssumption == NoMeta \notin Meta

\* What a peer may send.  "Unsupported" stands for the payloads a client has
\* no business sending (Unknown, LoginSuccess, TransmitMeta, NotifyUpdated,
\* NotifySenderStatus), which handle_message treats alike.
ClientPayload ==
         [type : {"Login"}, login_type : Role, key : Key]
    \cup [type : {"PublishMeta"}, path : Path, file : File]
    \cup [type : {"RemoveMeta"}, path : Path]
    \cup [type : {"RequestMeta"}, after : Time]
    \cup [type : {"RequestChunk"}, chunk : Chunk]
    \cup [type : {"TransmitChunk"}, data : Block]
    \cup [type : {"StopChunk", "Error", "Unsupported"}]

PeerPayload == {m \in ClientPayload : m.type \in PeerSends}

\* What the server sends.
ServerPayload ==
         [type : {"LoginSuccess", "StopChunk"}]
    \cup [type : {"NotifySenderStatus"}, status : Status]
    \cup [type : {"NotifyUpdated"}, last_modified : Time]
    \cup [type : {"TransmitMeta"}, meta : SUBSET [path : Path, meta : Meta]]
    \cup [type : {"RequestChunk"}, chunk : Chunk]
    \cup [type : {"TransmitChunk"}, data : Block]

ServerMessage ==
         [kind : {"ClientConnected", "ClientDisconnected"}, addr : Addr]
    \cup [kind : {"Message"}, addr : Addr, message : ClientPayload]

ClientType == {"Unidentified"} \cup Role

Nothing == [login |-> FALSE, status |-> "Disconnected"]

Init ==
    /\ running = TRUE
    /\ message_rx = <<>>
    /\ clients = [a \in Addr |-> "None"]
    /\ index = [p \in Path |-> NoMeta]
    /\ now = 0
    /\ conn = [a \in Addr |-> "none"]
    /\ cancelled = {}
    /\ outgoing = [a \in Addr |-> <<>>]
    /\ delivered = [a \in Addr |-> Nothing]

-----------------------------------------------------------------------------
(***************************************************************************)
(* The connection task (handle_connection).  conn[a] is "none" when there  *)
(* is no task for a, "open" while it is in its select!, and "dropped"      *)
(* from the end of the select!, which drops the receiving half of outgoing *)
(* and everything still in it, until ClientDisconnected is sent.           *)
(***************************************************************************)
\* Slip: the channel takes one message more than it has room for.
RoomOffByOne == Len(message_rx) <= MessageCap

Room == Len(message_rx) < MessageCap

\* The handshake, up to and including the ClientConnected message.  An
\* address is not reused while the server still holds something of the
\* connection that had it before (TCP keeps the pair in TIME_WAIT).
Accept(a) ==
    /\ running
    /\ conn[a] = "none"
    /\ clients[a] = "None"
    /\ \A i \in DOMAIN message_rx : message_rx[i].addr # a
    /\ Room
    /\ message_rx' = Append(message_rx, [kind |-> "ClientConnected", addr |-> a])
    /\ conn' = [conn EXCEPT ![a] = "open"]
    /\ cancelled' = cancelled \ {a}
    /\ outgoing' = [outgoing EXCEPT ![a] = <<>>]
    /\ delivered' = [delivered EXCEPT ![a] = Nothing]
    /\ UNCHANGED <<running, clients, index, now>>

\* The same when the server task is gone: the connection is given up.
Refuse(a) ==
    /\ ~running
    /\ conn[a] = "none"
    /\ UNCHANGED vars

\* incoming_task: one decoded message goes into the channel.
Incoming(a, m) ==
    /\ running
    /\ conn[a] = "open"
    /\ Room
    /\ message_rx' = Append(message_rx, [kind |-> "Message", addr |-> a, message |-> m])
    /\ UNCHANGED <<running, clients, index, now, connVars>>

\* incoming_task when the server task is gone: the unwrap of the failed send
\* panics the connection task, which therefore announces nothing.
IncomingPanics(a) ==
    /\ ~running
    /\ conn[a] = "open"
    /\ conn' = [conn EXCEPT ![a] = "none"]
    /\ outgoing' = [outgoing EXCEPT ![a] = <<>>]
    /\ UNCHANGED <<taskVars, now, cancelled, delivered>>

\* outgoing_task: one message goes to the peer.
Outgoing(a) ==
    /\ conn[a] = "open"
    /\ outgoing[a] # <<>>
    /\ outgoing' = [outgoing EXCEPT ![a] = Tail(@)]
    /\ LET m == Head(outgoing[a]) IN
       delivered' = [delivered EXCEPT ![a] =
           [login  |-> @.login \/ m.type = "LoginSuccess",
            status |-> IF m.type = "NotifySenderStatus" THEN m.status ELSE @.status]]
    /\ UNCHANGED <<taskVars, now, conn, cancelled>>

EndSelect(a) ==
    /\ conn[a] = "open"
    /\ conn' = [conn EXCEPT ![a] = "dropped"]
    /\ outgoing' = [outgoing EXCEPT ![a] = <<>>]
    /\ UNCHANGED <<taskVars, now, cancelled, delivered>>

\* The socket is closed or fails, or the peer sends what cannot be decoded.
PeerGone(a) == EndSelect(a)

\* Slip: a cancelled connection returns without ClientDisconnected.
CancelledReturns(a) ==
    /\ a \in cancelled
    /\ conn[a] = "open"
    /\ conn' = [conn EXCEPT ![a] = "none"]
    /\ outgoing' = [outgoing EXCEPT ![a] = <<>>]
    /\ UNCHANGED <<taskVars, now, cancelled, delivered>>

\* cancellation_token.cancelled() completes.
Cancelled(a) == a \in cancelled /\ EndSelect(a)

\* outgoing_task ends: every sending half went with the server task.
OutgoingEnded(a) == ~running /\ outgoing[a] = <<>> /\ EndSelect(a)

\* After the select!: the server task is told, if it is still there.
Disconnect(a) ==
    /\ conn[a] = "dropped"
    /\ running => Room
    /\ message_rx' = IF running
                     THEN Append(message_rx, [kind |-> "ClientDisconnected", addr |-> a])
                     ELSE message_rx
    /\ conn' = [conn EXCEPT ![a] = "none"]
    /\ UNCHANGED <<running, clients, index, now, cancelled, outgoing, delivered>>

-----------------------------------------------------------------------------
(***************************************************************************)
(* The server task (handle_clients).                                       *)
(***************************************************************************)
get_by_type(t) == {a \in Addr : clients[a] = t}

exists_by_type(t) == \E a \in Addr : clients[a] = t

\* outgoing.send(...).await on the channel of r completes: with success if the
\* connection task still holds the other half, with an error otherwise.
Alive(r) == conn[r] = "open"

CanSend(r) == Alive(r) => Len(outgoing[r]) < OutgoingCap

Sent(out, r, m) == IF Alive(r) THEN [out EXCEPT ![r] = Append(@, m)] ELSE out

\* Slip: the error of a handler is only logged.
ErrLogged(a) == UNCHANGED cancelled /\ a \in Addr

\* A handler that returned Err has the client's connection cancelled.
Err(a) == cancelled' = cancelled \cup {a}
Ok == UNCHANGED cancelled

\* The whole of a handler that forwards m to r on behalf of a.
Forward(a, r, m) ==
    /\ CanSend(r)
    /\ outgoing' = Sent(outgoing, r, m)
    /\ IF Alive(r) THEN Ok ELSE Err(a)
    /\ UNCHANGED <<running, clients, index>>

\* Slip: the client is removed as soon as its connection is cancelled.
RejectAndRemove(a) ==
    /\ Err(a)
    /\ clients' = [clients EXCEPT ![a] = "None"]
    /\ UNCHANGED <<running, index, outgoing>>

\* A handler that fails before it changes anything.
Reject(a) == Err(a) /\ UNCHANGED <<running, clients, index, outgoing>>

\* The server task panics: the table and both its channels go with it.
Panic ==
    /\ running' = FALSE
    /\ clients' = [a \in Addr |-> "None"]
    /\ UNCHANGED <<cancelled, outgoing>>

Connected == [type |-> "NotifySenderStatus", status |-> "Connected"]
Disconnected == [type |-> "NotifySenderStatus", status |-> "Disconnected"]

\* notify_sender_status with its error ignored.
notify_sender_status(out, m) ==
    LET R == get_by_type("Receiver") IN
    \/ R = {} /\ outgoing' = out
    \/ \E r \in R : CanSend(r) /\ outgoing' = Sent(out, r, m)

ClientConnected(a) ==
    /\ clients' = [clients EXCEPT ![a] = "Unidentified"]
    /\ Ok
    /\ UNCHANGED <<running, index, outgoing>>

\* Slip: the receiver is told so whoever has gone.
ClientDisconnectedAny(a) ==
    /\ notify_sender_status(outgoing, Disconnected)
    /\ clients' = [clients EXCEPT ![a] = "None"]
    /\ Ok
    /\ UNCHANGED <<running, index>>

ClientDisconnected(a) ==
    /\ IF clients[a] = "Sender"
       THEN notify_sender_status(outgoing, Disconnected)
       ELSE UNCHANGED outgoing
    /\ clients' = [clients EXCEPT ![a] = "None"]
    /\ Ok
    /\ UNCHANGED <<running, index>>

Token(t) == IF t = "Receiver" THEN "receiver_token" ELSE "sender_token"

\* Slip: a login to a role that is taken.
MayLoginOccupied(a, m) ==
    /\ clients[a] = "Unidentified"
    /\ m.key = Token(m.login_type)

\* Slip: a second login of the same client.
MayLoginAgain(a, m) ==
    /\ m.key = Token(m.login_type)
    /\ get_by_type(m.login_type) = {}

MayLogin(a, m) ==
    /\ clients[a] = "Unidentified"
    /\ m.key = Token(m.login_type)
    /\ get_by_type(m.login_type) = {}

LoginSuccess == [type |-> "LoginSuccess"]

\* The type is set before LoginSuccess is sent: when the send fails, the
\* dead connection keeps the role until its ClientDisconnected is handled.
handle_login(a, m) ==
    \/ ~MayLogin(a, m) /\ Reject(a)
    \/ /\ MayLogin(a, m)
       /\ clients' = [clients EXCEPT ![a] = m.login_type]
       /\ UNCHANGED <<running, index>>
       /\ CanSend(a)
       /\ LET out == Sent(outgoing, a, LoginSuccess) IN
          \/ ~Alive(a) /\ Err(a) /\ UNCHANGED outgoing
          \/ /\ Alive(a)
             /\ m.login_type = "Receiver"
             /\ outgoing' = IF exists_by_type("Sender") THEN Sent(out, a, Connected) ELSE out
             /\ Ok
          \/ /\ Alive(a)
             /\ m.login_type = "Sender"
             /\ notify_sender_status(out, Connected)
             /\ Ok

\* Both unwraps of the handler panic the server task: when the index cannot be
\* saved, and when the receiver's connection has ended but its
\* ClientDisconnected has not been handled yet.
handle_publish_meta(a, m) ==
    \/ clients[a] # "Sender" /\ Reject(a)
    \/ /\ clients[a] = "Sender"
       /\ index' = [index EXCEPT ![m.path] = [file |-> m.file, meta_modified |-> now]]
       /\ LET R == get_by_type("Receiver") IN
          \/ SaveMayFail /\ Panic
          \/ R = {} /\ Ok /\ UNCHANGED <<running, clients, outgoing>>
          \/ \E r \in R :
                /\ Alive(r)
                /\ CanSend(r)
                /\ outgoing' = Sent(outgoing, r, [type |-> "NotifyUpdated", last_modified |-> now])
                /\ Ok
                /\ UNCHANGED <<running, clients>>
          \/ (\E r \in R : ~Alive(r)) /\ Panic

\* The error of the save is passed on, but MetaIndex::save itself unwraps every
\* access to the disk: when the index cannot be written, the server task panics.
handle_remove_meta(a, m) ==
    \/ clients[a] # "Sender" /\ Reject(a)
    \/ /\ clients[a] = "Sender"
       /\ index' = [index EXCEPT ![m.path] = NoMeta]
       /\ \/ Ok /\ UNCHANGED <<running, clients, outgoing>>
          \/ SaveMayFail /\ Panic

get_modified_after(t) ==
    {[path |-> p, meta |-> index[p]] :
        p \in {q \in Path : index[q] # NoMeta /\ index[q].meta_modified > t}}

\* Slip: metadata for a client that has not logged in.
RequestMetaUnidentified(a, m) ==
    Forward(a, a, [type |-> "TransmitMeta", meta |-> get_modified_after(m.after)])

handle_request_meta(a, m) ==
    \/ clients[a] = "Unidentified" /\ Reject(a)
    \/ /\ clients[a] # "Unidentified"
       /\ Forward(a, a, [type |-> "TransmitMeta", meta |-> get_modified_after(m.after)])

\* What a receiver asks of the sender (RequestChunk and StopChunk).  With no
\* sender the error is the receiver's: its own connection is cancelled.
ToSender(a, m) ==
    LET S == get_by_type("Sender") IN
    \/ (clients[a] # "Receiver" \/ S = {}) /\ Reject(a)
    \/ clients[a] = "Receiver" /\ \E s \in S : Forward(a, s, m)

handle_request_chunk(a, m) == ToSender(a, m)

handle_stop_chunk(a, m) == ToSender(a, m)

\* With no receiver the sender is told to stop; with a receiver whose
\* connection has ended the sender's own connection is cancelled.
handle_transmit_chunk(a, m) ==
    LET R == get_by_type("Receiver") IN
    \/ clients[a] # "Sender" /\ Reject(a)
    \/ clients[a] = "Sender" /\ R = {} /\ Forward(a, a, [type |-> "StopChunk"])
    \/ clients[a] = "Sender" /\ \E r \in R : Forward(a, r, m)

handle_message(a, m) ==
    \/ m.type = "Login" /\ handle_login(a, m)
    \/ m.type = "PublishMeta" /\ handle_publish_meta(a, m)
    \/ m.type = "RemoveMeta" /\ handle_remove_meta(a, m)
    \/ m.type = "RequestMeta" /\ handle_request_meta(a, m)
    \/ m.type = "RequestChunk" /\ handle_request_chunk(a, m)
    \/ m.type = "TransmitChunk" /\ handle_transmit_chunk(a, m)
    \/ m.type = "StopChunk" /\ handle_stop_chunk(a, m)
    \/ m.type = "Error" /\ Ok /\ UNCHANGED <<running, clients, index, outgoing>>
    \/ m.type = "Unsupported" /\ Reject(a)

\* One turn of the loop.  A message of an address without a client would be
\* logged and skipped; KnownClient below says that there is none.
handle_clients ==
    /\ running
    /\ message_rx # <<>>
    /\ LET it == Head(message_rx) IN
       \/ it.kind = "ClientConnected" /\ ClientConnected(it.addr)
       \/ it.kind = "Message" /\ handle_message(it.addr, it.message)
       \/ it.kind = "ClientDisconnected" /\ ClientDisconnected(it.addr)
    /\ message_rx' = IF running' THEN Tail(message_rx) ELSE <<>>
    /\ UNCHANGED <<now, conn, delivered>>

Tick ==
    /\ now < MaxTime
    /\ now' = now + 1
    /\ UNCHANGED <<taskVars, connVars>>

Next ==
    \/ handle_clients
    \/ \E a \in Addr :
          \/ Accept(a)
          \/ Refuse(a)
          \/ \E m \in PeerPayload : Incoming(a, m)
          \/ IncomingPanics(a)
          \/ Outgoing(a)
          \/ PeerGone(a)
          \/ Cancelled(a)
          \/ OutgoingEnded(a)
          \/ Disconnect(a)
    \/ Tick

Spec == Init /\ [][Next]_vars

\* The server task and the connection tasks are scheduled by tokio, which
\* polls every task that can make progress.  A peer's socket is assumed to
\* take what is written to it or to fail.  A task waiting for room in
\* message_rx gets it in turn (the channel hands out permits in order), so a
\* stream of other messages cannot keep it out forever: strong fairness.
Fairness ==
    /\ WF_vars(handle_clients)
    /\ \A a \in Addr :
          /\ WF_vars(Outgoing(a))
          /\ WF_vars(Cancelled(a))
          /\ WF_vars(OutgoingEnded(a))
          /\ SF_vars(Disconnect(a))

FairSpec == Spec /\ Fairness

-----------------------------------------------------------------------------
(***************************************************************************)
(* Properties.                                                             *)
(***************************************************************************)

\* The type invariant: every variable has its type, and no channel ever holds
\* more than its capacity although a login puts two messages into one.
TypeOK ==
    /\ running \in BOOLEAN
    /\ message_rx \in Seq(ServerMessage)
    /\ Len(message_rx) <= MessageCap
    /\ clients \in [Addr -> ClientType \cup {"None"}]
    /\ index \in [Path -> Meta \cup {NoMeta}]
    /\ now \in Time
    /\ conn \in [Addr -> {"none", "open", "dropped"}]
    /\ cancelled \subseteq Addr
    /\ outgoing \in [Addr -> Seq(ServerPayload)]
    /\ \A a \in Addr : Len(outgoing[a]) <= OutgoingCap
    /\ delivered \in [Addr -> [login : BOOLEAN, status : Status]]

\* There is never more than one Receiver and one Sender (ClientOccupied in
\* handle_login), dead connections included: get_by_type never has a choice.
OneClientPerRole ==
    \A a, b \in Addr : clients[a] \in Role /\ clients[a] = clients[b] => a = b

\* Whatever the server finds in its channel, the client it is about is in the
\* table: the two "Unable to find a client" branches of handle_clients are
\* dead, because ClientConnected comes before and ClientDisconnected after
\* everything else a connection sends.
KnownClient ==
    message_rx # <<>> =>
        (Head(message_rx).kind = "ClientConnected" <=> clients[Head(message_rx).addr] = "None")

\* A connection's peer hears LoginSuccess before anything else and hears it
\* once (handle_login): a client in state Initializing would answer any other
\* message with WrongState.
LoginFirst ==
    \A a \in Addr : \A i \in DOMAIN outgoing[a] :
        outgoing[a][i].type = "LoginSuccess" <=> (i = 1 /\ ~delivered[a].login)

\* st is the last status in the messages of s, or d if s holds none.
LastIn(s, d, st) ==
    LET Is(i) == s[i].type = "NotifySenderStatus" IN
    \/ /\ \A i \in DOMAIN s : ~Is(i)
       /\ d = st
    \/ \E i \in DOMAIN s :
          /\ Is(i)
          /\ s[i].status = st
          /\ \A j \in DOMAIN s : j > i => ~Is(j)

\* The last status that was delivered to a or is on its way to it.
LastStatus(a, st) == LastIn(outgoing[a], delivered[a].status, st)

\* What the receiver is last told about the sender is right: it is told
\* "Connected" only if some Sender is in the table, and it is told so
\* whenever that Sender's connection is up, in whatever order the two log in,
\* vanish and come back (handle_login, notify_sender_status).
StatusAccurate ==
    \A r \in Addr : clients[r] = "Receiver" /\ Alive(r) =>
        /\ LastStatus(r, "Connected") => \E s \in Addr : clients[s] = "Sender"
        /\ (\E s \in Addr : clients[s] = "Sender" /\ Alive(s)) => LastStatus(r, "Connected")

\* A role held by a connection that has ended becomes free again, so that the
\* user who reconnects is not refused with ClientOccupied for ever.
RoleFreed ==
    \A a \in Addr : (clients[a] \in Role /\ ~Alive(a)) ~> (clients[a] = "None")

\* A peer whose login the server has received hears LoginSuccess, or its
\* connection ends; it is never left waiting.
LoginAnswered ==
    \A a \in Addr :
        (\E i \in DOMAIN message_rx : /\ message_rx[i].addr = a
                                      /\ message_rx[i].kind = "Message"
                                      /\ message_rx[i].message.type = "Login")
            ~> (delivered[a].login \/ ~Alive(a))

\* The unwrap of handle_publish_meta (server.rs:387) takes for granted that
\* the connection of the Receiver it found in the table is still there.
PublishUnwrap == running
=============================================================================
