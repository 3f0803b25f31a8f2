------------------------------- MODULE Transfer -------------------------------
(***************************************************************************)
(* A download from end to end: Receiver and Sender composed with the part  *)
(* of the server (rstr_server/src/server.rs) that relays their messages.   *)
(*                                                                         *)
(* Both clients start logged in and with the same metadata.  The user may  *)
(* start, stop and resume the download, and a client may die and come      *)
(* back.  The server handles the messages of both in one queue, in order;  *)
(* what waits for a client is lost with its connection.  The disks work    *)
(* and the file does not change: Receiver and Sender have the rest.        *)
(***************************************************************************)
EXTENDS Receiver

LOCAL INSTANCE SequencesExt

CONSTANTS
    Original,   \* the contents of the sender's files
    Listed,     \* Sender.index
    Task,       \* the transfers that may run at once
    ChunkSize, BufSize, MaxIndex, EventCap, NoJob, NoTask, \* as in Sender
    NetCap,     \* bound on the messages on their way to the server or a client
    MaxLost,    \* bound on the clients that die of themselves, each once
    MaxClicks   \* bound on the clicks of the receiver's user

\* No index is torn: dying in a save is a matter of Receiver and Sender.
ASSUME TransferAssumption == ~SaveMayTear /\ NetCap \in Nat \ {0} /\ MaxLost \in Nat /\ MaxClicks \in Nat

VARIABLES
    sender_state, token, tasks, events, \* the state of the Sender
    inbox,        \* Server: message_rx
    outgoing,     \* Server: the messages on their way to each client
    conn,         \* Server: each client's place in the table and its connection
    clicks,       \* the receiver's user has made so many
    lost,         \* the clients that have died of themselves
    fresh         \* did the download start with nothing left of earlier ones?

SourceName(l) == "file"

S == INSTANCE Sender WITH
        Local <- DOMAIN Original, Name <- SourceName, RawPath <- Path, Directory <- {},
        Selection <- {}, Changing <- {}, Content <- {Original[l] : l \in DOMAIN Original},
        Hash <- Seq(Byte), Job <- {},
        state <- sender_state, index <- Listed, jobs <- [j \in {} |-> NoJob],
        files <- Original, published <- {}, torn <- ~TRUE

\* Local files have contents, the paths are normal, and what the sender lists
\* was created from the files as they are (create_for_file).
ASSUME SenderAssumption ==
    ChunkSize \in Nat \ {0} /\ BufSize \in Nat \ {0} /\ EventCap \in Nat \ {0} /\ MaxIndex \in Nat
ASSUME OriginalAssumption == Original \in [DOMAIN Original -> Seq(Byte)]
ASSUME PathAssumption == S!RemotePath = Path
ASSUME ListedAssumption ==
    /\ Listed \in [Path -> [local_path : DOMAIN Original, meta : S!FileMeta]]
    /\ \A p \in Path :
          LET m == Listed[p].meta
              f == Original[Listed[p].local_path]
          IN  S!Tiles(m) /\ m.size = Len(f) /\ \A i \in DOMAIN m.chunks : OnDisk(f, m.chunks[i])

ASSUME NothingAssumption ==
    /\ NoEntry \notin [local_path : DOMAIN Original, meta : S!FileMeta]
    /\ NoTask \notin [local : DOMAIN Original, chunk : S!Chunk, count : Nat,
                      next : {"read", "send", "done"}, read_buf : Seq(S!Bytes),
                      sent : Seq(S!Bytes), cancelled : BOOLEAN]

senderVars == <<sender_state, token, tasks, events>>
relayVars == <<inbox, outgoing, conn>>
history == <<clicks, lost, fresh>>
transferVars == <<vars, senderVars, relayVars, history>>

Role == {"Receiver", "Sender"}

\* The server stamps a file anew and leaves the rest as the sender created it.
SameMeta(m, n) == m.size = n.size /\ m.chunks = n.chunks

\* Both clients have logged in and know the file.  For each, conn is "in" (logged
\* in), "dead" (still in the table, but its connection has ended), "out" (gone
\* from the table) or "open" (connected anew, not logged in yet).
TransferInit ==
    /\ state = "Idle"
    /\ requesting_chunk = NoFile
    /\ index \in [Path -> {add_for_meta(m) : m \in Meta}]
    /\ \A p \in Path : SameMeta(index[p].meta, Listed[p].meta)
    /\ last_updated = get_last_updated(index)
    /\ logged_in = 0 /\ up = <<>>
    /\ files = [l \in Local |-> <<>>] /\ torn = FALSE
    /\ sender_state = "Idle"
    /\ token = NoTask /\ tasks = [t \in Task |-> NoTask]
    /\ events = <<>>
    /\ inbox = <<>>
    /\ outgoing = [r \in Role |-> <<>>]
    /\ conn = [r \in Role |-> "in"]
    /\ clicks = 0 /\ lost = {} /\ fresh = FALSE

-----------------------------------------------------------------------------
(***************************************************************************)
(* The relay.                                                              *)
(***************************************************************************)
\* Slip: one message more than there is room for.
RoomOffByOne(r) == Len(outgoing[r]) <= NetCap

Room(r) == Len(outgoing[r]) < NetCap

\* The connection of r has ended: ClientDisconnected follows what r has sent.
Ended(box, r) ==
    IF conn[r] \in {"out", "dead"} THEN UNCHANGED <<outgoing, conn>> /\ inbox' = box
    ELSE /\ inbox' = Append(box, [from |-> r, message |-> [type |-> "ClientDisconnected"]])
         /\ outgoing' = [outgoing EXCEPT ![r] = <<>>]
         /\ conn' = [conn EXCEPT ![r] = "dead"]

\* outgoing.send to r on behalf of a; a is disconnected if it fails.
Forward(a, r, m) ==
    \/ /\ conn[r] = "in" /\ Room(r)
       /\ outgoing' = [outgoing EXCEPT ![r] = Append(@, m)]
       /\ inbox' = Tail(inbox)
       /\ UNCHANGED conn
    \/ conn[r] # "in" /\ Ended(Tail(inbox), a)

handle_request_chunk(a, m) == Forward(a, "Sender", m)

\* Slip: the check of handle_transmit_chunk is left in the handler.
StopFromSenderOnly(a, m) ==
    \/ a = "Sender" /\ Forward(a, "Receiver", m)
    \/ a # "Sender" /\ Ended(Tail(inbox), a)

handle_stop_chunk(a, m) == Forward(a, "Sender", m)

\* Without a receiver in the table the sender is told to stop.
handle_transmit_chunk(a, m) ==
    \/ conn["Receiver"] \in {"in", "dead"} /\ Forward(a, "Receiver", m)
    \/ conn["Receiver"] \in {"out", "open"} /\ Forward(a, a, [type |-> "StopChunk"])

\* No other client has the role, and the notice of the sender's status, which
\* changes only what the receiver's window shows, is left to Server and Client.
handle_login(a) ==
    /\ Room(a)
    /\ conn' = [conn EXCEPT ![a] = "in"]
    /\ outgoing' = [outgoing EXCEPT ![a] = Append(@, [type |-> "LoginSuccess"])]
    /\ inbox' = Tail(inbox)

\* There is nothing the receiver has not seen.
handle_request_meta(a) == Forward(a, a, [type |-> "TransmitMeta", meta |-> <<>>])

ClientDisconnected(a) ==
    /\ conn' = [conn EXCEPT ![a] = "out"]
    /\ inbox' = Tail(inbox)
    /\ UNCHANGED outgoing

ServerHandles ==
    /\ inbox # <<>>
    /\ LET a == Head(inbox).from
           m == Head(inbox).message
       IN  \/ m.type = "RequestChunk" /\ handle_request_chunk(a, m)
           \/ m.type = "StopChunk" /\ handle_stop_chunk(a, m)
           \/ m.type = "TransmitChunk" /\ handle_transmit_chunk(a, m)
           \/ m.type = "Login" /\ handle_login(a)
           \/ m.type = "RequestMeta" /\ handle_request_meta(a)
           \/ m.type = "ClientDisconnected" /\ ClientDisconnected(a)
    /\ UNCHANGED <<vars, senderVars, history>>

-----------------------------------------------------------------------------
(***************************************************************************)
(* The clients.                                                            *)
(***************************************************************************)
Connected(r) == conn[r] \in {"in", "open"}

\* A message of r goes to the server.
Post(r, m) ==
    /\ Connected(r)
    /\ Len(inbox) < NetCap
    /\ inbox' = Append(inbox, [from |-> r, message |-> m])
    /\ UNCHANGED <<outgoing, conn, history>>

Take(r) ==
    /\ outgoing[r] # <<>>
    /\ outgoing' = [outgoing EXCEPT ![r] = Tail(@)]
    /\ UNCHANGED <<inbox, conn, history>>

\* A step A of the receiver's user, in the window of a receiver logged in.  The
\* bound on the user is that nothing else waits to be sent.
User(A) ==
    /\ conn["Receiver"] = "in" /\ logged_in = 0 /\ up = <<>>
    /\ A
    /\ state' # "Crashed"
    /\ clicks < MaxClicks /\ clicks' = clicks + 1
    /\ UNCHANGED <<senderVars, relayVars, lost>>

InFlight(type) ==
    \/ \E i \in DOMAIN events : events[i].message.type = type
    \/ \E i \in DOMAIN inbox : inbox[i].message.type = type
    \/ \E r \in Role : \E i \in DOMAIN outgoing[r] : outgoing[r][i].type = type

\* Both are logged in, no transfer runs, and no block or request is on its way.
Quiet ==
    /\ conn = [r \in Role |-> "in"]
    /\ up = <<>>
    /\ tasks = [t \in Task |-> NoTask]
    /\ ~InFlight("TransmitChunk") /\ ~InFlight("RequestChunk")

\* The window has a Download button for a file of which nothing was received
\* and a Resume button for one of which something was.
Download(p, l) ==
    /\ index[p].received_chunks = {}
    /\ User(FileRequested(p, l))
    /\ fresh' = Quiet

Resume(p) ==
    /\ index[p].received_chunks # {}
    /\ User(FileResumed(p))
    /\ fresh' = Quiet

Stop == User(DownloadStopped) /\ fresh' = FALSE

ReceiverSends == SendMessage /\ Post("Receiver", Head(up)) /\ UNCHANGED senderVars

ReceiverTakes ==
    /\ Take("Receiver")
    /\ LET m == Head(outgoing["Receiver"]) IN
       \/ /\ m.type = "TransmitChunk"
          /\ TransmitChunk(m.data)
          /\ state # "RequestedChunk" \/ requesting_chunk' # requesting_chunk
       \/ m.type = "LoginSuccess" /\ LoginSuccess
       \/ m.type = "TransmitMeta" /\ TransmitMeta(m.meta)
    /\ UNCHANGED senderVars

ReceiverLogsOn ==
    /\ LoggedInAsReceiver
    /\ state' # "Crashed"
    /\ UNCHANGED <<senderVars, relayVars, history>>

SenderSends ==
    /\ S!SendMessage
    /\ Post("Sender", Head(events).message)
    /\ UNCHANGED vars

SenderTakes ==
    /\ Take("Sender")
    /\ LET m == Head(outgoing["Sender"]) IN
       \/ m.type = "RequestChunk" /\ S!process_request_chunk(m.path, m.index, m.hash)
       \/ m.type = "StopChunk" /\ S!StopChunk
       \/ m.type = "LoginSuccess" /\ S!LoginSuccess
    /\ UNCHANGED vars

Transfers(t) ==
    /\ \/ S!TransferReads(t)
       \/ S!TransferSends(t)
       \/ S!TransferFinished(t)
       \/ S!TransferCancelled(t)
    /\ UNCHANGED <<vars, relayVars, history>>

\* A client that is logged in dies of itself, or any client because the server
\* has ended its connection.
Dies(r) ==
    /\ \/ conn[r] = "in" /\ r \notin lost /\ Cardinality(lost) < MaxLost /\ lost' = lost \cup {r}
       \/ ~Connected(r) /\ UNCHANGED lost
    /\ \/ r = "Receiver" /\ Crash /\ UNCHANGED senderVars
       \/ r = "Sender" /\ S!Crash /\ UNCHANGED vars
    /\ Ended(inbox, r)
    /\ fresh' = FALSE
    /\ UNCHANGED clicks

\* It is started again and connects, once the server has forgotten it.
Returns(r) ==
    /\ conn[r] = "out"
    /\ \/ r = "Receiver" /\ Restart /\ UNCHANGED senderVars
       \/ r = "Sender" /\ S!Restart /\ UNCHANGED vars
    /\ conn' = [conn EXCEPT ![r] = "open"]
    /\ UNCHANGED <<inbox, outgoing, history>>

\* The user logs in, once.
LogsIn(r) ==
    /\ conn[r] = "open"
    /\ \/ r = "Receiver" /\ state = "None" /\ LogInAsReceiver /\ UNCHANGED senderVars
       \/ r = "Sender" /\ sender_state = "None" /\ S!LogInAsSender /\ UNCHANGED vars
    /\ UNCHANGED <<relayVars, history>>

\* Nothing is on its way: the user need not do anything more.  A state with no
\* step in which something still is would be a deadlock.
AtRest ==
    /\ up = <<>> /\ events = <<>> /\ inbox = <<>> /\ outgoing = [r \in Role |-> <<>>]
    /\ tasks = [t \in Task |-> NoTask]
    /\ UNCHANGED transferVars

TransferNext ==
    \/ \E p \in Path : \E l \in Locals(p) : Download(p, l)
    \/ \E p \in Path : Resume(p)
    \/ Stop
    \/ ReceiverSends
    \/ ReceiverTakes
    \/ ReceiverLogsOn
    \/ SenderSends
    \/ SenderTakes
    \/ \E t \in Task : Transfers(t)
    \/ ServerHandles
    \/ \E r \in Role : Dies(r) \/ Returns(r) \/ LogsIn(r)
    \/ AtRest

\* Every task takes what waits for it; a transfer that waits for room gets it
\* in turn.  The user and death are not fair, but a client notices the end of
\* its connection.
TransferFairness ==
    /\ WF_transferVars(ReceiverSends)
    /\ WF_transferVars(ReceiverTakes)
    /\ WF_transferVars(SenderSends)
    /\ WF_transferVars(SenderTakes)
    /\ WF_transferVars(ServerHandles)
    /\ \A t \in Task : SF_transferVars(Transfers(t))
    /\ \A r \in Role : WF_transferVars(~Connected(r) /\ Dies(r))

TransferSpec == TransferInit /\ [][TransferNext]_transferVars /\ TransferFairness

-----------------------------------------------------------------------------
(***************************************************************************)
(* Properties.                                                             *)
(***************************************************************************)
\* The type invariant of both clients and the relay.
TransferTypeOK ==
    /\ TypeOK
    /\ S!TypeOK
    /\ conn \in [Role -> {"in", "dead", "out", "open"}]
    /\ \A i \in DOMAIN inbox : inbox[i].from \in Role
    /\ \A r \in Role : Len(outgoing[r]) <= NetCap
    /\ clicks \in 0 .. MaxClicks /\ lost \subseteq Role /\ fresh \in BOOLEAN

\* A file shown as downloaded is the sender's file, block for block.
EndToEnd ==
    \A p \in Path : Complete(p) =>
        files[index[p].local_path] = Original[Listed[p].local_path]

Block(m) == IF m.type = "TransmitChunk" THEN m.data ELSE <<>>

\* The blocks among the messages of s.
Blocks(s) == FlattenSeq([i \in DOMAIN s |-> Block(s[i])])

Payloads(s) == [i \in DOMAIN s |-> s[i].message]

\* What a transfer has still to send.
Unsent(t) ==
    IF tasks[t] = NoTask THEN <<>>
    ELSE SubSeq(tasks[t].chunk.hash, Len(tasks[t].sent) + 1, tasks[t].chunk.size)

\* What the one that has something left has still to send.
Rest == IF \A t \in Task : Unsent(t) = <<>> THEN <<>>
        ELSE Unsent(CHOOSE t \in Task : Unsent(t) # <<>>)

\* Once its request has reached the sender, what was received of a chunk, what
\* is on its way and what the one running transfer has still to send make up
\* the chunk, each block once and in order, chunk after chunk.  This holds of
\* a download that started with nothing left of earlier ones: the blocks of a
\* stopped one can end up in the next (sender_cancellation_token,
\* process_transmit_chunk).
InOrder ==
    fresh /\ state = "RequestedChunk" /\ up = <<>> /\ ~InFlight("RequestChunk") =>
        LET c == index[requesting_chunk.remote_path].meta.chunks[requesting_chunk.chunk_index + 1] IN
        /\ \A t, u \in Task : Unsent(t) # <<>> /\ Unsent(u) # <<>> => t = u
        /\ c.hash = requesting_chunk.hashed \o Blocks(outgoing["Receiver"]) \o Blocks(Payloads(inbox))
                       \o Blocks(Payloads(events)) \o Rest

\* The server ends the connection of a client that has not died only if the
\* other one has died: stops, resumes and late blocks alone never make a
\* handler fail (handle_request_chunk, handle_stop_chunk,
\* handle_transmit_chunk).
CutNeedsLoss == lost = {} => \A r \in Role : conn[r] = "in"

\* A download that starts with nothing left of earlier ones comes to its end
\* unless the user stops it or a client dies: chunk after chunk is asked for,
\* read, relayed, hashed and marked.
QuietDownloadEnds == fresh ~> state # "RequestedChunk" \/ ~fresh

\* README.md: an interrupted transfer can always be continued from where it
\* stopped.  So a download, also one that was stopped and started again, comes
\* to its end unless the user stops it or a client dies; late blocks of the
\* stopped one do not make it wait for ever (process_transmit_chunk).
ResumeCompletes == state = "RequestedChunk" ~> state # "RequestedChunk" \/ lost # {}
=============================================================================
