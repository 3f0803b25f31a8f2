--------------------------------- MODULE Sync ---------------------------------
(***************************************************************************)
(* How a receiver learns of published files: Receiver composed with the    *)
(* part of the server (rstr_server/src/server.rs) that keeps the published *)
(* metadata, and with the connection between the two.                      *)
(*                                                                         *)
(* A sender is connected all the time and publishes and removes files.     *)
(* The server stamps what is published with its clock; the receiver asks   *)
(* for what is newer than the newest it knows.  Messages arrive in order,  *)
(* and those on their way are lost when the connection ends.  The role of  *)
(* an old connection is free when the client returns (Server, RoleFreed).  *)
(* Blocks of data come from a sender that is not part of this module.      *)
(***************************************************************************)
EXTENDS Receiver

CONSTANTS
    Offer,    \* the metadata the sender publishes, as it created it
    MaxTime,  \* bound on the server's clock
    MaxNew,   \* bound on the files published
    NetCap    \* bound on the messages on their way in one direction

ASSUME OfferAssumption ==
    /\ Offer \subseteq [path : Path, size : Nat, meta_modified : Nat, chunks : Seq(Chunk)]
    /\ \A m \in Offer : \A t \in 0 .. MaxTime : [m EXCEPT !.meta_modified = t] \in Meta
\* No index is torn: dying in a save is a matter of Receiver.
ASSUME SyncBoundAssumption ==
    ~SaveMayTear /\ MaxTime \in Nat /\ MaxNew \in Nat /\ NetCap \in Nat \ {0}

VARIABLES
    published,  \* Server.index, a list of entries
    now,        \* the server's clock
    news,       \* so many files have been published
    inbox,      \* messages on their way to the server
    outgoing,   \* messages on their way to the receiver
    link        \* the connection: "none", "open", or "receiver" once logged in

M == INSTANCE MetaIndex

netVars == <<inbox, outgoing, link>>
serverVars == <<published, now, news>>
syncVars == <<vars, serverVars, netVars>>

SyncInit ==
    /\ Init
    /\ published = <<>>
    /\ now = 0 /\ news = 0
    /\ inbox = <<>>
    /\ outgoing = <<>>
    /\ link = "open"

-----------------------------------------------------------------------------
(***************************************************************************)
(* The client.                                                             *)
(***************************************************************************)
\* A process that ends takes its connection with it.
Cut == link' = "none" /\ inbox' = <<>> /\ outgoing' = <<>>

\* A step A of the receiver that neither sends nor receives.
Client(A) ==
    /\ A
    /\ IF state' = "Crashed" THEN Cut ELSE UNCHANGED netVars
    /\ UNCHANGED serverVars

\* A process that is started connects to the server.
Reconnect ==
    /\ Restart
    /\ link' = "open"
    /\ UNCHANGED <<serverVars, inbox, outgoing>>

\* The event loop ends with its connection, once read_task or a write has
\* noticed.
Closed == link = "none" /\ Client(Crash)

ClientSends ==
    /\ link # "none"
    /\ Len(inbox) < NetCap
    /\ SendMessage
    /\ inbox' = Append(inbox, Head(up))
    /\ UNCHANGED <<serverVars, outgoing, link>>

ClientReceives ==
    /\ outgoing # <<>>
    /\ LET m == Head(outgoing) IN
       \/ m.type = "LoginSuccess" /\ LoginSuccess
       \/ m.type = "NotifyUpdated" /\ NotifyUpdated(m.last_modified)
       \/ m.type = "TransmitMeta" /\ TransmitMeta(m.meta)
    /\ outgoing' = Tail(outgoing)
    /\ UNCHANGED <<serverVars, inbox, link>>

-----------------------------------------------------------------------------
(***************************************************************************)
(* The server.                                                             *)
(***************************************************************************)
Reply(m) == Len(outgoing) < NetCap /\ outgoing' = Append(outgoing, m)

\* The connection is cancelled; what was sent before may still arrive.
Refused == link' = "none" /\ inbox' = <<>> /\ UNCHANGED outgoing

\* What the server sends to one who asks for metadata newer than t.
NewerThan(t) ==
    [type |-> "TransmitMeta", meta |-> M!MetaByPath(M!get_modified_after(published, t))]

\* One message of the receiver is handled: a Login comes first and once.
\* RequestChunk and StopChunk go on to the sender.
ServerHandles ==
    /\ inbox # <<>>
    /\ LET m == Head(inbox) IN
       \/ (m.type = "Login" <=> link # "open") /\ Refused
       \/ /\ m.type = "Login" /\ link = "open"
          /\ Reply([type |-> "LoginSuccess"])
          /\ link' = "receiver"
          /\ inbox' = Tail(inbox)
       \/ /\ m.type = "RequestMeta" /\ link = "receiver"
          /\ Reply(NewerThan(m.after))
          /\ inbox' = Tail(inbox)
          /\ UNCHANGED link
       \/ /\ m.type \in {"RequestChunk", "StopChunk"} /\ link = "receiver"
          /\ inbox' = Tail(inbox)
          /\ UNCHANGED <<outgoing, link>>
    /\ UNCHANGED <<vars, serverVars>>

\* Slip: the server leaves the time the sender gave.
Unstamped(m, t) == m

Stamped(m, t) == [m EXCEPT !.meta_modified = t]

\* The receiver is told the time of the new entry.  Nothing keeps the clock from
\* showing the same millisecond for several files.
PublishMeta(m) ==
    /\ news < MaxNew /\ news' = news + 1
    /\ published' = M!add_for_meta(published, Stamped(m, now))
    /\ IF link = "receiver"
       THEN Reply([type |-> "NotifyUpdated", last_modified |-> now])
       ELSE UNCHANGED outgoing
    /\ UNCHANGED <<vars, now, inbox, link>>

\* Nobody is told that a file was removed.
RemoveMeta(p) ==
    /\ published' = M!remove(published, p)
    /\ UNCHANGED <<vars, now, news, netVars>>

\* The wall clock, which is taken never to be set back.
Tick ==
    /\ now < MaxTime
    /\ now' = now + 1
    /\ UNCHANGED <<vars, published, news, netVars>>

SyncNext ==
    \/ Client(LogInAsReceiver)
    \/ Client(LoggedInAsReceiver)
    \/ \E p \in Path : \E l \in Locals(p) : Client(FileRequested(p, l))
    \/ \E p \in Path : Client(FileResumed(p))
    \/ Client(DownloadStopped)
    \/ \E b \in Data : Client(TransmitChunk(b))
    \/ Client(Crash)
    \/ Closed
    \/ Reconnect
    \/ ClientSends
    \/ ClientReceives
    \/ ServerHandles
    \/ \E m \in Offer : PublishMeta(m)
    \/ \E p \in Path : RemoveMeta(p)
    \/ Tick

\* The event loop, the socket and the server take what waits for them.  What
\* the user, the sender and the disk do is not fair.
SyncFairness ==
    /\ WF_syncVars(Client(LoggedInAsReceiver))
    /\ WF_syncVars(Closed)
    /\ WF_syncVars(ClientSends)
    /\ WF_syncVars(ClientReceives)
    /\ WF_syncVars(ServerHandles)

SyncSpec == SyncInit /\ [][SyncNext]_syncVars /\ SyncFairness

-----------------------------------------------------------------------------
(***************************************************************************)
(* Properties.                                                             *)
(***************************************************************************)
ServerMessage ==
         [type : {"LoginSuccess"}]
    \cup [type : {"NotifyUpdated"}, last_modified : 0 .. MaxTime]
    \cup [type : {"TransmitMeta"}, meta : UNION {[P -> Meta] : P \in SUBSET Path}]

\* The type invariant; the published list never has two entries of one path,
\* which is what a map in the place of the list takes for granted (add_entry).
SyncTypeOK ==
    /\ TypeOK
    /\ \A i \in DOMAIN published : published[i].meta \in Meta
    /\ M!IsIndex(published)
    /\ now \in 0 .. MaxTime /\ news \in 0 .. MaxNew
    /\ inbox \in Seq(Message) /\ Len(inbox) <= NetCap
    /\ outgoing \in Seq(ServerMessage) /\ Len(outgoing) <= NetCap
    /\ link \in {"none", "open", "receiver"}

OnServer(m) == \E i \in DOMAIN published : published[i].meta = m

Shown(m) == Known(m.path) /\ index[m.path].meta = m

\* The receiver does not know m and will not ask for it at its next login.
Overlooked(m) ==
    OnServer(m) /\ ~Shown(m) /\ m.meta_modified <= get_last_updated(index)

\* Whatever is dropped, lost with a connection or forgotten in a crash, the
\* receiver does not believe itself ahead of a published file it has not heard
\* of, but for one case: the strict comparison of get_modified_after overlooks
\* a file that was published in the very millisecond of the newest the receiver
\* knows at that moment (get_last_updated, handle_publish_meta).  The server's
\* clock is not set back meanwhile (Tick).
OverlookedByTie ==
    [][\A m \in Meta : Overlooked(m)' =>
            Overlooked(m) \/ m.meta_modified = get_last_updated(index')]_syncVars

\* The marks of p are lost although its metadata is the same.
Wiped(p) ==
    /\ Known(p) /\ index'[p].meta = index[p].meta
    /\ ~(index[p].received_chunks \subseteq index'[p].received_chunks)

\* What was received before this login stays received until the file itself
\* is published anew or the user asks for it again: no metadata the server
\* sends in between wipes its marks (get_modified_after is strict).
OldProgressKept ==
    [][\A p \in Path : Wiped(p) /\ index[p].meta.meta_modified <= last_updated
                           => state' = "RequestedChunk"]_syncVars

\* README.md: a transfer can always be continued from where it stopped.  So
\* the marks of a file are lost only when it is published anew or the user
\* asks for it again.
ProgressKept == [][\A p \in Path : Wiped(p) => state' = "RequestedChunk"]_syncVars

\* The receiver is about to ask for a time before m's: it has just logged in
\* and knows nothing as new as m, or a NotifyUpdated as new as m will reach it.
Heard(m) ==
    \/ logged_in > 0 /\ get_last_updated(index) < m.meta_modified
    \/ /\ last_updated < m.meta_modified
       /\ \E i \in DOMAIN outgoing : /\ outgoing[i].type = "NotifyUpdated"
                                     /\ outgoing[i].last_modified >= m.meta_modified

\* A receiver that has just logged in, or that a NotifyUpdated will reach, gets
\* to know the published files newer than what it knows, or knew when it
\* logged in, as long as it stays idle: whatever else is published, removed or
\* asked for meanwhile, only a download or a new login makes it miss them.
CatchesUp ==
    \A m \in Meta :
        state = "Idle" /\ OnServer(m) /\ Heard(m)
            ~> Shown(m) \/ ~OnServer(m) \/ state # "Idle"
=============================================================================
