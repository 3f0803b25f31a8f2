-------------------------------- MODULE Client --------------------------------
(***************************************************************************)
(* The client program around Receiver and Sender: the function logic of    *)
(* rstr_client/src/main.rs (connecting, and the event loop), the window    *)
(* (rstr_client/src/gui.rs and rstr_client/ui), and the two channels       *)
(* between them.                                                           *)
(*                                                                         *)
(* The loop and the window run in threads of their own.  What the window   *)
(* shows, and so what can be clicked, lags behind what the loop has done,  *)
(* a click is sent to the loop some time after it was made, and it is      *)
(* worked off when the loop has moved on.                                  *)
(*                                                                         *)
(* Of a file only the number of its chunks received counts, of a block     *)
(* only whether it completes a chunk, and of an upload whether its files   *)
(* could be read: Receiver and Sender have the rest.  The server is open.  *)
(* Progress, directories, the sender's list and wording are left out, and  *)
(* the disk works.                                                         *)
(***************************************************************************)
EXTENDS Integers, Sequences

CONSTANTS
    Path,        \* remote paths
    ChunkCount,  \* the number of chunks of each file, 0 for an empty one
    Unknown,     \* what was received of a file that is not in the index
    Stored,      \* what the index on disk may hold when the program starts
    NoPath,      \* no file
    MaxFiles,    \* bound on the files uploaded at once
    MaxClicks,   \* bound on the clicks
    MaxPushes,   \* bound on the messages the server sends of its own accord
    Cap          \* bound on the events and notices at which their senders wait

ASSUME ClientAssumption ==
    /\ ChunkCount \in [Path -> Nat] /\ NoPath \notin Path /\ Unknown \notin Int
    /\ Stored \subseteq [Path -> {Unknown} \cup Nat]
    /\ \A f \in Stored : \A p \in Path : f[p] = Unknown \/ f[p] <= ChunkCount[p]
    /\ MaxFiles \in Nat /\ MaxClicks \in Nat /\ MaxPushes \in Nat /\ Cap \in Nat \ {0}

VARIABLES
    logic,      \* where logic() is
    client,     \* ClientType of the event loop
    state,      \* state of the Receiver or Sender
    requesting, \* the file whose chunk is awaited
    received,   \* Receiver.index: the number of chunks received of each file
    jobs,       \* the number of files whose metadata is being created
    retries,    \* the number of those the window was told cannot be opened
    events,     \* the event channel
    notices,    \* the processing channel
    window,     \* what the window shows
    pending,    \* the clicks whose futures have not been polled (spawn_local)
    link,       \* the connection: "none", "up" or "cut"
    role,       \* the role the server knows this client in
    online,     \* does the server know a sender?
    asked,      \* has a chunk been asked for?
    down,       \* the messages on their way from the server
    clicks,     \* there have been so many
    pushes,     \* and so many messages nobody has asked the server for
    crossed,    \* did a click meet a loop that had moved on?
    nameless,   \* was a path uploaded that has no file name?
    failed      \* has a file been opened but not read?

loopVars == <<client, state, requesting, received>>
serverVars == <<link, role, online, asked, down>>
guiVars == <<window, pending>>
historyVars == <<clicks, pushes, crossed, nameless, failed>>
jobVars == <<jobs, retries>>
vars == <<logic, loopVars, jobVars, events, notices, guiVars, serverVars, historyVars>>

\* Slip: a file of which everything was received counts as one that is not
\* complete.
StatusOffByOne(p) ==
    CASE received[p] = Unknown -> "Absent"
      [] received[p] = 0 -> "NotDownloaded"
      [] OTHER -> "Downloading"

\* convert_index: an empty file counts as not downloaded.
Status(p) ==
    CASE received[p] = Unknown -> "Absent"
      [] received[p] = 0 -> "NotDownloaded"
      [] received[p] \in 1 .. ChunkCount[p] - 1 -> "Downloading"
      [] OTHER -> "Downloaded"

convert_index == [p \in Path |-> Status(p)]

Init ==
    /\ logic = "Connecting"
    /\ client = "None" /\ state = "Initializing" /\ requesting = NoPath
    /\ received \in Stored
    /\ jobs = 0 /\ retries = 0
    /\ events = <<>>
    /\ notices = <<[type |-> "ConnectionStatusChanged", status |-> "Connecting"]>>
    /\ window = [status |-> "Disconnected", screen |-> "MainScreen", sender_connected |-> FALSE,
                 downloading |-> NoPath, files |-> [p \in Path |-> "Absent"], dialog |-> NoPath,
                 creating |-> FALSE, queued |-> 0, metafile_index |-> -1, error |-> FALSE,
                 dialogs |-> {}]
    /\ pending = <<>>
    /\ link = "none" /\ role = "None" /\ online = FALSE /\ asked = FALSE /\ down = <<>>
    /\ clicks = 0 /\ pushes = 0 /\ crossed = FALSE /\ nameless = FALSE /\ failed = FALSE

-----------------------------------------------------------------------------
(***************************************************************************)
(* Connecting.  Only the first connection is tried again.                  *)
(***************************************************************************)
ConnectionStatus(s) == [type |-> "ConnectionStatusChanged", status |-> s]

Connects ==
    /\ logic = "Connecting"
    /\ logic' = "Running"
    /\ link' = "up"
    /\ notices' = Append(notices, ConnectionStatus("Connected"))
    /\ UNCHANGED <<loopVars, jobVars, events, guiVars, role, online, asked, down, historyVars>>

\* Slip: the loop ends when the server cannot be reached.
ConnectGivesUp ==
    /\ logic = "Connecting" /\ Len(notices) < Cap
    /\ logic' = "Ended"
    /\ notices' = Append(notices, ConnectionStatus("Disconnected"))
    /\ UNCHANGED <<loopVars, jobVars, events, guiVars, serverVars, historyVars>>

ConnectFails ==
    /\ logic = "Connecting" /\ Len(notices) < Cap
    /\ logic' = "Sleeping"
    /\ notices' = Append(notices, ConnectionStatus("Disconnected"))
    /\ UNCHANGED <<loopVars, jobVars, events, guiVars, serverVars, historyVars>>

\* Three seconds later.
TriesAgain ==
    /\ logic = "Sleeping"
    /\ logic' = "Connecting"
    /\ notices' = Append(notices, ConnectionStatus("Connecting"))
    /\ UNCHANGED <<loopVars, jobVars, events, guiVars, serverVars, historyVars>>

\* The loop ends or panics: the channel is closed and the spawned tasks end
\* with the runtime.
Over(how) ==
    /\ logic' = how
    /\ events' = <<>>
    /\ jobs' = 0 /\ retries' = 0

\* Slip: the end of the connection is not reported.
ReadEndsSilently ==
    /\ logic = "Running" /\ link = "cut"
    /\ Over("Ended")
    /\ UNCHANGED <<loopVars, notices, guiVars, serverVars, historyVars>>

\* The read task notices the end of the connection.
ReadEnds ==
    /\ logic = "Running" /\ link = "cut"
    /\ Over("Ended")
    /\ notices' = Append(notices, ConnectionStatus("Disconnected"))
    /\ UNCHANGED <<loopVars, guiVars, serverVars, historyVars>>

\* A message is read from the socket.  A block gets ahead of a click on Stop
\* that has not been sent.
ReadMessage ==
    /\ logic = "Running" /\ down # <<>> /\ Len(events) < Cap
    /\ events' = Append(events, [type |-> "ProcessMessage", message |-> Head(down)])
    /\ down' = Tail(down)
    /\ crossed' = (crossed \/ /\ Head(down).type = "TransmitChunk"
                               /\ \E i \in DOMAIN pending : pending[i].type = "DownloadStopped")
    /\ UNCHANGED <<logic, loopVars, jobVars, notices, guiVars, link, role, online, asked,
                   clicks, pushes, nameless, failed>>

-----------------------------------------------------------------------------
(***************************************************************************)
(* The event loop: one event and all that its handler does.  Handlers put  *)
(* the events they send behind those that wait.                            *)
(***************************************************************************)
Emit(out) == events' = Tail(events) \o out

Send(m) == [type |-> "SendMessage", message |-> m]

Update == [type |-> "UpdateReceiverFiles", files |-> convert_index']

\* An unwrap fails.
Panic == Over("Panicked") /\ UNCHANGED <<loopVars, notices>>

\* The handler neither panics nor says anything to the window.
Quietly == UNCHANGED <<logic, jobVars, notices>>

LogIn(r) ==
    /\ client' = r /\ state' = "Initializing" /\ requesting' = NoPath
    /\ Emit(<<Send([type |-> "Login", role |-> r])>>)
    /\ Quietly /\ UNCHANGED received

\* The window is told first; the unwrap of request_new_meta comes after.
LoggedInAsReceiver(files) ==
    /\ notices' = Append(notices, [type |-> "LoggedInAsReceiver", files |-> files])
    /\ \/ client = "Receiver" /\ state # "Idle" /\ Over("Panicked")
       \/ /\ ~(client = "Receiver" /\ state # "Idle")
          /\ Emit(IF client = "Receiver" THEN <<Send([type |-> "RequestMeta"])>> ELSE <<>>)
          /\ UNCHANGED <<logic, jobVars>>
    /\ UNCHANGED loopVars

Started(p) == <<Send([type |-> "RequestChunk"]), [type |-> "FileStartedDownloading", path |-> p]>>

\* The local path has been changed, and all marks are gone, when a file
\* without chunks makes request_chunk fail.
FileRequested(p) ==
    \/ /\ state = "Idle" /\ received[p] # Unknown
       /\ received' = [received EXCEPT ![p] = 0]
       /\ UNCHANGED <<client, notices>>
       /\ \/ /\ ChunkCount[p] > 0
             /\ state' = "RequestedChunk" /\ requesting' = p
             /\ Emit(Started(p))
             /\ UNCHANGED <<logic, jobVars>>
          \/ ChunkCount[p] = 0 /\ Over("Panicked") /\ UNCHANGED <<state, requesting>>
    \/ ~(state = "Idle" /\ received[p] # Unknown) /\ Panic

FileResumed(p) ==
    LET ok == state = "Idle" /\ received[p] # Unknown /\ received[p] < ChunkCount[p] IN
    \/ /\ ok
       /\ state' = "RequestedChunk" /\ requesting' = p
       /\ Emit(Started(p))
       /\ Quietly /\ UNCHANGED <<client, received>>
    \/ ~ok /\ Panic

DownloadStopped ==
    \/ /\ state = "RequestedChunk"
       /\ state' = "Idle"
       /\ UNCHANGED <<client, requesting, received>>
       /\ Emit(<<Send([type |-> "StopChunk"]), Update>>)
       /\ Quietly
    \/ state # "RequestedChunk" /\ Panic

\* A block, if it is expected, may complete its chunk, and the chunk the file.
TransmitChunk ==
    \/ Emit(<<>>) /\ UNCHANGED loopVars
    \/ /\ state = "RequestedChunk"
       /\ received' = [received EXCEPT ![requesting] = @ + 1]
       /\ \/ /\ received'[requesting] < ChunkCount[requesting]
             /\ Emit(<<Send([type |-> "RequestChunk"])>>)
             /\ UNCHANGED <<client, state, requesting>>
          \/ /\ received'[requesting] = ChunkCount[requesting]
             /\ state' = "Idle" /\ requesting' = NoPath
             /\ Emit(<<[type |-> "FileFinishedDownloading"], Update>>)
             /\ UNCHANGED client

TransmitMeta(P) ==
    \/ /\ state = "Idle"
       /\ received' = [p \in Path |-> IF p \in P THEN 0 ELSE received[p]]
       /\ Emit(<<Update>>)
       /\ UNCHANGED <<client, state, requesting>>
    \/ state # "Idle" /\ Emit(<<>>) /\ UNCHANGED loopVars

\* Receiver::process_message; what is not expected is dropped.
ReceiverProcesses(m) ==
    \/ /\ m.type = "LoginSuccess"
       /\ \/ /\ state = "Initializing" /\ state' = "Idle"
             /\ Emit(<<[type |-> "LoggedInAsReceiver", files |-> convert_index]>>)
             /\ UNCHANGED <<client, requesting, received>>
          \/ state # "Initializing" /\ Emit(<<>>) /\ UNCHANGED loopVars
    \/ /\ m.type = "NotifySenderStatus"
       /\ Emit(<<[type |-> IF m.connected THEN "SenderConnected" ELSE "SenderDisconnected"]>>)
       /\ UNCHANGED loopVars
    \/ /\ m.type = "NotifyUpdated"
       /\ \/ state = "Idle" /\ Emit(<<Send([type |-> "RequestMeta"])>>)
          \/ Emit(<<>>)
       /\ UNCHANGED loopVars
    \/ m.type = "TransmitMeta" /\ TransmitMeta(m.paths)
    \/ m.type = "TransmitChunk" /\ TransmitChunk

\* Sender::process_message, as far as it concerns the window.
SenderProcesses(m) ==
    \/ /\ m.type = "LoginSuccess"
       /\ state' = "Idle"
       /\ Emit(<<[type |-> "LoggedInAsSender"]>>)
       /\ UNCHANGED <<client, requesting, received>>
    \/ m.type # "LoginSuccess" /\ Emit(<<>>) /\ UNCHANGED loopVars

ProcessMessage(m) ==
    /\ \/ client = "None" /\ Emit(<<>>) /\ UNCHANGED loopVars
       \/ client = "Receiver" /\ ReceiverProcesses(m)
       \/ client = "Sender" /\ SenderProcesses(m)
    /\ Quietly

\* n files, of which so many can be opened; those that cannot are reported
\* one by one, and create_multiple_meta tries all of them all the same.
UploadMultipleMeta(n, opened) ==
    /\ notices' = notices \o [i \in 1 .. n - opened |-> [type |-> "MetadataCreationFailed"]]
                          \o <<[type |-> "MultipleMetadataCreationStarted", files |-> opened]>>
    /\ jobs' = jobs + opened /\ retries' = retries + n - opened
    /\ Emit(<<>>)
    /\ UNCHANGED <<logic, loopVars>>

\* A path that is typed need not name a file: the root directory can be opened
\* and has no file name to unwrap.
UploadMeta(local) ==
    \/ /\ local \in {"File", "Missing"}
       /\ notices' = Append(notices, [type |-> IF local = "File" THEN "MetadataCreationStarted"
                                                ELSE "MetadataCreationFailed"])
       /\ jobs' = IF local = "File" THEN jobs + 1 ELSE jobs
       /\ Emit(<<>>)
       /\ UNCHANGED <<logic, loopVars, retries>>
    \/ local = "Nameless" /\ Panic

MetaCreated ==
    /\ notices' = Append(notices, [type |-> "MetadataCreated"])
    /\ Emit(<<Send([type |-> "PublishMeta"])>>)
    /\ UNCHANGED <<logic, loopVars, jobVars>>

\* The connection is cut by the server when a handler fails.
Cut == link' = "cut" /\ UNCHANGED <<role, online, asked, down>>

\* What the server does with a message.
ServerGets(m) ==
    \/ /\ m.type = "Login" /\ role = "None" /\ ~(m.role = "Sender" /\ online)
       /\ role' = m.role
       /\ down' = down \o <<[type |-> "LoginSuccess"]>>
                      \o (IF online THEN <<[type |-> "NotifySenderStatus", connected |-> TRUE]>>
                         ELSE <<>>)
       /\ UNCHANGED <<link, online, asked>>
    \/ m.type = "Login" /\ Cut
    \/ /\ m.type = "RequestMeta" /\ role # "None"
       /\ \E P \in SUBSET Path : down' = Append(down, [type |-> "TransmitMeta", paths |-> P])
       /\ UNCHANGED <<link, role, online, asked>>
    \/ /\ m.type \in {"RequestChunk", "StopChunk"} /\ role = "Receiver" /\ online
       /\ asked' = TRUE
       /\ UNCHANGED <<link, role, online, down>>
    \/ m.type \in {"RequestChunk", "StopChunk"} /\ ~(role = "Receiver" /\ online) /\ Cut
    \/ m.type = "PublishMeta" /\ role = "Sender" /\ UNCHANGED serverVars
    \/ m.type = "PublishMeta" /\ role # "Sender" /\ Cut

\* Writing to a connection that has ended succeeds or panics.
SendMessage(m) ==
    \/ link = "up" /\ ServerGets(m) /\ Emit(<<>>) /\ Quietly /\ UNCHANGED loopVars
    \/ /\ link = "cut"
       /\ \/ Emit(<<>>) /\ Quietly /\ UNCHANGED loopVars
          \/ Panic
       /\ UNCHANGED serverVars

\* Slip: the sender's status is not passed on.
PassOnForgetting(e) ==
    /\ notices' = IF e.type \in {"SenderConnected", "SenderDisconnected"} THEN notices
                  ELSE Append(notices, e)
    /\ Emit(<<>>)
    /\ UNCHANGED <<logic, loopVars, jobVars>>

\* Slip: what comes while a chunk is awaited is put back.
PassOnLater(e) ==
    /\ \/ state = "RequestedChunk" /\ Emit(<<e>>) /\ UNCHANGED notices
       \/ state # "RequestedChunk" /\ Emit(<<>>) /\ notices' = Append(notices, e)
    /\ UNCHANGED <<logic, loopVars, jobVars>>

\* Events that are passed on to the window as they are.
PassOn(e) ==
    /\ notices' = Append(notices, e)
    /\ Emit(<<>>)
    /\ UNCHANGED <<logic, loopVars, jobVars>>

Ignored == Emit(<<>>) /\ Quietly /\ UNCHANGED loopVars

\* Events for a Receiver or a Sender are dropped by a client that is neither.
event_processor_task ==
    /\ logic = "Running" /\ events # <<>> /\ Len(notices) < Cap
    /\ LET e == Head(events) IN
       \/ /\ e.type = "SendMessage" /\ SendMessage(e.message)
       \/ /\ \/ e.type = "LogInAsReceiver" /\ LogIn("Receiver")
             \/ e.type = "LogInAsSender" /\ LogIn("Sender")
             \/ e.type = "LoggedInAsReceiver" /\ LoggedInAsReceiver(e.files)
             \/ e.type = "ProcessMessage" /\ ProcessMessage(e.message)
             \/ e.type \in {"LoggedInAsSender", "UpdateReceiverFiles", "SenderConnected",
                            "SenderDisconnected", "FileStartedDownloading",
                            "FileFinishedDownloading"} /\ PassOn(e)
             \/ /\ client = "Receiver"
                /\ \/ e.type = "FileRequested" /\ FileRequested(e.path)
                   \/ e.type = "FileResumed" /\ FileResumed(e.path)
                   \/ e.type = "DownloadStopped" /\ DownloadStopped
             \/ /\ client = "Sender"
                /\ \/ e.type = "UploadMeta" /\ UploadMeta(e.local)
                   \/ e.type = "UploadMultipleMeta" /\ UploadMultipleMeta(e.files, e.opened)
                   \/ e.type = "MetaCreated" /\ MetaCreated
             \/ e.type = "MetaCreationError" /\ Ignored
             \/ /\ e.type \in {"FileRequested", "FileResumed", "DownloadStopped"}
                /\ client # "Receiver" /\ Ignored
             \/ /\ e.type \in {"UploadMeta", "UploadMultipleMeta", "MetaCreated"}
                /\ client # "Sender" /\ Ignored
          /\ UNCHANGED serverVars
    /\ UNCHANGED <<guiVars, historyVars>>

\* The metadata of a file is there.
JobDone ==
    /\ jobs > 0 /\ Len(events) < Cap
    /\ jobs' = jobs - 1
    /\ events' = Append(events, [type |-> "MetaCreated"])
    /\ UNCHANGED <<logic, loopVars, retries, notices, guiVars, serverVars, historyVars>>

\* A file can no longer be opened, or a read fails, which ends the whole job.
JobFails ==
    /\ jobs > 0 /\ Len(events) < Cap
    /\ \/ /\ jobs' = jobs - 1 /\ events' = Append(events, [type |-> "MetaCreationError"])
          /\ UNCHANGED retries
       \/ jobs' \in 0 .. jobs - 1 /\ retries' \in 0 .. retries /\ UNCHANGED events
    /\ failed' = TRUE
    /\ UNCHANGED <<logic, loopVars, notices, guiVars, serverVars, clicks, pushes, crossed, nameless>>

\* A file that could not be opened is tried again.
RetryEnds ==
    /\ retries > 0 /\ Len(events) < Cap
    /\ retries' = retries - 1
    /\ \E e \in {"MetaCreated", "MetaCreationError"} : events' = Append(events, [type |-> e])
    /\ UNCHANGED <<logic, loopVars, jobs, notices, guiVars, serverVars, historyVars>>

-----------------------------------------------------------------------------
(***************************************************************************)
(* The server, of its own accord.                                          *)
(***************************************************************************)
ServerOnly ==
    UNCHANGED <<logic, loopVars, jobVars, events, notices, guiVars, role, clicks, crossed,
                nameless, failed>>

ToReceiver(m) ==
    /\ link = "up" /\ role = "Receiver" /\ down = <<>>
    /\ down' = Append(down, m)
    /\ UNCHANGED <<link, asked>>
    /\ ServerOnly

Pushed == pushes < MaxPushes /\ pushes' = pushes + 1

SenderComesOrGoes ==
    /\ online' = ~online
    /\ \/ ToReceiver([type |-> "NotifySenderStatus", connected |-> online']) /\ Pushed
       \/ role = "None" /\ UNCHANGED <<link, asked, down, pushes>> /\ ServerOnly

SenderTransmits ==
    asked /\ online /\ ToReceiver([type |-> "TransmitChunk"]) /\ UNCHANGED <<online, pushes>>

SenderPublishes == online /\ ToReceiver([type |-> "NotifyUpdated"]) /\ Pushed /\ UNCHANGED online

ConnectionLost == link = "up" /\ Cut /\ UNCHANGED pushes /\ ServerOnly

-----------------------------------------------------------------------------
(***************************************************************************)
(* The window.  While the dialog of on_download is open nothing else is    *)
(* done in its thread.                                                     *)
(***************************************************************************)
Alive == window.screen # "Gone" /\ window.dialog = NoPath

\* Slip: the index of the queue is not counted up.
metadata_created_stuck(w) ==
    IF w.metafile_index < w.queued
    THEN [w EXCEPT !.creating = w.metafile_index < w.queued]
    ELSE [w EXCEPT !.metafile_index = -1, !.creating = FALSE, !.queued = 0]

\* Slip: one element beyond the end counts as one of the queue.
metadata_created_beyond(w) ==
    IF w.metafile_index <= w.queued
    THEN [w EXCEPT !.metafile_index = @ + 1, !.creating = w.metafile_index + 1 < w.queued]
    ELSE [w EXCEPT !.metafile_index = -1, !.creating = FALSE, !.queued = 0]

\* An element beyond the end of the queue is an empty one.
metadata_created(w) ==
    IF w.metafile_index < w.queued
    THEN [w EXCEPT !.metafile_index = @ + 1, !.creating = w.metafile_index + 1 < w.queued]
    ELSE [w EXCEPT !.metafile_index = -1, !.creating = FALSE, !.queued = 0]

\* The window w after the notice n.
Shows(w, n) ==
    CASE n.type = "ConnectionStatusChanged" -> [w EXCEPT !.status = n.status]
      [] n.type = "LoggedInAsReceiver" -> [w EXCEPT !.files = n.files, !.screen = "ReceiverScreen"]
      [] n.type = "LoggedInAsSender" -> [w EXCEPT !.screen = "SenderScreen"]
      [] n.type = "UpdateReceiverFiles" -> [w EXCEPT !.files = n.files]
      [] n.type = "SenderConnected" -> [w EXCEPT !.sender_connected = TRUE]
      [] n.type = "SenderDisconnected" -> [w EXCEPT !.sender_connected = FALSE]
      [] n.type = "FileStartedDownloading" -> [w EXCEPT !.downloading = n.path]
      [] n.type = "FileFinishedDownloading" -> [w EXCEPT !.downloading = NoPath]
      [] n.type = "MetadataCreationStarted" -> [w EXCEPT !.creating = TRUE]
      [] n.type = "MultipleMetadataCreationStarted" ->
            [w EXCEPT !.queued = n.files, !.metafile_index = 0, !.creating = n.files > 0]
      [] n.type = "MetadataCreationFailed" -> [w EXCEPT !.error = TRUE, !.creating = FALSE]
      [] n.type = "MetadataCreated" -> metadata_created(w)

process_gui_event ==
    /\ Alive /\ notices # <<>>
    /\ window' = Shows(window, Head(notices))
    /\ notices' = Tail(notices)
    /\ UNCHANGED <<logic, loopVars, jobVars, events, pending, serverVars, historyVars>>

\* A click: the event e will be sent by a future that is spawned, and the
\* window is w.
Click(e, w) ==
    /\ pending' = Append(pending, e)
    /\ window' = w
    /\ clicks < MaxClicks /\ clicks' = clicks + 1
    /\ UNCHANGED <<logic, loopVars, jobVars, events, notices, serverVars, pushes, failed>>

\* The future of the first click is polled, and sends.  When there is no loop
\* any more, the unwrap ends the program.
SendClicked ==
    /\ Alive /\ pending # <<>>
    /\ \/ /\ logic = "Running" /\ Len(events) < Cap
          /\ events' = Append(events, Head(pending))
          /\ pending' = Tail(pending)
          /\ UNCHANGED window
       \/ /\ logic \in {"Ended", "Panicked"}
          /\ window' = [window EXCEPT !.screen = "Gone"]
          /\ UNCHANGED <<events, pending>>
    /\ UNCHANGED <<logic, loopVars, jobVars, notices, serverVars, historyVars>>

\* The window does not show yet, or cannot show, what the loop is doing.
Behind == pending # <<>> \/ events # <<>> \/ notices # <<>>

Pressed(e) ==
    /\ Alive /\ window.screen = "MainScreen" /\ window.status = "Connected"
    /\ Click(e, window)
    /\ crossed' = (crossed \/ Behind \/ client # "None")
    /\ UNCHANGED nameless

\* The save dialog opens.
on_download(p) ==
    /\ Alive /\ window.screen = "ReceiverScreen"
    /\ window.files[p] = "NotDownloaded" /\ window.downloading # p
    /\ window.sender_connected \/ window.downloading # NoPath
    /\ window' = [window EXCEPT !.dialog = p]
    /\ crossed' = (crossed \/ Behind \/ window.downloading # NoPath \/ ChunkCount[p] = 0)
    /\ UNCHANGED <<logic, loopVars, jobVars, events, notices, pending, serverVars, clicks, pushes,
                   nameless, failed>>

save_file(p) ==
    /\ window.dialog = p
    /\ \/ Click([type |-> "FileRequested", path |-> p], [window EXCEPT !.dialog = NoPath])
       \/ /\ window' = [window EXCEPT !.dialog = NoPath]
          /\ UNCHANGED <<logic, loopVars, jobVars, events, notices, pending, serverVars, clicks,
                         pushes, failed>>
    /\ UNCHANGED <<crossed, nameless>>

\* The Resume button is there whether or not the sender is.
on_resume(p) ==
    /\ Alive /\ window.screen = "ReceiverScreen"
    /\ window.files[p] = "Downloading" /\ window.downloading # p
    /\ Click([type |-> "FileResumed", path |-> p], window)
    /\ crossed' = (crossed \/ Behind \/ window.downloading # NoPath)
    /\ UNCHANGED nameless

\* The window forgets the download at once.
on_stop_downloading ==
    /\ Alive /\ window.screen = "ReceiverScreen" /\ window.downloading # NoPath
    /\ Click([type |-> "DownloadStopped"], [window EXCEPT !.downloading = NoPath])
    /\ crossed' = (crossed \/ Behind)
    /\ UNCHANGED nameless

WindowOnly ==
    UNCHANGED <<logic, loopVars, jobVars, events, notices, pending, serverVars, historyVars>>

\* The dialogs of an upload are windows of their own, and both may be open.
UploadClicked(d) ==
    /\ Alive /\ window.screen = "SenderScreen" /\ ~window.creating /\ ~window.error
    /\ window' = [window EXCEPT !.dialogs = @ \cup {d}]
    /\ WindowOnly

CancelClicked(d) ==
    /\ Alive /\ d \in window.dialogs
    /\ window' = [window EXCEPT !.dialogs = @ \ {d}]
    /\ WindowOnly

OkClicked ==
    /\ Alive
    /\ \/ /\ "single" \in window.dialogs
          /\ \E l \in {"File", "Missing", "Nameless"} :
                /\ Click([type |-> "UploadMeta", local |-> l],
                         [window EXCEPT !.dialogs = @ \ {"single"}])
                /\ nameless' = (nameless \/ l = "Nameless")
       \/ /\ "multiple" \in window.dialogs
          /\ \E n \in 1 .. MaxFiles : \E k \in 0 .. n :
                Click([type |-> "UploadMultipleMeta", files |-> n, opened |-> k],
                      [window EXCEPT !.dialogs = @ \ {"multiple"}])
          /\ UNCHANGED nameless
    /\ UNCHANGED crossed

ErrorClosed ==
    /\ Alive /\ window.error
    /\ window' = [window EXCEPT !.error = FALSE]
    /\ WindowOnly

Next ==
    \/ Connects \/ ConnectFails \/ TriesAgain \/ ReadEnds \/ ReadMessage
    \/ event_processor_task
    \/ JobDone \/ JobFails \/ RetryEnds
    \/ SenderComesOrGoes \/ SenderTransmits \/ SenderPublishes \/ ConnectionLost
    \/ process_gui_event
    \/ Pressed([type |-> "LogInAsReceiver"]) \/ Pressed([type |-> "LogInAsSender"])
    \/ \E p \in Path : on_download(p) \/ save_file(p) \/ on_resume(p)
    \/ on_stop_downloading
    \/ \E d \in {"single", "multiple"} : UploadClicked(d) \/ CancelClicked(d)
    \/ OkClicked
    \/ SendClicked
    \/ ErrorClosed

Spec == Init /\ [][Next]_vars

\* Both threads go on as long as there is something to do, the timer fires and
\* the server can be reached again and again.  A future that waits for room in
\* the event channel gets it in its turn, also if the read task always fills
\* it up again (mpsc).  The user and the server are not fair.
Fairness ==
    /\ WF_vars(TriesAgain) /\ SF_vars(Connects)
    /\ WF_vars(ReadEnds)
    /\ WF_vars(event_processor_task)
    /\ WF_vars(process_gui_event)
    /\ SF_vars(SendClicked)

FairSpec == Spec /\ Fairness

-----------------------------------------------------------------------------
(***************************************************************************)
(* Properties.                                                             *)
(***************************************************************************)
\* The type invariant.
TypeOK ==
    /\ logic \in {"Connecting", "Sleeping", "Running", "Ended", "Panicked"}
    /\ client \in {"None", "Receiver", "Sender"}
    /\ state \in {"Initializing", "Idle", "RequestedChunk"}
    /\ requesting \in Path \cup {NoPath}
    /\ \A p \in Path : received[p] \in {Unknown} \cup 0 .. ChunkCount[p]
    /\ jobs \in Nat /\ retries \in Nat
    /\ window.screen \in {"MainScreen", "ReceiverScreen", "SenderScreen", "Gone"}
    /\ window.metafile_index \in -1 .. window.queued

\* When the loop and the window have nothing left to do, the receiver's screen
\* shows what is: what was received of every file but the one that is being
\* downloaded, and whether the server knows a sender (process_gui_event).  The
\* file that is being downloaded is the one shown unless a click met a loop
\* that had moved on: the window forgets a stopped download at once, and a
\* FileStartedDownloading on its way brings back what is over by then
\* (on_stop_downloading, stop_transmition).
GuiAgrees ==
    logic = "Running" /\ client = "Receiver" /\ window.screen = "ReceiverScreen" /\ ~Behind =>
        /\ ~crossed => window.downloading = IF state = "RequestedChunk" THEN requesting ELSE NoPath
        /\ \A p \in Path : window.files[p] = Status(p) \/ (state = "RequestedChunk" /\ p = requesting)
        /\ link = "up" /\ down = <<>> => window.sender_connected = online

\* As long as the disk works and the connection stands, the loop panics only
\* if a path without a file name was uploaded (UploadMeta), or a click crossed:
\* it was made before the window had caught up, it was a second login, a second
\* download while one runs or a request for an empty file, or it was a click on
\* Stop and a block was read before its future was polled (spawn_local).  In
\* every other order of clicks, messages and polls the buttons that are there
\* are the calls the Receiver accepts (event_processor_task, check_state).
PanicNeedsCrossing == logic = "Panicked" => crossed \/ nameless \/ link = "cut"

\* When all metadata is created, the sender's screen has its buttons back, in
\* whatever order uploads of one and of several files overlap, unless a file
\* could be opened and not be read (metadata_created, MetaCreationError).
ButtonsBack ==
    logic = "Running" /\ client = "Sender" /\ ~Behind /\ jobs = 0 /\ ~failed => ~window.creating

\* A download the loop has begun is shown, unless it ends before or the user
\* leaves a dialog open.
StartedShown ==
    logic = "Running" /\ state = "RequestedChunk"
        ~> \/ window.downloading = requesting \/ window.dialog # NoPath
           \/ state # "RequestedChunk" \/ logic # "Running"

\* The client connects as soon as the server can be reached, and says so.
ConnectedShown == logic \in {"Connecting", "Sleeping"} ~> window.status = "Connected"

\* The end of the connection is shown, if the loop did not panic.
EndShown ==
    logic = "Ended" ~> window.status = "Disconnected" \/ window.dialog # NoPath
                       \/ window.screen = "Gone"
=============================================================================
