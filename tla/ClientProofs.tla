----------------------------- MODULE ClientProofs -----------------------------
(***************************************************************************)
(* Proofs about Client, for any files and any number of clicks: the window *)
(* shows in the end what the loop does, and the loop's unwraps hold unless *)
(* a click crossed or a path had no file name.                             *)
(***************************************************************************)
EXTENDS Client, FiniteSets, FiniteSetTheorems, TLAPS

-----------------------------------------------------------------------------
(***************************************************************************)
(* The inductive invariant.                                                *)
(***************************************************************************)
FileStatus == {"Absent", "NotDownloaded", "Downloading", "Downloaded"}

FromServer ==
         [type : {"LoginSuccess", "TransmitChunk", "NotifyUpdated"}]
    \cup [type : {"NotifySenderStatus"}, connected : BOOLEAN]
    \cup [type : {"TransmitMeta"}, paths : SUBSET Path]

ToServer ==
         [type : {"Login"}, role : {"Receiver", "Sender"}]
    \cup [type : {"RequestMeta", "RequestChunk", "StopChunk", "PublishMeta"}]

Event ==
         [type : {"LogInAsReceiver", "LogInAsSender", "DownloadStopped", "LoggedInAsSender",
                  "SenderConnected", "SenderDisconnected", "FileFinishedDownloading",
                  "MetaCreated", "MetaCreationError"}]
    \cup [type : {"FileRequested", "FileResumed", "FileStartedDownloading"}, path : Path]
    \cup [type : {"LoggedInAsReceiver", "UpdateReceiverFiles"}, files : [Path -> FileStatus]]
    \cup [type : {"ProcessMessage"}, message : FromServer]
    \cup [type : {"SendMessage"}, message : ToServer]
    \cup [type : {"UploadMeta"}, local : {"File", "Missing", "Nameless"}]
    \cup {e \in [type : {"UploadMultipleMeta"}, files : Nat, opened : Nat] : e.opened <= e.files}

\* The events by which the user tells the loop what to do.
LogIns == {"LogInAsReceiver", "LogInAsSender"}
Orders == {"FileRequested", "FileResumed", "DownloadStopped"}
Uploads == {"UploadMeta", "UploadMultipleMeta"}

UserEvent == {e \in Event : e.type \in LogIns \cup Orders \cup Uploads}

Notice ==
         [type : {"ConnectionStatusChanged"}, status : {"Connecting", "Connected", "Disconnected"}]
    \cup [type : {"LoggedInAsSender", "SenderConnected", "SenderDisconnected",
                  "FileFinishedDownloading", "MetadataCreationStarted",
                  "MetadataCreationFailed", "MetadataCreated"}]
    \cup [type : {"FileStartedDownloading"}, path : Path]
    \cup [type : {"LoggedInAsReceiver", "UpdateReceiverFiles"}, files : [Path -> FileStatus]]
    \cup [type : {"MultipleMetadataCreationStarted"}, files : Nat]

Window ==
    [status : {"Connecting", "Connected", "Disconnected"},
     screen : {"MainScreen", "ReceiverScreen", "SenderScreen", "Gone"},
     sender_connected : BOOLEAN, downloading : Path \cup {NoPath}, files : [Path -> FileStatus],
     dialog : Path \cup {NoPath}, creating : BOOLEAN, queued : Nat, metafile_index : Int,
     error : BOOLEAN, dialogs : SUBSET {"single", "multiple"}]

\* A chunk that is awaited is one the file has and that is not received.
LoopTypes ==
    /\ client \in {"None", "Receiver", "Sender"}
    /\ state \in {"Initializing", "Idle", "RequestedChunk"}
    /\ requesting \in Path \cup {NoPath}
    /\ received \in [Path -> {Unknown} \cup Nat]
    /\ \A p \in Path : received[p] \in {Unknown} \cup 0 .. ChunkCount[p]
    /\ state = "RequestedChunk" =>
          /\ client = "Receiver" /\ requesting \in Path
          /\ received[requesting] \in 0 .. ChunkCount[requesting] - 1

\* All queues hold what their readers expect.
QueueTypes ==
    /\ logic \in {"Connecting", "Sleeping", "Running", "Ended", "Panicked"}
    /\ jobs \in Nat /\ retries \in Nat
    /\ events \in Seq(Event)
    /\ notices \in Seq(Notice)

WindowTypes ==
    /\ window \in Window
    /\ window.metafile_index \in -1 .. window.queued
    /\ pending \in Seq(UserEvent)

ServerTypes ==
    /\ down \in Seq(FromServer)
    /\ link \in {"none", "up", "cut"} /\ role \in {"None", "Receiver", "Sender"}
    /\ online \in BOOLEAN /\ crossed \in BOOLEAN /\ nameless \in BOOLEAN /\ failed \in BOOLEAN

TypeInv == LoopTypes /\ QueueTypes /\ WindowTypes /\ ServerTypes

Elems(s) == {s[i] : i \in DOMAIN s}

Has(s, T) == \E e \in Elems(s) : e.type \in T

\* No element of a type in T comes after one of a type in U.
Sorted(s, T, U) == \A i, j \in DOMAIN s : i < j /\ s[i].type \in U => s[j].type \notin T

\* Who has seen another screen than the first does not log in any more.
ScreenInv ==
    /\ Sorted(events, LogIns, Orders \cup Uploads)
    /\ Sorted(pending, LogIns, Orders \cup Uploads)
    /\ Has(events, Orders \cup Uploads) => ~Has(pending, LogIns)
    /\ \/ state = "RequestedChunk" \/ jobs > 0 \/ retries > 0 \/ Has(events, {"MetaCreated"})
       => ~Has(events, LogIns) /\ ~Has(pending, LogIns)
    /\ \/ state = "RequestedChunk" \/ jobs > 0 \/ retries > 0
       \/ Has(events, Orders \cup Uploads \cup {"MetaCreated"})
       \/ Has(pending, Orders \cup Uploads)
       \/ window.dialog # NoPath \/ window.dialogs # {}
       => window.screen # "MainScreen"
    /\ jobs > 0 \/ retries > 0 \/ Has(events, {"MetaCreated"}) => client = "Sender"

\* What there is news of: the file that is being downloaded, the status of each
\* file, and the server's sender, in the messages, in the events that carry
\* them and in those for the window; and the role of the client, of which the
\* server hears.
TheDownload == [of |-> "download"]
TheFile(p) == [of |-> "file", path |-> p]
TheSender == [of |-> "sender"]
TheEvent == [of |-> "event"]
TheMessage == [of |-> "message"]
TheLogin == [of |-> "login"]

\* e is news of k.
About(e, k) ==
    \/ k.of = "download" /\ e.type \in {"FileStartedDownloading", "FileFinishedDownloading"}
    \/ k.of = "file" /\ e.type \in {"UpdateReceiverFiles", "LoggedInAsReceiver"}
    \/ k.of = "sender" /\ e.type \in {"SenderConnected", "SenderDisconnected"}
    \/ k.of = "event" /\ e.type = "ProcessMessage" /\ e.message.type = "NotifySenderStatus"
    \/ k.of = "message" /\ e.type = "NotifySenderStatus"
    \/ k.of = "login" /\ e.type = "SendMessage" /\ e.message.type = "Login"

OnOff(b) == IF b THEN "on" ELSE "off"

\* What it says.
Says(e, k) ==
    CASE k.of = "download" -> IF e.type = "FileStartedDownloading" THEN e.path ELSE NoPath
      [] k.of = "file" -> e.files[k.path]
      [] k.of = "sender" -> OnOff(e.type = "SenderConnected")
      [] k.of = "event" -> OnOff(e.message.connected)
      [] k.of = "message" -> OnOff(e.connected)
      [] k.of = "login" -> e.message.role

\* What the window says.
Seen(w, k) ==
    CASE k.of = "download" -> w.downloading
      [] k.of = "file" -> w.files[k.path]
      [] OTHER -> OnOff(w.sender_connected)

Silent(s, k) == \A i \in DOMAIN s : ~About(s[i], k)

\* The last news of k in the queue s is v.
LastNews(s, k, v) ==
    \E i \in DOMAIN s : /\ About(s[i], k) /\ Says(s[i], k) = v
                        /\ \A j \in DOMAIN s : i < j => ~About(s[j], k)

\* When both queues are worked off the window w shows v.
WillShow(ev, no, w, k, v) ==
    \/ LastNews(ev, k, v)
    \/ Silent(ev, k) /\ LastNews(no, k, v)
    \/ Silent(ev, k) /\ Silent(no, k) /\ Seen(w, k) = v

Entered == client = "Receiver" /\ state # "Initializing"

\* The window shows what was received, or will.
FilesInv ==
    \/ Entered \/ window.screen = "ReceiverScreen"
    \/ Has(events, {"LoggedInAsReceiver"}) \/ Has(notices, {"LoggedInAsReceiver"})
    => \A p \in Path : \/ state = "RequestedChunk" /\ p = requesting
                       \/ WillShow(events, notices, window, TheFile(p), Status(p))

\* The server takes the client for what it is, or a login is on its way, the
\* second of which would end the connection.  Before the connection is there
\* nothing has happened.
RoleInv ==
    /\ logic \in {"Connecting", "Sleeping"} =>
          link = "none" /\ client = "None" /\ role = "None" /\ events = <<>>
    /\ link = "up" => \/ LastNews(events, TheLogin, client)
                      \/ Silent(events, TheLogin) /\ role = client
    /\ role = "Sender" => ~online
    /\ role # "Receiver" =>
          /\ Silent(down, TheMessage) /\ Silent(events, TheEvent) /\ Silent(events, TheSender)
          /\ Silent(notices, TheSender) /\ ~window.sender_connected

\* The messages that are in the event channel get behind what is there.
SenderInv ==
    link = "up" /\ role = "Receiver" /\ Silent(events, TheLogin) =>
        \/ LastNews(down, TheMessage, OnOff(online))
        \/ /\ Silent(down, TheMessage)
           /\ \/ LastNews(events, TheEvent, OnOff(online))
              \/ /\ Silent(events, TheEvent)
                 /\ WillShow(events, notices, window, TheSender, OnOff(online))

\* Where elements of type t are behind the position i, and how many.
Places(s, i, t) == {j \in DOMAIN s : i < j /\ s[j].type = t}

Count(s, i, t) == Cardinality(Places(s, i, t))

\* Metadata that will be there and that the window does not know of, apart
\* from that in the notices up to position i.
Coming(i) == jobs + Count(events, 0, "MetaCreated") + Count(notices, i, "MetadataCreated")

\* As much metadata will come as the window waits for.
QueueInv ==
    /\ window.queued > 0 => window.queued - window.metafile_index <= Coming(0)
    /\ window.creating => Coming(0) >= 1
    /\ \A i \in DOMAIN notices :
          /\ notices[i].type = "MetadataCreationStarted" => Coming(i) >= 1
          /\ notices[i].type = "MultipleMetadataCreationStarted" => Coming(i) >= notices[i].files

\* What the user has clicked on and the loop has not come to.
Clicked(T) == Has(events, T) \/ Has(pending, T)

\* The file that will be shown as being downloaded.
Shown == IF state = "RequestedChunk" /\ ~Clicked({"DownloadStopped"}) THEN requesting ELSE NoPath

Ready(p) ==
    client = "Receiver" /\ state = "Idle" /\ received[p] # Unknown /\ ChunkCount[p] > 0

\* An event finds the client in the state in which the user saw it.
Expected(e) ==
    /\ e.type \in LogIns => client = "None"
    /\ e.type = "FileRequested" => Ready(e.path)
    /\ e.type = "FileResumed" => Ready(e.path) /\ received[e.path] < ChunkCount[e.path]
    /\ e.type = "DownloadStopped" => client = "Receiver" /\ state = "RequestedChunk"
    /\ e.type = "LoggedInAsReceiver" => client = "Receiver" /\ state = "Idle" /\ ~Clicked(Orders)

AtMostOne(s, T) == \A i, j \in DOMAIN s : s[i].type \in T /\ s[j].type \in T => i = j

IsBlock(e) == e.type = "ProcessMessage" /\ e.message.type = "TransmitChunk"

\* No block is ahead of a stop.
StopInv ==
    /\ \A i, j \in DOMAIN events :
          events[i].type = "DownloadStopped" /\ j < i => ~IsBlock(events[j])
    /\ Has(pending, {"DownloadStopped"}) => \A j \in DOMAIN events : ~IsBlock(events[j])

\* One order at a time, and each is expected.
OrdersInv ==
    /\ \A e \in Elems(events) \cup Elems(pending) : Expected(e)
    /\ AtMostOne(events, LogIns \cup Orders)
    /\ AtMostOne(pending, LogIns \cup Orders)
    /\ ~(Has(events, LogIns \cup Orders) /\ Has(pending, LogIns \cup Orders))
    /\ window.dialog # NoPath =>
          Ready(window.dialog) /\ ~Clicked(LogIns \cup Orders \cup {"LoggedInAsReceiver"})

\* As long as no click has crossed with anything.
CalmInv ==
    /\ OrdersInv
    /\ StopInv
    /\ client = "None" => state = "Initializing"
    /\ window.screen = "ReceiverScreen" \/ Has(notices, {"LoggedInAsReceiver"}) => Entered
    /\ WillShow(events, notices, window, TheDownload, Shown)

\* A path without a file name is on its way only if one was uploaded.
NamesInv ==
    \A e \in Elems(events) \cup Elems(pending) : e.type = "UploadMeta" => e.local # "Nameless"

Live == logic \notin {"Ended", "Panicked"}

CInv ==
    /\ TypeInv
    /\ Live => ScreenInv /\ FilesInv /\ RoleInv /\ SenderInv
    /\ Live /\ ~failed => QueueInv
    /\ Live /\ ~crossed => CalmInv
    /\ Live /\ ~nameless => NamesInv
    /\ PanicNeedsCrossing

-----------------------------------------------------------------------------
(***************************************************************************)
(* Queues.                                                                 *)
(***************************************************************************)
LEMMA TailFacts ==
    ASSUME NEW S, NEW s \in Seq(S), s # <<>>
    PROVE  /\ Tail(s) \in Seq(S) /\ Head(s) \in S /\ Head(s) = s[1] /\ 1 \in DOMAIN s
           /\ DOMAIN Tail(s) = 1 .. Len(s) - 1 /\ DOMAIN s = 1 .. Len(s) /\ Len(s) \in Nat \ {0}
           /\ \A i \in 1 .. Len(s) - 1 : Tail(s)[i] = s[i + 1]
OBVIOUS

LEMMA AppendFacts ==
    ASSUME NEW S, NEW s \in Seq(S), NEW e \in S
    PROVE  /\ Append(s, e) \in Seq(S)
           /\ DOMAIN Append(s, e) = 1 .. Len(s) + 1 /\ DOMAIN s = 1 .. Len(s) /\ Len(s) \in Nat
           /\ Append(s, e)[Len(s) + 1] = e
           /\ \A i \in DOMAIN s : Append(s, e)[i] = s[i]
OBVIOUS

\* What a handler sends comes behind the rest.
LEMMA Emitted ==
    ASSUME NEW S, NEW s \in Seq(S), NEW x \in S, NEW y \in S
    PROVE  /\ s \o <<>> = s
           /\ s \o <<x>> = Append(s, x)
           /\ s \o <<x, y>> = Append(Append(s, x), y)
OBVIOUS

LEMMA ElemsOfAppend ==
    ASSUME NEW S, NEW s \in Seq(S), NEW e \in S
    PROVE  Elems(Append(s, e)) = Elems(s) \cup {e}
<1>1. \A x \in Elems(Append(s, e)) : x \in Elems(s) \cup {e}
  BY AppendFacts DEF Elems
<1>2. \A x \in Elems(s) : x \in Elems(Append(s, e))
  BY AppendFacts DEF Elems
<1>3. e \in Elems(Append(s, e))
  <2>1. Len(s) + 1 \in DOMAIN Append(s, e) /\ Append(s, e)[Len(s) + 1] = e
    BY AppendFacts
  <2> QED BY <2>1 DEF Elems
<1> QED BY <1>1, <1>2, <1>3

LEMMA ElemsOfTail ==
    ASSUME NEW S, NEW s \in Seq(S), s # <<>>
    PROVE  Elems(s) = {Head(s)} \cup Elems(Tail(s))
<1>1. \A x \in Elems(Tail(s)) : x \in Elems(s)
  <2> SUFFICES ASSUME NEW i \in DOMAIN Tail(s) PROVE Tail(s)[i] \in Elems(s)
    BY DEF Elems
  <2>1. i + 1 \in DOMAIN s /\ s[i + 1] = Tail(s)[i]
    BY TailFacts
  <2> QED BY <2>1 DEF Elems
<1>2. \A x \in Elems(s) : x = Head(s) \/ x \in Elems(Tail(s))
  <2> SUFFICES ASSUME NEW i \in DOMAIN s, i # 1 PROVE s[i] \in Elems(Tail(s))
    BY TailFacts DEF Elems
  <2>1. i - 1 \in DOMAIN Tail(s) /\ Tail(s)[i - 1] = s[i]
    BY TailFacts
  <2> QED BY <2>1 DEF Elems
<1>3. Head(s) \in Elems(s)
  BY TailFacts DEF Elems
<1> QED BY <1>1, <1>2, <1>3

LEMMA HasInAppend ==
    ASSUME NEW S, NEW s \in Seq(S), NEW e \in S, NEW T
    PROVE  Has(Append(s, e), T) <=> Has(s, T) \/ e.type \in T
BY ElemsOfAppend DEF Has

LEMMA HasInTail ==
    ASSUME NEW S, NEW s \in Seq(S), s # <<>>, NEW T
    PROVE  Has(s, T) <=> Head(s).type \in T \/ Has(Tail(s), T)
BY ElemsOfTail DEF Has

LEMMA HasInEmpty == ASSUME NEW T PROVE ~Has(<<>>, T)
<1>1. DOMAIN <<>> = {}
  OBVIOUS
<1> QED BY <1>1 DEF Has, Elems

LEMMA SortedAppend ==
    ASSUME NEW S, NEW s \in Seq(S), NEW e \in S, NEW T, NEW U, Sorted(s, T, U),
           e.type \notin T \/ ~Has(s, U)
    PROVE  Sorted(Append(s, e), T, U)
<1> SUFFICES ASSUME NEW i \in DOMAIN Append(s, e), NEW j \in DOMAIN Append(s, e), i < j,
                    Append(s, e)[i].type \in U
             PROVE  Append(s, e)[j].type \notin T
  BY DEF Sorted
<1>1. i \in DOMAIN s /\ Append(s, e)[i] = s[i]
  BY AppendFacts
<1>2. CASE j \in DOMAIN s
  BY <1>1, <1>2, AppendFacts DEF Sorted
<1>3. CASE j \notin DOMAIN s
  <2>1. Append(s, e)[j] = e
    BY <1>3, AppendFacts
  <2>2. Has(s, U)
    BY <1>1 DEF Has, Elems
  <2> QED BY <2>1, <2>2
<1> QED BY <1>2, <1>3

LEMMA SortedTail ==
    ASSUME NEW S, NEW s \in Seq(S), s # <<>>, NEW T, NEW U, Sorted(s, T, U)
    PROVE  /\ Sorted(Tail(s), T, U)
           /\ Head(s).type \in U => ~Has(Tail(s), T)
<1>1. Sorted(Tail(s), T, U)
  <2> SUFFICES ASSUME NEW i \in DOMAIN Tail(s), NEW j \in DOMAIN Tail(s), i < j,
                      Tail(s)[i].type \in U
               PROVE  Tail(s)[j].type \notin T
    BY DEF Sorted
  <2>1. i + 1 \in DOMAIN s /\ j + 1 \in DOMAIN s /\ i + 1 < j + 1
    BY TailFacts
  <2>2. Tail(s)[i] = s[i + 1] /\ Tail(s)[j] = s[j + 1]
    BY TailFacts
  <2> QED BY <2>1, <2>2 DEF Sorted
<1>2. ASSUME Head(s).type \in U, NEW j \in DOMAIN Tail(s) PROVE Tail(s)[j].type \notin T
  <2>1. j + 1 \in DOMAIN s /\ 1 < j + 1 /\ Tail(s)[j] = s[j + 1] /\ 1 \in DOMAIN s /\ Head(s) = s[1]
    BY TailFacts
  <2> QED BY <1>2, <2>1 DEF Sorted
<1> QED BY <1>1, <1>2 DEF Has, Elems

LEMMA AtMostOneAppend ==
    ASSUME NEW S, NEW s \in Seq(S), NEW e \in S, NEW T, AtMostOne(s, T), e.type \notin T \/ ~Has(s, T)
    PROVE  AtMostOne(Append(s, e), T)
<1> SUFFICES ASSUME NEW i \in DOMAIN Append(s, e), NEW j \in DOMAIN Append(s, e),
                    Append(s, e)[i].type \in T, Append(s, e)[j].type \in T
             PROVE  i = j
  BY DEF AtMostOne
<1>1. \A k \in DOMAIN Append(s, e) : \/ k \in DOMAIN s /\ Append(s, e)[k] = s[k]
                                     \/ k = Len(s) + 1 /\ Append(s, e)[k] = e
  BY AppendFacts
<1>2. \A k \in DOMAIN s : s[k].type \in T => Has(s, T)
  BY DEF Has, Elems
<1> QED BY <1>1, <1>2 DEF AtMostOne

LEMMA AtMostOneTail ==
    ASSUME NEW S, NEW s \in Seq(S), s # <<>>, NEW T, AtMostOne(s, T)
    PROVE  /\ AtMostOne(Tail(s), T)
           /\ Head(s).type \in T => ~Has(Tail(s), T)
<1>1. \A i \in DOMAIN Tail(s) : i \in Nat /\ i + 1 \in DOMAIN s /\ i + 1 # 1 /\ Tail(s)[i] = s[i + 1]
  BY TailFacts
<1>2. 1 \in DOMAIN s /\ Head(s) = s[1]
  BY TailFacts
<1>3. AtMostOne(Tail(s), T)
  <2> SUFFICES ASSUME NEW i \in DOMAIN Tail(s), NEW j \in DOMAIN Tail(s),
                      Tail(s)[i].type \in T, Tail(s)[j].type \in T
               PROVE  i = j
    BY DEF AtMostOne
  <2>1. i + 1 = j + 1
    BY <1>1 DEF AtMostOne
  <2> QED BY <1>1, <2>1
<1>4. ASSUME Head(s).type \in T, NEW i \in DOMAIN Tail(s) PROVE Tail(s)[i].type \notin T
  BY <1>1, <1>2, <1>4 DEF AtMostOne
<1> QED BY <1>3, <1>4 DEF Has, Elems

-----------------------------------------------------------------------------
(***************************************************************************)
(* News in queues.                                                         *)
(***************************************************************************)
LEMMA NewsInAppend ==
    ASSUME NEW S, NEW s \in Seq(S), NEW e \in S, NEW k
    PROVE  /\ About(e, k) => LastNews(Append(s, e), k, Says(e, k))
           /\ ~About(e, k) => /\ Silent(s, k) => Silent(Append(s, e), k)
                              /\ \A v : LastNews(s, k, v) => LastNews(Append(s, e), k, v)
<1>1. \A i \in DOMAIN Append(s, e) : \/ i \in DOMAIN s /\ Append(s, e)[i] = s[i]
                                     \/ i = Len(s) + 1 /\ Append(s, e)[i] = e
  BY AppendFacts
<1>2. ASSUME About(e, k) PROVE LastNews(Append(s, e), k, Says(e, k))
  <2>1. Len(s) + 1 \in DOMAIN Append(s, e) /\ Append(s, e)[Len(s) + 1] = e
    BY AppendFacts
  <2>2. \A j \in DOMAIN Append(s, e) : ~(Len(s) + 1 < j)
    BY AppendFacts
  <2> QED BY <1>2, <2>1, <2>2 DEF LastNews
<1>3. ASSUME ~About(e, k), Silent(s, k) PROVE Silent(Append(s, e), k)
  BY <1>1, <1>3 DEF Silent
<1>4. ASSUME ~About(e, k), NEW v, LastNews(s, k, v) PROVE LastNews(Append(s, e), k, v)
  <2>1. PICK i \in DOMAIN s : /\ About(s[i], k) /\ Says(s[i], k) = v
                              /\ \A j \in DOMAIN s : i < j => ~About(s[j], k)
    BY <1>4 DEF LastNews
  <2>2. i \in DOMAIN Append(s, e) /\ Append(s, e)[i] = s[i]
    BY AppendFacts
  <2>3. \A j \in DOMAIN Append(s, e) : i < j => ~About(Append(s, e)[j], k)
    BY <1>1, <1>4, <2>1
  <2> QED BY <2>1, <2>2, <2>3 DEF LastNews
<1> QED BY <1>2, <1>3, <1>4

LEMMA NewsInTail ==
    ASSUME NEW S, NEW s \in Seq(S), s # <<>>, NEW k
    PROVE  /\ Silent(s, k) => ~About(Head(s), k) /\ Silent(Tail(s), k)
           /\ \A v : LastNews(s, k, v) =>
                 \/ LastNews(Tail(s), k, v)
                 \/ About(Head(s), k) /\ Says(Head(s), k) = v /\ Silent(Tail(s), k)
<1>1. \A i \in DOMAIN Tail(s) : i \in Nat /\ i >= 1 /\ i + 1 \in DOMAIN s /\ Tail(s)[i] = s[i + 1]
  BY TailFacts
<1>2. 1 \in DOMAIN s /\ Head(s) = s[1]
  BY TailFacts
<1>3. ASSUME Silent(s, k) PROVE ~About(Head(s), k) /\ Silent(Tail(s), k)
  BY <1>1, <1>2, <1>3 DEF Silent
<1>4. ASSUME NEW v, LastNews(s, k, v)
      PROVE  \/ LastNews(Tail(s), k, v)
             \/ About(Head(s), k) /\ Says(Head(s), k) = v /\ Silent(Tail(s), k)
  <2>1. PICK i \in DOMAIN s : /\ About(s[i], k) /\ Says(s[i], k) = v
                              /\ \A j \in DOMAIN s : i < j => ~About(s[j], k)
    BY <1>4 DEF LastNews
  <2>2. CASE i = 1
    <3>1. \A j \in DOMAIN Tail(s) : 1 < j + 1
      BY <1>1
    <3> QED BY <1>1, <1>2, <2>1, <2>2, <3>1 DEF Silent
  <2>3. CASE i # 1
    <3>1. i - 1 \in DOMAIN Tail(s) /\ Tail(s)[i - 1] = s[i]
      BY <2>3, TailFacts
    <3>2. \A j \in DOMAIN Tail(s) : i - 1 < j => i < j + 1
      BY <1>1, <2>3, TailFacts
    <3>3. \A j \in DOMAIN Tail(s) : i - 1 < j => ~About(Tail(s)[j], k)
      BY <1>1, <2>1, <3>2
    <3> QED BY <2>1, <3>1, <3>3 DEF LastNews
  <2> QED BY <2>2, <2>3
<1> QED BY <1>3, <1>4

LEMMA NewsInEmpty == ASSUME NEW k PROVE Silent(<<>>, k) /\ \A v : ~LastNews(<<>>, k, v)
<1>1. DOMAIN <<>> = {}
  OBVIOUS
<1> QED BY <1>1 DEF Silent, LastNews

LEMMA NotSilent == ASSUME NEW s, NEW k, NEW v, LastNews(s, k, v) PROVE ~Silent(s, k)
BY DEF LastNews, Silent

\* An event that is no news changes nothing, one that is says what is shown.
LEMMA ShowAppendEvent ==
    ASSUME NEW S, NEW ev \in Seq(S), NEW e \in S, NEW no, NEW w, NEW k
    PROVE  /\ ~About(e, k) => \A v : WillShow(ev, no, w, k, v) => WillShow(Append(ev, e), no, w, k, v)
           /\ About(e, k) => WillShow(Append(ev, e), no, w, k, Says(e, k))
BY NewsInAppend DEF WillShow

\* An event that is passed on says in the other queue what it said in the one.
LEMMA ShowPassedOn ==
    ASSUME NEW S, NEW ev \in Seq(S), ev # <<>>, NEW N, NEW no \in Seq(N), Head(ev) \in N, NEW w, NEW k
    PROVE  \A v : WillShow(ev, no, w, k, v) => WillShow(Tail(ev), Append(no, Head(ev)), w, k, v)
<1>1. CASE About(Head(ev), k)
  BY <1>1, NewsInTail, NewsInAppend, NotSilent DEF WillShow
<1>2. CASE ~About(Head(ev), k)
  BY <1>2, NewsInTail, NewsInAppend DEF WillShow
<1> QED BY <1>1, <1>2

LEMMA ShowAppendNotice ==
    ASSUME NEW ev, NEW N, NEW no \in Seq(N), NEW n \in N, NEW w, NEW k, ~About(n, k)
    PROVE  \A v : WillShow(ev, no, w, k, v) => WillShow(ev, Append(no, n), w, k, v)
BY NewsInAppend DEF WillShow

\* The window shows the next notice.
LEMMA ShowTailNotice ==
    ASSUME NEW ev, NEW N, NEW no \in Seq(N), no # <<>>, NEW w, NEW u, NEW k,
           Seen(u, k) = IF About(Head(no), k) THEN Says(Head(no), k) ELSE Seen(w, k)
    PROVE  \A v : WillShow(ev, no, w, k, v) => WillShow(ev, Tail(no), u, k, v)
<1>1. CASE About(Head(no), k)
  BY <1>1, NewsInTail, NotSilent DEF WillShow
<1>2. CASE ~About(Head(no), k)
  BY <1>2, NewsInTail DEF WillShow
<1> QED BY <1>1, <1>2

LEMMA ShowAtEnd ==
    ASSUME NEW w, NEW k, NEW v, WillShow(<<>>, <<>>, w, k, v)
    PROVE  Seen(w, k) = v
BY NewsInEmpty DEF WillShow

-----------------------------------------------------------------------------
(***************************************************************************)
(* Counting.                                                               *)
(***************************************************************************)
LEMMA CountIsNat ==
    ASSUME NEW S, NEW s \in Seq(S), NEW i \in Nat, NEW t
    PROVE  /\ IsFiniteSet(Places(s, i, t))
           /\ Count(s, i, t) \in Nat
<1>1. IsFiniteSet(DOMAIN s)
  BY FS_Interval
<1>2. Places(s, i, t) \in SUBSET DOMAIN s
  BY DEF Places
<1>3. IsFiniteSet(Places(s, i, t))
  BY <1>1, <1>2, FS_Subset
<1> QED BY <1>3, FS_CardinalityType DEF Count

LEMMA CountInAppend ==
    ASSUME NEW S, NEW s \in Seq(S), NEW e \in S, NEW i \in 0 .. Len(s), NEW t
    PROVE  Count(Append(s, e), i, t) = Count(s, i, t) + IF e.type = t THEN 1 ELSE 0
<1> DEFINE A == Places(s, i, t)
           B == Places(Append(s, e), i, t)
<1>1. i \in Nat /\ Len(s) \in Nat /\ Len(s) + 1 \notin A
  BY DEF Places
<1>2. IsFiniteSet(A)
  BY <1>1, CountIsNat
<1>3. CASE e.type = t
  <2>1. B = A \cup {Len(s) + 1}
    BY <1>1, <1>3, AppendFacts DEF Places
  <2>2. Cardinality(A \cup {Len(s) + 1}) = Cardinality(A) + 1
    BY <1>1, <1>2, FS_AddElement
  <2> QED BY <1>3, <2>1, <2>2 DEF Count
<1>4. CASE e.type # t
  <2>1. B = A
    BY <1>1, <1>4, AppendFacts DEF Places
  <2>2. Cardinality(A) \in Nat
    BY <1>2, FS_CardinalityType
  <2> QED BY <1>4, <2>1, <2>2 DEF Count
<1> QED BY <1>3, <1>4

LEMMA CountInTail ==
    ASSUME NEW S, NEW s \in Seq(S), s # <<>>, NEW i \in Nat, NEW t
    PROVE  Count(Tail(s), i, t) = Count(s, i + 1, t)
<1> DEFINE A == Places(Tail(s), i, t)
           B == Places(s, i + 1, t)
           f == [j \in A |-> j + 1]
<1>1. \A j \in DOMAIN Tail(s) : j \in Nat /\ j + 1 \in DOMAIN s /\ Tail(s)[j] = s[j + 1]
  BY TailFacts
<1>2. \A j \in A : j + 1 \in B
  BY <1>1 DEF Places
<1>3. \A j \in B : j - 1 \in A /\ (j - 1) + 1 = j
  <2> SUFFICES ASSUME NEW j \in B PROVE j - 1 \in A /\ (j - 1) + 1 = j
    OBVIOUS
  <2>1. j \in Nat /\ j - 1 \in DOMAIN Tail(s) /\ i < j - 1 /\ (j - 1) + 1 = j
    BY TailFacts DEF Places
  <2>2. Tail(s)[j - 1] = s[j]
    BY <1>1, <2>1
  <2> QED BY <2>1, <2>2 DEF Places
<1>4. f \in [A -> B]
  BY <1>2
<1>5. \A a, b \in A : f[a] = f[b] => a = b
  BY <1>1 DEF Places
<1>6. \A b \in B : \E a \in A : f[a] = b
  BY <1>3
<1>7. f \in Bijection(A, B)
  BY <1>4, <1>5, <1>6 DEF Bijection, Injection, Surjection, IsInjective
<1>8. IsFiniteSet(A)
  BY TailFacts, CountIsNat
<1> HIDE DEF A, B, f
<1>9. ExistsBijection(A, B)
  BY <1>7 DEF ExistsBijection
<1>10. Cardinality(B) = Cardinality(A)
  BY <1>8, <1>9, FS_Bijection
<1> QED BY <1>10 DEF Count, A, B

LEMMA CountOfHead ==
    ASSUME NEW S, NEW s \in Seq(S), s # <<>>, NEW t
    PROVE  Count(s, 0, t) = Count(s, 1, t) + IF Head(s).type = t THEN 1 ELSE 0
<1> DEFINE A == Places(s, 1, t)
           B == Places(s, 0, t)
<1>1. 1 \notin A /\ 1 \in DOMAIN s /\ Head(s) = s[1] /\ DOMAIN s = 1 .. Len(s) /\ Len(s) \in Nat
  BY TailFacts DEF Places
<1>2. IsFiniteSet(A)
  BY CountIsNat
<1>3. CASE Head(s).type = t
  <2>1. B = A \cup {1}
    BY <1>1, <1>3 DEF Places
  <2>2. Cardinality(A \cup {1}) = Cardinality(A) + 1
    BY <1>1, <1>2, FS_AddElement
  <2> QED BY <1>3, <2>1, <2>2 DEF Count
<1>4. CASE Head(s).type # t
  <2>1. B = A
    BY <1>1, <1>4 DEF Places
  <2>2. Cardinality(A) \in Nat
    BY <1>2, FS_CardinalityType
  <2> QED BY <1>4, <2>1, <2>2 DEF Count
<1> QED BY <1>3, <1>4

LEMMA CountInEmpty == ASSUME NEW t PROVE Count(<<>>, 0, t) = 0
<1>1. Places(<<>>, 0, t) = {}
  BY DEF Places
<1> QED BY <1>1, FS_EmptySet DEF Count

-----------------------------------------------------------------------------
(***************************************************************************)
(* Types.                                                                  *)
(***************************************************************************)
LEMMA MessageFacts ==
    ASSUME NEW m \in FromServer
    PROVE  /\ m.type \in {"LoginSuccess", "TransmitChunk", "NotifyUpdated", "NotifySenderStatus",
                          "TransmitMeta"}
           /\ m.type = "NotifySenderStatus" => m.connected \in BOOLEAN
           /\ m.type = "TransmitMeta" => m.paths \in SUBSET Path
BY DEF FromServer

LEMMA MessageMakers ==
    /\ [type |-> "LoginSuccess"] \in FromServer /\ [type |-> "TransmitChunk"] \in FromServer
    /\ [type |-> "NotifyUpdated"] \in FromServer
    /\ \A b \in BOOLEAN : [type |-> "NotifySenderStatus", connected |-> b] \in FromServer
    /\ \A P \in SUBSET Path : [type |-> "TransmitMeta", paths |-> P] \in FromServer
BY DEF FromServer

LEMMA EventFacts ==
    ASSUME NEW e \in Event
    PROVE  /\ e.type = "ProcessMessage" => e.message \in FromServer
           /\ e.type = "SendMessage" => e.message \in ToServer
           /\ e.type \in {"FileRequested", "FileResumed", "FileStartedDownloading"} => e.path \in Path
           /\ e.type \in {"LoggedInAsReceiver", "UpdateReceiverFiles"} =>
                 e.files \in [Path -> FileStatus]
           /\ e.type = "UploadMeta" => e.local \in {"File", "Missing", "Nameless"}
           /\ e.type = "UploadMultipleMeta" =>
                 e.files \in Nat /\ e.opened \in Nat /\ e.opened <= e.files
           /\ e.type \in {"LoggedInAsReceiver", "LoggedInAsSender", "UpdateReceiverFiles",
                          "SenderConnected", "SenderDisconnected", "FileStartedDownloading",
                          "FileFinishedDownloading"} => e \in Notice
<1>1. CASE e \in [type : {"LogInAsReceiver", "LogInAsSender", "DownloadStopped", "LoggedInAsSender",
                  "SenderConnected", "SenderDisconnected", "FileFinishedDownloading",
                  "MetaCreated", "MetaCreationError"}]
  BY <1>1 DEF Notice
<1>2. CASE e \in [type : {"FileRequested", "FileResumed", "FileStartedDownloading"}, path : Path]
  BY <1>2 DEF Notice
<1>3. CASE e \in [type : {"LoggedInAsReceiver", "UpdateReceiverFiles"}, files : [Path -> FileStatus]]
  BY <1>3 DEF Notice
<1>4. CASE e \in [type : {"ProcessMessage"}, message : FromServer]
  BY <1>4
<1>5. CASE e \in [type : {"SendMessage"}, message : ToServer]
  BY <1>5
<1>6. CASE e \in [type : {"UploadMeta"}, local : {"File", "Missing", "Nameless"}]
  BY <1>6
<1>7. CASE e \in {x \in [type : {"UploadMultipleMeta"}, files : Nat, opened : Nat] : x.opened <= x.files}
  BY <1>7
<1> QED BY <1>1, <1>2, <1>3, <1>4, <1>5, <1>6, <1>7 DEF Event

LEMMA EventMakers ==
    /\ \A t \in {"LogInAsReceiver", "LogInAsSender", "DownloadStopped", "LoggedInAsSender",
                 "SenderConnected", "SenderDisconnected", "FileFinishedDownloading",
                 "MetaCreated", "MetaCreationError"} : [type |-> t] \in Event
    /\ \A p \in Path : /\ [type |-> "FileRequested", path |-> p] \in Event
                       /\ [type |-> "FileResumed", path |-> p] \in Event
                       /\ [type |-> "FileStartedDownloading", path |-> p] \in Event
    /\ \A f \in [Path -> FileStatus] : /\ [type |-> "LoggedInAsReceiver", files |-> f] \in Event
                                       /\ [type |-> "UpdateReceiverFiles", files |-> f] \in Event
    /\ \A m \in FromServer : [type |-> "ProcessMessage", message |-> m] \in Event
    /\ \A m \in ToServer : Send(m) \in Event
    /\ \A l \in {"File", "Missing", "Nameless"} : [type |-> "UploadMeta", local |-> l] \in Event
    /\ \A n \in Nat : \A k \in 0 .. n : [type |-> "UploadMultipleMeta", files |-> n, opened |-> k] \in Event
BY DEF Event, Send

LEMMA ToServerMakers ==
    /\ \A r \in {"Receiver", "Sender"} : [type |-> "Login", role |-> r] \in ToServer
    /\ [type |-> "RequestMeta"] \in ToServer /\ [type |-> "RequestChunk"] \in ToServer
    /\ [type |-> "StopChunk"] \in ToServer /\ [type |-> "PublishMeta"] \in ToServer
BY DEF ToServer

LEMMA NoticeMakers ==
    /\ \A s \in {"Connecting", "Connected", "Disconnected"} : ConnectionStatus(s) \in Notice
    /\ \A t \in {"MetadataCreationStarted", "MetadataCreationFailed", "MetadataCreated"} :
          [type |-> t] \in Notice
    /\ \A n \in Nat : [type |-> "MultipleMetadataCreationStarted", files |-> n] \in Notice
    /\ \A f \in [Path -> FileStatus] : [type |-> "LoggedInAsReceiver", files |-> f] \in Notice
BY DEF Notice, ConnectionStatus

LEMMA EmitTypes ==
    ASSUME events \in Seq(Event), events # <<>>
    PROVE  /\ Tail(events) \in Seq(Event) /\ Head(events) \in Event
           /\ Emit(<<>>) => events' \in Seq(Event)
           /\ \A x \in Event : Emit(<<x>>) => events' \in Seq(Event)
           /\ \A x, y \in Event : Emit(<<x, y>>) => events' \in Seq(Event)
<1>1. Tail(events) \in Seq(Event) /\ Head(events) \in Event
  OBVIOUS
<1>2. \A x, y \in Event : <<>> \in Seq(Event) /\ <<x>> \in Seq(Event) /\ <<x, y>> \in Seq(Event)
  OBVIOUS
<1>3. \A o \in Seq(Event) : Tail(events) \o o \in Seq(Event)
  BY <1>1
<1>4. <<>> \in Seq(Event)
  OBVIOUS
<1> QED BY <1>1, <1>2, <1>3, <1>4 DEF Emit

\* What the window is told of a file is the status of it.
LEMMA StatusType ==
    /\ convert_index \in [Path -> FileStatus] /\ convert_index' \in [Path -> FileStatus]
    /\ Update \in Event
<1>1. \A p \in Path : Status(p) \in FileStatus
  BY DEF Status, FileStatus
<1>2. \A p \in Path : Status(p)' \in FileStatus
  BY DEF Status, FileStatus
<1>3. convert_index \in [Path -> FileStatus] /\ convert_index' \in [Path -> FileStatus]
  BY <1>1, <1>2 DEF convert_index
<1> QED BY <1>3, EventMakers DEF Update

\* One turn of the loop, event by event.
LEMMA TurnCases ==
    ASSUME event_processor_task
    PROVE  /\ logic = "Running" /\ events # <<>>
           /\ UNCHANGED guiVars /\ UNCHANGED historyVars
           /\ LET e == Head(events) IN
              \/ e.type = "SendMessage" /\ SendMessage(e.message)
              \/ e.type = "LogInAsReceiver" /\ LogIn("Receiver") /\ UNCHANGED serverVars
              \/ e.type = "LogInAsSender" /\ LogIn("Sender") /\ UNCHANGED serverVars
              \/ e.type = "LoggedInAsReceiver" /\ LoggedInAsReceiver(e.files) /\ UNCHANGED serverVars
              \/ e.type = "ProcessMessage" /\ ProcessMessage(e.message) /\ UNCHANGED serverVars
              \/ /\ e.type \in {"LoggedInAsSender", "UpdateReceiverFiles", "SenderConnected",
                                "SenderDisconnected", "FileStartedDownloading",
                                "FileFinishedDownloading"}
                 /\ PassOn(e) /\ UNCHANGED serverVars
              \/ client = "Receiver" /\ e.type = "FileRequested" /\ FileRequested(e.path) /\ UNCHANGED serverVars
              \/ client = "Receiver" /\ e.type = "FileResumed" /\ FileResumed(e.path) /\ UNCHANGED serverVars
              \/ client = "Receiver" /\ e.type = "DownloadStopped" /\ DownloadStopped /\ UNCHANGED serverVars
              \/ client = "Sender" /\ e.type = "UploadMeta" /\ UploadMeta(e.local) /\ UNCHANGED serverVars
              \/ /\ client = "Sender" /\ e.type = "UploadMultipleMeta"
                 /\ UploadMultipleMeta(e.files, e.opened) /\ UNCHANGED serverVars
              \/ client = "Sender" /\ e.type = "MetaCreated" /\ MetaCreated /\ UNCHANGED serverVars
              \/ /\ \/ e.type = "MetaCreationError"
                    \/ e.type \in Orders /\ client # "Receiver"
                    \/ e.type \in Uploads \cup {"MetaCreated"} /\ client # "Sender"
                 /\ Ignored /\ UNCHANGED serverVars
BY DEF event_processor_task, Orders, Uploads

LEMMA UnchangedParts ==
    /\ LoopTypes /\ UNCHANGED loopVars => LoopTypes'
    /\ QueueTypes /\ UNCHANGED <<logic, jobVars, events, notices>> => QueueTypes'
    /\ WindowTypes /\ UNCHANGED guiVars => WindowTypes'
    /\ ServerTypes /\ UNCHANGED <<serverVars, historyVars>> => ServerTypes'
BY DEF LoopTypes, QueueTypes, WindowTypes, ServerTypes, loopVars, jobVars, guiVars, serverVars, historyVars

LEMMA OverTypes ==
    ASSUME QueueTypes, NEW how \in {"Ended", "Panicked"}, Over(how), notices' \in Seq(Notice)
    PROVE  QueueTypes'
<1>1. <<>> \in Seq(Event)
  OBVIOUS
<1> QED BY <1>1 DEF Over, QueueTypes

LEMMA ReceivedTypes ==
    ASSUME LoopTypes, QueueTypes, NEW e \in Event, events # <<>>
    PROVE  /\ client = "Receiver" /\ e.type = "FileRequested" /\ FileRequested(e.path) =>
                 LoopTypes' /\ QueueTypes'
           /\ client = "Receiver" /\ e.type = "FileResumed" /\ FileResumed(e.path) =>
                 LoopTypes' /\ QueueTypes'
           /\ client = "Receiver" /\ DownloadStopped => LoopTypes' /\ QueueTypes'
<1> USE ClientAssumption
<1>1. events \in Seq(Event) /\ notices \in Seq(Notice)
  BY DEF QueueTypes
<1>2. e.type \in {"FileRequested", "FileResumed"} => e.path \in Path
  BY EventFacts
<1>3. \A p \in Path : Emit(Started(p)) => events' \in Seq(Event)
  <2>1. \A p \in Path : [type |-> "FileStartedDownloading", path |-> p] \in Event
    BY EventMakers
  <2>2. Send([type |-> "RequestChunk"]) \in Event
    BY EventMakers, ToServerMakers
  <2> QED BY <1>1, <2>1, <2>2, EmitTypes DEF Started
<1>4. ASSUME NEW p \in Path, FileRequested(p), client = "Receiver" PROVE LoopTypes' /\ QueueTypes'
  <2>1. CASE Panic
    BY <1>1, <2>1, OverTypes, UnchangedParts DEF Panic
  <2>2. CASE /\ state = "Idle" /\ received' = [received EXCEPT ![p] = 0]
             /\ UNCHANGED <<client, notices, state, requesting>> /\ Over("Panicked")
    <3>1. LoopTypes'
      BY <2>2 DEF LoopTypes
    <3> QED BY <1>1, <2>2, <3>1, OverTypes
  <2>3. CASE /\ state = "Idle" /\ received' = [received EXCEPT ![p] = 0]
             /\ UNCHANGED <<client, notices, logic, jobVars>> /\ ChunkCount[p] > 0
             /\ state' = "RequestedChunk" /\ requesting' = p /\ Emit(Started(p))
    <3>1. LoopTypes'
      BY <1>4, <2>3 DEF LoopTypes
    <3>2. QueueTypes'
      BY <1>3, <2>3 DEF QueueTypes, jobVars
    <3> QED BY <3>1, <3>2
  <2> QED BY <1>4, <2>1, <2>2, <2>3 DEF FileRequested
<1>5. ASSUME NEW p \in Path, FileResumed(p), client = "Receiver" PROVE LoopTypes' /\ QueueTypes'
  <2>1. CASE Panic
    BY <1>1, <2>1, OverTypes, UnchangedParts DEF Panic
  <2>2. CASE /\ received[p] # Unknown /\ received[p] < ChunkCount[p]
             /\ state' = "RequestedChunk" /\ requesting' = p
             /\ Emit(Started(p)) /\ Quietly /\ UNCHANGED <<client, received>>
    <3>1. LoopTypes'
      BY <1>5, <2>2 DEF LoopTypes
    <3>2. QueueTypes'
      BY <1>3, <2>2 DEF QueueTypes, Quietly, jobVars
    <3> QED BY <3>1, <3>2
  <2> QED BY <1>5, <2>1, <2>2 DEF FileResumed
<1>6. ASSUME DownloadStopped, client = "Receiver" PROVE LoopTypes' /\ QueueTypes'
  <2>1. CASE Panic
    BY <1>1, <2>1, OverTypes, UnchangedParts DEF Panic
  <2>2. CASE /\ state' = "Idle" /\ UNCHANGED <<client, requesting, received>>
             /\ Emit(<<Send([type |-> "StopChunk"]), Update>>) /\ Quietly
    <3>1. LoopTypes'
      BY <2>2 DEF LoopTypes
    <3>2. Send([type |-> "StopChunk"]) \in Event /\ Update \in Event
      BY EventMakers, ToServerMakers, StatusType
    <3>3. QueueTypes'
      BY <1>1, <2>2, <3>2, EmitTypes DEF QueueTypes, Quietly, jobVars
    <3> QED BY <3>1, <3>3
  <2> QED BY <1>6, <2>1, <2>2 DEF DownloadStopped
<1> QED BY <1>2, <1>4, <1>5, <1>6

\* A message changes the loop's own variables and puts events at the end.
LEMMA ProcessTypes ==
    ASSUME LoopTypes, QueueTypes, events # <<>>, NEW m \in FromServer, ProcessMessage(m)
    PROVE  LoopTypes' /\ QueueTypes'
<1> USE ClientAssumption
<1>1. events \in Seq(Event)
  BY DEF QueueTypes
<1>2. ASSUME events' \in Seq(Event) PROVE QueueTypes'
  BY <1>2 DEF ProcessMessage, Quietly, QueueTypes, jobVars
<1>3. Emit(<<>>) => events' \in Seq(Event)
  BY <1>1, EmitTypes
<1>4. /\ Emit(<<[type |-> "LoggedInAsReceiver", files |-> convert_index]>>) => events' \in Seq(Event)
      /\ Emit(<<[type |-> "LoggedInAsSender"]>>) => events' \in Seq(Event)
      /\ Emit(<<[type |-> IF m.connected THEN "SenderConnected" ELSE "SenderDisconnected"]>>) =>
            events' \in Seq(Event)
      /\ Emit(<<Send([type |-> "RequestMeta"])>>) => events' \in Seq(Event)
      /\ Emit(<<Send([type |-> "RequestChunk"])>>) => events' \in Seq(Event)
      /\ Emit(<<Update>>) => events' \in Seq(Event)
      /\ Emit(<<[type |-> "FileFinishedDownloading"], Update>>) => events' \in Seq(Event)
  <2>1. /\ [type |-> "LoggedInAsReceiver", files |-> convert_index] \in Event
        /\ [type |-> "LoggedInAsSender"] \in Event
        /\ [type |-> IF m.connected THEN "SenderConnected" ELSE "SenderDisconnected"] \in Event
        /\ Send([type |-> "RequestMeta"]) \in Event
        /\ Send([type |-> "RequestChunk"]) \in Event
        /\ Update \in Event
        /\ [type |-> "FileFinishedDownloading"] \in Event
    BY EventMakers, ToServerMakers, StatusType
  <2> QED BY <1>1, <2>1, EmitTypes
<1>5. CASE Emit(<<>>) /\ UNCHANGED loopVars
  BY <1>2, <1>3, <1>5, UnchangedParts
<1>6. CASE client = "Receiver" /\ ReceiverProcesses(m)
  <2>1. CASE m.type = "LoginSuccess"
    BY <1>2, <1>3, <1>4, <1>6, <2>1 DEF ReceiverProcesses, LoopTypes, loopVars
  <2>2. CASE m.type = "NotifySenderStatus"
    BY <1>2, <1>4, <1>6, <2>2, UnchangedParts DEF ReceiverProcesses
  <2>3. CASE m.type = "NotifyUpdated"
    BY <1>2, <1>3, <1>4, <1>6, <2>3, UnchangedParts DEF ReceiverProcesses
  <2>4. CASE m.type = "TransmitMeta"
    <3>1. CASE /\ state = "Idle"
               /\ received' = [p \in Path |-> IF p \in m.paths THEN 0 ELSE received[p]]
               /\ Emit(<<Update>>) /\ UNCHANGED <<client, state, requesting>>
      <4>1. received' \in [Path -> {Unknown} \cup Nat]
        BY <3>1 DEF LoopTypes
      <4>2. \A p \in Path : received'[p] \in {Unknown} \cup 0 .. ChunkCount[p]
        BY <3>1 DEF LoopTypes
      <4>3. LoopTypes'
        BY <3>1, <4>1, <4>2 DEF LoopTypes
      <4> QED BY <1>2, <1>4, <3>1, <4>3
    <3> QED BY <1>5, <1>6, <2>4, <3>1 DEF ReceiverProcesses, TransmitMeta
  <2>5. CASE m.type = "TransmitChunk"
    <3>1. CASE /\ state = "RequestedChunk"
               /\ received' = [received EXCEPT ![requesting] = @ + 1]
               /\ received'[requesting] < ChunkCount[requesting]
               /\ Emit(<<Send([type |-> "RequestChunk"])>>)
               /\ UNCHANGED <<client, state, requesting>>
      BY <1>2, <1>4, <3>1 DEF LoopTypes
    <3>2. CASE /\ state = "RequestedChunk"
               /\ received' = [received EXCEPT ![requesting] = @ + 1]
               /\ received'[requesting] = ChunkCount[requesting]
               /\ state' = "Idle" /\ requesting' = NoPath
               /\ Emit(<<[type |-> "FileFinishedDownloading"], Update>>)
               /\ UNCHANGED client
      BY <1>2, <1>4, <3>2 DEF LoopTypes
    <3> QED BY <1>5, <1>6, <2>5, <3>1, <3>2 DEF ReceiverProcesses, TransmitChunk
  <2> QED BY <1>6, <2>1, <2>2, <2>3, <2>4, <2>5, MessageFacts
<1>7. CASE client = "Sender" /\ SenderProcesses(m)
  BY <1>2, <1>3, <1>4, <1>7, UnchangedParts DEF SenderProcesses, LoopTypes, loopVars
<1> QED BY <1>5, <1>6, <1>7 DEF ProcessMessage

LEMMA ServerGetsTypes ==
    ASSUME ServerTypes, NEW m \in ToServer, ServerGets(m), UNCHANGED historyVars
    PROVE  ServerTypes'
<1>1. down \in Seq(FromServer)
  BY DEF ServerTypes
<1>2. \A x \in FromServer : Append(down, x) \in Seq(FromServer)
  BY <1>1
<1>3. CASE /\ m.type = "Login" /\ role' = m.role
           /\ down' = down \o <<[type |-> "LoginSuccess"]>>
                      \o (IF online THEN <<[type |-> "NotifySenderStatus", connected |-> TRUE]>> ELSE <<>>)
           /\ UNCHANGED <<link, online, asked>>
  <2>1. m.role \in {"Receiver", "Sender"}
    BY <1>3 DEF ToServer
  <2>2. [type |-> "LoginSuccess"] \in FromServer
        /\ [type |-> "NotifySenderStatus", connected |-> TRUE] \in FromServer
    BY MessageMakers
  <2>3. down' \in Seq(FromServer)
    <3>1. down \o <<[type |-> "LoginSuccess"]>> \in Seq(FromServer)
      BY <1>1, <2>2
    <3>2. (IF online THEN <<[type |-> "NotifySenderStatus", connected |-> TRUE]>> ELSE <<>>)
             \in Seq(FromServer)
      BY <2>2
    <3> HIDE <1>3
    <3>3. \A a, b \in Seq(FromServer) : a \o b \in Seq(FromServer)
      OBVIOUS
    <3> QED BY <1>3, <3>1, <3>2, <3>3
  <2> QED BY <1>3, <2>1, <2>3 DEF ServerTypes, historyVars
<1>4. CASE Cut
  BY <1>4 DEF Cut, ServerTypes, historyVars
<1>5. CASE /\ \E P \in SUBSET Path : down' = Append(down, [type |-> "TransmitMeta", paths |-> P])
           /\ UNCHANGED <<link, role, online, asked>>
  <2>1. down' \in Seq(FromServer)
    BY <1>2, <1>5, MessageMakers
  <2> QED BY <1>5, <2>1 DEF ServerTypes, historyVars
<1>6. CASE UNCHANGED <<link, role, online, down>>
  BY <1>6 DEF ServerTypes, historyVars
<1>7. CASE UNCHANGED serverVars
  BY <1>7 DEF ServerTypes, historyVars, serverVars
<1> QED BY <1>3, <1>4, <1>5, <1>6, <1>7 DEF ServerGets

LEMMA TurnTypes ==
    ASSUME TypeInv, event_processor_task
    PROVE  TypeInv'
<1> DEFINE e == Head(events)
<1>1. /\ events # <<>> /\ events \in Seq(Event) /\ notices \in Seq(Notice) /\ logic = "Running"
      /\ LoopTypes /\ QueueTypes /\ WindowTypes /\ ServerTypes
  BY TurnCases DEF TypeInv, QueueTypes
<1>2. e \in Event /\ WindowTypes'
  BY <1>1, EmitTypes, TurnCases, UnchangedParts
<1>3. UNCHANGED historyVars
  BY TurnCases
<1> HIDE DEF e
<1>4. UNCHANGED serverVars => ServerTypes'
  BY <1>1, <1>3, UnchangedParts
<1>5. Emit(<<>>) /\ jobs' \in Nat /\ retries' \in Nat /\ logic' = logic /\ notices' \in Seq(Notice) =>
         QueueTypes'
  BY <1>1, EmitTypes DEF QueueTypes
<1>6. CASE e.type = "SendMessage" /\ SendMessage(e.message)
  <2>1. e.message \in ToServer
    BY <1>2, <1>6, EventFacts
  <2>2. ServerTypes'
    BY <1>1, <1>3, <1>4, <1>6, <2>1, ServerGetsTypes DEF SendMessage
  <2>3. LoopTypes'
    BY <1>1, <1>6, UnchangedParts DEF SendMessage, Panic
  <2>4. CASE Emit(<<>>) /\ Quietly
    <3>1. QueueTypes'
      BY <1>1, <1>5, <2>4 DEF Quietly, QueueTypes, jobVars
    <3> QED BY <1>2, <2>2, <2>3, <3>1 DEF TypeInv
  <2>5. CASE Panic
    <3>1. QueueTypes'
      BY <1>1, <2>5, OverTypes DEF Panic
    <3> QED BY <1>2, <2>2, <2>3, <3>1 DEF TypeInv
  <2> QED BY <1>6, <2>4, <2>5 DEF SendMessage
<1>7. ASSUME NEW r \in {"Receiver", "Sender"}, LogIn(r), UNCHANGED serverVars PROVE TypeInv'
  <2>1. Send([type |-> "Login", role |-> r]) \in Event
    BY EventMakers, ToServerMakers
  <2>2. LoopTypes'
    BY <1>1, <1>7 DEF LogIn, LoopTypes
  <2>3. QueueTypes'
    BY <1>1, <1>7, <2>1, EmitTypes DEF LogIn, Quietly, QueueTypes, jobVars
  <2> QED BY <1>2, <1>4, <1>7, <2>2, <2>3 DEF TypeInv
<1>8. CASE e.type = "LoggedInAsReceiver" /\ LoggedInAsReceiver(e.files) /\ UNCHANGED serverVars
  <2>1. [type |-> "LoggedInAsReceiver", files |-> e.files] \in Notice
    BY <1>2, <1>8, EventFacts, NoticeMakers
  <2>2. notices' \in Seq(Notice)
    BY <1>1, <1>8, <2>1 DEF LoggedInAsReceiver
  <2>3. LoopTypes'
    BY <1>1, <1>8, UnchangedParts DEF LoggedInAsReceiver
  <2>4. CASE Over("Panicked")
    BY <1>1, <1>2, <1>4, <1>8, <2>2, <2>3, <2>4, OverTypes DEF TypeInv
  <2>5. CASE /\ Emit(IF client = "Receiver" THEN <<Send([type |-> "RequestMeta"])>> ELSE <<>>)
             /\ UNCHANGED <<logic, jobVars>>
    <3>1. Send([type |-> "RequestMeta"]) \in Event
      BY EventMakers, ToServerMakers
    <3>2. events' \in Seq(Event)
      BY <1>1, <2>5, <3>1, EmitTypes
    <3>3. QueueTypes'
      BY <1>1, <2>2, <2>5, <3>2 DEF QueueTypes, jobVars
    <3> QED BY <1>2, <1>4, <1>8, <2>3, <3>3 DEF TypeInv
  <2> QED BY <1>8, <2>4, <2>5 DEF LoggedInAsReceiver
<1>9. CASE e.type = "ProcessMessage" /\ ProcessMessage(e.message) /\ UNCHANGED serverVars
  BY <1>1, <1>2, <1>4, <1>9, EventFacts, ProcessTypes DEF TypeInv
<1>10. CASE /\ e.type \in {"LoggedInAsSender", "UpdateReceiverFiles", "SenderConnected",
                           "SenderDisconnected", "FileStartedDownloading",
                           "FileFinishedDownloading"}
            /\ PassOn(e) /\ UNCHANGED serverVars
  <2>1. e \in Notice
    BY <1>2, <1>10, EventFacts
  <2>2. notices' \in Seq(Notice)
    BY <1>1, <1>10, <2>1 DEF PassOn
  <2>3. LoopTypes'
    BY <1>1, <1>10, UnchangedParts DEF PassOn
  <2>4. QueueTypes'
    BY <1>1, <1>5, <1>10, <2>2 DEF PassOn, QueueTypes, jobVars
  <2> QED BY <1>2, <1>4, <1>10, <2>3, <2>4 DEF TypeInv
<1>11. CASE /\ client = "Receiver" /\ UNCHANGED serverVars
            /\ \/ e.type = "FileRequested" /\ FileRequested(e.path)
               \/ e.type = "FileResumed" /\ FileResumed(e.path)
               \/ e.type = "DownloadStopped" /\ DownloadStopped
  BY <1>1, <1>2, <1>4, <1>11, ReceivedTypes DEF TypeInv
<1>12. CASE e.type = "UploadMeta" /\ UploadMeta(e.local) /\ UNCHANGED serverVars
  <2>1. [type |-> IF e.local = "File" THEN "MetadataCreationStarted" ELSE "MetadataCreationFailed"]
            \in Notice
    BY NoticeMakers
  <2>2. notices' \in Seq(Notice)
    BY <1>1, <1>12, <2>1 DEF UploadMeta, Panic
  <2>3. LoopTypes'
    BY <1>1, <1>12, UnchangedParts DEF UploadMeta, Panic
  <2>4. QueueTypes'
    <3>1. CASE Panic
      BY <1>1, <2>2, <3>1, OverTypes DEF Panic
    <3>2. CASE /\ Emit(<<>>) /\ UNCHANGED <<logic, retries>>
               /\ jobs' = IF e.local = "File" THEN jobs + 1 ELSE jobs
      BY <1>1, <1>5, <2>2, <3>2 DEF QueueTypes
    <3> QED BY <1>12, <3>1, <3>2 DEF UploadMeta
  <2> QED BY <1>2, <1>4, <1>12, <2>3, <2>4 DEF TypeInv
<1>13. CASE e.type = "UploadMultipleMeta" /\ UploadMultipleMeta(e.files, e.opened) /\ UNCHANGED serverVars
  <2>1. e.files \in Nat /\ e.opened \in Nat /\ e.opened <= e.files
    BY <1>2, <1>13, EventFacts
  <2>2. /\ [type |-> "MetadataCreationFailed"] \in Notice
        /\ [type |-> "MultipleMetadataCreationStarted", files |-> e.opened] \in Notice
    BY <2>1, NoticeMakers
  <2>3. PICK n \in Nat : n = e.files - e.opened
    BY <2>1
  <2>4. [i \in 1 .. n |-> [type |-> "MetadataCreationFailed"]] \in Seq(Notice)
    BY <2>2
  <2>5. notices' \in Seq(Notice)
    <3>1. <<[type |-> "MultipleMetadataCreationStarted", files |-> e.opened]>> \in Seq(Notice)
      BY <2>2
    <3>2. \A a, b \in Seq(Notice) : a \o b \in Seq(Notice)
      OBVIOUS
    <3> QED BY <1>1, <1>13, <2>3, <2>4, <3>1, <3>2 DEF UploadMultipleMeta
  <2>6. LoopTypes'
    BY <1>1, <1>13, UnchangedParts DEF UploadMultipleMeta
  <2>7. jobs' \in Nat /\ retries' \in Nat
    <3>1. jobs' = jobs + e.opened /\ retries' = retries + e.files - e.opened
      BY <1>13 DEF UploadMultipleMeta
    <3>2. jobs \in Nat /\ retries \in Nat
      BY <1>1 DEF QueueTypes
    <3>3. \A a, b, c \in Nat : c <= b => a + b - c \in Nat
      OBVIOUS
    <3> QED BY <2>1, <3>1, <3>2, <3>3
  <2>8. QueueTypes'
    BY <1>5, <1>13, <2>5, <2>7 DEF UploadMultipleMeta
  <2> QED BY <1>2, <1>4, <1>13, <2>6, <2>8 DEF TypeInv
<1>14. CASE e.type = "MetaCreated" /\ MetaCreated /\ UNCHANGED serverVars
  <2>1. [type |-> "MetadataCreated"] \in Notice /\ Send([type |-> "PublishMeta"]) \in Event
    BY NoticeMakers, EventMakers, ToServerMakers
  <2>2. notices' \in Seq(Notice)
    BY <1>1, <1>14, <2>1 DEF MetaCreated
  <2>3. LoopTypes'
    BY <1>1, <1>14, UnchangedParts DEF MetaCreated
  <2>4. QueueTypes'
    BY <1>1, <1>14, <2>1, <2>2, EmitTypes DEF MetaCreated, QueueTypes, jobVars
  <2> QED BY <1>2, <1>4, <1>14, <2>3, <2>4 DEF TypeInv
<1>15. CASE Ignored /\ UNCHANGED serverVars
  <2>1. QueueTypes'
    BY <1>1, <1>5, <1>15 DEF Ignored, Quietly, QueueTypes, jobVars
  <2> QED BY <1>1, <1>2, <1>4, <1>15, <2>1, UnchangedParts DEF TypeInv, Ignored
<1> QED BY <1>6, <1>7, <1>8, <1>9, <1>10, <1>11, <1>12, <1>13, <1>14, <1>15, TurnCases DEF e

LEMMA NoticeFacts ==
    ASSUME NEW n \in Notice
    PROVE  /\ n.type = "ConnectionStatusChanged" => n.status \in {"Connecting", "Connected", "Disconnected"}
           /\ n.type = "FileStartedDownloading" => n.path \in Path
           /\ n.type \in {"LoggedInAsReceiver", "UpdateReceiverFiles"} => n.files \in [Path -> FileStatus]
           /\ n.type = "MultipleMetadataCreationStarted" => n.files \in Nat
           /\ n.type \in {"ConnectionStatusChanged", "LoggedInAsSender", "SenderConnected",
                          "SenderDisconnected", "FileFinishedDownloading", "MetadataCreationStarted",
                          "MetadataCreationFailed", "MetadataCreated", "FileStartedDownloading",
                          "LoggedInAsReceiver", "UpdateReceiverFiles", "MultipleMetadataCreationStarted"}
BY DEF Notice

\* What the window is after a notice, notice by notice.
LEMMA ShowsCases ==
    ASSUME NEW w, NEW n \in Notice
    PROVE  \/ n.type = "ConnectionStatusChanged" /\ Shows(w, n) = [w EXCEPT !.status = n.status]
           \/ n.type = "LoggedInAsReceiver"
              /\ Shows(w, n) = [w EXCEPT !.files = n.files, !.screen = "ReceiverScreen"]
           \/ n.type = "LoggedInAsSender" /\ Shows(w, n) = [w EXCEPT !.screen = "SenderScreen"]
           \/ n.type = "UpdateReceiverFiles" /\ Shows(w, n) = [w EXCEPT !.files = n.files]
           \/ n.type = "SenderConnected" /\ Shows(w, n) = [w EXCEPT !.sender_connected = TRUE]
           \/ n.type = "SenderDisconnected" /\ Shows(w, n) = [w EXCEPT !.sender_connected = FALSE]
           \/ n.type = "FileStartedDownloading" /\ Shows(w, n) = [w EXCEPT !.downloading = n.path]
           \/ n.type = "FileFinishedDownloading" /\ Shows(w, n) = [w EXCEPT !.downloading = NoPath]
           \/ n.type = "MetadataCreationStarted" /\ Shows(w, n) = [w EXCEPT !.creating = TRUE]
           \/ n.type = "MultipleMetadataCreationStarted"
              /\ Shows(w, n) =
                    [w EXCEPT !.queued = n.files, !.metafile_index = 0, !.creating = n.files > 0]
           \/ n.type = "MetadataCreationFailed"
              /\ Shows(w, n) = [w EXCEPT !.error = TRUE, !.creating = FALSE]
           \/ n.type = "MetadataCreated" /\ Shows(w, n) = metadata_created(w)
<1> n.type \in {"ConnectionStatusChanged", "LoggedInAsSender", "SenderConnected",
                "SenderDisconnected", "FileFinishedDownloading", "MetadataCreationStarted",
                "MetadataCreationFailed", "MetadataCreated", "FileStartedDownloading",
                "LoggedInAsReceiver", "UpdateReceiverFiles", "MultipleMetadataCreationStarted"}
  BY NoticeFacts
<1> QED BY DEF Shows

WindowOK(w) == w \in Window /\ w.metafile_index \in -1 .. w.queued

\* A window in which something is set is a window.
LEMMA StaysWindow ==
    ASSUME NEW w \in Window
    PROVE  /\ \A s \in {"Connecting", "Connected", "Disconnected"} : [w EXCEPT !.status = s] \in Window
           /\ \A f \in [Path -> FileStatus] :
                 /\ [w EXCEPT !.files = f] \in Window
                 /\ [w EXCEPT !.files = f, !.screen = "ReceiverScreen"] \in Window
           /\ \A s \in {"SenderScreen", "Gone"} : [w EXCEPT !.screen = s] \in Window
           /\ \A d \in Path \cup {NoPath} : /\ [w EXCEPT !.downloading = d] \in Window
                                           /\ [w EXCEPT !.dialog = d] \in Window
           /\ \A D \in SUBSET {"single", "multiple"} : [w EXCEPT !.dialogs = D] \in Window
           /\ \A b \in BOOLEAN : /\ [w EXCEPT !.sender_connected = b] \in Window
                                 /\ [w EXCEPT !.error = b] \in Window
                                 /\ [w EXCEPT !.creating = b] \in Window
           /\ \A r, b \in BOOLEAN : [w EXCEPT !.error = r, !.creating = b] \in Window
           /\ \A q \in Nat, i \in Int, b \in BOOLEAN :
                 /\ [w EXCEPT !.queued = q, !.metafile_index = i, !.creating = b] \in Window
                 /\ [w EXCEPT !.metafile_index = i, !.creating = b, !.queued = q] \in Window
                 /\ [w EXCEPT !.metafile_index = i, !.creating = b] \in Window
<1>1. /\ \A s \in {"Connecting", "Connected", "Disconnected"} : [w EXCEPT !.status = s] \in Window
      /\ \A f \in [Path -> FileStatus] :
            /\ [w EXCEPT !.files = f] \in Window
            /\ [w EXCEPT !.files = f, !.screen = "ReceiverScreen"] \in Window
      /\ \A s \in {"SenderScreen", "Gone"} : [w EXCEPT !.screen = s] \in Window
  BY DEF Window
<1>2. /\ \A d \in Path \cup {NoPath} : /\ [w EXCEPT !.downloading = d] \in Window
                                      /\ [w EXCEPT !.dialog = d] \in Window
      /\ \A D \in SUBSET {"single", "multiple"} : [w EXCEPT !.dialogs = D] \in Window
  BY DEF Window
<1>3. \A b \in BOOLEAN : /\ [w EXCEPT !.sender_connected = b] \in Window
                         /\ [w EXCEPT !.error = b] \in Window
                         /\ [w EXCEPT !.creating = b] \in Window
  BY DEF Window
<1>4. \A r, b \in BOOLEAN : [w EXCEPT !.error = r, !.creating = b] \in Window
  BY DEF Window
<1>5. \A q \in Nat, i \in Int, b \in BOOLEAN :
         /\ [w EXCEPT !.queued = q, !.metafile_index = i, !.creating = b] \in Window
         /\ [w EXCEPT !.metafile_index = i, !.creating = b, !.queued = q] \in Window
  BY DEF Window
<1>6. \A i \in Int, b \in BOOLEAN : [w EXCEPT !.metafile_index = i, !.creating = b] \in Window
  BY DEF Window
<1> QED BY <1>1, <1>2, <1>3, <1>4, <1>5, <1>6

LEMMA ShowsWindow ==
    ASSUME NEW w \in Window, NEW n \in Notice
    PROVE  Shows(w, n) \in Window
<1>1. w.metafile_index \in Int /\ w.queued \in Nat /\ NoPath \in Path \cup {NoPath}
  BY DEF Window
<1>2. TRUE \in BOOLEAN /\ FALSE \in BOOLEAN /\ 0 \in Nat /\ 0 \in Int /\ -1 \in Int
  OBVIOUS
<1>3. CASE n.type = "MultipleMetadataCreationStarted"
  <2>1. n.files \in Nat /\ (n.files > 0) \in BOOLEAN
    BY <1>3, NoticeFacts
  <2>2. [w EXCEPT !.queued = n.files, !.metafile_index = 0, !.creating = n.files > 0] \in Window
    BY <1>2, <2>1, StaysWindow
  <2> QED BY <1>3, <2>2, ShowsCases
<1>4. CASE n.type = "MetadataCreated"
  <2>1. /\ w.metafile_index + 1 \in Int
        /\ (w.metafile_index + 1 < w.queued) \in BOOLEAN
    BY <1>1
  <2>2. [w EXCEPT !.metafile_index = w.metafile_index + 1,
                  !.creating = w.metafile_index + 1 < w.queued] \in Window
    BY <1>1, <2>1, StaysWindow
  <2>3. [w EXCEPT !.metafile_index = -1, !.creating = FALSE, !.queued = 0] \in Window
    BY <1>2, StaysWindow
  <2>4. metadata_created(w) \in Window
    BY <2>2, <2>3 DEF metadata_created
  <2> QED BY <1>4, <2>4, ShowsCases
<1>5. CASE n.type \in {"LoggedInAsReceiver", "UpdateReceiverFiles"}
  <2>1. n.files \in [Path -> FileStatus]
    BY <1>5, NoticeFacts
  <2>2. /\ [w EXCEPT !.files = n.files] \in Window
        /\ [w EXCEPT !.files = n.files, !.screen = "ReceiverScreen"] \in Window
    BY <2>1, StaysWindow
  <2> QED BY <1>5, <2>2, ShowsCases
<1>6. CASE n.type \in {"LoggedInAsSender", "ConnectionStatusChanged"}
  <2>1. n.type = "ConnectionStatusChanged" => [w EXCEPT !.status = n.status] \in Window
    BY NoticeFacts, StaysWindow
  <2>2. [w EXCEPT !.screen = "SenderScreen"] \in Window
    BY StaysWindow
  <2> QED BY <1>6, <2>1, <2>2, ShowsCases
<1>7. CASE n.type \in {"SenderConnected", "SenderDisconnected"}
  BY <1>2, <1>7, ShowsCases, StaysWindow
<1>8. CASE n.type \in {"FileStartedDownloading", "FileFinishedDownloading"}
  <2>1. n.type = "FileStartedDownloading" => [w EXCEPT !.downloading = n.path] \in Window
    BY NoticeFacts, StaysWindow
  <2>2. [w EXCEPT !.downloading = NoPath] \in Window
    BY <1>1, StaysWindow
  <2> QED BY <1>8, <2>1, <2>2, ShowsCases
<1>9. CASE n.type = "MetadataCreationStarted"
  BY <1>2, <1>9, ShowsCases, StaysWindow
<1>10. CASE n.type = "MetadataCreationFailed"
  BY <1>2, <1>10, ShowsCases, StaysWindow
<1> QED BY <1>3, <1>4, <1>5, <1>6, <1>7, <1>8, <1>9, <1>10, NoticeFacts

\* What the window u has of the upload queue after the notice n.
QueueShown(w, n, u) ==
    /\ n.type = "MultipleMetadataCreationStarted" =>
          u.queued = n.files /\ u.metafile_index = 0 /\ (u.creating => n.files > 0)
    /\ n.type = "MetadataCreated" /\ w.metafile_index < w.queued =>
          /\ u.queued = w.queued /\ u.metafile_index = w.metafile_index + 1
          /\ u.creating => w.metafile_index + 1 < w.queued
    /\ n.type = "MetadataCreated" /\ ~(w.metafile_index < w.queued) =>
          u.queued = 0 /\ u.metafile_index = -1 /\ ~u.creating
    /\ n.type \notin {"MultipleMetadataCreationStarted", "MetadataCreated"} =>
          /\ u.queued = w.queued /\ u.metafile_index = w.metafile_index
          /\ u.creating => w.creating \/ n.type = "MetadataCreationStarted"

\* What it has of the rest.
RestShown(w, n, u) ==
    /\ u.dialog = w.dialog /\ u.dialogs = w.dialogs
    /\ u.screen = IF n.type = "LoggedInAsReceiver" THEN "ReceiverScreen"
                  ELSE IF n.type = "LoggedInAsSender" THEN "SenderScreen" ELSE w.screen
    /\ u.files = IF n.type \in {"LoggedInAsReceiver", "UpdateReceiverFiles"} THEN n.files ELSE w.files
    /\ u.downloading = IF n.type = "FileStartedDownloading" THEN n.path
                       ELSE IF n.type = "FileFinishedDownloading" THEN NoPath ELSE w.downloading
    /\ u.sender_connected = IF n.type = "SenderConnected" THEN TRUE
                            ELSE IF n.type = "SenderDisconnected" THEN FALSE ELSE w.sender_connected

LEMMA ShowsFacts ==
    ASSUME NEW w \in Window, NEW n \in Notice, NEW u, u = Shows(w, n)
    PROVE  u \in Window /\ RestShown(w, n, u) /\ QueueShown(w, n, u)
<1>w. u \in Window
  BY ShowsWindow
<1>1. CASE n.type = "ConnectionStatusChanged"
  <2>1. u = [w EXCEPT !.status = n.status]
    BY <1>1, ShowsCases
  <2>2. RestShown(w, n, u)
    BY <1>1, <2>1 DEF RestShown, Window
  <2>3. QueueShown(w, n, u)
    BY <1>1, <2>1 DEF QueueShown, Window
  <2> QED BY <1>w, <2>2, <2>3
<1>2. CASE n.type = "LoggedInAsReceiver"
  <2>1. u = [w EXCEPT !.files = n.files, !.screen = "ReceiverScreen"]
    BY <1>2, ShowsCases
  <2>2. RestShown(w, n, u)
    BY <1>2, <2>1 DEF RestShown, Window
  <2>3. QueueShown(w, n, u)
    BY <1>2, <2>1 DEF QueueShown, Window
  <2> QED BY <1>w, <2>2, <2>3
<1>3. CASE n.type = "LoggedInAsSender"
  <2>1. u = [w EXCEPT !.screen = "SenderScreen"]
    BY <1>3, ShowsCases
  <2>2. RestShown(w, n, u)
    BY <1>3, <2>1 DEF RestShown, Window
  <2>3. QueueShown(w, n, u)
    BY <1>3, <2>1 DEF QueueShown, Window
  <2> QED BY <1>w, <2>2, <2>3
<1>4. CASE n.type = "UpdateReceiverFiles"
  <2>1. u = [w EXCEPT !.files = n.files]
    BY <1>4, ShowsCases
  <2>2. RestShown(w, n, u)
    BY <1>4, <2>1 DEF RestShown, Window
  <2>3. QueueShown(w, n, u)
    BY <1>4, <2>1 DEF QueueShown, Window
  <2> QED BY <1>w, <2>2, <2>3
<1>5. CASE n.type = "SenderConnected"
  <2>1. u = [w EXCEPT !.sender_connected = TRUE]
    BY <1>5, ShowsCases
  <2>2. RestShown(w, n, u)
    BY <1>5, <2>1 DEF RestShown, Window
  <2>3. QueueShown(w, n, u)
    BY <1>5, <2>1 DEF QueueShown, Window
  <2> QED BY <1>w, <2>2, <2>3
<1>6. CASE n.type = "SenderDisconnected"
  <2>1. u = [w EXCEPT !.sender_connected = FALSE]
    BY <1>6, ShowsCases
  <2>2. RestShown(w, n, u)
    BY <1>6, <2>1 DEF RestShown, Window
  <2>3. QueueShown(w, n, u)
    BY <1>6, <2>1 DEF QueueShown, Window
  <2> QED BY <1>w, <2>2, <2>3
<1>7. CASE n.type = "FileStartedDownloading"
  <2>1. u = [w EXCEPT !.downloading = n.path]
    BY <1>7, ShowsCases
  <2>2. RestShown(w, n, u)
    BY <1>7, <2>1 DEF RestShown, Window
  <2>3. QueueShown(w, n, u)
    BY <1>7, <2>1 DEF QueueShown, Window
  <2> QED BY <1>w, <2>2, <2>3
<1>8. CASE n.type = "FileFinishedDownloading"
  <2>1. u = [w EXCEPT !.downloading = NoPath]
    BY <1>8, ShowsCases
  <2>2. RestShown(w, n, u)
    BY <1>8, <2>1 DEF RestShown, Window
  <2>3. QueueShown(w, n, u)
    BY <1>8, <2>1 DEF QueueShown, Window
  <2> QED BY <1>w, <2>2, <2>3
<1>9. CASE n.type = "MetadataCreationStarted"
  <2>1. u = [w EXCEPT !.creating = TRUE]
    BY <1>9, ShowsCases
  <2>2. RestShown(w, n, u)
    BY <1>9, <2>1 DEF RestShown, Window
  <2>3. QueueShown(w, n, u)
    BY <1>9, <2>1 DEF QueueShown, Window
  <2> QED BY <1>w, <2>2, <2>3
<1>10. CASE n.type = "MultipleMetadataCreationStarted"
  <2>1. u = [w EXCEPT !.queued = n.files, !.metafile_index = 0, !.creating = n.files > 0]
    BY <1>10, ShowsCases
  <2>2. RestShown(w, n, u)
    BY <1>10, <2>1 DEF RestShown, Window
  <2>3. QueueShown(w, n, u)
    BY <1>10, <2>1 DEF QueueShown, Window
  <2> QED BY <1>w, <2>2, <2>3
<1>11. CASE n.type = "MetadataCreationFailed"
  <2>1. u = [w EXCEPT !.error = TRUE, !.creating = FALSE]
    BY <1>11, ShowsCases
  <2>2. RestShown(w, n, u)
    BY <1>11, <2>1 DEF RestShown, Window
  <2>3. QueueShown(w, n, u)
    BY <1>11, <2>1 DEF QueueShown, Window
  <2> QED BY <1>w, <2>2, <2>3
<1>12. CASE n.type = "MetadataCreated" /\ w.metafile_index < w.queued
  <2>1. u = [w EXCEPT !.metafile_index = @ + 1, !.creating = w.metafile_index + 1 < w.queued]
    BY <1>12, ShowsCases DEF metadata_created
  <2>2. RestShown(w, n, u)
    BY <1>12, <2>1 DEF RestShown, Window
  <2>3. QueueShown(w, n, u)
    BY <1>12, <2>1 DEF QueueShown, Window
  <2> QED BY <1>w, <2>2, <2>3
<1>13. CASE n.type = "MetadataCreated" /\ ~(w.metafile_index < w.queued)
  <2>1. u = [w EXCEPT !.metafile_index = -1, !.creating = FALSE, !.queued = 0]
    BY <1>13, ShowsCases DEF metadata_created
  <2>2. RestShown(w, n, u)
    BY <1>13, <2>1 DEF RestShown, Window
  <2>3. QueueShown(w, n, u)
    BY <1>13, <2>1 DEF QueueShown, Window
  <2> QED BY <1>w, <2>2, <2>3
<1> QED BY <1>1, <1>2, <1>3, <1>4, <1>5, <1>6, <1>7, <1>8, <1>9, <1>10, <1>11, <1>12, <1>13, NoticeFacts

LEMMA ShowsTypes ==
    ASSUME NEW w, WindowOK(w), NEW n \in Notice
    PROVE  WindowOK(Shows(w, n))
<1>1. w \in Window /\ w.metafile_index \in Int /\ w.queued \in Nat /\ w.metafile_index \in -1 .. w.queued
  BY DEF WindowOK, Window
<1>2. PICK u : u = Shows(w, n)
  OBVIOUS
<1>3. u \in Window /\ QueueShown(w, n, u)
  BY <1>1, <1>2, ShowsFacts
<1>4. n.type = "MultipleMetadataCreationStarted" => n.files \in Nat
  BY NoticeFacts
<1>5. u.metafile_index \in -1 .. u.queued
  BY <1>1, <1>3, <1>4 DEF QueueShown
<1> QED BY <1>2, <1>3, <1>5 DEF WindowOK

\* What a click does: the loop will hear of it.
LEMMA ClickCases ==
    ASSUME NEW e, NEW w, Click(e, w)
    PROVE  /\ pending' = Append(pending, e) /\ window' = w
           /\ UNCHANGED <<logic, loopVars, jobVars, events, notices, serverVars, failed>>
BY DEF Click

\* What a future that is polled does: the loop hears of it, or the window ends.
LEMMA SendCases ==
    ASSUME SendClicked
    PROVE  /\ pending # <<>>
           /\ \/ /\ logic = "Running" /\ events' = Append(events, Head(pending))
                 /\ pending' = Tail(pending) /\ UNCHANGED window
              \/ /\ logic \in {"Ended", "Panicked"} /\ UNCHANGED <<events, pending>>
                 /\ window' = [window EXCEPT !.screen = "Gone"]
           /\ UNCHANGED <<logic, loopVars, jobVars, notices, serverVars, historyVars>>
BY DEF SendClicked

\* The window and the history change, and clicks are added.
LEMMA WindowChangeTypes ==
    ASSUME TypeInv, WindowOK(window'), pending' \in Seq(UserEvent),
           crossed' \in BOOLEAN, nameless' \in BOOLEAN,
           UNCHANGED <<logic, loopVars, jobVars, events, notices, serverVars, failed>>
    PROVE  TypeInv'
<1>1. LoopTypes' /\ QueueTypes'
  BY UnchangedParts DEF TypeInv
<1>2. WindowTypes'
  BY DEF WindowOK, WindowTypes
<1>3. ServerTypes'
  BY DEF ServerTypes, TypeInv, serverVars
<1> QED BY <1>1, <1>2, <1>3 DEF TypeInv

LEMMA ClickTypes ==
    ASSUME TypeInv, NEW e \in UserEvent, NEW w, WindowOK(w), Click(e, w),
           crossed' \in BOOLEAN, nameless' \in BOOLEAN
    PROVE  TypeInv'
<1>1. pending' \in Seq(UserEvent)
  BY ClickCases DEF TypeInv, WindowTypes
<1> QED BY <1>1, ClickCases, WindowChangeTypes

LEMMA UserEventMakers ==
    /\ \A t \in LogIns \cup {"DownloadStopped"} : [type |-> t] \in UserEvent
    /\ \A p \in Path : /\ [type |-> "FileRequested", path |-> p] \in UserEvent
                       /\ [type |-> "FileResumed", path |-> p] \in UserEvent
    /\ \A l \in {"File", "Missing", "Nameless"} : [type |-> "UploadMeta", local |-> l] \in UserEvent
    /\ \A n \in Nat : \A k \in 0 .. n :
          [type |-> "UploadMultipleMeta", files |-> n, opened |-> k] \in UserEvent
BY EventMakers DEF UserEvent, LogIns, Orders, Uploads

LEMMA SendTypes == ASSUME TypeInv, SendClicked PROVE TypeInv'
<1>1. /\ LoopTypes /\ QueueTypes /\ WindowTypes /\ ServerTypes /\ events \in Seq(Event)
      /\ pending \in Seq(UserEvent) /\ pending # <<>>
  BY SendCases DEF TypeInv, QueueTypes, WindowTypes
<1>2. Head(pending) \in Event /\ Tail(pending) \in Seq(UserEvent)
  BY <1>1, TailFacts DEF UserEvent
<1>3. LoopTypes' /\ ServerTypes'
  BY <1>1, SendCases, UnchangedParts
<1>4. events' \in Seq(Event)
  BY <1>1, <1>2, SendCases
<1>5. QueueTypes'
  BY <1>1, <1>4, SendCases DEF QueueTypes, jobVars
<1>6. [window EXCEPT !.screen = "Gone"] \in Window
        /\ [window EXCEPT !.screen = "Gone"].metafile_index \in
              -1 .. [window EXCEPT !.screen = "Gone"].queued
  BY <1>1 DEF WindowTypes, Window
<1>7. WindowTypes'
  BY <1>1, <1>2, <1>6, SendCases DEF WindowTypes
<1> QED BY <1>3, <1>5, <1>7 DEF TypeInv

LEMMA UserTypes ==
    ASSUME TypeInv
    PROVE  /\ \A t \in LogIns : Pressed([type |-> t]) => TypeInv'
           /\ \A p \in Path : on_download(p) \/ save_file(p) \/ on_resume(p) => TypeInv'
           /\ on_stop_downloading => TypeInv'
           /\ \A d \in {"single", "multiple"} : UploadClicked(d) \/ CancelClicked(d) => TypeInv'
           /\ OkClicked => TypeInv'
           /\ ErrorClosed => TypeInv'
<1> USE ClientAssumption
<1>1. window \in Window /\ WindowOK(window) /\ crossed \in BOOLEAN /\ nameless \in BOOLEAN
      /\ pending \in Seq(UserEvent)
  BY DEF TypeInv, WindowTypes, ServerTypes, WindowOK
<1>2. ASSUME NEW t \in LogIns, Pressed([type |-> t]) PROVE TypeInv'
  <2>1. [type |-> t] \in UserEvent
    BY UserEventMakers
  <2> QED BY <1>1, <1>2, <2>1, ClickTypes DEF Pressed
<1>3. \A p \in Path \cup {NoPath} : WindowOK([window EXCEPT !.dialog = p])
                                  /\ WindowOK([window EXCEPT !.downloading = p])
  BY <1>1 DEF WindowOK, Window
<1>4. \A D \in SUBSET {"single", "multiple"} : WindowOK([window EXCEPT !.dialogs = D])
  BY <1>1 DEF WindowOK, Window
<1>5. ASSUME NEW p \in Path, on_download(p) PROVE TypeInv'
  BY <1>1, <1>3, <1>5, WindowChangeTypes DEF on_download
<1>6. ASSUME NEW p \in Path, save_file(p) PROVE TypeInv'
  <2>1. [type |-> "FileRequested", path |-> p] \in UserEvent
    BY UserEventMakers
  <2> QED BY <1>1, <1>3, <1>6, <2>1, WindowChangeTypes, ClickTypes DEF save_file
<1>7. ASSUME NEW p \in Path, on_resume(p) PROVE TypeInv'
  <2>1. [type |-> "FileResumed", path |-> p] \in UserEvent
    BY UserEventMakers
  <2> QED BY <1>1, <1>7, <2>1, ClickTypes DEF on_resume
<1>8. ASSUME on_stop_downloading PROVE TypeInv'
  <2>1. [type |-> "DownloadStopped"] \in UserEvent
    BY UserEventMakers
  <2> QED BY <1>1, <1>3, <1>8, <2>1, ClickTypes DEF on_stop_downloading
<1>9. ASSUME NEW d \in {"single", "multiple"}, UploadClicked(d) \/ CancelClicked(d) PROVE TypeInv'
  <2>1. window.dialogs \cup {d} \in SUBSET {"single", "multiple"}
        /\ window.dialogs \ {d} \in SUBSET {"single", "multiple"}
    BY <1>1 DEF Window
  <2> QED BY <1>1, <1>4, <1>9, <2>1, WindowChangeTypes DEF UploadClicked, CancelClicked, WindowOnly, historyVars
<1>10. ASSUME OkClicked PROVE TypeInv'
  <2>1. \A d : window.dialogs \ {d} \in SUBSET {"single", "multiple"}
    BY <1>1 DEF Window
  <2>2. crossed' \in BOOLEAN /\ nameless' \in BOOLEAN
    BY <1>1, <1>10 DEF OkClicked
  <2>3. CASE \E l \in {"File", "Missing", "Nameless"} :
                Click([type |-> "UploadMeta", local |-> l], [window EXCEPT !.dialogs = @ \ {"single"}])
    <3>1. PICK l \in {"File", "Missing", "Nameless"} :
                Click([type |-> "UploadMeta", local |-> l], [window EXCEPT !.dialogs = @ \ {"single"}])
      BY <2>3
    <3>2. [type |-> "UploadMeta", local |-> l] \in UserEvent
      BY UserEventMakers
    <3>3. WindowOK([window EXCEPT !.dialogs = @ \ {"single"}])
      BY <1>4, <2>1
    <3> QED BY <2>2, <3>1, <3>2, <3>3, ClickTypes
  <2>4. CASE \E n \in 1 .. MaxFiles : \E k \in 0 .. n :
                Click([type |-> "UploadMultipleMeta", files |-> n, opened |-> k],
                      [window EXCEPT !.dialogs = @ \ {"multiple"}])
    <3>1. PICK n \in 1 .. MaxFiles : \E k \in 0 .. n :
                Click([type |-> "UploadMultipleMeta", files |-> n, opened |-> k],
                      [window EXCEPT !.dialogs = @ \ {"multiple"}])
      BY <2>4
    <3>2. PICK k \in 0 .. n :
                Click([type |-> "UploadMultipleMeta", files |-> n, opened |-> k],
                      [window EXCEPT !.dialogs = @ \ {"multiple"}])
      BY <3>1
    <3>3. [type |-> "UploadMultipleMeta", files |-> n, opened |-> k] \in UserEvent
      BY UserEventMakers
    <3> QED BY <1>4, <2>1, <2>2, <3>2, <3>3, ClickTypes
  <2> QED BY <1>10, <2>3, <2>4 DEF OkClicked
<1>11. ASSUME ErrorClosed PROVE TypeInv'
  <2>1. WindowOK([window EXCEPT !.error = FALSE])
    BY <1>1 DEF WindowOK, Window
  <2> QED BY <1>1, <1>11, <2>1, WindowChangeTypes DEF ErrorClosed, WindowOnly, historyVars
<1> QED BY <1>2, <1>5, <1>6, <1>7, <1>8, <1>9, <1>10, <1>11

\* Connecting, the end of the connection, and the tasks that create metadata.
LEMMA OtherTypes ==
    ASSUME TypeInv,
           \/ Connects \/ ConnectFails \/ TriesAgain \/ ReadEnds \/ ReadMessage
           \/ JobDone \/ JobFails \/ RetryEnds
    PROVE  TypeInv'
<1>1. /\ LoopTypes /\ WindowTypes /\ ServerTypes
      /\ logic \in {"Connecting", "Sleeping", "Running", "Ended", "Panicked"}
      /\ jobs \in Nat /\ retries \in Nat /\ events \in Seq(Event) /\ notices \in Seq(Notice)
      /\ down \in Seq(FromServer)
  BY DEF TypeInv, QueueTypes, ServerTypes
<1>2. LoopTypes' /\ WindowTypes'
  BY <1>1, UnchangedParts
     DEF Connects, ConnectFails, TriesAgain, ReadEnds, ReadMessage, JobDone, JobFails, RetryEnds
<1>3. \A s \in {"Connecting", "Connected", "Disconnected"} :
         Append(notices, ConnectionStatus(s)) \in Seq(Notice)
  BY <1>1, NoticeMakers
<1>4. \A t \in {"MetaCreated", "MetaCreationError"} : Append(events, [type |-> t]) \in Seq(Event)
  BY <1>1, EventMakers
<1>5. CASE Connects
  <2>1. QueueTypes'
    BY <1>1, <1>3, <1>5 DEF Connects, QueueTypes, jobVars
  <2>2. ServerTypes'
    BY <1>1, <1>5 DEF Connects, ServerTypes, historyVars
  <2> QED BY <1>2, <2>1, <2>2 DEF TypeInv
<1>6. CASE ConnectFails \/ TriesAgain
  <2>1. QueueTypes'
    BY <1>1, <1>3, <1>6 DEF ConnectFails, TriesAgain, QueueTypes, jobVars
  <2> QED BY <1>1, <1>2, <1>6, <2>1, UnchangedParts DEF TypeInv, ConnectFails, TriesAgain
<1>7. CASE ReadEnds
  <2>1. QueueTypes'
    BY <1>1, <1>3, <1>7, OverTypes DEF ReadEnds, QueueTypes
  <2> QED BY <1>1, <1>2, <1>7, <2>1, UnchangedParts DEF TypeInv, ReadEnds
<1>8. CASE ReadMessage
  <2>1. down # <<>> /\ Head(down) \in FromServer /\ Tail(down) \in Seq(FromServer)
    BY <1>1, <1>8, TailFacts DEF ReadMessage
  <2>2. [type |-> "ProcessMessage", message |-> Head(down)] \in Event
    BY <2>1, EventMakers
  <2>3. QueueTypes'
    BY <1>1, <1>8, <2>2 DEF ReadMessage, QueueTypes, jobVars
  <2>4. ServerTypes'
    BY <1>1, <1>8, <2>1 DEF ReadMessage, ServerTypes, historyVars
  <2> QED BY <1>2, <2>3, <2>4 DEF TypeInv
<1>9. CASE JobDone
  <2>1. QueueTypes'
    BY <1>1, <1>4, <1>9 DEF JobDone, QueueTypes
  <2> QED BY <1>1, <1>2, <1>9, <2>1, UnchangedParts DEF TypeInv, JobDone
<1>10. CASE JobFails
  <2>1. events' \in Seq(Event)
    BY <1>1, <1>4, <1>10 DEF JobFails
  <2>2. jobs' \in Nat /\ retries' \in Nat
    BY <1>1, <1>10 DEF JobFails
  <2>3. QueueTypes'
    BY <1>1, <1>10, <2>1, <2>2 DEF JobFails, QueueTypes
  <2>4. ServerTypes'
    BY <1>1, <1>10 DEF JobFails, ServerTypes, serverVars
  <2> QED BY <1>2, <2>3, <2>4 DEF TypeInv
<1>11. CASE RetryEnds
  <2>1. QueueTypes'
    BY <1>1, <1>4, <1>11 DEF RetryEnds, QueueTypes
  <2> QED BY <1>1, <1>2, <1>11, <2>1, UnchangedParts DEF TypeInv, RetryEnds
<1> QED BY <1>5, <1>6, <1>7, <1>8, <1>9, <1>10, <1>11

\* What the server does of its own accord.
LEMMA PushCases ==
    ASSUME SenderComesOrGoes \/ SenderTransmits \/ SenderPublishes \/ ConnectionLost
    PROVE  /\ ServerOnly
           /\ \/ /\ online' = ~online /\ link = "up" /\ role = "Receiver"
                 /\ down' = Append(down, [type |-> "NotifySenderStatus", connected |-> online'])
                 /\ UNCHANGED <<link, asked>>
              \/ online' = ~online /\ role = "None" /\ UNCHANGED <<link, asked, down>>
              \/ /\ UNCHANGED <<link, asked, online>> /\ link = "up" /\ role = "Receiver" /\ online
                 /\ \/ down' = Append(down, [type |-> "TransmitChunk"])
                    \/ down' = Append(down, [type |-> "NotifyUpdated"])
              \/ link = "up" /\ Cut
BY DEF SenderComesOrGoes, SenderTransmits, SenderPublishes, ConnectionLost, ToReceiver

LEMMA PushTypes ==
    ASSUME TypeInv, SenderComesOrGoes \/ SenderTransmits \/ SenderPublishes \/ ConnectionLost
    PROVE  TypeInv'
<1>1. down \in Seq(FromServer) /\ online \in BOOLEAN
  BY DEF TypeInv, ServerTypes
<1>2. /\ [type |-> "TransmitChunk"] \in FromServer /\ [type |-> "NotifyUpdated"] \in FromServer
      /\ online' \in BOOLEAN => [type |-> "NotifySenderStatus", connected |-> online'] \in FromServer
  BY MessageMakers
<1>3. ServerOnly
  BY PushCases
<1>4. LoopTypes' /\ QueueTypes' /\ WindowTypes'
  BY <1>3, UnchangedParts DEF TypeInv, ServerOnly
<1>5. online' \in BOOLEAN
  BY <1>1, PushCases DEF Cut
<1>6. \A m \in FromServer : Append(down, m) \in Seq(FromServer)
  BY <1>1
<1>7. down' \in Seq(FromServer)
  BY <1>1, <1>2, <1>5, <1>6, PushCases DEF Cut
<1>8. link' \in {"none", "up", "cut"}
  BY PushCases DEF TypeInv, ServerTypes, Cut
<1> QED BY <1>3, <1>4, <1>5, <1>7, <1>8 DEF TypeInv, ServerTypes, ServerOnly

LEMMA GuiTypes ==
    ASSUME TypeInv, process_gui_event
    PROVE  TypeInv'
<1>1. /\ notices # <<>> /\ notices \in Seq(Notice) /\ WindowOK(window)
      /\ window' = Shows(window, Head(notices)) /\ notices' = Tail(notices)
      /\ UNCHANGED <<logic, loopVars, jobVars, events, pending, serverVars, historyVars>>
  BY DEF process_gui_event, TypeInv, QueueTypes, WindowTypes, WindowOK
<1>2. Head(notices) \in Notice /\ Tail(notices) \in Seq(Notice)
  BY <1>1, TailFacts
<1>3. WindowTypes'
  BY <1>1, <1>2, ShowsTypes DEF WindowOK, WindowTypes, TypeInv
<1>4. QueueTypes'
  BY <1>1, <1>2 DEF TypeInv, QueueTypes, jobVars
<1> QED BY <1>1, <1>3, <1>4, UnchangedParts DEF TypeInv

LEMMA InitTypes == Init => TypeInv
<1> SUFFICES ASSUME Init PROVE TypeInv
  OBVIOUS
<1> USE ClientAssumption
<1>1. LoopTypes
  <2>1. received \in [Path -> {Unknown} \cup Nat]
        /\ \A p \in Path : received[p] = Unknown \/ received[p] <= ChunkCount[p]
    BY DEF Init
  <2>2. ASSUME NEW p \in Path PROVE received[p] \in {Unknown} \cup 0 .. ChunkCount[p]
    <3>1. received[p] \in {Unknown} \cup Nat /\ ChunkCount[p] \in Nat
      BY <2>1
    <3>2. received[p] = Unknown \/ received[p] <= ChunkCount[p]
      BY <2>1
    <3> QED BY <3>1, <3>2
  <2> QED BY <2>1, <2>2 DEF Init, LoopTypes
<1>2. QueueTypes
  <2>1. ConnectionStatus("Connecting") \in Notice
    BY NoticeMakers
  <2>2. <<ConnectionStatus("Connecting")>> \in Seq(Notice) /\ <<>> \in Seq(Event)
    BY <2>1
  <2> QED BY <2>2 DEF Init, QueueTypes, ConnectionStatus
<1>3. WindowTypes
  <2>1. [p \in Path |-> "Absent"] \in [Path -> FileStatus]
    BY DEF FileStatus
  <2>2. window \in Window
    BY <2>1 DEF Init, Window
  <2>3. window.metafile_index = -1 /\ window.queued = 0
    BY DEF Init
  <2>4. pending = <<>> /\ <<>> \in Seq(UserEvent)
    BY DEF Init
  <2> QED BY <2>2, <2>3, <2>4 DEF WindowTypes
<1>4. ServerTypes
  <2>1. <<>> \in Seq(FromServer)
    OBVIOUS
  <2>2. online = FALSE /\ crossed = FALSE /\ nameless = FALSE /\ failed = FALSE
    BY DEF Init
  <2> QED BY <2>1, <2>2 DEF Init, ServerTypes
<1> QED BY <1>1, <1>2, <1>3, <1>4 DEF TypeInv

LEMMA NextTypes == TypeInv /\ [Next]_vars => TypeInv'
<1> SUFFICES ASSUME TypeInv, [Next]_vars PROVE TypeInv'
  OBVIOUS
<1>1. CASE \/ Connects \/ ConnectFails \/ TriesAgain \/ ReadEnds \/ ReadMessage
           \/ JobDone \/ JobFails \/ RetryEnds
  BY <1>1, OtherTypes
<1>2. CASE event_processor_task
  BY <1>2, TurnTypes
<1>3. CASE SenderComesOrGoes \/ SenderTransmits \/ SenderPublishes \/ ConnectionLost
  BY <1>3, PushTypes
<1>4. CASE process_gui_event
  BY <1>4, GuiTypes
<1>5. CASE \/ Pressed([type |-> "LogInAsReceiver"]) \/ Pressed([type |-> "LogInAsSender"])
           \/ \E p \in Path : on_download(p) \/ save_file(p) \/ on_resume(p)
           \/ on_stop_downloading
           \/ \E d \in {"single", "multiple"} : UploadClicked(d) \/ CancelClicked(d)
           \/ OkClicked
           \/ ErrorClosed
  BY <1>5, UserTypes DEF LogIns
<1>6. CASE UNCHANGED vars
  BY <1>6, UnchangedParts DEF vars, TypeInv, jobVars
<1>7. CASE SendClicked
  BY <1>7, SendTypes
<1> QED BY <1>1, <1>2, <1>3, <1>4, <1>5, <1>6, <1>7 DEF Next

-----------------------------------------------------------------------------
(***************************************************************************)
(* The turns after which the loop goes on.                                 *)
(***************************************************************************)
First == Head(events)
Rest == Tail(events)

SendTurn ==
    /\ First.type = "SendMessage" /\ First.message \in ToServer
    /\ events' = Rest /\ UNCHANGED <<loopVars, jobVars, notices>>
    /\ \/ link = "up" /\ ServerGets(First.message)
       \/ link = "cut" /\ UNCHANGED serverVars

LogInTurn(r) ==
    /\ First.type \in LogIns
    /\ client' = r /\ state' = "Initializing" /\ requesting' = NoPath
    /\ events' = Append(Rest, Send([type |-> "Login", role |-> r]))
    /\ UNCHANGED <<received, jobVars, notices, serverVars>>

WelcomeTurn ==
    /\ First.type = "LoggedInAsReceiver"
    /\ notices' = Append(notices, First)
    /\ events' = Rest \/ events' = Append(Rest, Send([type |-> "RequestMeta"]))
    /\ UNCHANGED <<loopVars, jobVars, serverVars>>

\* A message that leaves the loop as it is.
DropTurn ==
    /\ \/ /\ First.type = "ProcessMessage"
          /\ client = "Receiver" => First.message.type # "NotifySenderStatus"
       \/ First.type = "MetaCreationError"
       \/ First.type \in Orders /\ client # "Receiver"
       \/ First.type \in Uploads \cup {"MetaCreated"} /\ client # "Sender"
    /\ events' = Rest \/ events' = Append(Rest, Send([type |-> "RequestMeta"]))
    /\ UNCHANGED <<loopVars, jobVars, notices, serverVars>>

StatusTurn ==
    /\ First.type = "ProcessMessage" /\ First.message.type = "NotifySenderStatus"
    /\ First.message.connected \in BOOLEAN
    /\ events' = Append(Rest, [type |-> IF First.message.connected THEN "SenderConnected"
                                        ELSE "SenderDisconnected"])
    /\ UNCHANGED <<loopVars, jobVars, notices, serverVars>>

EnterTurn ==
    /\ First.type = "ProcessMessage" /\ First.message.type = "LoginSuccess"
    /\ state' = "Idle" /\ UNCHANGED <<client, requesting, received, jobVars, notices, serverVars>>
    /\ \/ /\ client = "Receiver" /\ state = "Initializing"
          /\ events' = Append(Rest, [type |-> "LoggedInAsReceiver", files |-> convert_index])
       \/ client = "Sender" /\ events' = Append(Rest, [type |-> "LoggedInAsSender"])

MetaTurn ==
    /\ First.type = "ProcessMessage" /\ First.message.type = "TransmitMeta"
    /\ client = "Receiver" /\ state = "Idle"
    /\ \E P \in SUBSET Path : received' = [p \in Path |-> IF p \in P THEN 0 ELSE received[p]]
    /\ events' = Append(Rest, Update)
    /\ UNCHANGED <<client, state, requesting, jobVars, notices, serverVars>>

ChunkTurn ==
    /\ First.type = "ProcessMessage" /\ First.message.type = "TransmitChunk"
    /\ client = "Receiver" /\ state = "RequestedChunk"
    /\ received' = [received EXCEPT ![requesting] = @ + 1]
    /\ UNCHANGED <<client, jobVars, notices, serverVars>>
    /\ \/ /\ events' = Append(Rest, Send([type |-> "RequestChunk"]))
          /\ UNCHANGED <<state, requesting>>
       \/ /\ events' = Append(Append(Rest, [type |-> "FileFinishedDownloading"]), Update)
          /\ state' = "Idle" /\ requesting' = NoPath

PassTurn ==
    /\ First.type \in {"LoggedInAsSender", "UpdateReceiverFiles", "SenderConnected",
                       "SenderDisconnected", "FileStartedDownloading",
                       "FileFinishedDownloading"}
    /\ notices' = Append(notices, First)
    /\ events' = Rest
    /\ UNCHANGED <<loopVars, jobVars, serverVars>>

StartTurn(p) ==
    /\ First.type \in {"FileRequested", "FileResumed"} /\ First.path = p
    /\ client = "Receiver" /\ state = "Idle"
    /\ state' = "RequestedChunk" /\ requesting' = p
    /\ received' \in {received, [received EXCEPT ![p] = 0]}
    /\ events' = Append(Append(Rest, Send([type |-> "RequestChunk"])),
                        [type |-> "FileStartedDownloading", path |-> p])
    /\ UNCHANGED <<client, jobVars, notices, serverVars>>

StopTurn ==
    /\ First.type = "DownloadStopped"
    /\ client = "Receiver" /\ state = "RequestedChunk"
    /\ state' = "Idle"
    /\ events' = Append(Append(Rest, Send([type |-> "StopChunk"])), Update)
    /\ UNCHANGED <<client, requesting, received, jobVars, notices, serverVars>>

UploadTurn ==
    /\ First.type \in Uploads /\ client = "Sender"
    /\ \/ First.type = "UploadMeta" /\ First.local # "Nameless" /\ UploadMeta(First.local)
       \/ First.type = "UploadMultipleMeta" /\ UploadMultipleMeta(First.files, First.opened)
    /\ events' = Rest
    /\ UNCHANGED <<loopVars, serverVars>>

CreatedTurn ==
    /\ First.type = "MetaCreated" /\ client = "Sender"
    /\ notices' = Append(notices, [type |-> "MetadataCreated"])
    /\ events' = Append(Rest, Send([type |-> "PublishMeta"]))
    /\ UNCHANGED <<loopVars, jobVars, serverVars>>

Turn ==
    \/ SendTurn \/ (\E r \in {"Receiver", "Sender"} : LogInTurn(r)) \/ WelcomeTurn \/ DropTurn
    \/ StatusTurn \/ EnterTurn \/ MetaTurn \/ ChunkTurn \/ PassTurn
    \/ (\E p \in Path : StartTurn(p)) \/ StopTurn \/ UploadTurn \/ CreatedTurn

LEMMA Emits ==
    ASSUME events \in Seq(Event), events # <<>>
    PROVE  /\ Emit(<<>>) => events' = Rest
           /\ \A x \in Event : Emit(<<x>>) => events' = Append(Rest, x)
           /\ \A x, y \in Event : Emit(<<x, y>>) => events' = Append(Append(Rest, x), y)
<1>1. PICK r \in Seq(Event) : r = Rest
  BY TailFacts DEF Rest
<1>2. \A o : Emit(o) <=> events' = r \o o
  BY <1>1 DEF Emit, Rest
<1>3. Emit(<<>>) => events' = r
  BY <1>2
<1>4. ASSUME NEW x \in Event, NEW y \in Event
      PROVE  /\ r \o <<x>> = Append(r, x)
             /\ r \o <<x, y>> = Append(Append(r, x), y)
  BY Emitted
<1>5. \A x \in Event : Emit(<<x>>) => events' = Append(r, x)
  BY <1>2, <1>4
<1>6. \A x, y \in Event : Emit(<<x, y>>) => events' = Append(Append(r, x), y)
  BY <1>2, <1>4
<1> QED BY <1>1, <1>3, <1>5, <1>6

\* What a message does.
LEMMA MessageTurns ==
    ASSUME TypeInv, events # <<>>, First.type = "ProcessMessage", ProcessMessage(First.message),
           UNCHANGED serverVars
    PROVE  DropTurn \/ StatusTurn \/ EnterTurn \/ MetaTurn \/ ChunkTurn
<1>1. events \in Seq(Event)
  BY DEF TypeInv, QueueTypes
<1>2. PICK m : m = First.message
  OBVIOUS
<1>3. m \in FromServer
  BY <1>1, <1>2, TailFacts, EventFacts DEF First
<1>4. /\ [type |-> "LoggedInAsReceiver", files |-> convert_index] \in Event
      /\ [type |-> "LoggedInAsSender"] \in Event
      /\ [type |-> IF m.connected THEN "SenderConnected" ELSE "SenderDisconnected"] \in Event
      /\ Send([type |-> "RequestMeta"]) \in Event
      /\ Send([type |-> "RequestChunk"]) \in Event
      /\ Update \in Event
      /\ [type |-> "FileFinishedDownloading"] \in Event
  BY EventMakers, ToServerMakers, StatusType
<1>5. Quietly
  BY DEF ProcessMessage
<1>6. Emit(<<>>) => events' = Rest
  BY <1>1, Emits
<1>7. CASE client = "Receiver" /\ ReceiverProcesses(m)
  <2>1. CASE m.type = "LoginSuccess"
    <3>1. CASE state # "Initializing" /\ Emit(<<>>) /\ UNCHANGED loopVars
      BY <1>2, <1>5, <1>6, <2>1, <3>1 DEF DropTurn, Quietly
    <3>2. CASE /\ state = "Initializing" /\ state' = "Idle"
               /\ Emit(<<[type |-> "LoggedInAsReceiver", files |-> convert_index]>>)
               /\ UNCHANGED <<client, requesting, received>>
      <4>1. events' = Append(Rest, [type |-> "LoggedInAsReceiver", files |-> convert_index])
        BY <1>1, <1>4, <3>2, Emits
      <4> QED BY <1>2, <1>5, <1>7, <2>1, <3>2, <4>1 DEF EnterTurn, Quietly
    <3> QED BY <1>7, <2>1, <3>1, <3>2 DEF ReceiverProcesses
  <2>2. CASE m.type = "NotifySenderStatus"
    <3>1. /\ Emit(<<[type |-> IF m.connected THEN "SenderConnected" ELSE "SenderDisconnected"]>>)
          /\ UNCHANGED loopVars
      BY <1>7, <2>2 DEF ReceiverProcesses
    <3>2. events' = Append(Rest, [type |-> IF m.connected THEN "SenderConnected" ELSE "SenderDisconnected"])
      BY <1>1, <1>4, <3>1, Emits
    <3>3. m.connected \in BOOLEAN
      BY <1>3, <2>2, MessageFacts
    <3> QED BY <1>2, <1>5, <2>2, <3>1, <3>2, <3>3 DEF StatusTurn, Quietly
  <2>3. CASE m.type = "NotifyUpdated"
    <3>1. Emit(<<Send([type |-> "RequestMeta"])>>) => events' = Append(Rest, Send([type |-> "RequestMeta"]))
      BY <1>1, <1>4, Emits
    <3> QED BY <1>2, <1>5, <1>6, <1>7, <2>3, <3>1 DEF ReceiverProcesses, DropTurn, Quietly
  <2>4. CASE m.type = "TransmitMeta"
    <3>1. CASE state # "Idle" /\ Emit(<<>>) /\ UNCHANGED loopVars
      BY <1>2, <1>5, <1>6, <2>4, <3>1 DEF DropTurn, Quietly
    <3>2. CASE /\ state = "Idle"
               /\ received' = [p \in Path |-> IF p \in m.paths THEN 0 ELSE received[p]]
               /\ Emit(<<Update>>)
               /\ UNCHANGED <<client, state, requesting>>
      <4>1. events' = Append(Rest, Update)
        BY <1>1, <1>4, <3>2, Emits
      <4>2. m.paths \in SUBSET Path
        BY <1>3, <2>4, MessageFacts
      <4> QED BY <1>2, <1>5, <1>7, <2>4, <3>2, <4>1, <4>2 DEF MetaTurn, Quietly
    <3> QED BY <1>7, <2>4, <3>1, <3>2 DEF ReceiverProcesses, TransmitMeta
  <2>5. CASE m.type = "TransmitChunk"
    <3>1. CASE Emit(<<>>) /\ UNCHANGED loopVars
      BY <1>2, <1>5, <1>6, <2>5, <3>1 DEF DropTurn, Quietly
    <3>2. CASE /\ state = "RequestedChunk"
               /\ received' = [received EXCEPT ![requesting] = @ + 1]
               /\ Emit(<<Send([type |-> "RequestChunk"])>>)
               /\ UNCHANGED <<client, state, requesting>>
      <4>1. events' = Append(Rest, Send([type |-> "RequestChunk"]))
        BY <1>1, <1>4, <3>2, Emits
      <4> QED BY <1>2, <1>5, <1>7, <2>5, <3>2, <4>1 DEF ChunkTurn, Quietly
    <3>3. CASE /\ state = "RequestedChunk"
               /\ received' = [received EXCEPT ![requesting] = @ + 1]
               /\ state' = "Idle" /\ requesting' = NoPath
               /\ Emit(<<[type |-> "FileFinishedDownloading"], Update>>)
               /\ UNCHANGED client
      <4>1. events' = Append(Append(Rest, [type |-> "FileFinishedDownloading"]), Update)
        BY <1>1, <1>4, <3>3, Emits
      <4> QED BY <1>2, <1>5, <1>7, <2>5, <3>3, <4>1 DEF ChunkTurn, Quietly
    <3> QED BY <1>7, <2>5, <3>1, <3>2, <3>3 DEF ReceiverProcesses, TransmitChunk
  <2> QED BY <1>3, <2>1, <2>2, <2>3, <2>4, <2>5, MessageFacts
<1>8. CASE client = "Sender" /\ SenderProcesses(m)
  <2>1. CASE m.type = "LoginSuccess"
    <3>1. events' = Append(Rest, [type |-> "LoggedInAsSender"])
      BY <1>1, <1>4, <1>8, <2>1, Emits DEF SenderProcesses
    <3> QED BY <1>2, <1>5, <1>8, <2>1, <3>1 DEF SenderProcesses, EnterTurn, Quietly
  <2>2. CASE m.type # "LoginSuccess"
    BY <1>2, <1>5, <1>6, <1>8, <2>2 DEF SenderProcesses, DropTurn, Quietly
  <2> QED BY <2>1, <2>2
<1>9. CASE client = "None" /\ Emit(<<>>) /\ UNCHANGED loopVars
  BY <1>5, <1>6, <1>9 DEF DropTurn, Quietly
<1> QED BY <1>2, <1>7, <1>8, <1>9 DEF ProcessMessage

LEMMA TurnSteps ==
    ASSUME TypeInv, event_processor_task, logic' = "Running"
    PROVE  Turn
<1>1. /\ events # <<>> /\ events \in Seq(Event) /\ First \in Event
      /\ \A how \in {"Ended", "Panicked"} : ~Over(how)
  BY TurnCases, TailFacts DEF TypeInv, QueueTypes, First, Over
<1>2. ~Panic
  BY <1>1 DEF Panic
<1>3. Emit(<<>>) => events' = Rest
  BY <1>1, Emits
<1>4. CASE First.type = "SendMessage" /\ SendMessage(First.message)
  <2>1. First.message \in ToServer
    BY <1>1, <1>4, EventFacts
  <2> QED BY <1>2, <1>3, <1>4, <2>1 DEF SendMessage, SendTurn, Quietly, Turn
<1>5. ASSUME NEW r \in {"Receiver", "Sender"}, First.type \in LogIns, LogIn(r), UNCHANGED serverVars
      PROVE  Turn
  <2>1. Send([type |-> "Login", role |-> r]) \in Event
    BY EventMakers, ToServerMakers
  <2>2. events' = Append(Rest, Send([type |-> "Login", role |-> r]))
    BY <1>1, <1>5, <2>1, Emits DEF LogIn
  <2>3. LogInTurn(r)
    BY <1>5, <2>2 DEF LogIn, LogInTurn, Quietly
  <2> QED BY <2>3 DEF Turn
<1>6. CASE First.type = "LoggedInAsReceiver" /\ LoggedInAsReceiver(First.files) /\ UNCHANGED serverVars
  <2>1. First = [type |-> "LoggedInAsReceiver", files |-> First.files]
    BY <1>1, <1>6 DEF Event
  <2>2. Send([type |-> "RequestMeta"]) \in Event
    BY EventMakers, ToServerMakers
  <2>3. /\ Emit(IF client = "Receiver" THEN <<Send([type |-> "RequestMeta"])>> ELSE <<>>)
        /\ UNCHANGED <<logic, jobVars>>
    BY <1>1, <1>6 DEF LoggedInAsReceiver
  <2>4. events' = Rest \/ events' = Append(Rest, Send([type |-> "RequestMeta"]))
    BY <1>1, <1>3, <2>2, <2>3, Emits
  <2>5. notices' = Append(notices, First) /\ UNCHANGED loopVars
    BY <1>6, <2>1 DEF LoggedInAsReceiver
  <2> QED BY <1>6, <2>3, <2>4, <2>5 DEF WelcomeTurn, Turn
<1>7. CASE First.type = "ProcessMessage" /\ ProcessMessage(First.message) /\ UNCHANGED serverVars
  BY <1>1, <1>7, MessageTurns DEF Turn
<1>8. CASE /\ First.type \in {"LoggedInAsSender", "UpdateReceiverFiles", "SenderConnected",
                              "SenderDisconnected", "FileStartedDownloading",
                              "FileFinishedDownloading"}
           /\ PassOn(First) /\ UNCHANGED serverVars
  BY <1>3, <1>8 DEF PassOn, PassTurn, Turn
<1>9. ASSUME NEW p \in Path, First.path = p, client = "Receiver", UNCHANGED serverVars,
             \/ First.type = "FileRequested" /\ FileRequested(p)
             \/ First.type = "FileResumed" /\ FileResumed(p)
      PROVE  Turn
  <2>1. /\ [type |-> "FileStartedDownloading", path |-> p] \in Event
        /\ Send([type |-> "RequestChunk"]) \in Event
    BY EventMakers, ToServerMakers
  <2>2. Emit(Started(p)) => events' = Append(Append(Rest, Send([type |-> "RequestChunk"])),
                                             [type |-> "FileStartedDownloading", path |-> p])
    BY <1>1, <2>1, Emits DEF Started
  <2>3. StartTurn(p)
    BY <1>1, <1>2, <1>9, <2>2 DEF FileRequested, FileResumed, StartTurn, Quietly
  <2> QED BY <2>3 DEF Turn
<1>10. CASE /\ client = "Receiver" /\ First.type = "DownloadStopped" /\ DownloadStopped
            /\ UNCHANGED serverVars
  <2>1. Send([type |-> "StopChunk"]) \in Event /\ Update \in Event
    BY EventMakers, ToServerMakers, StatusType
  <2>2. Emit(<<Send([type |-> "StopChunk"]), Update>>) =>
           events' = Append(Append(Rest, Send([type |-> "StopChunk"])), Update)
    BY <1>1, <2>1, Emits
  <2> QED BY <1>2, <1>10, <2>2 DEF DownloadStopped, StopTurn, Quietly, Turn
<1>11. CASE /\ client = "Sender" /\ UNCHANGED serverVars
            /\ \/ First.type = "UploadMeta" /\ UploadMeta(First.local)
               \/ First.type = "UploadMultipleMeta" /\ UploadMultipleMeta(First.files, First.opened)
  BY <1>2, <1>3, <1>11 DEF UploadMeta, UploadMultipleMeta, UploadTurn, Uploads, Turn
<1>12. CASE client = "Sender" /\ First.type = "MetaCreated" /\ MetaCreated /\ UNCHANGED serverVars
  <2>1. Send([type |-> "PublishMeta"]) \in Event
    BY EventMakers, ToServerMakers
  <2>2. events' = Append(Rest, Send([type |-> "PublishMeta"]))
    BY <1>1, <1>12, <2>1, Emits DEF MetaCreated
  <2> QED BY <1>12, <2>2 DEF MetaCreated, CreatedTurn, Turn
<1>13. CASE /\ \/ First.type = "MetaCreationError"
               \/ First.type \in Orders /\ client # "Receiver"
               \/ First.type \in Uploads \cup {"MetaCreated"} /\ client # "Sender"
            /\ Ignored /\ UNCHANGED serverVars
  BY <1>3, <1>13 DEF Ignored, Quietly, DropTurn, Turn
<1>14. First.type \in {"FileRequested", "FileResumed"} => First.path \in Path
  BY <1>1, EventFacts
<1> QED BY <1>4, <1>5, <1>6, <1>7, <1>8, <1>9, <1>10, <1>11, <1>12, <1>13, <1>14, TurnCases DEF First, LogIns

-----------------------------------------------------------------------------
(***************************************************************************)
(* What a turn leaves in the event channel.                                *)
(***************************************************************************)
\* r is s and more, but nothing more of a type in W.
Adds(s, r, W) ==
    /\ \A i \in DOMAIN s : i \in DOMAIN r /\ r[i] = s[i]
    /\ \A i \in DOMAIN r : r[i].type \in W => i \in DOMAIN s

LEMMA AddsAppend ==
    ASSUME NEW S, NEW s \in Seq(S), NEW e \in S, NEW W, e.type \notin W
    PROVE  Adds(s, Append(s, e), W)
<1>1. \A i \in DOMAIN Append(s, e) : \/ i \in DOMAIN s /\ Append(s, e)[i] = s[i]
                                     \/ Append(s, e)[i] = e
  BY AppendFacts
<1>2. \A i \in DOMAIN s : i \in DOMAIN Append(s, e) /\ Append(s, e)[i] = s[i]
  BY AppendFacts
<1> QED BY <1>1, <1>2 DEF Adds

LEMMA AddsTwo ==
    ASSUME NEW S, NEW s \in Seq(S), NEW e \in S, NEW f \in S, NEW W, e.type \notin W, f.type \notin W
    PROVE  Adds(s, Append(Append(s, e), f), W)
<1>1. PICK r \in Seq(S) : r = Append(s, e)
  BY AppendFacts
<1>2. Adds(s, r, W) /\ Adds(r, Append(r, f), W)
  BY <1>1, AddsAppend
<1> QED BY <1>1, <1>2 DEF Adds

LEMMA AddsNothing == ASSUME NEW s, NEW W PROVE Adds(s, s, W)
BY DEF Adds

LEMMA AddsLess ==
    ASSUME NEW s, NEW r, NEW W, Adds(s, r, W), NEW T \in SUBSET W
    PROVE  Adds(s, r, T)
BY DEF Adds

LEMMA AddsFacts ==
    ASSUME NEW s, NEW r, NEW W, Adds(s, r, W), NEW T \in SUBSET W
    PROVE  /\ Has(r, T) <=> Has(s, T)
           /\ \A U \in SUBSET W : Sorted(s, T, U) => Sorted(r, T, U)
           /\ AtMostOne(s, T) => AtMostOne(r, T)
           /\ \A t \in W : Count(r, 0, t) = Count(s, 0, t)
<1>1. Has(r, T) <=> Has(s, T)
  BY DEF Adds, Has, Elems
<1>2. \A U \in SUBSET W : Sorted(s, T, U) => Sorted(r, T, U)
  BY DEF Adds, Sorted
<1>3. AtMostOne(s, T) => AtMostOne(r, T)
  BY DEF Adds, AtMostOne
<1>4. ASSUME NEW t \in W PROVE Count(r, 0, t) = Count(s, 0, t)
  <2>1. Places(r, 0, t) = Places(s, 0, t)
    BY <1>4 DEF Adds, Places
  <2> QED BY <2>1 DEF Count
<1> QED BY <1>1, <1>2, <1>3, <1>4

Commands == LogIns \cup Orders \cup Uploads \cup {"MetaCreated"}

LEMMA FirstFacts ==
    ASSUME TypeInv, events # <<>>
    PROVE  /\ events \in Seq(Event) /\ Rest \in Seq(Event) /\ First \in Event
           /\ \A T : Has(events, T) <=> First.type \in T \/ Has(Rest, T)
<1>1. events \in Seq(Event)
  BY DEF TypeInv, QueueTypes
<1>2. Rest \in Seq(Event) /\ First \in Event
  BY <1>1, TailFacts DEF Rest, First
<1>3. \A T : Has(events, T) <=> First.type \in T \/ Has(Rest, T)
  BY <1>1, HasInTail DEF Rest, First
<1> QED BY <1>1, <1>2, <1>3

\* No turn gives the loop a command; a login may be answered.
LEMMA TurnQueue ==
    ASSUME TypeInv, events # <<>>, Turn
    PROVE  /\ Adds(Rest, events', Commands)
           /\ (client = "Receiver" /\ EnterTurn) \/ Adds(Rest, events', Commands \cup {"LoggedInAsReceiver"})
<1> DEFINE C == Commands \cup {"LoggedInAsReceiver"}
<1>1. Rest \in Seq(Event) /\ First \in Event
  BY FirstFacts
<1>2. /\ \A x \in Event : x.type \notin C => Adds(Rest, Append(Rest, x), C)
      /\ \A x, y \in Event : x.type \notin C /\ y.type \notin C => Adds(Rest, Append(Append(Rest, x), y), C)
      /\ \A x \in Event : x.type \notin Commands => Adds(Rest, Append(Rest, x), Commands)
      /\ Adds(Rest, Rest, C)
  BY <1>1, AddsAppend, AddsTwo, AddsNothing
<1>3. Adds(Rest, events', C) => Adds(Rest, events', Commands)
  BY AddsLess
<1>4. /\ \A m : Send(m).type = "SendMessage"
      /\ Update.type = "UpdateReceiverFiles"
      /\ \A t \in C : t \in {"LogInAsReceiver", "LogInAsSender", "FileRequested", "FileResumed",
                             "DownloadStopped", "UploadMeta", "UploadMultipleMeta", "MetaCreated",
                             "LoggedInAsReceiver"}
  BY DEF Send, Update, Commands, LogIns, Orders, Uploads
<1>5. /\ Update \in Event
      /\ \A m \in ToServer : Send(m) \in Event
      /\ [type |-> "RequestMeta"] \in ToServer /\ [type |-> "RequestChunk"] \in ToServer
      /\ [type |-> "StopChunk"] \in ToServer /\ [type |-> "PublishMeta"] \in ToServer
      /\ \A r \in {"Receiver", "Sender"} : [type |-> "Login", role |-> r] \in ToServer
      /\ \A t \in {"LoggedInAsSender", "SenderConnected", "SenderDisconnected", "FileFinishedDownloading"} :
            [type |-> t] \in Event
      /\ \A p \in Path : [type |-> "FileStartedDownloading", path |-> p] \in Event
  BY EventMakers, ToServerMakers, StatusType
<1> HIDE DEF C
<1>6. CASE SendTurn \/ DropTurn \/ PassTurn \/ UploadTurn \/ WelcomeTurn \/ CreatedTurn
  <2>1. \/ events' = Rest
        \/ events' = Append(Rest, Send([type |-> "RequestMeta"]))
        \/ events' = Append(Rest, Send([type |-> "PublishMeta"]))
    BY <1>6 DEF SendTurn, DropTurn, PassTurn, UploadTurn, WelcomeTurn, CreatedTurn
  <2> QED BY <1>2, <1>3, <1>4, <1>5, <2>1 DEF C
<1>7. ASSUME NEW r \in {"Receiver", "Sender"}, LogInTurn(r) PROVE Adds(Rest, events', C)
  BY <1>2, <1>4, <1>5, <1>7 DEF LogInTurn
<1>8. CASE StatusTurn
  <2>1. \/ events' = Append(Rest, [type |-> "SenderConnected"])
        \/ events' = Append(Rest, [type |-> "SenderDisconnected"])
    BY <1>8 DEF StatusTurn
  <2> QED BY <1>2, <1>3, <1>4, <1>5, <2>1 DEF C
<1>9. CASE EnterTurn
  <2>1. CASE client = "Receiver" /\ events' = Append(Rest, [type |-> "LoggedInAsReceiver", files |-> convert_index])
    <3>1. [type |-> "LoggedInAsReceiver", files |-> convert_index] \in Event
      BY StatusType, EventMakers
    <3>2. "LoggedInAsReceiver" \notin Commands
      BY DEF Commands, LogIns, Orders, Uploads
    <3> QED BY <1>2, <1>9, <2>1, <3>1, <3>2
  <2>2. CASE events' = Append(Rest, [type |-> "LoggedInAsSender"])
    BY <1>2, <1>3, <1>4, <1>5, <2>2 DEF C
  <2> QED BY <1>9, <2>1, <2>2 DEF EnterTurn
<1>10. CASE MetaTurn
  BY <1>2, <1>3, <1>4, <1>5, <1>10 DEF MetaTurn, C
<1>11. CASE ChunkTurn
  <2>1. \/ events' = Append(Rest, Send([type |-> "RequestChunk"]))
        \/ events' = Append(Append(Rest, [type |-> "FileFinishedDownloading"]), Update)
    BY <1>11 DEF ChunkTurn
  <2> QED BY <1>2, <1>3, <1>4, <1>5, <2>1 DEF C
<1>12. ASSUME NEW p \in Path, StartTurn(p) PROVE Adds(Rest, events', C)
  BY <1>2, <1>4, <1>5, <1>12 DEF StartTurn
<1>13. CASE StopTurn
  BY <1>2, <1>3, <1>4, <1>5, <1>13 DEF StopTurn, C
<1> QED BY <1>3, <1>6, <1>7, <1>8, <1>9, <1>10, <1>11, <1>12, <1>13 DEF Turn, C

\* What the loop does only when it is told.
LEMMA TurnMoves ==
    ASSUME Turn
    PROVE  /\ state' = "RequestedChunk" => state = "RequestedChunk" \/ First.type \in Orders
           /\ jobs' # jobs \/ retries' # retries =>
                 First.type \in Uploads /\ client = "Sender" /\ client' = client
           /\ client' # client => First.type \in LogIns
<1>1. CASE \/ SendTurn \/ WelcomeTurn \/ DropTurn \/ StatusTurn \/ PassTurn \/ CreatedTurn
  BY <1>1 DEF SendTurn, WelcomeTurn, DropTurn, StatusTurn, PassTurn, CreatedTurn, loopVars, jobVars
<1>2. CASE EnterTurn \/ MetaTurn \/ ChunkTurn \/ StopTurn
  BY <1>2 DEF EnterTurn, MetaTurn, ChunkTurn, StopTurn, jobVars
<1>3. CASE \E r \in {"Receiver", "Sender"} : LogInTurn(r)
  BY <1>3 DEF LogInTurn, jobVars
<1>4. CASE \E p \in Path : StartTurn(p)
  BY <1>4 DEF StartTurn, Orders, jobVars
<1>5. CASE UploadTurn
  BY <1>5 DEF UploadTurn, loopVars
<1> QED BY <1>1, <1>2, <1>3, <1>4, <1>5 DEF Turn

\* ScreenInv holds after a turn.
LEMMA ScreenTurn ==
    ASSUME TypeInv, TypeInv', events # <<>>, Turn, UNCHANGED guiVars, ScreenInv
    PROVE  ScreenInv'
<1>1. /\ events \in Seq(Event) /\ Rest \in Seq(Event) /\ First \in Event
      /\ \A T : Has(events, T) <=> First.type \in T \/ Has(Rest, T)
  BY FirstFacts
<1>2. Adds(Rest, events', Commands)
  BY TurnQueue
<1>3. /\ LogIns \in SUBSET Commands /\ Orders \cup Uploads \in SUBSET Commands
      /\ {"MetaCreated"} \in SUBSET Commands /\ Orders \cup Uploads \cup {"MetaCreated"} \in SUBSET Commands
  BY DEF Commands
<1>4. /\ Has(events', LogIns) <=> Has(Rest, LogIns)
      /\ Has(events', {"MetaCreated"}) <=> Has(Rest, {"MetaCreated"})
      /\ Has(events', Orders \cup Uploads) <=> Has(Rest, Orders \cup Uploads)
      /\ Has(events', Orders \cup Uploads \cup {"MetaCreated"}) <=>
            Has(Rest, Orders \cup Uploads \cup {"MetaCreated"})
      /\ Sorted(Rest, LogIns, Orders \cup Uploads) => Sorted(events', LogIns, Orders \cup Uploads)
  BY <1>2, <1>3, AddsFacts
<1>5. /\ Sorted(Rest, LogIns, Orders \cup Uploads)
      /\ First.type \in Orders \cup Uploads => ~Has(Rest, LogIns)
  BY <1>1, SortedTail DEF ScreenInv, First, Rest
<1>6. /\ state' = "RequestedChunk" => state = "RequestedChunk" \/ First.type \in Orders
      /\ jobs' # jobs \/ retries' # retries =>
            First.type \in Uploads /\ client = "Sender" /\ client' = client
      /\ client' # client => First.type \in LogIns
  BY TurnMoves
<1>7. jobs \in Nat /\ jobs' \in Nat /\ retries \in Nat /\ retries' \in Nat
  BY DEF TypeInv, QueueTypes
<1>8. \/ state' = "RequestedChunk" \/ jobs' > 0 \/ retries' > 0 \/ Has(events', {"MetaCreated"})
      => ~Has(events', LogIns) /\ ~Has(pending, LogIns)
  BY <1>1, <1>4, <1>5, <1>6 DEF ScreenInv
<1>9. \/ state' = "RequestedChunk" \/ jobs' > 0 \/ retries' > 0
      \/ Has(events', Orders \cup Uploads \cup {"MetaCreated"})
      \/ Has(pending, Orders \cup Uploads)
      \/ window.dialog # NoPath \/ window.dialogs # {}
      => window.screen # "MainScreen"
  <2>1. First.type \in Orders \cup Uploads => window.screen # "MainScreen"
    BY <1>1 DEF ScreenInv
  <2> QED BY <1>1, <1>4, <1>6, <2>1 DEF ScreenInv
<1>10. jobs' > 0 \/ retries' > 0 \/ Has(events', {"MetaCreated"}) => client' = "Sender"
  <2>1. CASE client' # client
    <3>1. Has(events, LogIns) /\ jobs' = jobs /\ retries' = retries
      BY <1>1, <1>6, <2>1
    <3>2. ~Has(events, {"MetaCreated"}) /\ ~(jobs > 0) /\ ~(retries > 0)
      BY <3>1 DEF ScreenInv
    <3> QED BY <1>1, <1>4, <3>1, <3>2
  <2>2. CASE client' = client
    BY <1>1, <1>4, <1>6, <2>2 DEF ScreenInv
  <2> QED BY <2>1, <2>2
<1>11. Has(events', Orders \cup Uploads) => ~Has(pending, LogIns)
  BY <1>1, <1>4 DEF ScreenInv
<1> QED BY <1>4, <1>5, <1>8, <1>9, <1>10, <1>11 DEF ScreenInv, guiVars

-----------------------------------------------------------------------------
(***************************************************************************)
(* What the user can do as long as the loop goes on.                       *)
(***************************************************************************)
\* No click changes what is shown but the dialogs and the download.
SameShown ==
    /\ window'.screen = window.screen /\ window'.files = window.files
    /\ window'.sender_connected = window.sender_connected
    /\ window'.queued = window.queued /\ window'.metafile_index = window.metafile_index
    /\ window'.creating = window.creating

LogInClick ==
    /\ \E t \in LogIns : pending' = Append(pending, [type |-> t])
    /\ window.screen = "MainScreen" /\ window.dialog = NoPath /\ UNCHANGED window
    /\ ~crossed' => ~Behind /\ client = "None"

OpenClick(p) ==
    /\ window.screen = "ReceiverScreen" /\ window.files[p] = "NotDownloaded"
    /\ window'.dialog = p /\ window'.downloading = window.downloading
    /\ window'.dialogs = window.dialogs
    /\ UNCHANGED pending
    /\ ~crossed' => ~Behind /\ window.downloading = NoPath /\ ChunkCount[p] # 0

SaveClick(p) ==
    /\ window.dialog = p
    /\ window'.dialog = NoPath /\ window'.downloading = window.downloading
    /\ window'.dialogs = window.dialogs
    /\ pending' = Append(pending, [type |-> "FileRequested", path |-> p])

ResumeClick(p) ==
    /\ window.screen = "ReceiverScreen" /\ window.dialog = NoPath
    /\ window.files[p] = "Downloading"
    /\ UNCHANGED window
    /\ pending' = Append(pending, [type |-> "FileResumed", path |-> p])
    /\ ~crossed' => ~Behind /\ window.downloading = NoPath

StopClick ==
    /\ window.screen = "ReceiverScreen" /\ window.dialog = NoPath
    /\ window.downloading # NoPath
    /\ window'.dialog = NoPath /\ window'.downloading = NoPath
    /\ window'.dialogs = window.dialogs
    /\ pending' = Append(pending, [type |-> "DownloadStopped"])
    /\ ~crossed' => ~Behind

UploadClick ==
    /\ window.dialogs # {}
    /\ window'.dialog = window.dialog /\ window'.downloading = window.downloading
    /\ \E e \in UserEvent : /\ e.type \in Uploads /\ pending' = Append(pending, e)
                            /\ ~nameless' /\ e.type = "UploadMeta" => e.local # "Nameless"

OtherClick ==
    /\ window'.dialog \in {window.dialog, NoPath} /\ window'.downloading = window.downloading
    /\ window'.dialogs \subseteq window.dialogs \/ window.screen = "SenderScreen"
    /\ UNCHANGED pending

UserStep ==
    /\ UNCHANGED <<logic, loopVars, jobVars, events, notices, serverVars, failed>>
    /\ (crossed => crossed') /\ (nameless => nameless')
    /\ SameShown
    /\ \/ LogInClick \/ StopClick \/ UploadClick \/ OtherClick
       \/ \E p \in Path : OpenClick(p) \/ SaveClick(p) \/ ResumeClick(p)

\* The loop hears of the first click it has not heard of.
SendStep ==
    /\ logic = "Running" /\ pending # <<>> /\ window.dialog = NoPath
    /\ events' = Append(events, Head(pending)) /\ pending' = Tail(pending)
    /\ UNCHANGED <<logic, loopVars, jobVars, notices, window, serverVars, historyVars>>

LEMMA SendSteps == ASSUME Live, SendClicked PROVE SendStep
BY SendCases DEF Live, SendClicked, Alive, SendStep

User ==
    \/ Pressed([type |-> "LogInAsReceiver"]) \/ Pressed([type |-> "LogInAsSender"])
    \/ \E p \in Path : on_download(p) \/ save_file(p) \/ on_resume(p)
    \/ on_stop_downloading
    \/ \E d \in {"single", "multiple"} : UploadClicked(d) \/ CancelClicked(d)
    \/ OkClicked
    \/ ErrorClosed

LEMMA UserSteps ==
    ASSUME TypeInv, Live, User
    PROVE  UserStep
<1>1. window \in Window /\ crossed \in BOOLEAN /\ nameless \in BOOLEAN
  BY DEF TypeInv, WindowTypes, ServerTypes
<1>2. \A e, w : Click(e, w) =>
         /\ pending' = Append(pending, e) /\ window' = w
         /\ UNCHANGED <<logic, loopVars, jobVars, events, notices, serverVars, failed>>
  BY ClickCases DEF Live
<1>3. ASSUME NEW t \in LogIns, Pressed([type |-> t]) PROVE UserStep
  <2>1. /\ window.dialog = NoPath /\ window.screen = "MainScreen"
        /\ Click([type |-> t], window)
        /\ crossed' = (crossed \/ Behind \/ client # "None") /\ nameless' = nameless
    BY <1>3 DEF Pressed, Alive
  <2>2. /\ pending' = Append(pending, [type |-> t]) /\ window' = window
        /\ UNCHANGED <<logic, loopVars, jobVars, events, notices, serverVars, failed>>
    BY <1>2, <2>1
  <2>3. LogInClick
    BY <1>3, <2>1, <2>2 DEF LogInClick
  <2> QED BY <2>1, <2>2, <2>3 DEF UserStep, SameShown
<1>4. ASSUME NEW p \in Path, on_download(p) PROVE UserStep
  <2>1. window' = [window EXCEPT !.dialog = p]
    BY <1>4 DEF on_download
  <2>2. SameShown /\ window'.dialog = p /\ window'.downloading = window.downloading
        /\ window'.dialogs = window.dialogs
    BY <1>1, <2>1 DEF Window, SameShown
  <2>3. OpenClick(p)
    BY <1>4, <2>2 DEF on_download, OpenClick
  <2> QED BY <1>4, <2>2, <2>3 DEF on_download, UserStep
<1>5. ASSUME NEW p \in Path, save_file(p) PROVE UserStep
  <2>1. window' = [window EXCEPT !.dialog = NoPath]
    BY <1>2, <1>5 DEF save_file
  <2>2. SameShown /\ window'.dialog = NoPath /\ window'.downloading = window.downloading
        /\ window'.dialogs = window.dialogs
    BY <1>1, <2>1 DEF Window, SameShown
  <2>3. CASE Click([type |-> "FileRequested", path |-> p], [window EXCEPT !.dialog = NoPath])
    <3>1. SaveClick(p)
      BY <1>2, <1>5, <2>2, <2>3 DEF save_file, SaveClick
    <3> QED BY <1>2, <1>5, <2>2, <2>3, <3>1 DEF save_file, UserStep
  <2>4. CASE UNCHANGED <<logic, loopVars, jobVars, events, notices, pending, serverVars, clicks,
                         pushes, failed>>
    <3>1. OtherClick
      BY <2>2, <2>4 DEF OtherClick
    <3> QED BY <1>5, <2>2, <2>4, <3>1 DEF save_file, UserStep
  <2> QED BY <1>5, <2>3, <2>4 DEF save_file
<1>6. ASSUME NEW p \in Path, on_resume(p) PROVE UserStep
  BY <1>2, <1>6 DEF on_resume, Alive, UserStep, SameShown, ResumeClick
<1>7. ASSUME on_stop_downloading PROVE UserStep
  <2>1. window' = [window EXCEPT !.downloading = NoPath]
    BY <1>2, <1>7 DEF on_stop_downloading
  <2>2. SameShown /\ window'.dialog = window.dialog /\ window'.downloading = NoPath
        /\ window'.dialogs = window.dialogs
    BY <1>1, <2>1 DEF Window, SameShown
  <2>3. StopClick
    BY <1>2, <1>7, <2>2 DEF on_stop_downloading, StopClick, Alive
  <2> QED BY <1>2, <1>7, <2>2, <2>3 DEF on_stop_downloading, UserStep
<1>8. ASSUME NEW d \in {"single", "multiple"}, UploadClicked(d) \/ CancelClicked(d) PROVE UserStep
  <2>1. \/ window' = [window EXCEPT !.dialogs = @ \cup {d}] /\ window.screen = "SenderScreen"
        \/ window' = [window EXCEPT !.dialogs = @ \ {d}]
    BY <1>8 DEF UploadClicked, CancelClicked
  <2>2. /\ SameShown /\ window'.dialog = window.dialog /\ window'.downloading = window.downloading
        /\ window'.dialogs \subseteq window.dialogs \/ window.screen = "SenderScreen"
    BY <1>1, <2>1 DEF Window, SameShown
  <2>3. WindowOnly
    BY <1>8 DEF UploadClicked, CancelClicked
  <2> QED BY <2>2, <2>3 DEF WindowOnly, historyVars, OtherClick, UserStep
<1>9. ASSUME OkClicked PROVE UserStep
  <2>1. PICK e \in UserEvent, d \in {"single", "multiple"} :
           /\ e.type \in Uploads /\ d \in window.dialogs
           /\ Click(e, [window EXCEPT !.dialogs = @ \ {d}])
           /\ (nameless => nameless')
           /\ ~nameless' /\ e.type = "UploadMeta" => e.local # "Nameless"
    <3>1. CASE /\ "single" \in window.dialogs
               /\ \E l \in {"File", "Missing", "Nameless"} :
                     /\ Click([type |-> "UploadMeta", local |-> l],
                              [window EXCEPT !.dialogs = @ \ {"single"}])
                     /\ nameless' = (nameless \/ l = "Nameless")
      <4>1. PICK l \in {"File", "Missing", "Nameless"} :
                     /\ Click([type |-> "UploadMeta", local |-> l],
                              [window EXCEPT !.dialogs = @ \ {"single"}])
                     /\ nameless' = (nameless \/ l = "Nameless")
        BY <3>1
      <4>2. [type |-> "UploadMeta", local |-> l] \in UserEvent
        BY UserEventMakers
      <4> QED BY <3>1, <4>1, <4>2 DEF Uploads
    <3>2. CASE /\ "multiple" \in window.dialogs
               /\ \E n \in 1 .. MaxFiles : \E k \in 0 .. n :
                     Click([type |-> "UploadMultipleMeta", files |-> n, opened |-> k],
                           [window EXCEPT !.dialogs = @ \ {"multiple"}])
               /\ UNCHANGED nameless
      <4>1. PICK n \in 1 .. MaxFiles : \E k \in 0 .. n :
                     Click([type |-> "UploadMultipleMeta", files |-> n, opened |-> k],
                           [window EXCEPT !.dialogs = @ \ {"multiple"}])
        BY <3>2
      <4>2. PICK k \in 0 .. n : Click([type |-> "UploadMultipleMeta", files |-> n, opened |-> k],
                                      [window EXCEPT !.dialogs = @ \ {"multiple"}])
        BY <4>1
      <4>3. [type |-> "UploadMultipleMeta", files |-> n, opened |-> k] \in UserEvent
        BY UserEventMakers, ClientAssumption
      <4> QED BY <3>2, <4>2, <4>3 DEF Uploads
    <3> QED BY <1>9, <3>1, <3>2 DEF OkClicked
  <2>2. window' = [window EXCEPT !.dialogs = @ \ {d}]
    BY <1>2, <2>1
  <2>3. SameShown /\ window'.dialog = window.dialog /\ window'.downloading = window.downloading
    BY <1>1, <2>2 DEF Window, SameShown
  <2>4. UploadClick
    BY <1>2, <2>1, <2>3 DEF UploadClick
  <2> QED BY <1>2, <1>9, <2>1, <2>3, <2>4 DEF UserStep, OkClicked
<1>10. ASSUME ErrorClosed PROVE UserStep
  <2>1. window' = [window EXCEPT !.error = FALSE] /\ WindowOnly
    BY <1>10 DEF ErrorClosed
  <2>2. /\ SameShown /\ window'.dialog = window.dialog /\ window'.downloading = window.downloading
        /\ window'.dialogs = window.dialogs
    BY <1>1, <2>1 DEF Window, SameShown
  <2> QED BY <2>1, <2>2 DEF WindowOnly, historyVars, OtherClick, UserStep
<1> QED BY <1>3, <1>4, <1>5, <1>6, <1>7, <1>8, <1>9, <1>10 DEF User, LogIns

\* ScreenInv holds after the user has done something.
LEMMA ScreenUser ==
    ASSUME TypeInv, UserStep, ScreenInv
    PROVE  ScreenInv'
<1>1. pending \in Seq(UserEvent)
  BY DEF TypeInv, WindowTypes
<1>2. UNCHANGED <<state, client, jobs, retries, events>> /\ window'.screen = window.screen
  BY DEF UserStep, SameShown, loopVars, jobVars
<1>3. /\ \A e \in UserEvent : \A T : Has(Append(pending, e), T) <=> Has(pending, T) \/ e.type \in T
      /\ \A e \in UserEvent : e.type \notin LogIns \/ ~Has(pending, Orders \cup Uploads) =>
            Sorted(Append(pending, e), LogIns, Orders \cup Uploads)
  BY <1>1, HasInAppend, SortedAppend DEF ScreenInv
<1>4. /\ \A t \in LogIns \cup {"DownloadStopped"} : [type |-> t] \in UserEvent
      /\ \A p \in Path : /\ [type |-> "FileRequested", path |-> p] \in UserEvent
                         /\ [type |-> "FileResumed", path |-> p] \in UserEvent
  BY UserEventMakers
<1>5. \A t \in Orders \cup Uploads : t \notin LogIns
  BY DEF LogIns, Orders, Uploads
<1>6. \A t \in LogIns : t \notin Orders \cup Uploads
  BY DEF LogIns, Orders, Uploads
<1>7. CASE LogInClick
  <2>1. PICK t \in LogIns : pending' = Append(pending, [type |-> t])
    BY <1>7 DEF LogInClick
  <2>2. /\ ~(state = "RequestedChunk" \/ jobs > 0 \/ retries > 0)
        /\ ~Has(events, Orders \cup Uploads \cup {"MetaCreated"})
        /\ ~Has(pending, Orders \cup Uploads)
        /\ window.dialog = NoPath /\ window.dialogs = {} /\ UNCHANGED window
    BY <1>7 DEF LogInClick, ScreenInv
  <2>3. ~Has(events, Orders \cup Uploads) /\ ~Has(events, {"MetaCreated"})
    BY <2>2 DEF Has
  <2>4. Sorted(pending', LogIns, Orders \cup Uploads)
    BY <1>3, <1>4, <2>1, <2>2
  <2>5. ~Has(pending', Orders \cup Uploads)
    BY <1>3, <1>4, <1>6, <2>1, <2>2
  <2> QED BY <1>2, <2>2, <2>3, <2>4, <2>5 DEF ScreenInv
<1>8. ASSUME NEW e \in UserEvent, e.type \in Orders \cup Uploads, pending' = Append(pending, e),
             window.screen # "MainScreen"
      PROVE  ScreenInv'
  <2>1. Has(pending', LogIns) <=> Has(pending, LogIns)
    BY <1>3, <1>5, <1>8
  <2>2. Sorted(pending', LogIns, Orders \cup Uploads)
    BY <1>3, <1>5, <1>8
  <2> QED BY <1>2, <1>8, <2>1, <2>2 DEF ScreenInv
<1>9. ASSUME NEW p \in Path, SaveClick(p) PROVE ScreenInv'
  <2>1. window.dialog # NoPath
    BY <1>9, ClientAssumption DEF SaveClick
  <2>2. window.screen # "MainScreen"
    BY <2>1 DEF ScreenInv
  <2> QED BY <1>4, <1>8, <1>9, <2>2 DEF SaveClick, Orders
<1>10. ASSUME NEW p \in Path, ResumeClick(p) PROVE ScreenInv'
  BY <1>4, <1>8, <1>10 DEF ResumeClick, Orders
<1>11. CASE StopClick
  BY <1>4, <1>8, <1>11 DEF StopClick, Orders
<1>12. CASE UploadClick
  <2>1. window.screen # "MainScreen"
    BY <1>12 DEF UploadClick, ScreenInv
  <2>2. PICK e \in UserEvent : e.type \in Uploads /\ pending' = Append(pending, e)
    BY <1>12 DEF UploadClick
  <2> QED BY <1>8, <2>1, <2>2
<1>13. CASE OtherClick
  <2>1. /\ window'.dialog # NoPath => window.dialog # NoPath
        /\ window'.dialogs # {} => window.dialogs # {} \/ window.screen = "SenderScreen"
        /\ UNCHANGED pending
    BY <1>13 DEF OtherClick
  <2> QED BY <1>2, <2>1 DEF ScreenInv
<1>14. ASSUME NEW p \in Path, OpenClick(p) PROVE ScreenInv'
  BY <1>2, <1>14 DEF OpenClick, ScreenInv
<1> QED BY <1>7, <1>9, <1>10, <1>11, <1>12, <1>13, <1>14 DEF UserStep

\* ScreenInv holds after a click has been sent.
LEMMA ScreenSend ==
    ASSUME TypeInv, SendStep, ScreenInv
    PROVE  ScreenInv'
<1>1. events \in Seq(Event) /\ pending \in Seq(UserEvent) /\ pending # <<>>
  BY DEF TypeInv, QueueTypes, WindowTypes, SendStep
<1>2. PICK e \in UserEvent : e = Head(pending)
  BY <1>1, TailFacts
<1>3. e \in Event /\ e.type \in LogIns \cup Orders \cup Uploads
  BY DEF UserEvent
<1>4. UNCHANGED <<state, client, jobs, retries, window>> /\ pending' = Tail(pending)
      /\ events' = Append(events, e)
  BY <1>2 DEF SendStep, loopVars, jobVars
<1>5. /\ \A T : Has(events', T) <=> Has(events, T) \/ e.type \in T
      /\ \A T : Has(pending, T) <=> e.type \in T \/ Has(pending', T)
  BY <1>1, <1>2, <1>3, <1>4, HasInAppend, HasInTail
<1>6. /\ e.type # "MetaCreated"
      /\ e.type \in LogIns => e.type \notin Orders \cup Uploads
  BY <1>3 DEF LogIns, Orders, Uploads
<1>7. /\ Sorted(pending', LogIns, Orders \cup Uploads)
      /\ e.type \in Orders \cup Uploads => ~Has(pending', LogIns)
  BY <1>1, <1>2, <1>4, SortedTail DEF ScreenInv
<1>8. Sorted(events', LogIns, Orders \cup Uploads)
  BY <1>1, <1>3, <1>4, <1>5, SortedAppend DEF ScreenInv
<1>9. Has(events', Orders \cup Uploads) => ~Has(pending', LogIns)
  BY <1>5, <1>7 DEF ScreenInv
<1>10. Has(events', {"MetaCreated"}) <=> Has(events, {"MetaCreated"})
  BY <1>5, <1>6
<1>11. \/ state = "RequestedChunk" \/ jobs > 0 \/ retries > 0 \/ Has(events', {"MetaCreated"})
       => ~Has(events', LogIns) /\ ~Has(pending', LogIns)
  BY <1>5, <1>10 DEF ScreenInv
<1>12. Has(events', Orders \cup Uploads \cup {"MetaCreated"}) \/ Has(pending', Orders \cup Uploads) =>
          \/ Has(events, Orders \cup Uploads \cup {"MetaCreated"})
          \/ Has(pending, Orders \cup Uploads)
  BY <1>5, <1>6
<1> QED BY <1>4, <1>7, <1>8, <1>9, <1>10, <1>11, <1>12 DEF ScreenInv

-----------------------------------------------------------------------------
(***************************************************************************)
(* What there is news of after a step.                                     *)
(***************************************************************************)
LEMMA AboutTypes ==
    ASSUME NEW e
    PROVE  /\ About(e, TheDownload) <=> e.type \in {"FileStartedDownloading", "FileFinishedDownloading"}
           /\ \A p : About(e, TheFile(p)) <=> e.type \in {"UpdateReceiverFiles", "LoggedInAsReceiver"}
           /\ About(e, TheSender) <=> e.type \in {"SenderConnected", "SenderDisconnected"}
           /\ About(e, TheEvent) <=> e.type = "ProcessMessage" /\ e.message.type = "NotifySenderStatus"
           /\ About(e, TheMessage) <=> e.type = "NotifySenderStatus"
           /\ About(e, TheLogin) <=> e.type = "SendMessage" /\ e.message.type = "Login"
BY DEF About, TheDownload, TheFile, TheSender, TheEvent, TheMessage, TheLogin

LEMMA SaysWhat ==
    ASSUME NEW e
    PROVE  /\ Says(e, TheDownload) = IF e.type = "FileStartedDownloading" THEN e.path ELSE NoPath
           /\ \A p : Says(e, TheFile(p)) = e.files[p]
           /\ Says(e, TheSender) = OnOff(e.type = "SenderConnected")
           /\ Says(e, TheEvent) = OnOff(e.message.connected)
           /\ Says(e, TheMessage) = OnOff(e.connected)
           /\ Says(e, TheLogin) = e.message.role
BY DEF Says, TheDownload, TheFile, TheSender, TheEvent, TheMessage, TheLogin

LEMMA SeenWhat ==
    ASSUME NEW w
    PROVE  /\ Seen(w, TheDownload) = w.downloading
           /\ \A p : Seen(w, TheFile(p)) = w.files[p]
           /\ Seen(w, TheSender) = OnOff(w.sender_connected)
BY DEF Seen, TheDownload, TheFile, TheSender

\* r has no other news of k than s.
Quiet(s, r, k) ==
    /\ Silent(r, k) <=> Silent(s, k)
    /\ \A v : LastNews(s, k, v) => LastNews(r, k, v)

LEMMA QuietAppend ==
    ASSUME NEW S, NEW s \in Seq(S), NEW e \in S, NEW k, ~About(e, k)
    PROVE  Quiet(s, Append(s, e), k)
<1>1. Silent(Append(s, e), k) => Silent(s, k)
  BY AppendFacts DEF Silent
<1> QED BY <1>1, NewsInAppend DEF Quiet

LEMMA QuietTwo ==
    ASSUME NEW S, NEW s \in Seq(S), NEW e \in S, NEW f \in S, NEW k, ~About(e, k), ~About(f, k)
    PROVE  Quiet(s, Append(Append(s, e), f), k)
<1>1. PICK r \in Seq(S) : r = Append(s, e)
  BY AppendFacts
<1>2. Quiet(s, r, k) /\ Quiet(r, Append(r, f), k)
  BY <1>1, QuietAppend
<1> QED BY <1>1, <1>2 DEF Quiet

LEMMA QuietTail ==
    ASSUME NEW S, NEW s \in Seq(S), s # <<>>, NEW k, ~About(Head(s), k)
    PROVE  Quiet(s, Tail(s), k)
<1>1. \A i \in DOMAIN s : i = 1 \/ (i - 1 \in DOMAIN Tail(s) /\ Tail(s)[i - 1] = s[i])
  BY TailFacts
<1>2. Silent(Tail(s), k) => Silent(s, k)
  BY <1>1, TailFacts DEF Silent
<1> QED BY <1>2, NewsInTail DEF Quiet

LEMMA QuietSame == ASSUME NEW s, NEW k PROVE Quiet(s, s, k)
BY DEF Quiet

LEMMA QuietTrans ==
    ASSUME NEW s, NEW r, NEW t, NEW k, Quiet(s, r, k), Quiet(r, t, k)
    PROVE  Quiet(s, t, k)
BY DEF Quiet

LEMMA AddsQuiet ==
    ASSUME NEW s, NEW r, NEW W, Adds(s, r, W), NEW k, \A e : About(e, k) => e.type \in W
    PROVE  Quiet(s, r, k)
<1>1. Silent(r, k) <=> Silent(s, k)
  BY DEF Adds, Silent
<1>2. ASSUME NEW v, LastNews(s, k, v) PROVE LastNews(r, k, v)
  <2>1. PICK i \in DOMAIN s : /\ About(s[i], k) /\ Says(s[i], k) = v
                              /\ \A j \in DOMAIN s : i < j => ~About(s[j], k)
    BY <1>2 DEF LastNews
  <2>2. i \in DOMAIN r /\ r[i] = s[i]
    BY DEF Adds
  <2>3. \A j \in DOMAIN r : i < j => ~About(r[j], k)
    BY <2>1 DEF Adds
  <2> QED BY <2>1, <2>2, <2>3 DEF LastNews
<1> QED BY <1>1, <1>2 DEF Quiet

\* What is shown when nothing is said in between.
LEMMA QuietShow ==
    ASSUME NEW ev, NEW fv, NEW no, NEW mo, NEW w, NEW u, NEW k,
           Quiet(ev, fv, k), Quiet(no, mo, k), Seen(u, k) = Seen(w, k)
    PROVE  \A v : WillShow(ev, no, w, k, v) => WillShow(fv, mo, u, k, v)
BY DEF Quiet, WillShow

\* What the turns say of which the window is told.
Refreshing ==
    \/ EnterTurn /\ client = "Receiver"
    \/ MetaTurn \/ StopTurn
    \/ ChunkTurn /\ state' = "Idle"

StartsOrEnds == (\E p \in Path : StartTurn(p)) \/ (ChunkTurn /\ state' = "Idle")

LEMMA TurnNews ==
    ASSUME TypeInv, events # <<>>, Turn
    PROVE  /\ Adds(Rest, events', {"ProcessMessage"})
           /\ StatusTurn \/ Adds(Rest, events', {"SenderConnected", "SenderDisconnected"})
           /\ Refreshing \/ Adds(Rest, events', {"UpdateReceiverFiles", "LoggedInAsReceiver"})
           /\ StartsOrEnds \/ Adds(Rest, events', {"FileStartedDownloading", "FileFinishedDownloading"})
<1> DEFINE M == {"ProcessMessage"}
           C == {"SenderConnected", "SenderDisconnected"}
           F == {"UpdateReceiverFiles", "LoggedInAsReceiver"}
           D == {"FileStartedDownloading", "FileFinishedDownloading"}
<1>1. Rest \in Seq(Event) /\ First \in Event
  BY FirstFacts
<1>2. /\ \A W : \A x \in Event : x.type \notin W => Adds(Rest, Append(Rest, x), W)
      /\ \A W : \A x, y \in Event :
            x.type \notin W /\ y.type \notin W => Adds(Rest, Append(Append(Rest, x), y), W)
      /\ \A W : Adds(Rest, Rest, W)
  BY <1>1, AddsAppend, AddsTwo, AddsNothing
<1>3. Update.type = "UpdateReceiverFiles" /\ \A m : Send(m).type = "SendMessage"
  BY DEF Update, Send
<1>4. /\ Update \in Event
      /\ \A m \in ToServer : Send(m) \in Event
      /\ [type |-> "RequestMeta"] \in ToServer /\ [type |-> "RequestChunk"] \in ToServer
      /\ [type |-> "StopChunk"] \in ToServer /\ [type |-> "PublishMeta"] \in ToServer
      /\ \A r \in {"Receiver", "Sender"} : [type |-> "Login", role |-> r] \in ToServer
      /\ \A t \in {"LoggedInAsSender", "SenderConnected", "SenderDisconnected", "FileFinishedDownloading"} :
            [type |-> t] \in Event
      /\ \A p \in Path : [type |-> "FileStartedDownloading", path |-> p] \in Event
      /\ [type |-> "LoggedInAsReceiver", files |-> convert_index] \in Event
  BY EventMakers, ToServerMakers, StatusType
<1>5. \A m \in ToServer : \A W \in {M, C, F, D} : Adds(Rest, Append(Rest, Send(m)), W)
  BY <1>2, <1>3, <1>4
<1>6. CASE SendTurn \/ DropTurn \/ PassTurn \/ UploadTurn \/ WelcomeTurn \/ CreatedTurn
  <2>1. \/ events' = Rest
        \/ events' = Append(Rest, Send([type |-> "RequestMeta"]))
        \/ events' = Append(Rest, Send([type |-> "PublishMeta"]))
    BY <1>6 DEF SendTurn, DropTurn, PassTurn, UploadTurn, WelcomeTurn, CreatedTurn
  <2>2. \A W \in {M, C, F, D} : Adds(Rest, events', W)
    BY <1>2, <1>4, <1>5, <2>1
  <2> QED BY <2>2
<1>7. ASSUME NEW r \in {"Receiver", "Sender"}, LogInTurn(r)
      PROVE  \A W \in {M, C, F, D} : Adds(Rest, events', W)
  BY <1>4, <1>5, <1>7 DEF LogInTurn
<1>8. CASE StatusTurn
  <2>1. PICK t \in C : events' = Append(Rest, [type |-> t])
    BY <1>8 DEF StatusTurn
  <2>2. \A W \in {M, F, D} : Adds(Rest, events', W)
    BY <1>2, <1>4, <2>1
  <2> QED BY <1>8, <2>2
<1>9. CASE EnterTurn
  <2>1. CASE client = "Receiver" /\ events' = Append(Rest, [type |-> "LoggedInAsReceiver", files |-> convert_index])
    <3>1. \A W \in {M, C, D} : Adds(Rest, events', W)
      BY <1>2, <1>4, <2>1
    <3> QED BY <1>9, <2>1, <3>1 DEF Refreshing
  <2>2. CASE events' = Append(Rest, [type |-> "LoggedInAsSender"])
    <3>1. \A W \in {M, C, F, D} : Adds(Rest, events', W)
      BY <1>2, <1>4, <2>2
    <3> QED BY <3>1
  <2> QED BY <1>9, <2>1, <2>2 DEF EnterTurn
<1>10. CASE MetaTurn
  <2>1. \A W \in {M, C, D} : Adds(Rest, events', W)
    BY <1>2, <1>3, <1>4, <1>10 DEF MetaTurn
  <2> QED BY <1>10, <2>1 DEF Refreshing
<1>11. CASE ChunkTurn
  <2>1. CASE events' = Append(Rest, Send([type |-> "RequestChunk"]))
    <3>1. \A W \in {M, C, F, D} : Adds(Rest, events', W)
      BY <1>4, <1>5, <2>1
    <3> QED BY <3>1
  <2>2. CASE state' = "Idle" /\ events' = Append(Append(Rest, [type |-> "FileFinishedDownloading"]), Update)
    <3>1. \A W \in {M, C} : Adds(Rest, events', W)
      BY <1>2, <1>3, <1>4, <2>2
    <3> QED BY <1>11, <2>2, <3>1 DEF Refreshing, StartsOrEnds
  <2> QED BY <1>11, <2>1, <2>2 DEF ChunkTurn
<1>12. ASSUME NEW p \in Path, StartTurn(p)
       PROVE  \A W \in {M, C, F} : Adds(Rest, events', W)
  BY <1>2, <1>3, <1>4, <1>12 DEF StartTurn
<1>13. CASE StopTurn
  <2>1. \A W \in {M, C, D} : Adds(Rest, events', W)
    BY <1>2, <1>3, <1>4, <1>13 DEF StopTurn
  <2> QED BY <1>13, <2>1 DEF Refreshing
<1>14. CASE \E r \in {"Receiver", "Sender"} : LogInTurn(r)
  BY <1>7, <1>14
<1>15. CASE \E p \in Path : StartTurn(p)
  BY <1>12, <1>15 DEF StartsOrEnds
<1> QED BY <1>6, <1>8, <1>9, <1>10, <1>11, <1>13, <1>14, <1>15 DEF Turn

LEMMA TurnLogin ==
    ASSUME TypeInv, events # <<>>, Turn
    PROVE  (\E r \in {"Receiver", "Sender"} : LogInTurn(r)) \/ Quiet(Rest, events', TheLogin)
<1>1. Rest \in Seq(Event) /\ First \in Event
  BY FirstFacts
<1>2. /\ \A x \in Event : ~About(x, TheLogin) => Quiet(Rest, Append(Rest, x), TheLogin)
      /\ \A x, y \in Event : ~About(x, TheLogin) /\ ~About(y, TheLogin) =>
            Quiet(Rest, Append(Append(Rest, x), y), TheLogin)
      /\ Quiet(Rest, Rest, TheLogin)
  BY <1>1, QuietAppend, QuietTwo, QuietSame
<1>3. /\ \A e : e.type # "SendMessage" => ~About(e, TheLogin)
      /\ \A m : m.type # "Login" => ~About(Send(m), TheLogin)
      /\ Update.type = "UpdateReceiverFiles"
  BY AboutTypes DEF Send, Update
<1>4. /\ Update \in Event
      /\ Send([type |-> "RequestMeta"]) \in Event /\ Send([type |-> "RequestChunk"]) \in Event
      /\ Send([type |-> "StopChunk"]) \in Event /\ Send([type |-> "PublishMeta"]) \in Event
      /\ \A t \in {"LoggedInAsSender", "SenderConnected", "SenderDisconnected", "FileFinishedDownloading"} :
            [type |-> t] \in Event
      /\ \A p \in Path : [type |-> "FileStartedDownloading", path |-> p] \in Event
      /\ [type |-> "LoggedInAsReceiver", files |-> convert_index] \in Event
  BY EventMakers, ToServerMakers, StatusType
<1>5. CASE SendTurn \/ DropTurn \/ PassTurn \/ UploadTurn \/ WelcomeTurn \/ CreatedTurn
  <2>1. \/ events' = Rest
        \/ events' = Append(Rest, Send([type |-> "RequestMeta"]))
        \/ events' = Append(Rest, Send([type |-> "PublishMeta"]))
    BY <1>5 DEF SendTurn, DropTurn, PassTurn, UploadTurn, WelcomeTurn, CreatedTurn
  <2> QED BY <1>2, <1>3, <1>4, <2>1
<1>6. CASE StatusTurn \/ EnterTurn
  <2>1. \/ \E t \in {"LoggedInAsSender", "SenderConnected", "SenderDisconnected"} :
              events' = Append(Rest, [type |-> t])
        \/ events' = Append(Rest, [type |-> "LoggedInAsReceiver", files |-> convert_index])
    BY <1>6 DEF StatusTurn, EnterTurn
  <2> QED BY <1>2, <1>3, <1>4, <2>1
<1>7. CASE MetaTurn
  BY <1>2, <1>3, <1>4, <1>7 DEF MetaTurn
<1>8. CASE ChunkTurn \/ StopTurn
  <2>1. \/ events' = Append(Rest, Send([type |-> "RequestChunk"]))
        \/ events' = Append(Append(Rest, [type |-> "FileFinishedDownloading"]), Update)
        \/ events' = Append(Append(Rest, Send([type |-> "StopChunk"])), Update)
    BY <1>8 DEF ChunkTurn, StopTurn
  <2> QED BY <1>2, <1>3, <1>4, <2>1
<1>9. ASSUME NEW p \in Path, StartTurn(p) PROVE Quiet(Rest, events', TheLogin)
  BY <1>2, <1>3, <1>4, <1>9 DEF StartTurn
<1> QED BY <1>5, <1>6, <1>7, <1>8, <1>9 DEF Turn

LEMMA AddsConcat ==
    ASSUME NEW S, NEW s \in Seq(S), NEW t \in Seq(S), NEW W, \A i \in DOMAIN t : t[i].type \notin W
    PROVE  s \o t \in Seq(S) /\ Adds(s, s \o t, W)
<1>1. /\ DOMAIN (s \o t) = 1 .. Len(s) + Len(t) /\ DOMAIN s = 1 .. Len(s) /\ DOMAIN t = 1 .. Len(t)
      /\ Len(s) \in Nat /\ Len(t) \in Nat
  OBVIOUS
<1>2. \A i \in DOMAIN (s \o t) : (s \o t)[i] = IF i <= Len(s) THEN s[i] ELSE t[i - Len(s)]
  OBVIOUS
<1>3. \A i \in DOMAIN (s \o t) : i \in DOMAIN s \/ (s \o t)[i].type \notin W
  <2> SUFFICES ASSUME NEW i \in DOMAIN (s \o t), i \notin DOMAIN s PROVE (s \o t)[i].type \notin W
    OBVIOUS
  <2>1. i - Len(s) \in DOMAIN t /\ (s \o t)[i] = t[i - Len(s)]
    BY <1>1, <1>2
  <2> QED BY <2>1
<1>4. s \o t \in Seq(S)
  OBVIOUS
<1> QED BY <1>1, <1>2, <1>3, <1>4 DEF Adds

\* What of all the window is told concerns a receiver.
ReceiverNews ==
    {"LoggedInAsReceiver", "UpdateReceiverFiles", "SenderConnected", "SenderDisconnected",
     "FileStartedDownloading", "FileFinishedDownloading"}

Failures(n) == [i \in 1 .. n |-> [type |-> "MetadataCreationFailed"]]

LEMMA FailuresFacts ==
    ASSUME NEW n \in Nat
    PROVE  /\ Failures(n) \in Seq(Notice) /\ DOMAIN Failures(n) = 1 .. n
           /\ \A i \in DOMAIN Failures(n) : Failures(n)[i].type = "MetadataCreationFailed"
BY DEF Failures, Notice

\* The notices after an upload of several files has begun.
LEMMA UploadNotices ==
    ASSUME TypeInv, NEW n \in Nat, NEW k \in Nat, k <= n, UploadMultipleMeta(n, k)
    PROVE  \E r \in Seq(Notice) :
              /\ r = notices \o Failures(n - k)
              /\ \A W : "MetadataCreationFailed" \notin W => Adds(notices, r, W)
              /\ notices' = Append(r, [type |-> "MultipleMetadataCreationStarted", files |-> k])
<1> DEFINE x == [type |-> "MultipleMetadataCreationStarted", files |-> k]
<1>1. notices \in Seq(Notice) /\ x \in Notice /\ n - k \in Nat
  BY NoticeMakers DEF TypeInv, QueueTypes
<1>2. PICK t : t = Failures(n - k)
  OBVIOUS
<1>3. t \in Seq(Notice) /\ \A i \in DOMAIN t : t[i].type = "MetadataCreationFailed"
  BY <1>1, <1>2, FailuresFacts
<1>4. PICK r : r = notices \o t
  OBVIOUS
<1>5. r \in Seq(Notice)
  BY <1>1, <1>3, <1>4
<1>6. \A W : "MetadataCreationFailed" \notin W => Adds(notices, r, W)
  BY <1>1, <1>3, <1>4, AddsConcat
<1>7. notices' = r \o <<x>>
  BY <1>2, <1>4 DEF UploadMultipleMeta, Failures
<1> HIDE DEF x
<1>8. r \o <<x>> = Append(r, x)
  BY <1>1, <1>5, Emitted
<1> QED BY <1>2, <1>4, <1>5, <1>6, <1>7, <1>8 DEF x

LEMMA AddsTrans ==
    ASSUME NEW s, NEW r, NEW t, NEW W, Adds(s, r, W), Adds(r, t, W)
    PROVE  Adds(s, t, W)
BY DEF Adds

\* A turn passes its event on or tells nothing that concerns a receiver.
LEMMA TurnNotices ==
    ASSUME TypeInv, events # <<>>, Turn
    PROVE  \/ PassTurn \/ WelcomeTurn
           \/ Adds(notices, notices', ReceiverNews)
<1>1. notices \in Seq(Notice)
  BY DEF TypeInv, QueueTypes
<1>2. \A t \in {"MetadataCreationStarted", "MetadataCreationFailed", "MetadataCreated",
                "MultipleMetadataCreationStarted"} : t \notin ReceiverNews
  BY DEF ReceiverNews
<1>3. \A t \in {"MetadataCreationStarted", "MetadataCreationFailed", "MetadataCreated"} :
         Adds(notices, Append(notices, [type |-> t]), ReceiverNews)
  BY <1>1, <1>2, NoticeMakers, AddsAppend
<1>4. CASE UNCHANGED notices
  BY <1>4, AddsNothing
<1>5. CASE UploadTurn /\ First.type = "UploadMeta" /\ UploadMeta(First.local)
  BY <1>3, <1>4, <1>5 DEF UploadMeta, Panic
<1>6. CASE UploadTurn /\ First.type = "UploadMultipleMeta" /\ UploadMultipleMeta(First.files, First.opened)
  <2>1. First.files \in Nat /\ First.opened \in Nat /\ First.opened <= First.files
    BY <1>6, FirstFacts, EventFacts
  <2>2. PICK r \in Seq(Notice) :
           /\ \A W : "MetadataCreationFailed" \notin W => Adds(notices, r, W)
           /\ notices' = Append(r, [type |-> "MultipleMetadataCreationStarted", files |-> First.opened])
    BY <1>6, <2>1, UploadNotices
  <2>3. Adds(r, notices', ReceiverNews)
    BY <1>2, <2>1, <2>2, NoticeMakers, AddsAppend
  <2>4. Adds(notices, r, ReceiverNews)
    BY <1>2, <2>2
  <2> QED BY <2>3, <2>4, AddsTrans
<1>7. CASE CreatedTurn
  BY <1>3, <1>7 DEF CreatedTurn
<1>8. UNCHANGED notices \/ UploadTurn \/ CreatedTurn \/ PassTurn \/ WelcomeTurn
  BY DEF Turn, SendTurn, LogInTurn, DropTurn, StatusTurn, EnterTurn, MetaTurn, ChunkTurn, StartTurn, StopTurn
<1> QED BY <1>4, <1>5, <1>6, <1>7, <1>8 DEF UploadTurn

\* What an event is when another turn than those it asks for is made.
LEMMA FirstNews ==
    ASSUME Turn
    PROVE  /\ \/ SendTurn
              \/ \E r \in {"Receiver", "Sender"} : LogInTurn(r)
              \/ /\ UNCHANGED serverVars /\ client' = client
                 /\ First.type \notin LogIns \cup {"SendMessage"}
           /\ StatusTurn \/ (DropTurn /\ client # "Receiver") \/ ~About(First, TheEvent)
           /\ PassTurn \/ WelcomeTurn \/ First.type \notin ReceiverNews
           /\ SendTurn \/ ~About(First, TheLogin)
<1>1. About(First, TheEvent) => First.type = "ProcessMessage" /\ First.message.type = "NotifySenderStatus"
  BY AboutTypes
<1>2. About(First, TheLogin) => First.type = "SendMessage"
  BY AboutTypes
<1>3. CASE SendTurn
  BY <1>1, <1>3 DEF SendTurn, ReceiverNews
<1>4. CASE \E r \in {"Receiver", "Sender"} : LogInTurn(r)
  BY <1>1, <1>2, <1>4 DEF LogInTurn, LogIns, ReceiverNews
<1>5. CASE WelcomeTurn \/ PassTurn
  BY <1>1, <1>2, <1>5 DEF WelcomeTurn, PassTurn, LogIns, ReceiverNews, loopVars
<1>6. CASE DropTurn
  BY <1>1, <1>2, <1>6 DEF DropTurn, LogIns, Orders, Uploads, ReceiverNews, loopVars
<1>7. CASE StatusTurn
  BY <1>2, <1>7 DEF StatusTurn, LogIns, ReceiverNews, loopVars
<1>8. CASE EnterTurn \/ MetaTurn \/ ChunkTurn
  BY <1>1, <1>2, <1>8 DEF EnterTurn, MetaTurn, ChunkTurn, LogIns, ReceiverNews
<1>9. CASE \E p \in Path : StartTurn(p)
  BY <1>1, <1>2, <1>9 DEF StartTurn, LogIns, ReceiverNews
<1>10. CASE StopTurn
  BY <1>1, <1>2, <1>10 DEF StopTurn, LogIns, ReceiverNews
<1>11. CASE UploadTurn
  BY <1>1, <1>2, <1>11 DEF UploadTurn, LogIns, Uploads, ReceiverNews, loopVars
<1>12. CASE CreatedTurn
  BY <1>1, <1>2, <1>12 DEF CreatedTurn, LogIns, ReceiverNews, loopVars
<1> QED BY <1>3, <1>4, <1>5, <1>6, <1>7, <1>8, <1>9, <1>10, <1>11, <1>12 DEF Turn

LEMMA QuietTurn ==
    ASSUME TypeInv, events # <<>>, NEW k, ~About(First, k), Quiet(Rest, events', k)
    PROVE  Quiet(events, events', k)
<1>1. Quiet(events, Rest, k)
  BY FirstFacts, QuietTail DEF First, Rest
<1> QED BY <1>1, QuietTrans

LEMMA ServerGetsCases ==
    ASSUME TypeInv, NEW m \in ToServer, ServerGets(m)
    PROVE  \/ /\ m.type = "Login" /\ role = "None" /\ role' = m.role
              /\ m.role = "Sender" => ~online
              /\ UNCHANGED <<link, online, asked>>
              /\ down' = IF online
                         THEN Append(Append(down, [type |-> "LoginSuccess"]),
                                     [type |-> "NotifySenderStatus", connected |-> TRUE])
                         ELSE Append(down, [type |-> "LoginSuccess"])
           \/ link' = "cut" /\ UNCHANGED <<role, online, asked, down>>
           \/ /\ m.type # "Login" /\ UNCHANGED <<link, role, online>>
              /\ \/ UNCHANGED down
                 \/ \E P \in SUBSET Path : down' = Append(down, [type |-> "TransmitMeta", paths |-> P])
<1>1. down \in Seq(FromServer)
  BY DEF TypeInv, ServerTypes
<1>2. CASE /\ m.type = "Login" /\ role = "None" /\ ~(m.role = "Sender" /\ online)
           /\ role' = m.role
           /\ down' = down \o <<[type |-> "LoginSuccess"]>>
                      \o (IF online THEN <<[type |-> "NotifySenderStatus", connected |-> TRUE]>>
                          ELSE <<>>)
           /\ UNCHANGED <<link, online, asked>>
  <2>1. PICK x \in FromServer : x = [type |-> "LoginSuccess"]
    BY MessageMakers
  <2>2. PICK y \in FromServer : y = [type |-> "NotifySenderStatus", connected |-> TRUE]
    BY MessageMakers
  <2>3. PICK r \in Seq(FromServer) : r = Append(down, x)
    BY <1>1, AppendFacts
  <2>4. down \o <<x>> = r
    BY <1>1, <2>3, Emitted
  <2>5. r \o <<y>> = Append(r, y) /\ r \o <<>> = r
    BY Emitted
  <2>6. down' = IF online THEN Append(r, y) ELSE r
    BY <1>2, <2>1, <2>2, <2>4, <2>5
  <2> QED BY <1>2, <2>1, <2>2, <2>3, <2>6
<1>3. CASE Cut
  BY <1>3 DEF Cut
<1>4. CASE /\ m.type = "RequestMeta"
           /\ \E P \in SUBSET Path : down' = Append(down, [type |-> "TransmitMeta", paths |-> P])
           /\ UNCHANGED <<link, role, online, asked>>
  BY <1>4
<1>5. CASE m.type # "Login" /\ UNCHANGED <<link, role, online, down>>
  BY <1>5
<1> QED BY <1>2, <1>3, <1>4, <1>5 DEF ServerGets, serverVars

\* RoleInv holds after a turn.
LEMMA RoleTurn ==
    ASSUME TypeInv, TypeInv', events # <<>>, Turn, UNCHANGED <<logic, window>>, logic = "Running", RoleInv
    PROVE  RoleInv'
<1>1. events \in Seq(Event) /\ Rest \in Seq(Event) /\ First \in Event
  BY FirstFacts
<1>2. notices \in Seq(Notice) /\ down \in Seq(FromServer) /\ role \in {"None", "Receiver", "Sender"}
  BY DEF TypeInv, QueueTypes, ServerTypes
<1>3. logic' = "Running"
  OBVIOUS
<1>4. link' = "up" => \/ LastNews(events', TheLogin, client')
                      \/ Silent(events', TheLogin) /\ role' = client'
  <2>1. CASE SendTurn
    <3>1. CASE link = "up" /\ ServerGets(First.message)
      <4>1. /\ events' = Rest /\ client' = client /\ First.message \in ToServer
            /\ First.type = "SendMessage"
        BY <2>1 DEF SendTurn, loopVars
      <4>2. \/ LastNews(Rest, TheLogin, client)
            \/ /\ About(First, TheLogin) /\ Says(First, TheLogin) = client
               /\ Silent(Rest, TheLogin)
            \/ ~About(First, TheLogin) /\ Silent(Rest, TheLogin) /\ role = client
        BY <1>1, <3>1, NewsInTail DEF First, Rest, RoleInv
      <4>3. /\ About(First, TheLogin) <=> First.message.type = "Login"
            /\ Says(First, TheLogin) = First.message.role
        BY <4>1, AboutTypes, SaysWhat
      <4>4. \/ First.message.type = "Login" /\ role' = First.message.role
            \/ link' = "cut"
            \/ First.message.type # "Login" /\ role' = role
        BY <3>1, <4>1, ServerGetsCases
      <4> QED BY <4>1, <4>2, <4>3, <4>4
    <3>2. CASE link = "cut" /\ UNCHANGED serverVars
      BY <3>2 DEF serverVars
    <3> QED BY <2>1, <3>1, <3>2 DEF SendTurn
  <2>2. ASSUME NEW r \in {"Receiver", "Sender"}, LogInTurn(r)
        PROVE  LastNews(events', TheLogin, client')
    <3>1. PICK x \in Event : x = Send([type |-> "Login", role |-> r])
      BY EventMakers, ToServerMakers
    <3>2. About(x, TheLogin) /\ Says(x, TheLogin) = r
      BY <3>1, AboutTypes, SaysWhat DEF Send
    <3>3. LastNews(Append(Rest, x), TheLogin, r)
      BY <1>1, <3>2, NewsInAppend
    <3> QED BY <2>2, <3>1, <3>3 DEF LogInTurn
  <2>3. CASE /\ UNCHANGED serverVars /\ client' = client /\ ~About(First, TheLogin)
             /\ Quiet(Rest, events', TheLogin)
    <3>1. Quiet(events, events', TheLogin)
      BY <2>3, QuietTurn
    <3> QED BY <2>3, <3>1 DEF RoleInv, Quiet, serverVars
  <2> QED BY <2>1, <2>2, <2>3, FirstNews, TurnLogin
<1>5. role' = "Sender" => ~online'
  <2>1. CASE SendTurn /\ ServerGets(First.message)
    <3>1. First.message \in ToServer
      BY <2>1 DEF SendTurn
    <3> QED BY <2>1, <3>1, ServerGetsCases DEF RoleInv
  <2>2. CASE UNCHANGED serverVars
    BY <2>2 DEF RoleInv, serverVars
  <2> QED BY <2>1, <2>2, FirstNews DEF SendTurn, LogInTurn
<1>6. ASSUME role' # "Receiver" PROVE role # "Receiver" /\ Silent(down', TheMessage)
  <2>1. CASE SendTurn /\ ServerGets(First.message)
    <3>1. First.message \in ToServer
      BY <2>1 DEF SendTurn
    <3>2. role # "Receiver"
      BY <1>6, <2>1, <3>1, ServerGetsCases
    <3>3. Silent(down, TheMessage)
      BY <3>2 DEF RoleInv
    <3>4. PICK x \in FromServer : x = [type |-> "LoginSuccess"]
      BY MessageMakers
    <3>5. \A P \in SUBSET Path : [type |-> "TransmitMeta", paths |-> P] \in FromServer
      BY MessageMakers
    <3>6. ~About(x, TheMessage) /\ \A P : ~About([type |-> "TransmitMeta", paths |-> P], TheMessage)
      BY <3>4, AboutTypes
    <3>7. /\ Silent(Append(down, x), TheMessage)
          /\ \A P \in SUBSET Path : Silent(Append(down, [type |-> "TransmitMeta", paths |-> P]), TheMessage)
      BY <1>2, <3>3, <3>5, <3>6, NewsInAppend
    <3>8. CASE /\ First.message.type = "Login" /\ role = "None" /\ role' = First.message.role
               /\ First.message.role = "Sender" => ~online
               /\ down' = IF online
                         THEN Append(Append(down, [type |-> "LoginSuccess"]),
                                     [type |-> "NotifySenderStatus", connected |-> TRUE])
                         ELSE Append(down, [type |-> "LoginSuccess"])
      <4>1. First.message.role = "Sender"
        BY <1>6, <3>1, <3>8 DEF ToServer
      <4> QED BY <3>2, <3>4, <3>7, <3>8, <4>1
    <3> QED BY <2>1, <3>1, <3>2, <3>3, <3>7, <3>8, ServerGetsCases
  <2>2. CASE UNCHANGED serverVars
    BY <1>6, <2>2 DEF RoleInv, serverVars
  <2> QED BY <2>1, <2>2, FirstNews DEF SendTurn, LogInTurn
<1>7. ASSUME role # "Receiver"
      PROVE  /\ Silent(events', TheEvent) /\ Silent(events', TheSender)
             /\ Silent(notices', TheSender) /\ ~window'.sender_connected
  <2>1. /\ Silent(events, TheEvent) /\ Silent(events, TheSender)
        /\ Silent(notices, TheSender) /\ ~window.sender_connected
    BY <1>7 DEF RoleInv
  <2>2. /\ ~About(First, TheEvent) /\ Silent(Rest, TheEvent)
        /\ ~About(First, TheSender) /\ Silent(Rest, TheSender)
    BY <1>1, <2>1, NewsInTail DEF First, Rest
  <2>3. ~StatusTurn
    BY <2>2, AboutTypes DEF StatusTurn
  <2>4. /\ Adds(Rest, events', {"ProcessMessage"})
        /\ Adds(Rest, events', {"SenderConnected", "SenderDisconnected"})
    BY <2>3, TurnNews
  <2>5. /\ \A e : About(e, TheEvent) => e.type \in {"ProcessMessage"}
        /\ \A e : About(e, TheSender) => e.type \in {"SenderConnected", "SenderDisconnected"}
        /\ \A e : About(e, TheSender) => e.type \in ReceiverNews
    BY AboutTypes DEF ReceiverNews
  <2>6. Quiet(Rest, events', TheEvent) /\ Quiet(Rest, events', TheSender)
    BY <2>4, <2>5, AddsQuiet
  <2>7. Silent(notices', TheSender)
    <3>1. CASE PassTurn \/ WelcomeTurn
      <4>1. notices' = Append(notices, First) /\ First \in Notice
        BY <1>1, <3>1, EventFacts DEF PassTurn, WelcomeTurn
      <4> QED BY <1>2, <2>1, <2>2, <4>1, NewsInAppend
    <3>2. CASE Adds(notices, notices', ReceiverNews)
      BY <2>1, <2>5, <3>2, AddsQuiet DEF Quiet
    <3> QED BY <3>1, <3>2, TurnNotices
  <2> QED BY <2>1, <2>2, <2>6, <2>7 DEF Quiet
<1> QED BY <1>3, <1>4, <1>5, <1>6, <1>7 DEF RoleInv

-----------------------------------------------------------------------------
(***************************************************************************)
(* The other steps.                                                        *)
(***************************************************************************)
ConnectStep ==
    /\ UNCHANGED <<loopVars, jobVars, events, guiVars, role, online, asked, down, crossed, nameless, failed>>
    /\ \E n \in Notice : n.type = "ConnectionStatusChanged" /\ notices' = Append(notices, n)
    /\ logic \in {"Connecting", "Sleeping"}
    /\ \/ UNCHANGED link /\ logic' \in {"Connecting", "Sleeping"}
       \/ logic' = "Running"

ReadStep ==
    /\ logic = "Running" /\ UNCHANGED logic
    /\ UNCHANGED <<loopVars, jobVars, notices, guiVars, link, role, online, asked, nameless, failed>>
    /\ down # <<>> /\ down' = Tail(down)
    /\ crossed => crossed'
    /\ ~crossed' /\ Has(pending, {"DownloadStopped"}) => Head(down).type # "TransmitChunk"
    /\ events' = Append(events, [type |-> "ProcessMessage", message |-> Head(down)])

TaskStep ==
    /\ UNCHANGED <<logic, loopVars, notices, guiVars, serverVars, crossed, nameless>>
    /\ jobs > 0 \/ retries > 0
    /\ jobs' <= jobs /\ retries' <= retries
    /\ \/ UNCHANGED events
       \/ \E t \in {"MetaCreated", "MetaCreationError"} : events' = Append(events, [type |-> t])

PushStep ==
    /\ UNCHANGED <<logic, loopVars, jobVars, events, notices, guiVars, role, crossed, nameless, failed>>
    /\ \/ /\ online' = ~online /\ UNCHANGED link
          /\ \/ /\ role = "Receiver"
                /\ down' = Append(down, [type |-> "NotifySenderStatus", connected |-> online'])
             \/ role = "None" /\ UNCHANGED down
       \/ /\ UNCHANGED <<link, online>> /\ role = "Receiver"
          /\ \E t \in {"TransmitChunk", "NotifyUpdated"} : down' = Append(down, [type |-> t])
       \/ link' = "cut" /\ UNCHANGED <<online, down>> /\ link = "up"

GuiStep ==
    /\ UNCHANGED <<logic, loopVars, jobVars, events, pending, serverVars, crossed, nameless, failed>>
    /\ notices # <<>> /\ notices' = Tail(notices)
    /\ RestShown(window, Head(notices), window') /\ QueueShown(window, Head(notices), window')

LEMMA OtherSteps ==
    ASSUME TypeInv
    PROVE  /\ Connects \/ ConnectFails \/ TriesAgain => ConnectStep
           /\ ReadMessage => ReadStep
           /\ JobDone \/ JobFails \/ RetryEnds => TaskStep
           /\ SenderComesOrGoes \/ SenderTransmits \/ SenderPublishes \/ ConnectionLost => PushStep
           /\ process_gui_event => GuiStep
<1>1. /\ jobs \in Nat /\ retries \in Nat /\ notices \in Seq(Notice) /\ window \in Window
      /\ crossed \in BOOLEAN
  BY DEF TypeInv, QueueTypes, WindowTypes, ServerTypes
<1>2. Connects \/ ConnectFails \/ TriesAgain => ConnectStep
  <2>1. \A s \in {"Connecting", "Connected", "Disconnected"} :
           ConnectionStatus(s) \in Notice /\ ConnectionStatus(s).type = "ConnectionStatusChanged"
    BY NoticeMakers DEF ConnectionStatus
  <2> QED BY <2>1 DEF Connects, ConnectFails, TriesAgain, ConnectStep, serverVars, historyVars
<1>3. ReadMessage => ReadStep
  <2>1. Has(pending, {"DownloadStopped"}) => \E i \in DOMAIN pending : pending[i].type = "DownloadStopped"
    BY DEF Has, Elems
  <2> QED BY <1>1, <2>1 DEF ReadMessage, ReadStep
<1>4. JobDone \/ JobFails \/ RetryEnds => TaskStep
  <2>1. JobDone => TaskStep
    BY <1>1 DEF JobDone, TaskStep, historyVars
  <2>2. RetryEnds => TaskStep
    BY <1>1 DEF RetryEnds, TaskStep, historyVars
  <2>3. ASSUME JobFails PROVE TaskStep
    <3>1. jobs' <= jobs /\ retries' <= retries /\ jobs > 0
      BY <1>1, <2>3 DEF JobFails
    <3> QED BY <2>3, <3>1 DEF JobFails, TaskStep
  <2> QED BY <2>1, <2>2, <2>3
<1>5. SenderComesOrGoes \/ SenderTransmits \/ SenderPublishes \/ ConnectionLost => PushStep
  BY PushCases DEF PushStep, ServerOnly, Cut
<1>6. ASSUME process_gui_event PROVE GuiStep
  <2>1. Head(notices) \in Notice /\ notices # <<>>
    BY <1>1, <1>6, TailFacts DEF process_gui_event
  <2>2. RestShown(window, Head(notices), window') /\ QueueShown(window, Head(notices), window')
    BY <1>1, <1>6, <2>1, ShowsFacts DEF process_gui_event
  <2> QED BY <1>6, <2>1, <2>2 DEF process_gui_event, GuiStep, historyVars
<1> QED BY <1>2, <1>3, <1>4, <1>5, <1>6

\* ScreenInv holds after them.
LEMMA ScreenOthers ==
    ASSUME TypeInv, TypeInv', ConnectStep \/ ReadStep \/ TaskStep \/ PushStep \/ GuiStep, ScreenInv
    PROVE  ScreenInv'
<1>1. events \in Seq(Event) /\ jobs \in Nat /\ retries \in Nat /\ jobs' \in Nat /\ retries' \in Nat
  BY DEF TypeInv, QueueTypes
<1>2. /\ \A e \in Event : \A T : Has(Append(events, e), T) <=> Has(events, T) \/ e.type \in T
      /\ \A e \in Event : e.type \notin LogIns =>
            Sorted(Append(events, e), LogIns, Orders \cup Uploads)
  BY <1>1, HasInAppend, SortedAppend DEF ScreenInv
<1>3. CASE ConnectStep \/ PushStep
  BY <1>3 DEF ConnectStep, PushStep, ScreenInv, loopVars, jobVars, guiVars
<1>4. CASE GuiStep
  <2>1. /\ window'.dialog = window.dialog /\ window'.dialogs = window.dialogs
        /\ window.screen # "MainScreen" => window'.screen # "MainScreen"
    BY <1>4 DEF GuiStep, RestShown
  <2>2. UNCHANGED <<events, pending, state, client, jobs, retries>>
    BY <1>4 DEF GuiStep, loopVars, jobVars
  <2> QED BY <2>1, <2>2 DEF ScreenInv
<1>5. CASE ReadStep
  <2>1. PICK x \in Event : x.type = "ProcessMessage" /\ events' = Append(events, x)
    <3>1. Head(down) \in FromServer
      BY <1>5, TailFacts DEF ReadStep, TypeInv, ServerTypes
    <3> QED BY <1>5, <3>1, EventMakers DEF ReadStep
  <2>2. x.type \notin Orders \cup Uploads \cup {"MetaCreated"} /\ x.type \notin LogIns
    BY <2>1 DEF Orders, Uploads, LogIns
  <2>3. /\ Has(events', LogIns) <=> Has(events, LogIns)
        /\ Has(events', {"MetaCreated"}) <=> Has(events, {"MetaCreated"})
        /\ Has(events', Orders \cup Uploads) <=> Has(events, Orders \cup Uploads)
        /\ Has(events', Orders \cup Uploads \cup {"MetaCreated"}) <=>
              Has(events, Orders \cup Uploads \cup {"MetaCreated"})
        /\ Sorted(events', LogIns, Orders \cup Uploads)
    BY <1>2, <2>1, <2>2
  <2>4. UNCHANGED <<guiVars, state, client, jobs, retries>>
    BY <1>5 DEF ReadStep, loopVars, jobVars
  <2> QED BY <2>3, <2>4 DEF ScreenInv, guiVars
<1>6. CASE TaskStep
  <2>1. UNCHANGED <<window, pending, state, client>> /\ (jobs > 0 \/ retries > 0)
    BY <1>6 DEF TaskStep, loopVars, guiVars
  <2>2. ~Has(events, LogIns) /\ ~Has(pending, LogIns) /\ window.screen # "MainScreen" /\ client = "Sender"
    BY <1>6 DEF TaskStep, ScreenInv
  <2>3. ~Has(events', LogIns) /\ Sorted(events', LogIns, Orders \cup Uploads)
    <3>1. CASE UNCHANGED events
      BY <2>2, <3>1 DEF ScreenInv
    <3>2. ASSUME NEW t \in {"MetaCreated", "MetaCreationError"}, events' = Append(events, [type |-> t])
          PROVE  ~Has(events', LogIns) /\ Sorted(events', LogIns, Orders \cup Uploads)
      <4>1. [type |-> t] \in Event /\ t \notin LogIns
        BY EventMakers DEF LogIns
      <4> QED BY <1>2, <2>2, <3>2, <4>1
    <3> QED BY <1>6, <3>1, <3>2 DEF TaskStep
  <2>4. UNCHANGED <<window, pending, state, client>>
    BY <1>6 DEF TaskStep, loopVars, guiVars
  <2> QED BY <2>2, <2>3, <2>4 DEF ScreenInv
<1> QED BY <1>3, <1>4, <1>5, <1>6

\* RoleInv holds after them.
LEMMA RoleOthers ==
    ASSUME TypeInv, TypeInv', ConnectStep \/ ReadStep \/ TaskStep \/ PushStep \/ GuiStep,
           ScreenInv, RoleInv
    PROVE  RoleInv'
<1>1. /\ events \in Seq(Event) /\ down \in Seq(FromServer) /\ notices \in Seq(Notice)
      /\ jobs \in Nat /\ retries \in Nat
  BY DEF TypeInv, QueueTypes, ServerTypes
<1>2. \A e \in Event : \A k : ~About(e, k) => Quiet(events, Append(events, e), k)
  BY <1>1, QuietAppend
<1>3. CASE ConnectStep
  <2>1. PICK n \in Notice : n.type = "ConnectionStatusChanged" /\ notices' = Append(notices, n)
    BY <1>3 DEF ConnectStep
  <2>2. ~About(n, TheSender)
    BY <2>1, AboutTypes
  <2>3. Silent(notices, TheSender) => Silent(notices', TheSender)
    BY <1>1, <2>1, <2>2, NewsInAppend
  <2>4. /\ UNCHANGED <<client, events, window, role, online, down>>
        /\ client = "None" /\ role = "None" /\ events = <<>>
        /\ (UNCHANGED link /\ link = "none") \/ logic' = "Running"
    BY <1>3 DEF ConnectStep, RoleInv, loopVars, guiVars
  <2>5. Silent(events, TheLogin)
    BY <2>4, NewsInEmpty
  <2>6. (UNCHANGED link /\ link = "none") \/ logic' \notin {"Connecting", "Sleeping"}
    BY <2>4
  <2> QED BY <2>3, <2>4, <2>5, <2>6 DEF RoleInv
<1>4. CASE ReadStep
  <2>1. Head(down) \in FromServer /\ down # <<>> /\ down' = Tail(down)
    BY <1>1, <1>4, TailFacts DEF ReadStep
  <2>2. PICK x \in Event : x = [type |-> "ProcessMessage", message |-> Head(down)]
    BY <2>1, EventMakers
  <2>3. /\ ~About(x, TheLogin) /\ ~About(x, TheSender)
        /\ About(x, TheEvent) <=> About(Head(down), TheMessage)
    BY <2>2, AboutTypes
  <2>4. events' = Append(events, x)
    BY <1>4, <2>2 DEF ReadStep
  <2>5. Quiet(events, events', TheLogin) /\ Quiet(events, events', TheSender)
    BY <1>2, <2>3, <2>4
  <2>6. UNCHANGED <<logic, client, notices, window, link, role, online>> /\ logic = "Running"
    BY <1>4 DEF ReadStep, loopVars, guiVars
  <2>7. ASSUME role # "Receiver"
        PROVE  /\ Silent(down', TheMessage) /\ Silent(events', TheEvent) /\ Silent(events', TheSender)
               /\ Silent(notices', TheSender) /\ ~window'.sender_connected
    <3>1. Silent(down, TheMessage) /\ Silent(events, TheEvent) /\ Silent(events, TheSender)
          /\ Silent(notices, TheSender) /\ ~window.sender_connected
      BY <2>7 DEF RoleInv
    <3>2. ~About(Head(down), TheMessage) /\ Silent(Tail(down), TheMessage)
      BY <1>1, <2>1, <3>1, NewsInTail
    <3>3. Quiet(events, events', TheEvent)
      BY <1>2, <2>3, <2>4, <3>2
    <3> QED BY <2>1, <2>5, <2>6, <3>1, <3>2, <3>3 DEF Quiet
  <2> QED BY <2>5, <2>6, <2>7 DEF RoleInv, Quiet
<1>5. CASE TaskStep
  <2>1. UNCHANGED <<logic, client, notices, window, link, role, online, down>>
    BY <1>5 DEF TaskStep, loopVars, serverVars, guiVars
  <2>2. client = "Sender"
    BY <1>5 DEF TaskStep, ScreenInv
  <2>3. Quiet(events, events', TheLogin) /\ Quiet(events, events', TheEvent) /\ Quiet(events, events', TheSender)
    <3>1. CASE UNCHANGED events
      BY <3>1, QuietSame
    <3>2. ASSUME NEW t \in {"MetaCreated", "MetaCreationError"}, events' = Append(events, [type |-> t])
          PROVE  /\ Quiet(events, events', TheLogin) /\ Quiet(events, events', TheEvent)
                 /\ Quiet(events, events', TheSender)
      <4>1. PICK x \in Event : x = [type |-> t]
        BY EventMakers
      <4>2. ~About(x, TheLogin) /\ ~About(x, TheEvent) /\ ~About(x, TheSender)
        BY <4>1, AboutTypes
      <4> QED BY <1>2, <3>2, <4>1, <4>2
    <3> QED BY <1>5, <3>1, <3>2 DEF TaskStep
  <2> QED BY <2>1, <2>2, <2>3 DEF RoleInv, Quiet
<1>6. CASE PushStep
  <2>1. UNCHANGED <<logic, client, events, notices, window, role>>
    BY <1>6 DEF PushStep, loopVars, guiVars
  <2>2. /\ logic' \in {"Connecting", "Sleeping"} => UNCHANGED link
        /\ link' = "up" => link = "up"
    BY <1>6 DEF PushStep, RoleInv
  <2>3. role # "Receiver" => UNCHANGED down
    BY <1>6 DEF PushStep
  <2>4. role = "Sender" => UNCHANGED online
    BY <1>6 DEF PushStep
  <2> QED BY <2>1, <2>2, <2>3, <2>4 DEF RoleInv
<1>7. CASE GuiStep
  <2>1. UNCHANGED <<logic, client, events, link, role, online, down>>
    BY <1>7 DEF GuiStep, loopVars, serverVars
  <2>2. ASSUME role # "Receiver" PROVE Silent(notices', TheSender) /\ ~window'.sender_connected
    <3>1. Silent(notices, TheSender) /\ ~window.sender_connected
      BY <2>2 DEF RoleInv
    <3>2. notices # <<>> /\ notices' = Tail(notices)
      BY <1>7 DEF GuiStep
    <3>3. ~About(Head(notices), TheSender) /\ Silent(Tail(notices), TheSender)
      BY <1>1, <3>1, <3>2, NewsInTail
    <3>4. Head(notices).type \notin {"SenderConnected", "SenderDisconnected"}
      BY <3>3, AboutTypes
    <3>5. window'.sender_connected = window.sender_connected
      BY <1>7, <3>4 DEF GuiStep, RestShown
    <3> QED BY <3>1, <3>2, <3>3, <3>5
  <2> QED BY <2>1, <2>2 DEF RoleInv
<1> QED BY <1>3, <1>4, <1>5, <1>6, <1>7

\* What the window shows.
Shows3 == {TheDownload, TheSender} \cup {TheFile(p) : p \in Path}

\* What a click puts into the event channel.
LEMMA SendEvents ==
    ASSUME TypeInv, SendStep
    PROVE  \E e \in Event : /\ e = Head(pending) /\ e.type \in LogIns \cup Orders \cup Uploads
                            /\ events' = Append(events, e)
<1>1. Head(pending) \in UserEvent
  BY TailFacts DEF TypeInv, WindowTypes, SendStep
<1> QED BY <1>1 DEF SendStep, UserEvent

\* It is no news.
LEMMA SendQuiet ==
    ASSUME TypeInv, SendStep
    PROVE  /\ \A k \in Shows3 : Quiet(events, events', k)
           /\ Quiet(events, events', TheEvent) /\ Quiet(events, events', TheLogin)
<1>1. events \in Seq(Event)
  BY DEF TypeInv, QueueTypes
<1>2. PICK e \in Event : e.type \in LogIns \cup Orders \cup Uploads /\ events' = Append(events, e)
  BY SendEvents
<1>3. /\ \A k \in Shows3 : ~About(e, k)
      /\ ~About(e, TheEvent) /\ ~About(e, TheLogin)
  <2>1. e.type \notin {"FileStartedDownloading", "FileFinishedDownloading", "UpdateReceiverFiles",
                       "LoggedInAsReceiver", "SenderConnected", "SenderDisconnected", "ProcessMessage",
                       "SendMessage"}
    BY <1>2 DEF LogIns, Orders, Uploads
  <2> QED BY <2>1, AboutTypes DEF Shows3
<1> QED BY <1>1, <1>2, <1>3, QuietAppend

\* RoleInv holds after the user has done something.
LEMMA RoleUser ==
    ASSUME UserStep, RoleInv
    PROVE  RoleInv'
<1>1. /\ UNCHANGED <<logic, client, events, notices, link, role, online, down>>
      /\ window'.sender_connected = window.sender_connected
  BY DEF UserStep, SameShown, loopVars, serverVars
<1> QED BY <1>1 DEF RoleInv

\* RoleInv holds after a click has been sent.
LEMMA RoleSend ==
    ASSUME TypeInv, SendStep, RoleInv
    PROVE  RoleInv'
<1>1. UNCHANGED <<logic, client, notices, window, link, role, online, down>> /\ logic = "Running"
  BY DEF SendStep, loopVars, serverVars
<1>2. /\ Quiet(events, events', TheLogin) /\ Quiet(events, events', TheEvent)
      /\ Quiet(events, events', TheSender)
  BY SendQuiet DEF Shows3
<1> QED BY <1>1, <1>2 DEF RoleInv, Quiet

-----------------------------------------------------------------------------
(***************************************************************************)
(* What the window will show after a step.                                 *)
(***************************************************************************)
LEMMA ReceiverNewsTypes ==
    ASSUME NEW k \in Shows3, NEW e, About(e, k)
    PROVE  e.type \in ReceiverNews
BY AboutTypes DEF Shows3, ReceiverNews

LEMMA ShowTurn ==
    ASSUME TypeInv, events # <<>>, Turn, UNCHANGED window, NEW k \in Shows3, Quiet(Rest, events', k)
    PROVE  \A v : WillShow(events, notices, window, k, v) => WillShow(events', notices', window', k, v)
<1>1. /\ events \in Seq(Event) /\ Rest \in Seq(Event) /\ First \in Event /\ notices \in Seq(Notice)
  BY FirstFacts DEF TypeInv, QueueTypes
<1>2. CASE PassTurn \/ WelcomeTurn
  <2>1. notices' = Append(notices, First) /\ First \in Notice
    BY <1>1, <1>2, EventFacts DEF PassTurn, WelcomeTurn
  <2>2. \A v : WillShow(events, notices, window, k, v) => WillShow(Rest, notices', window, k, v)
    BY <1>1, <2>1, ShowPassedOn DEF First, Rest
  <2>3. \A v : WillShow(Rest, notices', window, k, v) => WillShow(events', notices', window', k, v)
    BY QuietSame, QuietShow
  <2> QED BY <2>2, <2>3
<1>3. CASE First.type \notin ReceiverNews /\ Adds(notices, notices', ReceiverNews)
  <2>1. ~About(First, k)
    BY <1>3, ReceiverNewsTypes
  <2>2. Quiet(events, events', k)
    BY <2>1, QuietTurn
  <2>3. Quiet(notices, notices', k)
    BY <1>3, ReceiverNewsTypes, AddsQuiet
  <2> QED BY <2>2, <2>3, QuietShow
<1> QED BY <1>2, <1>3, FirstNews, TurnNotices

LEMMA ReadEvent ==
    ASSUME TypeInv, ReadStep
    PROVE  /\ down \in Seq(FromServer) /\ down # <<>> /\ Head(down) \in FromServer
           /\ \E x \in Event : /\ x = [type |-> "ProcessMessage", message |-> Head(down)]
                               /\ events' = Append(events, x)
<1>1. down \in Seq(FromServer) /\ down # <<>>
  BY DEF TypeInv, ServerTypes, ReadStep
<1>2. Head(down) \in FromServer
  BY <1>1, TailFacts
<1> QED BY <1>1, <1>2, EventMakers DEF ReadStep

LEMMA TaskEvent ==
    ASSUME TaskStep
    PROVE  UNCHANGED events \/ \E x \in Event : /\ x.type \in {"MetaCreated", "MetaCreationError"}
                                                /\ events' = Append(events, x)
BY EventMakers DEF TaskStep

LEMMA ShowOthers ==
    ASSUME TypeInv, ConnectStep \/ ReadStep \/ TaskStep \/ PushStep \/ GuiStep, NEW k \in Shows3
    PROVE  \A v : WillShow(events, notices, window, k, v) => WillShow(events', notices', window', k, v)
<1>1. events \in Seq(Event) /\ notices \in Seq(Notice)
  BY DEF TypeInv, QueueTypes
<1>2. CASE ConnectStep
  <2>1. PICK n \in Notice : n.type = "ConnectionStatusChanged" /\ notices' = Append(notices, n)
    BY <1>2 DEF ConnectStep
  <2>2. ~About(n, k)
    BY <2>1, ReceiverNewsTypes DEF ReceiverNews
  <2>3. UNCHANGED <<events, window>>
    BY <1>2 DEF ConnectStep, guiVars
  <2> QED BY <1>1, <2>1, <2>2, <2>3, ShowAppendNotice
<1>3. CASE ReadStep
  <2>1. PICK x \in Event : x.type = "ProcessMessage" /\ events' = Append(events, x)
    BY <1>3, ReadEvent
  <2>2. ~About(x, k)
    BY <2>1, ReceiverNewsTypes DEF ReceiverNews
  <2>3. UNCHANGED <<notices, window>>
    BY <1>3 DEF ReadStep, guiVars
  <2> QED BY <1>1, <2>1, <2>2, <2>3, ShowAppendEvent
<1>4. CASE TaskStep
  <2>1. UNCHANGED <<notices, window>>
    BY <1>4 DEF TaskStep, guiVars
  <2>2. ASSUME NEW x \in Event, x.type \in {"MetaCreated", "MetaCreationError"}, events' = Append(events, x)
        PROVE  Quiet(events, events', k)
    <3>1. ~About(x, k)
      BY <2>2, ReceiverNewsTypes DEF ReceiverNews
    <3> QED BY <1>1, <2>2, <3>1, QuietAppend
  <2>3. Quiet(events, events', k)
    BY <1>4, <2>2, TaskEvent, QuietSame
  <2> QED BY <2>1, <2>3, QuietSame, QuietShow
<1>5. CASE PushStep
  BY <1>5 DEF PushStep, guiVars
<1>6. CASE GuiStep
  <2>1. notices # <<>> /\ notices' = Tail(notices) /\ UNCHANGED events
        /\ RestShown(window, Head(notices), window')
    BY <1>6 DEF GuiStep
  <2>2. Seen(window', k) = IF About(Head(notices), k) THEN Says(Head(notices), k) ELSE Seen(window, k)
    <3>1. CASE k = TheDownload
      BY <2>1, <3>1, AboutTypes, SaysWhat, SeenWhat DEF RestShown
    <3>2. CASE k = TheSender
      <4>1. PICK n : n = Head(notices)
        OBVIOUS
      <4>2. window'.sender_connected = IF n.type = "SenderConnected" THEN TRUE
                                       ELSE IF n.type = "SenderDisconnected" THEN FALSE
                                       ELSE window.sender_connected
        BY <2>1, <4>1 DEF RestShown
      <4>3. /\ About(n, TheSender) <=> n.type \in {"SenderConnected", "SenderDisconnected"}
            /\ Says(n, TheSender) = OnOff(n.type = "SenderConnected")
        BY AboutTypes, SaysWhat
      <4>4. /\ Seen(window, TheSender) = OnOff(window.sender_connected)
            /\ Seen(window', TheSender) = OnOff(window'.sender_connected)
        BY SeenWhat
      <4> QED BY <3>2, <4>1, <4>2, <4>3, <4>4 DEF OnOff
    <3>3. ASSUME NEW p \in Path, k = TheFile(p)
          PROVE  Seen(window', k) = IF About(Head(notices), k) THEN Says(Head(notices), k) ELSE Seen(window, k)
      <4>1. PICK n : n = Head(notices)
        OBVIOUS
      <4>2. window'.files = IF n.type \in {"LoggedInAsReceiver", "UpdateReceiverFiles"}
                            THEN n.files ELSE window.files
        BY <2>1, <4>1 DEF RestShown
      <4>3. About(n, TheFile(p)) <=> n.type \in {"UpdateReceiverFiles", "LoggedInAsReceiver"}
        BY AboutTypes
      <4>4. Says(n, TheFile(p)) = n.files[p]
        BY SaysWhat
      <4>5. Seen(window, TheFile(p)) = window.files[p] /\ Seen(window', TheFile(p)) = window'.files[p]
        BY SeenWhat
      <4> QED BY <3>3, <4>1, <4>2, <4>3, <4>4, <4>5
    <3> QED BY <3>1, <3>2, <3>3 DEF Shows3
  <2>3. \A v : WillShow(events, notices, window, k, v) => WillShow(events, Tail(notices), window', k, v)
    BY <1>1, <2>1, <2>2, ShowTailNotice
  <2> QED BY <2>1, <2>3
<1> QED BY <1>2, <1>3, <1>4, <1>5, <1>6

LEMMA ShowUser ==
    ASSUME UserStep, NEW k \in Shows3, k # TheDownload \/ window'.downloading = window.downloading
    PROVE  \A v : WillShow(events, notices, window, k, v) => WillShow(events', notices', window', k, v)
<1>1. UNCHANGED <<events, notices>> /\ window'.files = window.files
      /\ window'.sender_connected = window.sender_connected
  BY DEF UserStep, SameShown
<1>2. Seen(window', k) = Seen(window, k)
  BY <1>1, SeenWhat DEF Shows3
<1> QED BY <1>1, <1>2, QuietSame, QuietShow

LEMMA ShowSend ==
    ASSUME TypeInv, SendStep, NEW k \in Shows3
    PROVE  \A v : WillShow(events, notices, window, k, v) => WillShow(events', notices', window', k, v)
<1>1. UNCHANGED <<notices, window>>
  BY DEF SendStep
<1> QED BY <1>1, SendQuiet, QuietSame, QuietShow

-----------------------------------------------------------------------------
(***************************************************************************)
(* The server's sender.                                                    *)
(***************************************************************************)
\* What SenderInv says of a client the server knows as a receiver.
SenderTold ==
    \/ LastNews(down, TheMessage, OnOff(online))
    \/ /\ Silent(down, TheMessage)
       /\ \/ LastNews(events, TheEvent, OnOff(online))
          \/ /\ Silent(events, TheEvent)
             /\ WillShow(events, notices, window, TheSender, OnOff(online))

LEMMA SenderTurn ==
    ASSUME TypeInv, TypeInv', events # <<>>, Turn, UNCHANGED window, RoleInv, SenderInv
    PROVE  SenderInv'
<1> SUFFICES ASSUME link' = "up", role' = "Receiver", Silent(events', TheLogin)
             PROVE  SenderTold'
  BY DEF SenderInv, SenderTold
<1>1. /\ events \in Seq(Event) /\ Rest \in Seq(Event) /\ First \in Event /\ notices \in Seq(Notice)
      /\ down \in Seq(FromServer) /\ online \in BOOLEAN
  BY FirstFacts DEF TypeInv, QueueTypes, ServerTypes
<1>2. /\ \A e : About(e, TheEvent) => e.type \in {"ProcessMessage"}
      /\ \A e : About(e, TheSender) => e.type \in {"SenderConnected", "SenderDisconnected"}
  BY AboutTypes
<1>3. Quiet(Rest, events', TheEvent) /\ (StatusTurn \/ Quiet(Rest, events', TheSender))
  BY <1>2, TurnNews, AddsQuiet
<1>4. TheSender \in Shows3
  BY DEF Shows3
<1>5. CASE SendTurn
  <2>1. /\ First.message \in ToServer /\ First.type = "SendMessage" /\ ServerGets(First.message)
        /\ events' = Rest /\ UNCHANGED notices
    BY <1>5 DEF SendTurn, serverVars
  <2>2. CASE /\ First.message.type = "Login" /\ role = "None"
             /\ UNCHANGED online
             /\ down' = IF online
                        THEN Append(Append(down, [type |-> "LoginSuccess"]),
                                    [type |-> "NotifySenderStatus", connected |-> TRUE])
                        ELSE Append(down, [type |-> "LoginSuccess"])
    <3>1. /\ Silent(down, TheMessage) /\ Silent(events, TheEvent) /\ Silent(events, TheSender)
          /\ Silent(notices, TheSender) /\ ~window.sender_connected
      BY <2>2 DEF RoleInv
    <3>2. PICK x \in FromServer : x = [type |-> "LoginSuccess"]
      BY MessageMakers
    <3>3. PICK y \in FromServer : y = [type |-> "NotifySenderStatus", connected |-> TRUE]
      BY MessageMakers
    <3>4. /\ ~About(x, TheMessage) /\ About(y, TheMessage) /\ Says(y, TheMessage) = OnOff(TRUE)
      <4>1. x.type = "LoginSuccess" /\ y.type = "NotifySenderStatus"
        BY <3>2, <3>3
      <4>2. ~About(x, TheMessage) /\ About(y, TheMessage)
        BY <4>1, AboutTypes
      <4>3. Says(y, TheMessage) = OnOff(y.connected)
        BY SaysWhat
      <4>4. y.connected = TRUE
        BY <3>3
      <4>5. OnOff(y.connected) = OnOff(TRUE)
        BY <4>4
      <4> QED BY <4>2, <4>3, <4>5
    <3>5. PICK r \in Seq(FromServer) : r = Append(down, x)
      BY <1>1, AppendFacts
    <3>6. Silent(r, TheMessage) /\ LastNews(Append(r, y), TheMessage, OnOff(TRUE))
      BY <1>1, <3>1, <3>4, <3>5, NewsInAppend
    <3>7. CASE online
      BY <2>2, <3>2, <3>3, <3>5, <3>6, <3>7 DEF SenderTold
    <3>8. CASE ~online
      <4>1. Silent(down', TheMessage)
        BY <2>2, <3>2, <3>5, <3>6, <3>8
      <4>2. Silent(Rest, TheEvent) /\ Silent(Rest, TheSender)
        BY <1>1, <3>1, NewsInTail DEF Rest
      <4>3. Seen(window, TheSender) = OnOff(online')
        BY <2>2, <3>1, <3>8, SeenWhat DEF OnOff
      <4> QED BY <2>1, <3>1, <4>1, <4>2, <4>3 DEF SenderTold, WillShow
    <3> QED BY <3>7, <3>8
  <2>3. CASE /\ First.message.type # "Login" /\ UNCHANGED <<link, role, online>>
             /\ \/ UNCHANGED down
                \/ \E P \in SUBSET Path : down' = Append(down, [type |-> "TransmitMeta", paths |-> P])
    <3>1. ~About(First, TheLogin) /\ ~About(First, TheEvent) /\ ~About(First, TheSender)
      BY <2>1, <2>3, AboutTypes
    <3>2. Quiet(events, Rest, TheLogin) /\ Quiet(events, Rest, TheEvent) /\ Quiet(events, Rest, TheSender)
      BY <1>1, <3>1, QuietTail DEF First, Rest, TypeInv
    <3>3. SenderTold
      BY <2>1, <2>3, <3>2 DEF SenderInv, SenderTold, Quiet
    <3>4. Quiet(down, down', TheMessage)
      <4>1. \A P \in SUBSET Path : /\ [type |-> "TransmitMeta", paths |-> P] \in FromServer
                                   /\ ~About([type |-> "TransmitMeta", paths |-> P], TheMessage)
        BY MessageMakers, AboutTypes
      <4> QED BY <1>1, <2>3, <4>1, QuietAppend, QuietSame
    <3>5. \A v : WillShow(events, notices, window, TheSender, v) => WillShow(events', notices', window', TheSender, v)
      BY <1>4, <2>1, <3>2, QuietSame, QuietShow
    <3> QED BY <2>1, <2>3, <3>2, <3>3, <3>4, <3>5 DEF SenderTold, Quiet
  <2> QED BY <2>1, <2>2, <2>3, ServerGetsCases
<1>6. ASSUME NEW r \in {"Receiver", "Sender"}, LogInTurn(r) PROVE FALSE
  <2>1. PICK x \in Event : x = Send([type |-> "Login", role |-> r])
    BY EventMakers, ToServerMakers
  <2>2. About(x, TheLogin)
    BY <2>1, AboutTypes DEF Send
  <2>3. LastNews(Append(Rest, x), TheLogin, Says(x, TheLogin))
    BY <1>1, <2>2, NewsInAppend
  <2> QED BY <1>6, <2>1, <2>3, NotSilent DEF LogInTurn
<1>7. CASE UNCHANGED serverVars /\ ~About(First, TheLogin) /\ Quiet(Rest, events', TheLogin)
  <2>1. Silent(events, TheLogin) /\ UNCHANGED <<link, role, online, down>>
    BY <1>7, QuietTurn DEF Quiet, serverVars
  <2>2. SenderTold /\ client = "Receiver"
    BY <2>1, NotSilent DEF SenderInv, SenderTold, RoleInv
  <2>3. CASE StatusTurn
    <3>1. PICK x \in Event : /\ x = [type |-> IF First.message.connected THEN "SenderConnected"
                                                ELSE "SenderDisconnected"]
                             /\ events' = Append(Rest, x)
      BY <2>3, EventMakers DEF StatusTurn
    <3>2. /\ About(First, TheEvent) /\ Says(First, TheEvent) = OnOff(First.message.connected)
          /\ First.message.connected \in BOOLEAN /\ UNCHANGED notices
      BY <2>3, AboutTypes, SaysWhat DEF StatusTurn
    <3>3. /\ About(x, TheSender) /\ Says(x, TheSender) = OnOff(First.message.connected)
      <4>1. x.type = IF First.message.connected THEN "SenderConnected" ELSE "SenderDisconnected"
        BY <3>1
      <4> QED BY <3>2, <4>1, AboutTypes, SaysWhat DEF OnOff
    <3>4. WillShow(events', notices', window', TheSender, OnOff(First.message.connected))
      BY <1>1, <3>1, <3>2, <3>3, ShowAppendEvent
    <3>5. \/ LastNews(down, TheMessage, OnOff(online))
          \/ /\ Silent(down, TheMessage)
             /\ \/ LastNews(Rest, TheEvent, OnOff(online))
                \/ Silent(Rest, TheEvent) /\ OnOff(First.message.connected) = OnOff(online)
      BY <1>1, <2>2, <3>2, NewsInTail DEF SenderTold, First, Rest
    <3> QED BY <1>3, <2>1, <3>4, <3>5 DEF SenderTold, Quiet
  <2>4. CASE ~StatusTurn
    <3>1. ~About(First, TheEvent)
      BY <2>2, <2>4, FirstNews
    <3>2. Quiet(events, events', TheEvent)
      BY <1>3, <3>1, QuietTurn
    <3>3. \A v : WillShow(events, notices, window, TheSender, v) => WillShow(events', notices', window', TheSender, v)
      BY <1>3, <1>4, <2>4, ShowTurn
    <3> QED BY <2>1, <2>2, <3>2, <3>3 DEF SenderTold, Quiet
  <2> QED BY <2>3, <2>4
<1> QED BY <1>5, <1>6, <1>7, FirstNews, TurnLogin

LEMMA SenderOthers ==
    ASSUME TypeInv, TypeInv', ConnectStep \/ ReadStep \/ TaskStep \/ PushStep \/ GuiStep,
           RoleInv, SenderInv
    PROVE  SenderInv'
<1> SUFFICES ASSUME link' = "up", role' = "Receiver", Silent(events', TheLogin)
             PROVE  SenderTold'
  BY DEF SenderInv, SenderTold
<1>1. /\ events \in Seq(Event) /\ down \in Seq(FromServer) /\ online \in BOOLEAN /\ online' \in BOOLEAN
  BY DEF TypeInv, QueueTypes, ServerTypes
<1>2. \A v : WillShow(events, notices, window, TheSender, v) =>
             WillShow(events', notices', window', TheSender, v)
  BY ShowOthers DEF Shows3
<1>3. SenderInv /\ link = "up" /\ role = "Receiver" /\ Silent(events, TheLogin) => SenderTold
  BY DEF SenderInv, SenderTold
<1>4. CASE ConnectStep
  BY <1>4 DEF ConnectStep, RoleInv
<1>5. CASE ReadStep
  <2>1. PICK x \in Event : /\ x = [type |-> "ProcessMessage", message |-> Head(down)]
                           /\ events' = Append(events, x)
    BY <1>5, ReadEvent
  <2>2. down # <<>> /\ down' = Tail(down) /\ UNCHANGED <<link, role, online>>
    BY <1>5 DEF ReadStep
  <2>3. /\ ~About(x, TheLogin)
        /\ About(x, TheEvent) <=> About(Head(down), TheMessage)
    BY <2>1, AboutTypes
  <2>4. Says(x, TheEvent) = Says(Head(down), TheMessage)
    <3>1. x.message = Head(down)
      BY <2>1
    <3> QED BY <3>1, SaysWhat
  <2>5. SenderTold
    BY <1>1, <1>3, <2>1, <2>2, <2>3, QuietAppend DEF Quiet
  <2>6. CASE About(Head(down), TheMessage)
    <3>1. \/ LastNews(Tail(down), TheMessage, OnOff(online))
          \/ /\ Silent(Tail(down), TheMessage)
             /\ Says(Head(down), TheMessage) = OnOff(online)
      BY <1>1, <2>2, <2>5, <2>6, NewsInTail DEF SenderTold
    <3>2. LastNews(events', TheEvent, Says(Head(down), TheMessage))
      BY <1>1, <2>1, <2>3, <2>4, <2>6, NewsInAppend
    <3> QED BY <2>2, <3>1, <3>2 DEF SenderTold
  <2>7. CASE ~About(Head(down), TheMessage)
    <3>1. Quiet(down, down', TheMessage)
      BY <1>1, <2>2, <2>7, QuietTail
    <3>2. Quiet(events, events', TheEvent)
      BY <1>1, <2>1, <2>3, <2>7, QuietAppend
    <3> QED BY <1>2, <2>2, <2>5, <3>1, <3>2 DEF SenderTold, Quiet
  <2> QED BY <2>6, <2>7
<1>6. CASE TaskStep
  <2>1. UNCHANGED <<link, role, online, down>>
    BY <1>6 DEF TaskStep, serverVars
  <2>2. ASSUME NEW x \in Event, x.type \in {"MetaCreated", "MetaCreationError"}, events' = Append(events, x)
        PROVE  Quiet(events, events', TheEvent) /\ Quiet(events, events', TheLogin)
    <3>1. ~About(x, TheEvent) /\ ~About(x, TheLogin)
      BY <2>2, AboutTypes
    <3> QED BY <1>1, <2>2, <3>1, QuietAppend
  <2>3. Quiet(events, events', TheEvent) /\ Quiet(events, events', TheLogin)
    BY <1>6, <2>2, TaskEvent, QuietSame
  <2> QED BY <1>2, <1>3, <2>1, <2>3 DEF SenderTold, Quiet
<1>7. CASE PushStep
  <2>1. UNCHANGED <<events, notices, window, role>>
    BY <1>7 DEF PushStep, guiVars
  <2>2. CASE /\ online' = ~online /\ role = "Receiver"
             /\ down' = Append(down, [type |-> "NotifySenderStatus", connected |-> online'])
    <3>1. PICK y \in FromServer : y = [type |-> "NotifySenderStatus", connected |-> online']
      BY <1>1, MessageMakers
    <3>2. About(y, TheMessage)
      BY <3>1, AboutTypes
    <3>3. Says(y, TheMessage) = OnOff(online')
      BY <3>1, SaysWhat
    <3>4. LastNews(Append(down, y), TheMessage, OnOff(online'))
      BY <1>1, <3>2, <3>3, NewsInAppend
    <3> QED BY <2>2, <3>1, <3>4 DEF SenderTold
  <2>3. ASSUME NEW t \in {"TransmitChunk", "NotifyUpdated"}, UNCHANGED <<link, online>>,
               down' = Append(down, [type |-> t])
        PROVE  SenderTold'
    <3>1. PICK y \in FromServer : y = [type |-> t]
      BY MessageMakers
    <3>2. ~About(y, TheMessage)
      BY <3>1, AboutTypes
    <3>3. Quiet(down, down', TheMessage)
      BY <1>1, <2>3, <3>1, <3>2, QuietAppend
    <3> QED BY <1>3, <2>1, <2>3, <3>3 DEF SenderTold, Quiet
  <2> QED BY <1>7, <2>1, <2>2, <2>3 DEF PushStep
<1>8. CASE GuiStep
  <2>1. UNCHANGED <<events, link, role, online, down>>
    BY <1>8 DEF GuiStep, serverVars
  <2> QED BY <1>2, <1>3, <2>1 DEF SenderTold
<1> QED BY <1>4, <1>5, <1>6, <1>7, <1>8

LEMMA SenderUser ==
    ASSUME UserStep, SenderInv
    PROVE  SenderInv'
<1>1. UNCHANGED <<link, role, online, down, events>>
  BY DEF UserStep, serverVars
<1>2. TheSender \in Shows3 /\ TheSender # TheDownload
  BY DEF Shows3, TheSender, TheDownload
<1>3. \A v : WillShow(events, notices, window, TheSender, v) =>
             WillShow(events', notices', window', TheSender, v)
  BY <1>2, ShowUser
<1> QED BY <1>1, <1>3 DEF SenderInv

LEMMA SenderSend ==
    ASSUME TypeInv, SendStep, SenderInv
    PROVE  SenderInv'
<1>1. UNCHANGED <<link, role, online, down>>
  BY DEF SendStep, serverVars
<1>2. Quiet(events, events', TheLogin) /\ Quiet(events, events', TheEvent)
  BY SendQuiet
<1>3. \A v : WillShow(events, notices, window, TheSender, v) =>
             WillShow(events', notices', window', TheSender, v)
  BY ShowSend DEF Shows3
<1> QED BY <1>1, <1>2, <1>3 DEF SenderInv, Quiet

-----------------------------------------------------------------------------
(***************************************************************************)
(* The files.                                                              *)
(***************************************************************************)
\* The window has been told of the files.
FilesTold ==
    \/ Entered \/ window.screen = "ReceiverScreen"
    \/ Has(events, {"LoggedInAsReceiver"}) \/ Has(notices, {"LoggedInAsReceiver"})

FileTold(p) == WillShow(events, notices, window, TheFile(p), Status(p))

\* An event that tells the status of all files.
LEMMA FilesRefreshed ==
    ASSUME NEW r \in Seq(Event), NEW x \in Event, x.type \in {"UpdateReceiverFiles", "LoggedInAsReceiver"},
           x.files = convert_index', events' = Append(r, x), NEW p \in Path
    PROVE  FileTold(p)'
<1>1. About(x, TheFile(p))
  BY AboutTypes
<1>2. Says(x, TheFile(p)) = x.files[p]
  BY SaysWhat
<1>3. x.files[p] = Status(p)'
  BY DEF convert_index
<1>4. WillShow(Append(r, x), notices', window', TheFile(p), Status(p)')
  BY <1>1, <1>2, <1>3, ShowAppendEvent
<1> QED BY <1>4 DEF FileTold

LEMMA StatusSame ==
    ASSUME NEW p \in Path, received'[p] = received[p]
    PROVE  Status(p)' = Status(p)
BY DEF Status

LEMMA FilesTurn ==
    ASSUME TypeInv, TypeInv', events # <<>>, Turn, UNCHANGED window, ScreenInv, FilesInv
    PROVE  FilesInv'
<1> SUFFICES ASSUME FilesTold', NEW p \in Path, ~(state' = "RequestedChunk" /\ p = requesting')
             PROVE  FileTold(p)'
  BY DEF FilesInv, FilesTold, FileTold
<1>1. /\ events \in Seq(Event) /\ Rest \in Seq(Event) /\ First \in Event /\ notices \in Seq(Notice)
      /\ \A T : Has(events, T) <=> First.type \in T \/ Has(Rest, T)
  BY FirstFacts DEF TypeInv, QueueTypes
<1>2. FilesTold => FileTold(p) \/ (state = "RequestedChunk" /\ p = requesting)
  BY DEF FilesInv, FilesTold, FileTold
<1>3. CASE Refreshing
  <2>1. CASE EnterTurn /\ client = "Receiver"
    <3>1. PICK x \in Event : /\ x = [type |-> "LoggedInAsReceiver", files |-> convert_index]
                             /\ events' = Append(Rest, x)
      BY <2>1, StatusType, EventMakers DEF EnterTurn
    <3>2. convert_index' = convert_index
      BY <2>1 DEF EnterTurn, convert_index, Status
    <3> QED BY <1>1, <3>1, <3>2, FilesRefreshed
  <2>2. PICK x : x = Update
    OBVIOUS
  <2>3. x \in Event /\ x.type = "UpdateReceiverFiles" /\ x.files = convert_index'
    BY <2>2, StatusType DEF Update
  <2>4. CASE MetaTurn
    BY <1>1, <2>2, <2>3, <2>4, FilesRefreshed DEF MetaTurn
  <2>5. CASE StopTurn
    <3>1. PICK r \in Seq(Event) : r = Append(Rest, Send([type |-> "StopChunk"]))
      BY <1>1, AppendFacts, EventMakers, ToServerMakers
    <3> QED BY <2>2, <2>3, <2>5, <3>1, FilesRefreshed DEF StopTurn
  <2>6. CASE ChunkTurn /\ state' = "Idle"
    <3>1. PICK r \in Seq(Event) : r = Append(Rest, [type |-> "FileFinishedDownloading"])
      BY <1>1, AppendFacts, EventMakers
    <3> QED BY <2>2, <2>3, <2>6, <3>1, FilesRefreshed DEF ChunkTurn
  <2> QED BY <1>3, <2>1, <2>4, <2>5, <2>6 DEF Refreshing
<1>4. CASE ~Refreshing
  <2>1. /\ TheFile(p) \in Shows3
        /\ \A e : About(e, TheFile(p)) => e.type \in {"UpdateReceiverFiles", "LoggedInAsReceiver"}
    BY AboutTypes DEF Shows3
  <2>2. /\ Adds(Rest, events', {"UpdateReceiverFiles", "LoggedInAsReceiver"})
        /\ Quiet(Rest, events', TheFile(p))
    BY <1>4, <2>1, TurnNews, AddsQuiet
  <2>3. \A v : WillShow(events, notices, window, TheFile(p), v) =>
               WillShow(events', notices', window', TheFile(p), v)
    BY <2>1, <2>2, ShowTurn
  <2>4. Has(events', {"LoggedInAsReceiver"}) => Has(events, {"LoggedInAsReceiver"})
    BY <1>1, <2>2, AddsFacts
  <2>5. Has(notices', {"LoggedInAsReceiver"}) =>
           Has(events, {"LoggedInAsReceiver"}) \/ Has(notices, {"LoggedInAsReceiver"})
    <3>1. CASE PassTurn \/ WelcomeTurn
      <4>1. notices' = Append(notices, First) /\ First \in Notice
        BY <1>1, <3>1, EventFacts DEF PassTurn, WelcomeTurn
      <4> QED BY <1>1, <4>1, HasInAppend
    <3>2. CASE Adds(notices, notices', ReceiverNews)
      BY <3>2, AddsFacts DEF ReceiverNews
    <3> QED BY <3>1, <3>2, TurnNotices
  <2>6. /\ Entered' => Entered
        /\ received'[p] = received[p]
        /\ ~(state = "RequestedChunk" /\ p = requesting)
    <3>1. CASE \/ SendTurn \/ WelcomeTurn \/ DropTurn \/ StatusTurn \/ PassTurn \/ UploadTurn \/ CreatedTurn
      <4>1. UNCHANGED loopVars
        BY <3>1 DEF SendTurn, WelcomeTurn, DropTurn, StatusTurn, PassTurn, UploadTurn, CreatedTurn
      <4> QED BY <4>1 DEF loopVars, Entered
    <3>2. ASSUME NEW r \in {"Receiver", "Sender"}, LogInTurn(r)
          PROVE  ~Entered' /\ UNCHANGED received /\ state # "RequestedChunk"
      <4>1. Has(events, LogIns)
        BY <1>1, <3>2 DEF LogInTurn
      <4> QED BY <3>2, <4>1 DEF LogInTurn, Entered, ScreenInv
    <3>3. CASE EnterTurn
      <4>1. client # "Receiver" /\ state # "RequestedChunk" /\ UNCHANGED received /\ client' = client
        BY <1>4, <3>3 DEF EnterTurn, Refreshing, TypeInv, LoopTypes
      <4> QED BY <4>1 DEF Entered
    <3>4. CASE ChunkTurn
      <4>1. /\ client = "Receiver" /\ state = "RequestedChunk" /\ UNCHANGED <<state, requesting>>
            /\ received' = [received EXCEPT ![requesting] = @ + 1]
        BY <1>4, <3>4 DEF ChunkTurn, Refreshing
      <4> QED BY <4>1 DEF Entered, TypeInv, LoopTypes
    <3>5. ASSUME NEW q \in Path, StartTurn(q)
          PROVE  Entered /\ received'[p] = received[p] /\ state # "RequestedChunk"
      BY <3>5 DEF StartTurn, Entered, TypeInv, LoopTypes
    <3> QED BY <1>4, <3>1, <3>2, <3>3, <3>4, <3>5 DEF Turn, Refreshing
  <2>7. FilesTold
    BY <2>4, <2>5, <2>6 DEF FilesTold
  <2>8. Status(p)' = Status(p)
    BY <2>6, StatusSame
  <2> QED BY <1>2, <2>3, <2>6, <2>7, <2>8 DEF FileTold
<1> QED BY <1>3, <1>4

LEMMA FilesOthers ==
    ASSUME TypeInv, TypeInv', ConnectStep \/ ReadStep \/ TaskStep \/ PushStep \/ GuiStep, FilesInv
    PROVE  FilesInv'
<1>1. events \in Seq(Event) /\ notices \in Seq(Notice)
  BY DEF TypeInv, QueueTypes
<1>2. \A p \in Path : \A v : WillShow(events, notices, window, TheFile(p), v) =>
                             WillShow(events', notices', window', TheFile(p), v)
  BY ShowOthers DEF Shows3
<1>3. UNCHANGED loopVars
  BY DEF ConnectStep, ReadStep, TaskStep, PushStep, GuiStep
<1>4. UNCHANGED <<client, state, requesting, received>> /\ \A p \in Path : Status(p)' = Status(p)
  BY <1>3, StatusSame DEF loopVars
<1>5. FilesTold' => FilesTold
  <2>1. CASE ConnectStep
    <3>1. PICK n \in Notice : n.type = "ConnectionStatusChanged" /\ notices' = Append(notices, n)
      BY <2>1 DEF ConnectStep
    <3>2. Has(notices', {"LoggedInAsReceiver"}) => Has(notices, {"LoggedInAsReceiver"})
      BY <1>1, <3>1, HasInAppend
    <3> QED BY <1>4, <2>1, <3>2 DEF ConnectStep, guiVars, FilesTold, Entered
  <2>2. CASE ReadStep
    <3>1. PICK x \in Event : x.type = "ProcessMessage" /\ events' = Append(events, x)
      BY <2>2, ReadEvent
    <3>2. Has(events', {"LoggedInAsReceiver"}) => Has(events, {"LoggedInAsReceiver"})
      BY <1>1, <3>1, HasInAppend
    <3> QED BY <1>4, <2>2, <3>2 DEF ReadStep, guiVars, FilesTold, Entered
  <2>3. CASE TaskStep
    <3>1. Has(events', {"LoggedInAsReceiver"}) => Has(events, {"LoggedInAsReceiver"})
      BY <1>1, <2>3, TaskEvent, HasInAppend
    <3> QED BY <1>4, <2>3, <3>1 DEF TaskStep, guiVars, FilesTold, Entered
  <2>4. CASE PushStep
    BY <1>4, <2>4 DEF PushStep, guiVars, FilesTold, Entered
  <2>5. CASE GuiStep
    <3>1. notices # <<>> /\ notices' = Tail(notices) /\ UNCHANGED events
          /\ RestShown(window, Head(notices), window')
      BY <2>5 DEF GuiStep
    <3>2. Has(notices, {"LoggedInAsReceiver"}) <=>
             Head(notices).type \in {"LoggedInAsReceiver"} \/ Has(notices', {"LoggedInAsReceiver"})
      BY <1>1, <3>1, HasInTail
    <3>3. window'.screen = "ReceiverScreen" =>
             window.screen = "ReceiverScreen" \/ Head(notices).type = "LoggedInAsReceiver"
      BY <3>1 DEF RestShown
    <3> QED BY <1>4, <3>1, <3>2, <3>3 DEF FilesTold, Entered
  <2> QED BY <2>1, <2>2, <2>3, <2>4, <2>5
<1> QED BY <1>2, <1>4, <1>5 DEF FilesInv, FilesTold

LEMMA FilesUser ==
    ASSUME UserStep, FilesInv
    PROVE  FilesInv'
<1>1. /\ UNCHANGED <<client, state, requesting, received, events, notices>>
      /\ window'.screen = window.screen
  BY DEF UserStep, SameShown, loopVars
<1>2. \A p \in Path : \A v : WillShow(events, notices, window, TheFile(p), v) =>
                             WillShow(events', notices', window', TheFile(p), v)
  <2>1. \A p \in Path : TheFile(p) \in Shows3 /\ TheFile(p) # TheDownload
    BY DEF Shows3, TheFile, TheDownload
  <2> QED BY <2>1, ShowUser
<1>3. \A p \in Path : Status(p)' = Status(p)
  BY <1>1, StatusSame
<1>4. FilesTold' => FilesTold
  BY <1>1 DEF FilesTold, Entered
<1> QED BY <1>1, <1>2, <1>3, <1>4 DEF FilesInv, FilesTold

LEMMA FilesSend ==
    ASSUME TypeInv, SendStep, FilesInv
    PROVE  FilesInv'
<1>1. events \in Seq(Event)
  BY DEF TypeInv, QueueTypes
<1>2. UNCHANGED <<client, state, requesting, received, notices, window>>
  BY DEF SendStep, loopVars
<1>3. \A p \in Path : \A v : WillShow(events, notices, window, TheFile(p), v) =>
                             WillShow(events', notices', window', TheFile(p), v)
  BY ShowSend DEF Shows3
<1>4. \A p \in Path : Status(p)' = Status(p)
  BY <1>2, StatusSame
<1>5. Has(events', {"LoggedInAsReceiver"}) => Has(events, {"LoggedInAsReceiver"})
  <2>1. "LoggedInAsReceiver" \notin LogIns \cup Orders \cup Uploads
    BY DEF LogIns, Orders, Uploads
  <2> QED BY <1>1, <2>1, SendEvents, HasInAppend
<1>6. FilesTold' => FilesTold
  BY <1>2, <1>5 DEF FilesTold, Entered
<1> QED BY <1>2, <1>3, <1>4, <1>6 DEF FilesInv, FilesTold

-----------------------------------------------------------------------------
(***************************************************************************)
(* The metadata that is waited for.                                        *)
(***************************************************************************)
CreatedEvents == Count(events, 0, "MetaCreated")
CreatedNotices(i) == Count(notices, i, "MetadataCreated")

LEMMA ComingTypes ==
    /\ TypeInv => CreatedEvents \in Nat /\ \A i \in Nat : CreatedNotices(i) \in Nat
    /\ TypeInv' => CreatedEvents' \in Nat /\ \A i \in Nat : CreatedNotices(i)' \in Nat
<1>1. /\ TypeInv => events \in Seq(Event) /\ notices \in Seq(Notice)
      /\ TypeInv' => events' \in Seq(Event) /\ notices' \in Seq(Notice)
  BY DEF TypeInv, QueueTypes
<1>2. \A s \in Seq(Event) : Count(s, 0, "MetaCreated") \in Nat
  BY CountIsNat
<1>3. \A s \in Seq(Notice), i \in Nat : Count(s, i, "MetadataCreated") \in Nat
  BY CountIsNat
<1> QED BY <1>1, <1>2, <1>3 DEF CreatedEvents, CreatedNotices

LEMMA CountOfPrefix ==
    ASSUME NEW S, NEW s \in Seq(S), NEW r \in Seq(S), Adds(s, r, {}), NEW i \in Nat, NEW t
    PROVE  Count(s, i, t) <= Count(r, i, t)
<1>1. Places(s, i, t) \in SUBSET Places(r, i, t)
  BY DEF Adds, Places
<1>2. IsFiniteSet(Places(r, i, t))
  BY CountIsNat
<1> QED BY <1>1, <1>2, FS_Subset DEF Count

LEMMA ComingIsNat ==
    /\ TypeInv => \A i \in Nat : Coming(i) \in Nat
    /\ TypeInv' => \A i \in Nat : Coming(i)' \in Nat /\ Coming(i)' >= jobs'
<1>1. /\ TypeInv => jobs \in Nat
      /\ TypeInv' => jobs' \in Nat
  BY DEF TypeInv, QueueTypes
<1>2. /\ \A i : Coming(i) = jobs + CreatedEvents + CreatedNotices(i)
      /\ \A i : Coming(i)' = jobs' + CreatedEvents' + CreatedNotices(i)'
  BY DEF Coming, CreatedEvents, CreatedNotices
<1>3. \A a, b, c \in Nat : a + b + c \in Nat /\ a + b + c >= a
  OBVIOUS
<1> QED BY <1>1, <1>2, <1>3, ComingTypes

\* No metadata that will come is lost.
MoreComes == \A i \in {0} \cup DOMAIN notices : Coming(i)' >= Coming(i)

\* What is announced anew will come.
AnnouncedComes ==
    \A i \in DOMAIN notices' : i \in DOMAIN notices \/
       /\ notices'[i].type = "MetadataCreationStarted" => Coming(i)' >= 1
       /\ notices'[i].type = "MultipleMetadataCreationStarted" => Coming(i)' >= notices'[i].files

LEMMA QueueKept ==
    ASSUME TypeInv, TypeInv', QueueInv,
           window'.queued = window.queued, window'.metafile_index = window.metafile_index,
           window'.creating = window.creating,
           Adds(notices, notices', {}), MoreComes, AnnouncedComes
    PROVE  QueueInv'
<1>1. /\ notices \in Seq(Notice) /\ notices' \in Seq(Notice)
      /\ window.metafile_index \in Int /\ window.queued \in Nat
  BY DEF TypeInv, QueueTypes, WindowTypes, Window
<1>2. /\ DOMAIN notices \subseteq Nat /\ DOMAIN notices' \subseteq Nat
      /\ \A i \in DOMAIN notices' : notices'[i] \in Notice
  BY <1>1
<1>3. \A i \in Nat : Coming(i) \in Nat /\ Coming(i)' \in Nat
  BY ComingIsNat
<1>4. Coming(0)' >= Coming(0) /\ \A i \in DOMAIN notices : Coming(i)' >= Coming(i)
  BY DEF MoreComes
<1>5. window'.queued > 0 => window'.queued - window'.metafile_index <= Coming(0)'
  <2>1. window.queued > 0 => window.queued - window.metafile_index <= Coming(0)
    BY DEF QueueInv
  <2>2. \A q, c, d \in Nat, m \in Int : (q > 0 => q - m <= c) /\ d >= c => (q > 0 => q - m <= d)
    OBVIOUS
  <2>3. Coming(0) \in Nat /\ Coming(0)' \in Nat /\ Coming(0)' >= Coming(0)
    BY <1>3, <1>4
  <2>4. window.queued > 0 => window.queued - window.metafile_index <= Coming(0)'
    BY <1>1, <2>1, <2>2, <2>3
  <2> QED BY <2>4
<1>6. ASSUME window'.creating PROVE Coming(0)' >= 1
  <2>1. window.creating
    BY <1>6
  <2>2. Coming(0) >= 1
    BY <2>1 DEF QueueInv
  <2> QED BY <1>3, <1>4, <2>2
<1>7. ASSUME NEW i \in DOMAIN notices'
      PROVE  /\ notices'[i].type = "MetadataCreationStarted" => Coming(i)' >= 1
             /\ notices'[i].type = "MultipleMetadataCreationStarted" => Coming(i)' >= notices'[i].files
  <2>1. CASE i \in DOMAIN notices
    <3>1. notices'[i] = notices[i] /\ i \in Nat
      BY <1>2, <2>1 DEF Adds
    <3>2. notices[i].type = "MultipleMetadataCreationStarted" => notices[i].files \in Nat
      BY <1>2, <3>1, NoticeFacts
    <3>3. /\ notices[i].type = "MetadataCreationStarted" => Coming(i) >= 1
          /\ notices[i].type = "MultipleMetadataCreationStarted" => Coming(i) >= notices[i].files
      BY <2>1 DEF QueueInv
    <3>4. Coming(i) \in Nat /\ Coming(i)' \in Nat /\ Coming(i)' >= Coming(i)
      BY <1>3, <1>4, <2>1, <3>1
    <3> QED BY <3>1, <3>2, <3>3, <3>4
  <2>2. CASE i \notin DOMAIN notices
    BY <2>2 DEF AnnouncedComes
  <2> QED BY <2>1, <2>2
<1> QED BY <1>5, <1>6, <1>7 DEF QueueInv

\* A turn takes no metadata out of the event channel but with a MetaCreated.
LEMMA CreatedLeft ==
    ASSUME TypeInv, events # <<>>, Turn
    PROVE  /\ First.type # "MetaCreated" => CreatedEvents' = CreatedEvents
           /\ First.type = "MetaCreated" => CreatedEvents = CreatedEvents' + 1
<1>1. /\ events \in Seq(Event) /\ Adds(Rest, events', Commands)
      /\ "MetaCreated" \in Commands /\ {} \in SUBSET Commands
  BY FirstFacts, TurnQueue DEF Commands
<1>2. Count(events', 0, "MetaCreated") = Count(Rest, 0, "MetaCreated")
  BY <1>1, AddsFacts
<1>3. Count(Rest, 0, "MetaCreated") = Count(events, 0 + 1, "MetaCreated")
  BY <1>1, CountInTail DEF Rest
<1>4. Count(events, 0, "MetaCreated") =
         Count(events, 1, "MetaCreated") + IF First.type = "MetaCreated" THEN 1 ELSE 0
  BY <1>1, CountOfHead DEF First
<1>5. Count(events, 1, "MetaCreated") \in Nat
  BY <1>1, CountIsNat
<1>6. /\ First.type # "MetaCreated" => Count(events, 0, "MetaCreated") = Count(events, 1, "MetaCreated")
      /\ First.type = "MetaCreated" => Count(events, 0, "MetaCreated") = Count(events, 1, "MetaCreated") + 1
  BY <1>4, <1>5
<1>7. Count(events', 0, "MetaCreated") = Count(events, 1, "MetaCreated")
  BY <1>2, <1>3
<1> QED BY <1>6, <1>7 DEF CreatedEvents

LEMMA MoreNotices ==
    ASSUME TypeInv, TypeInv', Adds(notices, notices', {})
    PROVE  \A i \in {0} \cup DOMAIN notices : /\ CreatedNotices(i)' >= CreatedNotices(i) /\ i \in Nat
                                              /\ CreatedNotices(i)' \in Nat /\ CreatedNotices(i) \in Nat
<1>1. /\ notices \in Seq(Notice) /\ notices' \in Seq(Notice)
      /\ \A i \in {0} \cup DOMAIN notices : i \in Nat
  BY DEF TypeInv, QueueTypes
<1>2. \A i \in Nat : CreatedNotices(i) <= CreatedNotices(i)'
  BY <1>1, CountOfPrefix DEF CreatedNotices
<1>3. \A i \in Nat : CreatedNotices(i) \in Nat /\ CreatedNotices(i)' \in Nat
  BY ComingTypes
<1> QED BY <1>1, <1>2, <1>3

\* There are no fewer notices, nor fewer jobs and events in all.
LEMMA MoreInAll ==
    ASSUME TypeInv, TypeInv', Adds(notices, notices', {}), jobs' + CreatedEvents' >= jobs + CreatedEvents
    PROVE  MoreComes
<1> SUFFICES ASSUME NEW i \in {0} \cup DOMAIN notices PROVE Coming(i)' >= Coming(i)
  BY DEF MoreComes
<1>1. jobs \in Nat /\ jobs' \in Nat /\ CreatedEvents \in Nat /\ CreatedEvents' \in Nat
  BY ComingTypes DEF TypeInv, QueueTypes
<1>2. CreatedNotices(i)' >= CreatedNotices(i) /\ CreatedNotices(i)' \in Nat /\ CreatedNotices(i) \in Nat
  BY MoreNotices
<1>3. \A a, b, c, d, e, f \in Nat : a + b >= c + d /\ e >= f => a + b + e >= c + d + f
  OBVIOUS
<1>4. jobs' + CreatedEvents' + CreatedNotices(i)' >= jobs + CreatedEvents + CreatedNotices(i)
  BY <1>1, <1>2, <1>3
<1>5. /\ Coming(i) = jobs + CreatedEvents + CreatedNotices(i)
      /\ Coming(i)' = jobs' + CreatedEvents' + CreatedNotices(i)'
  BY DEF Coming, CreatedEvents, CreatedNotices
<1> QED BY <1>4, <1>5

LEMMA QueueTurn ==
    ASSUME TypeInv, TypeInv', events # <<>>, Turn, UNCHANGED window, ScreenInv, QueueInv
    PROVE  QueueInv'
<1>1. /\ events \in Seq(Event) /\ First \in Event /\ notices \in Seq(Notice)
      /\ jobs \in Nat /\ jobs' \in Nat
      /\ \A T : Has(events, T) <=> First.type \in T \/ Has(Rest, T)
  BY FirstFacts DEF TypeInv, QueueTypes
<1>2. /\ CreatedEvents \in Nat /\ CreatedEvents' \in Nat
      /\ First.type # "MetaCreated" => CreatedEvents' = CreatedEvents
      /\ First.type = "MetaCreated" => CreatedEvents = CreatedEvents' + 1
  BY ComingTypes, CreatedLeft
<1>3. \A i \in Nat : Coming(i)' \in Nat /\ Coming(i)' >= jobs'
  BY ComingIsNat
<1>4. CASE UploadTurn /\ First.type = "UploadMeta" /\ UploadMeta(First.local)
  <2> DEFINE opens == First.local = "File"
  <2>0. First.local # "Nameless"
    BY <1>4 DEF UploadTurn
  <2>1. PICK n \in Notice : /\ n = [type |-> IF opens THEN "MetadataCreationStarted"
                                             ELSE "MetadataCreationFailed"]
                            /\ notices' = Append(notices, n)
    BY <1>4, <2>0, NoticeMakers DEF UploadMeta
  <2>2. jobs' = (IF opens THEN jobs + 1 ELSE jobs) /\ CreatedEvents' = CreatedEvents
    BY <1>2, <1>4, <2>0 DEF UploadMeta
  <2> HIDE DEF opens
  <2>3. Adds(notices, notices', {})
    BY <1>1, <2>1, AddsAppend
  <2>4. MoreComes
    BY <1>1, <1>2, <2>2, <2>3, MoreInAll
  <2>5. AnnouncedComes
    <3>1. \A i \in DOMAIN notices' : i \in DOMAIN notices \/ (notices'[i] = n /\ i \in Nat)
      BY <1>1, <2>1, AppendFacts
    <3>2. n.type # "MultipleMetadataCreationStarted" /\ (n.type = "MetadataCreationStarted" => opens)
      BY <2>1
    <3>3. opens => jobs' >= 1
      BY <1>1, <2>2
    <3>4. opens => \A i \in Nat : Coming(i)' >= 1
      BY <1>1, <1>3, <3>3
    <3> QED BY <3>1, <3>2, <3>4 DEF AnnouncedComes
  <2> QED BY <2>3, <2>4, <2>5, QueueKept
<1>5. CASE UploadTurn /\ First.type = "UploadMultipleMeta" /\ UploadMultipleMeta(First.files, First.opened)
  <2>1. PICK n \in Nat : n = First.files
    BY <1>1, <1>5, EventFacts
  <2>2. PICK k \in Nat : k = First.opened /\ k <= n
    BY <1>1, <1>5, <2>1, EventFacts
  <2>3. PICK r \in Seq(Notice) :
           /\ r = notices \o Failures(n - k)
           /\ \A W : "MetadataCreationFailed" \notin W => Adds(notices, r, W)
           /\ notices' = Append(r, [type |-> "MultipleMetadataCreationStarted", files |-> k])
    BY <1>5, <2>1, <2>2, UploadNotices
  <2>4. PICK x \in Notice : x = [type |-> "MultipleMetadataCreationStarted", files |-> k]
    BY <2>2, NoticeMakers
  <2>5. jobs' = jobs + k /\ CreatedEvents' = CreatedEvents
    BY <1>2, <1>5, <2>2 DEF UploadMultipleMeta
  <2>6. Adds(notices, notices', {})
    <3>1. Adds(notices, r, {}) /\ Adds(r, Append(r, x), {})
      BY <2>3, AddsAppend
    <3> QED BY <2>3, <2>4, <3>1, AddsTrans
  <2>7. MoreComes
    BY <1>1, <1>2, <2>2, <2>5, <2>6, MoreInAll
  <2>8. AnnouncedComes
    <3>1. \A i \in DOMAIN notices' : (i \in DOMAIN r /\ notices'[i] = r[i]) \/ (notices'[i] = x /\ i \in Nat)
      BY <2>3, <2>4, AppendFacts
    <3>2. Adds(notices, r, {"MetadataCreationStarted", "MultipleMetadataCreationStarted"})
      BY <2>3
    <3>3. x.type = "MultipleMetadataCreationStarted" /\ x.files = k
      BY <2>4
    <3>4. jobs' >= k
      BY <1>1, <2>5
    <3>5. \A i \in Nat : Coming(i)' >= k
      BY <1>1, <1>3, <3>4
    <3> QED BY <3>1, <3>2, <3>3, <3>5 DEF AnnouncedComes, Adds
  <2> QED BY <2>6, <2>7, <2>8, QueueKept
<1>6. CASE CreatedTurn
  <2>1. PICK n \in Notice : n = [type |-> "MetadataCreated"] /\ notices' = Append(notices, n)
    BY <1>6, NoticeMakers DEF CreatedTurn
  <2>2. jobs' = jobs /\ CreatedEvents = CreatedEvents' + 1
    BY <1>2, <1>6 DEF CreatedTurn, jobVars
  <2>3. Adds(notices, notices', {})
    BY <1>1, <2>1, AddsAppend
  <2>4. MoreComes
    <3> SUFFICES ASSUME NEW i \in {0} \cup DOMAIN notices PROVE Coming(i)' >= Coming(i)
      BY DEF MoreComes
    <3>1. i \in 0 .. Len(notices) /\ i \in Nat
      BY <1>1
    <3>2. CreatedNotices(i)' = CreatedNotices(i) + 1
      BY <1>1, <2>1, <3>1, CountInAppend DEF CreatedNotices
    <3>3. CreatedNotices(i) \in Nat
      BY <3>1, ComingTypes
    <3>4. /\ Coming(i) = jobs + CreatedEvents + CreatedNotices(i)
          /\ Coming(i)' = jobs' + CreatedEvents' + CreatedNotices(i)'
      BY DEF Coming, CreatedEvents, CreatedNotices
    <3>5. \A a, b, c \in Nat : a + b + (c + 1) >= a + (b + 1) + c
      OBVIOUS
    <3> QED BY <1>1, <1>2, <2>2, <3>2, <3>3, <3>4, <3>5
  <2>5. AnnouncedComes
    BY <1>1, <2>1, AppendFacts DEF AnnouncedComes
  <2> QED BY <2>3, <2>4, <2>5, QueueKept
<1>7. CASE /\ UNCHANGED jobVars /\ First.type # "MetaCreated"
           /\ \/ UNCHANGED notices
              \/ /\ notices' = Append(notices, First) /\ First \in Notice
                 /\ First.type \notin {"MetadataCreationStarted", "MultipleMetadataCreationStarted"}
  <2>1. jobs' = jobs /\ CreatedEvents' = CreatedEvents
    BY <1>2, <1>7 DEF jobVars
  <2>2. Adds(notices, notices', {})
    <3>1. CASE UNCHANGED notices
      BY <3>1, AddsNothing
    <3>2. CASE notices' = Append(notices, First) /\ First \in Notice
      BY <1>1, <3>2, AddsAppend
    <3> QED BY <1>7, <3>1, <3>2
  <2>3. MoreComes
    BY <1>1, <1>2, <2>1, <2>2, MoreInAll
  <2>4. AnnouncedComes
    BY <1>1, <1>7, AppendFacts DEF AnnouncedComes
  <2> QED BY <2>2, <2>3, <2>4, QueueKept
<1>8. First.type = "MetaCreated" => client = "Sender"
  BY <1>1 DEF ScreenInv
<1>9. CASE WelcomeTurn \/ PassTurn
  BY <1>1, <1>7, <1>9, EventFacts DEF WelcomeTurn, PassTurn
<1>10. CASE DropTurn
  BY <1>7, <1>8, <1>10 DEF DropTurn, Orders, Uploads
<1>11. CASE SendTurn \/ StatusTurn \/ EnterTurn \/ MetaTurn \/ ChunkTurn \/ StopTurn
  BY <1>7, <1>11 DEF SendTurn, StatusTurn, EnterTurn, MetaTurn, ChunkTurn, StopTurn
<1>12. CASE (\E r \in {"Receiver", "Sender"} : LogInTurn(r)) \/ (\E p \in Path : StartTurn(p))
  BY <1>7, <1>12 DEF LogInTurn, StartTurn, LogIns
<1> QED BY <1>4, <1>5, <1>6, <1>9, <1>10, <1>11, <1>12 DEF Turn, UploadTurn

Announcements == {"MetadataCreationStarted", "MultipleMetadataCreationStarted"}

\* Nothing is announced, and what was in preparation still is.
LEMMA QueueQuiet ==
    ASSUME TypeInv, TypeInv', QueueInv,
           window'.queued = window.queued, window'.metafile_index = window.metafile_index,
           window'.creating = window.creating,
           Adds(notices, notices', Announcements), jobs' + CreatedEvents' >= jobs + CreatedEvents
    PROVE  QueueInv'
<1>1. Adds(notices, notices', {})
  BY AddsLess
<1>2. MoreComes
  BY <1>1, MoreInAll
<1>3. AnnouncedComes
  BY DEF AnnouncedComes, Adds, Announcements
<1> QED BY <1>1, <1>2, <1>3, QueueKept

LEMMA CreatedAppend ==
    ASSUME TypeInv, NEW x \in Event, events' = Append(events, x)
    PROVE  /\ x.type # "MetaCreated" => CreatedEvents' = CreatedEvents
           /\ x.type = "MetaCreated" => CreatedEvents' = CreatedEvents + 1
<1>1. events \in Seq(Event)
  BY DEF TypeInv, QueueTypes
<1>2. 0 \in 0 .. Len(events)
  BY <1>1
<1>3. Count(Append(events, x), 0, "MetaCreated") =
         Count(events, 0, "MetaCreated") + IF x.type = "MetaCreated" THEN 1 ELSE 0
  BY <1>1, <1>2, CountInAppend
<1>4. Count(events, 0, "MetaCreated") \in Nat
  BY <1>1, CountIsNat
<1>5. /\ x.type # "MetaCreated" => Count(Append(events, x), 0, "MetaCreated") = Count(events, 0, "MetaCreated")
      /\ x.type = "MetaCreated" => Count(Append(events, x), 0, "MetaCreated") = Count(events, 0, "MetaCreated") + 1
  BY <1>3, <1>4
<1> QED BY <1>5 DEF CreatedEvents

\* QueueInv holds after the window has shown a notice.
LEMMA QueueGui ==
    ASSUME TypeInv, TypeInv', GuiStep, QueueInv
    PROVE  QueueInv'
<1>1. /\ notices \in Seq(Notice) /\ notices # <<>> /\ notices' = Tail(notices)
      /\ jobs \in Nat /\ jobs' = jobs /\ events' = events
  BY DEF GuiStep, TypeInv, QueueTypes, jobVars
<1>2. PICK n \in Notice : n = Head(notices)
  BY <1>1, TailFacts
<1>3. /\ window.queued \in Nat /\ window'.queued \in Nat
      /\ window.metafile_index \in Int /\ window'.metafile_index \in Int
      /\ window.metafile_index >= -1
  BY DEF TypeInv, WindowTypes, Window
<1>4. QueueShown(window, n, window')
  BY <1>2 DEF GuiStep
<1>5. \A i \in Nat : Coming(i) \in Nat /\ Coming(i)' \in Nat
  BY ComingIsNat
<1>6. \A i \in Nat : Coming(i)' = Coming(i + 1)
  BY <1>1, CountInTail DEF Coming
<1>7. /\ n.type # "MetadataCreated" => Coming(0) = Coming(1)
      /\ n.type = "MetadataCreated" => Coming(0) = Coming(1) + 1
  <2>1. Count(notices, 0, "MetadataCreated") =
           Count(notices, 1, "MetadataCreated") + IF n.type = "MetadataCreated" THEN 1 ELSE 0
    BY <1>1, <1>2, CountOfHead
  <2>2. CreatedEvents \in Nat /\ CreatedNotices(0) \in Nat /\ CreatedNotices(1) \in Nat
    BY ComingTypes
  <2>3. /\ n.type # "MetadataCreated" => CreatedNotices(0) = CreatedNotices(1)
        /\ n.type = "MetadataCreated" => CreatedNotices(0) = CreatedNotices(1) + 1
    BY <2>1, <2>2 DEF CreatedNotices
  <2>4. \A i : Coming(i) = jobs + CreatedEvents + CreatedNotices(i)
    BY DEF Coming, CreatedEvents, CreatedNotices
  <2>5. \A a, b, c, d \in Nat : d = c + 1 => a + b + d = (a + b + c) + 1
    OBVIOUS
  <2> QED BY <1>1, <2>2, <2>3, <2>4, <2>5
<1>8. Coming(0)' = Coming(1) /\ Coming(1) \in Nat /\ Coming(0) \in Nat
  <2>1. Coming(0)' = Coming(0 + 1)
    BY <1>6
  <2> QED BY <1>5, <2>1
<1>9. /\ n.type = "MetadataCreationStarted" => Coming(1) >= 1
      /\ n.type = "MultipleMetadataCreationStarted" => Coming(1) >= n.files
  <2>1. 1 \in DOMAIN notices /\ notices[1] = n
    BY <1>1, <1>2, TailFacts
  <2> QED BY <2>1 DEF QueueInv
<1>10. window.queued > 0 => window.queued - window.metafile_index <= Coming(0)
  BY DEF QueueInv
<1>11. (window'.queued > 0 => window'.queued - window'.metafile_index <= Coming(1))
  <2>1. CASE n.type = "MultipleMetadataCreationStarted"
    <3>1. n.files \in Nat /\ window'.queued = n.files /\ window'.metafile_index = 0
      BY <1>4, <2>1, NoticeFacts DEF QueueShown
    <3> QED BY <1>8, <1>9, <2>1, <3>1
  <2>2. CASE n.type = "MetadataCreated" /\ window.metafile_index < window.queued
    <3>1. window'.queued = window.queued /\ window'.metafile_index = window.metafile_index + 1
      BY <1>4, <2>2 DEF QueueShown
    <3> QED BY <1>3, <1>7, <1>8, <1>10, <2>2, <3>1
  <2>3. CASE n.type = "MetadataCreated" /\ ~(window.metafile_index < window.queued)
    BY <1>4, <2>3 DEF QueueShown
  <2>4. CASE n.type \notin {"MultipleMetadataCreationStarted", "MetadataCreated"}
    <3>1. window'.queued = window.queued /\ window'.metafile_index = window.metafile_index
      BY <1>4, <2>4 DEF QueueShown
    <3> QED BY <1>7, <1>10, <2>4, <3>1
  <2> QED BY <2>1, <2>2, <2>3, <2>4
<1>12. window'.creating => Coming(1) >= 1
  <2>1. CASE n.type = "MultipleMetadataCreationStarted"
    <3>1. n.files \in Nat /\ (window'.creating => n.files > 0)
      BY <1>4, <2>1, NoticeFacts DEF QueueShown
    <3>2. n.files > 0 => Coming(1) >= 1
      BY <1>8, <1>9, <2>1, <3>1
    <3> QED BY <3>1, <3>2
  <2>2. CASE n.type = "MetadataCreated" /\ window.metafile_index < window.queued
    <3>1. window'.creating => window.metafile_index + 1 < window.queued
      BY <1>4, <2>2 DEF QueueShown
    <3>2. window.metafile_index + 1 < window.queued => Coming(1) >= 1
      BY <1>3, <1>7, <1>8, <1>10, <2>2
    <3> QED BY <3>1, <3>2
  <2>3. CASE n.type = "MetadataCreated" /\ ~(window.metafile_index < window.queued)
    BY <1>4, <2>3 DEF QueueShown
  <2>4. CASE n.type \notin {"MultipleMetadataCreationStarted", "MetadataCreated"}
    <3>1. window'.creating => window.creating \/ n.type = "MetadataCreationStarted"
      BY <1>4, <2>4 DEF QueueShown
    <3>2. window.creating => Coming(0) >= 1
      BY DEF QueueInv
    <3> QED BY <1>7, <1>9, <2>4, <3>1, <3>2
  <2> QED BY <2>1, <2>2, <2>3, <2>4
<1>13. ASSUME NEW i \in DOMAIN notices'
       PROVE  /\ notices'[i].type = "MetadataCreationStarted" => Coming(i)' >= 1
              /\ notices'[i].type = "MultipleMetadataCreationStarted" => Coming(i)' >= notices'[i].files
  <2>1. i \in Nat /\ i + 1 \in DOMAIN notices /\ notices'[i] = notices[i + 1]
    BY <1>1, <1>13, TailFacts
  <2>2. Coming(i)' = Coming(i + 1)
    BY <1>6, <2>1
  <2> QED BY <2>1, <2>2 DEF QueueInv
<1> QED BY <1>8, <1>11, <1>12, <1>13 DEF QueueInv

\* QueueInv holds after the other steps but JobFails.
LEMMA QueueOthers ==
    ASSUME TypeInv, TypeInv', ConnectStep \/ ReadStep \/ PushStep \/ JobDone \/ RetryEnds, QueueInv
    PROVE  QueueInv'
<1>1. notices \in Seq(Notice) /\ jobs \in Nat /\ CreatedEvents \in Nat /\ jobs' \in Nat
  BY ComingTypes DEF TypeInv, QueueTypes
<1>2. UNCHANGED window
  BY DEF ConnectStep, ReadStep, PushStep, JobDone, RetryEnds, guiVars
<1>3. Adds(notices, notices', Announcements)
  <2>1. CASE ConnectStep
    <3>1. PICK n \in Notice : n.type = "ConnectionStatusChanged" /\ notices' = Append(notices, n)
      BY <2>1 DEF ConnectStep
    <3> QED BY <1>1, <3>1, AddsAppend DEF Announcements
  <2>2. CASE UNCHANGED notices
    BY <2>2, AddsNothing
  <2> QED BY <2>1, <2>2 DEF ReadStep, PushStep, JobDone, RetryEnds
<1>4. jobs' + CreatedEvents' >= jobs + CreatedEvents
  <2>1. CASE ConnectStep \/ PushStep
    <3>1. jobs' = jobs /\ events' = events
      BY <2>1 DEF ConnectStep, PushStep, jobVars
    <3>2. CreatedEvents' = CreatedEvents
      BY <3>1 DEF CreatedEvents
    <3> QED BY <1>1, <3>1, <3>2
  <2>2. CASE ReadStep
    <3>1. PICK x \in Event : x.type = "ProcessMessage" /\ events' = Append(events, x)
      BY <2>2, ReadEvent
    <3>2. jobs' = jobs /\ CreatedEvents' = CreatedEvents
      BY <2>2, <3>1, CreatedAppend DEF ReadStep, jobVars
    <3> QED BY <1>1, <3>2
  <2>3. CASE JobDone
    <3>1. PICK x \in Event : x.type = "MetaCreated" /\ events' = Append(events, x)
      BY <2>3, EventMakers DEF JobDone
    <3>2. jobs' = jobs - 1 /\ CreatedEvents' = CreatedEvents + 1
      BY <2>3, <3>1, CreatedAppend DEF JobDone
    <3> QED BY <1>1, <3>2
  <2>4. CASE RetryEnds
    <3>1. PICK x \in Event : events' = Append(events, x)
      BY <2>4, EventMakers DEF RetryEnds
    <3>2. jobs' = jobs /\ (CreatedEvents' = CreatedEvents \/ CreatedEvents' = CreatedEvents + 1)
      BY <2>4, <3>1, CreatedAppend DEF RetryEnds
    <3> QED BY <1>1, <3>2
  <2> QED BY <2>1, <2>2, <2>3, <2>4
<1> QED BY <1>2, <1>3, <1>4, QueueQuiet

\* QueueInv holds after the user has done something.
LEMMA QueueUser ==
    ASSUME TypeInv, TypeInv', UserStep, QueueInv
    PROVE  QueueInv'
<1>1. jobs \in Nat /\ CreatedEvents \in Nat
  BY ComingTypes DEF TypeInv, QueueTypes
<1>2. jobs' = jobs /\ events' = events /\ Adds(notices, notices', Announcements)
  BY AddsNothing DEF UserStep, jobVars
<1>3. CreatedEvents' = CreatedEvents
  BY <1>2 DEF CreatedEvents
<1> QED BY <1>1, <1>2, <1>3, QueueQuiet DEF UserStep, SameShown

\* QueueInv holds after a click has been sent.
LEMMA QueueSend ==
    ASSUME TypeInv, TypeInv', SendStep, QueueInv
    PROVE  QueueInv'
<1>1. jobs \in Nat /\ CreatedEvents \in Nat
  BY ComingTypes DEF TypeInv, QueueTypes
<1>2. jobs' = jobs /\ UNCHANGED window /\ Adds(notices, notices', Announcements)
  BY AddsNothing DEF SendStep, jobVars
<1>3. CreatedEvents' = CreatedEvents
  <2>1. PICK e \in Event : e.type \in LogIns \cup Orders \cup Uploads /\ events' = Append(events, e)
    BY SendEvents
  <2>2. e.type # "MetaCreated"
    BY <2>1 DEF LogIns, Orders, Uploads
  <2> QED BY <2>1, <2>2, CreatedAppend
<1> QED BY <1>1, <1>2, <1>3, QueueQuiet

-----------------------------------------------------------------------------
(***************************************************************************)
(* Orders.                                                                 *)
(***************************************************************************)
\* The events that some state of the client does not expect.
Busy == LogIns \cup Orders \cup {"LoggedInAsReceiver"}

LEMMA BusyTypes ==
    ASSUME NEW e
    PROVE  /\ e.type \notin Busy => Expected(e) /\ Expected(e)'
           /\ e.type \in Busy =>
                 \/ e.type \in LogIns
                 \/ e.type \in {"FileRequested", "FileResumed"}
                 \/ e.type = "DownloadStopped"
                 \/ e.type = "LoggedInAsReceiver"
           /\ e.type \in Busy => e.type \in LogIns \cup Orders \/ e.type = "LoggedInAsReceiver"
           /\ e.type \in LogIns => e.type \notin Orders /\ e.type # "LoggedInAsReceiver"
           /\ e.type \in Orders => e.type \notin LogIns /\ e.type # "LoggedInAsReceiver"
BY DEF Busy, LogIns, Orders, Expected

\* Where an event of the rest was.
LEMMA RestElems ==
    ASSUME TypeInv, events # <<>>, NEW e \in Elems(Rest)
    PROVE  /\ e \in Event /\ e \in Elems(events)
           /\ \E i \in DOMAIN events : i # 1 /\ events[i] = e
<1>1. events \in Seq(Event)
  BY FirstFacts
<1>2. PICK j \in DOMAIN Rest : e = Rest[j]
  BY DEF Elems
<1>3. j \in Nat /\ j + 1 \in DOMAIN events /\ j + 1 # 1 /\ events[j + 1] = e
  BY <1>1, <1>2, TailFacts DEF Rest
<1>4. events[j + 1] \in Event
  BY <1>1, <1>3
<1> QED BY <1>3, <1>4 DEF Elems

LEMMA FirstElem ==
    ASSUME TypeInv, events # <<>>
    PROVE  First \in Elems(events) /\ 1 \in DOMAIN events /\ events[1] = First
BY FirstFacts, TailFacts DEF First, Elems

LEMMA PendingElems ==
    ASSUME TypeInv, NEW e \in Elems(pending)
    PROVE  /\ e \in Event /\ e.type \in LogIns \cup Orders \cup Uploads
           /\ e.type # "LoggedInAsReceiver" /\ ~IsBlock(e)
<1>1. e \in UserEvent
  BY DEF TypeInv, WindowTypes, Elems
<1> QED BY <1>1 DEF UserEvent, LogIns, Orders, Uploads, IsBlock

\* When the client works off an order, or cannot take one, none is waiting.
LEMMA NothingWaits ==
    ASSUME TypeInv, events # <<>>, OrdersInv, StopInv,
           \/ First.type \in LogIns \cup Orders
           \/ client # "None" /\ ~(client = "Receiver" /\ state \in {"Idle", "RequestedChunk"})
           \/ client = "Receiver" /\ state = "RequestedChunk" /\ IsBlock(First)
    PROVE  ~Has(Rest, Busy) /\ ~Has(pending, Busy) /\ window.dialog = NoPath
<1>1. \A e \in Elems(events) \cup Elems(pending) : Expected(e)
  BY DEF OrdersInv
<1>2. \A e \in Elems(pending) : e.type # "LoggedInAsReceiver"
  BY PendingElems
<1>3. CASE First.type \in LogIns \cup Orders
  <2>1. Has(events, LogIns \cup Orders) /\ Has(events, LogIns \cup Orders \cup {"LoggedInAsReceiver"})
    BY <1>3, FirstElem DEF Has
  <2>2. window.dialog = NoPath /\ ~Has(pending, LogIns \cup Orders)
    BY <2>1 DEF OrdersInv, Clicked
  <2>3. ASSUME NEW e \in Elems(Rest), e.type \in Busy PROVE FALSE
    <3>1. PICK i \in DOMAIN events : i # 1 /\ events[i] = e
      BY RestElems
    <3>2. e.type \notin LogIns \cup Orders
      BY <1>3, <3>1, FirstElem DEF OrdersInv, AtMostOne
    <3>3. e.type = "LoggedInAsReceiver"
      BY <2>3, <3>2, BusyTypes
    <3>4. client = "Receiver" /\ ~Has(events, Orders)
      BY <1>1, <3>3, RestElems DEF Expected, Clicked
    <3>5. First.type \in LogIns
      BY <1>3, <3>4, FirstElem DEF Has
    <3>6. client = "None"
      BY <1>1, <3>5, FirstElem DEF Expected
    <3> QED BY <3>4, <3>6
  <2>4. \A e \in Elems(pending) : e.type \notin Busy
    BY <1>2, <2>2 DEF Has, Busy
  <2> QED BY <2>2, <2>3, <2>4 DEF Has
<1>4. CASE /\ client # "None" /\ ~(client = "Receiver" /\ state = "Idle")
           /\ state = "RequestedChunk" /\ client = "Receiver" => IsBlock(First)
  <2>1. window.dialog = NoPath
    BY <1>4 DEF OrdersInv, Ready
  <2>2. ASSUME NEW e, e.type = "DownloadStopped", Expected(e),
               e \in Elems(pending) \/ \E i \in DOMAIN events : i # 1 /\ events[i] = e
        PROVE  FALSE
    <3>1. IsBlock(First) /\ events[1] = First /\ 1 \in DOMAIN events
      BY <1>4, <2>2, FirstElem DEF Expected
    <3>2. CASE e \in Elems(pending)
      <4>1. Has(pending, {"DownloadStopped"})
        BY <2>2, <3>2 DEF Has
      <4> QED BY <3>1, <4>1 DEF StopInv
    <3>3. ASSUME NEW i \in DOMAIN events, i # 1, events[i] = e PROVE FALSE
      <4>1. i \in Nat /\ 1 < i
        BY <3>3, FirstFacts
      <4> QED BY <2>2, <3>1, <3>3, <4>1 DEF StopInv
    <3> QED BY <2>2, <3>2, <3>3
  <2>3. ASSUME NEW e, Expected(e), e.type \in Busy PROVE e.type = "DownloadStopped"
    <3>1. e.type \notin LogIns
      BY <1>4, <2>3 DEF Expected
    <3>2. e.type \notin {"FileRequested", "FileResumed"}
      BY <1>4, <2>3 DEF Expected, Ready
    <3>3. e.type # "LoggedInAsReceiver"
      BY <1>4, <2>3 DEF Expected
    <3> QED BY <2>3, <3>1, <3>2, <3>3, BusyTypes
  <2>4. \A e \in Elems(Rest) : e.type \notin Busy
    BY <1>1, <2>2, <2>3, RestElems
  <2>5. \A e \in Elems(pending) : e.type \notin Busy
    BY <1>1, <2>2, <2>3
  <2> QED BY <2>1, <2>4, <2>5 DEF Has
<1> QED BY <1>3, <1>4

\* What a turn leaves of the orders.
LEMMA TurnOrders ==
    ASSUME TypeInv, events # <<>>, Turn, UNCHANGED pending, OrdersInv
    PROVE  /\ AtMostOne(events', LogIns \cup Orders)
           /\ ~(Has(events', LogIns \cup Orders) /\ Has(pending', LogIns \cup Orders))
           /\ \A e \in Elems(events') : e \in Elems(Rest) \/ e.type \notin LogIns \cup Orders
           /\ (client = "Receiver" /\ EnterTurn) \/
                 \A e \in Elems(events') : e \in Elems(Rest) \/ e.type \notin Busy
           /\ \A T \in SUBSET Orders :
                 /\ Has(events', T) <=> Has(Rest, T)
                 /\ Clicked(T)' => Clicked(T)
                 /\ First.type \notin T => (Clicked(T)' <=> Clicked(T))
<1>1. /\ events \in Seq(Event) /\ Rest \in Seq(Event)
      /\ \A T : Has(events, T) <=> First.type \in T \/ Has(Rest, T)
  BY FirstFacts
<1>2. Adds(Rest, events', Commands)
  BY TurnQueue
<1>3. LogIns \cup Orders \in SUBSET Commands /\ \A T \in SUBSET Orders : T \in SUBSET Commands
  BY DEF Commands
<1>4. AtMostOne(events', LogIns \cup Orders)
  <2>1. AtMostOne(events, LogIns \cup Orders)
    BY DEF OrdersInv
  <2>2. AtMostOne(Rest, LogIns \cup Orders)
    BY <1>1, <2>1, AtMostOneTail DEF Rest
  <2> QED BY <1>2, <1>3, <2>2, AddsFacts
<1>5. ~(Has(events', LogIns \cup Orders) /\ Has(pending', LogIns \cup Orders))
  <2>1. Has(events', LogIns \cup Orders) => Has(events, LogIns \cup Orders)
    BY <1>1, <1>2, <1>3, AddsFacts
  <2> QED BY <2>1 DEF OrdersInv
<1>6. \A e \in Elems(events') : e \in Elems(Rest) \/ e.type \notin Commands
  BY <1>2 DEF Adds, Elems
<1>7. (client = "Receiver" /\ EnterTurn) \/
         \A e \in Elems(events') : e \in Elems(Rest) \/ e.type \notin Busy
  <2>1. Busy \in SUBSET (Commands \cup {"LoggedInAsReceiver"})
    BY DEF Busy, Commands
  <2>2. CASE Adds(Rest, events', Commands \cup {"LoggedInAsReceiver"})
    BY <2>1, <2>2 DEF Adds, Elems
  <2> QED BY <2>2, TurnQueue
<1>8. ASSUME NEW T \in SUBSET Orders
      PROVE  /\ Has(events', T) <=> Has(Rest, T)
             /\ Clicked(T)' => Clicked(T)
             /\ First.type \notin T => (Clicked(T)' <=> Clicked(T))
  <2>1. Has(events', T) <=> Has(Rest, T)
    BY <1>2, <1>3, AddsFacts
  <2> QED BY <1>1, <2>1 DEF Clicked
<1> QED BY <1>3, <1>4, <1>5, <1>6, <1>7, <1>8

\* The orders that wait are expected as before.
LEMMA StillExpected ==
    ASSUME TypeInv, TypeInv', events # <<>>, Turn, UNCHANGED guiVars, OrdersInv,
           ~(client = "Receiver" /\ EnterTurn),
           client' = client, state' = state,
           received' = received \/ \E P \in SUBSET Path :
                                      received' = [p \in Path |-> IF p \in P THEN 0 ELSE received[p]]
    PROVE  OrdersInv'
<1>1. \A p \in Path : /\ Ready(p) => Ready(p)'
                      /\ Ready(p) /\ received[p] < ChunkCount[p] => received'[p] < ChunkCount[p]
  <2> SUFFICES ASSUME NEW p \in Path, Ready(p)
               PROVE  Ready(p)' /\ (received[p] < ChunkCount[p] => received'[p] < ChunkCount[p])
    OBVIOUS
  <2>1. received'[p] = 0 \/ received'[p] = received[p]
    OBVIOUS
  <2>2. Unknown # 0 /\ ChunkCount[p] > 0
    BY ClientAssumption DEF Ready
  <2>3. received'[p] # Unknown
    BY <2>1, <2>2 DEF Ready
  <2>4. received[p] < ChunkCount[p] => received'[p] < ChunkCount[p]
    BY <2>1, <2>2
  <2> QED BY <2>2, <2>3, <2>4 DEF Ready
<1>2. UNCHANGED <<window, pending>> /\ (Clicked(Orders)' => Clicked(Orders))
  BY TurnOrders DEF guiVars
<1>3. ASSUME NEW e \in Elems(events') \cup Elems(pending') PROVE Expected(e)'
  <2>1. CASE e.type \notin Busy
    BY <2>1, BusyTypes
  <2>2. CASE e.type \in Busy
    <3>1. e \in Elems(Rest) \/ e \in Elems(pending)
      BY <1>2, <2>2, TurnOrders
    <3>2. e \in Event /\ Expected(e)
      BY <3>1, RestElems, PendingElems DEF OrdersInv
    <3>3. e.type \in {"FileRequested", "FileResumed"} => e.path \in Path
      BY <3>2, EventFacts
    <3> QED BY <1>1, <1>2, <3>2, <3>3 DEF Expected
  <2> QED BY <2>1, <2>2
<1>4. window.dialog # NoPath =>
         /\ Ready(window.dialog)'
         /\ ~Clicked(LogIns \cup Orders \cup {"LoggedInAsReceiver"})'
  <2> SUFFICES ASSUME window.dialog # NoPath
               PROVE  /\ Ready(window.dialog)'
                      /\ ~Clicked(LogIns \cup Orders \cup {"LoggedInAsReceiver"})'
    OBVIOUS
  <2>1. window.dialog \in Path
    BY DEF TypeInv, WindowTypes, Window
  <2>2. Ready(window.dialog) /\ ~Has(events, Busy) /\ ~Has(pending, Busy)
    BY DEF OrdersInv, Busy, Clicked
  <2>3. ~Has(events', Busy)
    BY <1>2, <2>2, RestElems, TurnOrders DEF Has
  <2> QED BY <1>1, <1>2, <2>1, <2>2, <2>3 DEF Busy, Clicked
<1> QED BY <1>2, <1>3, <1>4, TurnOrders DEF OrdersInv

\* There are none.
LEMMA NoneExpected ==
    ASSUME TypeInv, events # <<>>, Turn, UNCHANGED guiVars, OrdersInv, window.dialog = NoPath,
           ~Has(Rest, Busy), ~Has(pending, Busy), ~(client = "Receiver" /\ EnterTurn)
    PROVE  OrdersInv'
<1>1. UNCHANGED <<window, pending>>
  BY DEF guiVars
<1>2. ASSUME NEW e \in Elems(events') \cup Elems(pending') PROVE Expected(e)'
  <2>1. e.type \notin Busy
    BY <1>1, TurnOrders DEF Has
  <2> QED BY <2>1, BusyTypes
<1> QED BY <1>1, <1>2, TurnOrders DEF OrdersInv

\* OrdersInv holds after a turn.
LEMMA OrdersTurn ==
    ASSUME TypeInv, TypeInv', events # <<>>, Turn, UNCHANGED guiVars, OrdersInv, StopInv
    PROVE  OrdersInv'
<1>1. Rest \in Seq(Event) /\ First \in Event /\ UNCHANGED <<window, pending>>
  BY FirstFacts DEF guiVars
<1>2. CASE /\ ~EnterTurn
           /\ \/ SendTurn \/ WelcomeTurn \/ DropTurn \/ StatusTurn \/ PassTurn \/ UploadTurn \/ CreatedTurn
  <2>1. UNCHANGED loopVars
    BY <1>2 DEF SendTurn, WelcomeTurn, DropTurn, StatusTurn, PassTurn, UploadTurn, CreatedTurn
  <2>2. client' = client /\ state' = state /\ received' = received
    BY <2>1 DEF loopVars
  <2> QED BY <1>2, <2>2, StillExpected
<1>3. CASE ~EnterTurn /\ MetaTurn
  <2>1. client' = client /\ state' = state
    BY <1>3 DEF MetaTurn
  <2>2. \E P \in SUBSET Path : received' = [p \in Path |-> IF p \in P THEN 0 ELSE received[p]]
    BY <1>3 DEF MetaTurn
  <2> QED BY <1>3, <2>1, <2>2, StillExpected
<1>4. CASE /\ ~EnterTurn
           /\ \/ (\E r \in {"Receiver", "Sender"} : LogInTurn(r)) \/ (\E p \in Path : StartTurn(p))
              \/ ChunkTurn \/ StopTurn
  <2>1. \/ First.type \in LogIns \cup Orders
        \/ client = "Receiver" /\ state = "RequestedChunk" /\ IsBlock(First)
    BY <1>4 DEF LogInTurn, StartTurn, ChunkTurn, StopTurn, Orders, IsBlock
  <2>2. ~Has(Rest, Busy) /\ ~Has(pending, Busy) /\ window.dialog = NoPath
    BY <2>1, NothingWaits
  <2> QED BY <1>4, <2>2, NoneExpected
<1>5. CASE EnterTurn
  <2>1. client # "None"
    BY <1>5 DEF EnterTurn
  <2>2. ~(client = "Receiver" /\ state \in {"Idle", "RequestedChunk"})
    BY <1>5 DEF EnterTurn
  <2>3. ~Has(Rest, Busy) /\ ~Has(pending, Busy) /\ window.dialog = NoPath
    BY <2>1, <2>2, NothingWaits
  <2>4. CASE client = "Receiver"
    <3>1. client' = "Receiver" /\ state' = "Idle"
      BY <1>5, <2>4 DEF EnterTurn
    <3>2. ~Has(Rest, Orders) /\ ~Has(pending, Orders)
      BY <2>3 DEF Has, Busy
    <3>3. ~Clicked(Orders)'
      BY <1>1, <3>2, TurnOrders DEF Clicked
    <3>4. ASSUME NEW e \in Elems(events') \cup Elems(pending') PROVE Expected(e)'
      <4>1. e.type \notin LogIns \cup Orders
        BY <1>1, <2>3, TurnOrders DEF Has, Busy
      <4>2. CASE e.type \notin Busy
        BY <4>2, BusyTypes
      <4>3. CASE e.type = "LoggedInAsReceiver"
        BY <3>1, <3>3, <4>1, <4>3, BusyTypes DEF Expected, Orders
      <4> QED BY <4>1, <4>2, <4>3, BusyTypes
    <3> QED BY <1>1, <2>3, <3>4, TurnOrders DEF OrdersInv
  <2>5. CASE client # "Receiver"
    BY <2>3, <2>5, NoneExpected
  <2> QED BY <2>4, <2>5
<1> QED BY <1>2, <1>3, <1>4, <1>5 DEF Turn

-----------------------------------------------------------------------------
(***************************************************************************)
(* As long as no click has crossed with anything.                          *)
(***************************************************************************)
\* StopInv holds after a turn, which puts neither blocks nor orders into the
\* event channel.
LEMMA StopsTurn ==
    ASSUME TypeInv, events # <<>>, Turn, UNCHANGED pending, StopInv
    PROVE  StopInv'
<1>1. Adds(Rest, events', {"ProcessMessage"}) /\ Adds(Rest, events', Commands)
  BY TurnNews, TurnQueue
<1>2. \A i \in DOMAIN Rest : i \in Nat /\ i + 1 \in DOMAIN events /\ Rest[i] = events[i + 1]
  BY FirstFacts, TailFacts DEF Rest
<1>3. ASSUME NEW j \in DOMAIN events', IsBlock(events'[j])
      PROVE  j \in Nat /\ j + 1 \in DOMAIN events /\ IsBlock(events[j + 1])
  <2>1. j \in DOMAIN Rest /\ events'[j] = Rest[j]
    BY <1>1, <1>3 DEF Adds, IsBlock
  <2> QED BY <1>2, <1>3, <2>1
<1>4. ASSUME NEW i \in DOMAIN events', events'[i].type = "DownloadStopped"
      PROVE  i \in Nat /\ i + 1 \in DOMAIN events /\ events[i + 1].type = "DownloadStopped"
  <2>1. "DownloadStopped" \in Commands
    BY DEF Commands, Orders
  <2>2. i \in DOMAIN Rest /\ events'[i] = Rest[i]
    BY <1>1, <1>4, <2>1 DEF Adds
  <2> QED BY <1>2, <1>4, <2>2
<1>5. ASSUME NEW i \in DOMAIN events', NEW j \in DOMAIN events', events'[i].type = "DownloadStopped",
             j < i, IsBlock(events'[j])
      PROVE  FALSE
  <2>1. i \in Nat /\ j \in Nat /\ i + 1 \in DOMAIN events /\ j + 1 \in DOMAIN events
    BY <1>3, <1>4, <1>5
  <2>2. j + 1 < i + 1
    BY <1>5, <2>1
  <2> QED BY <1>3, <1>4, <1>5, <2>1, <2>2 DEF StopInv
<1>6. ASSUME Has(pending, {"DownloadStopped"}), NEW j \in DOMAIN events', IsBlock(events'[j]) PROVE FALSE
  BY <1>3, <1>6 DEF StopInv
<1> QED BY <1>5, <1>6 DEF StopInv

\* It holds after an event, if a stop does not come behind a block.
LEMMA StopsAppend ==
    ASSUME events \in Seq(Event), NEW x \in Event, events' = Append(events, x), StopInv,
           x.type = "DownloadStopped" => \A j \in DOMAIN events : ~IsBlock(events[j]),
           Has(pending', {"DownloadStopped"}) => Has(pending, {"DownloadStopped"}) /\ ~IsBlock(x)
    PROVE  StopInv'
<1>1. /\ DOMAIN events = 1 .. Len(events) /\ Len(events) \in Nat
      /\ \A j \in DOMAIN events' : \/ j \in DOMAIN events /\ events'[j] = events[j]
                                   \/ j = Len(events) + 1 /\ events'[j] = x
  BY AppendFacts
<1>2. ASSUME NEW i \in DOMAIN events', NEW j \in DOMAIN events', events'[i].type = "DownloadStopped", j < i
      PROVE  ~IsBlock(events'[j])
  <2>1. j \in DOMAIN events /\ events'[j] = events[j]
    BY <1>1, <1>2
  <2>2. CASE i \in DOMAIN events /\ events'[i] = events[i]
    BY <1>2, <2>1, <2>2 DEF StopInv
  <2>3. CASE events'[i] = x
    BY <1>2, <2>1, <2>3
  <2> QED BY <1>1, <2>2, <2>3
<1>3. ASSUME Has(pending', {"DownloadStopped"}), NEW j \in DOMAIN events' PROVE ~IsBlock(events'[j])
  BY <1>1, <1>3 DEF StopInv
<1> QED BY <1>2, <1>3 DEF StopInv

\* The download that will be shown, after a turn.
LEMMA ShownTurn ==
    ASSUME TypeInv, TypeInv', events # <<>>, Turn, UNCHANGED guiVars, OrdersInv, StopInv,
           client = "None" => state = "Initializing",
           WillShow(events, notices, window, TheDownload, Shown)
    PROVE  WillShow(events', notices', window', TheDownload, Shown')
<1>1. /\ events \in Seq(Event) /\ Rest \in Seq(Event) /\ First \in Event /\ NoPath \notin Path
      /\ state' \in {"Initializing", "Idle", "RequestedChunk"}
      /\ UNCHANGED <<window, pending>>
  BY FirstFacts, ClientAssumption DEF TypeInv, LoopTypes, guiVars
<1>2. /\ Has(events', {"DownloadStopped"}) <=> Has(Rest, {"DownloadStopped"})
      /\ First.type # "DownloadStopped" => (Clicked({"DownloadStopped"})' <=> Clicked({"DownloadStopped"}))
  <2>1. {"DownloadStopped"} \in SUBSET Orders
    BY DEF Orders
  <2> QED BY <1>1, <2>1, TurnOrders
<1>3. StopTurn \/ StartsOrEnds => Shown' = IF state' = "RequestedChunk" THEN requesting' ELSE NoPath
  <2> SUFFICES ASSUME StopTurn \/ StartsOrEnds
               PROVE  Shown' = IF state' = "RequestedChunk" THEN requesting' ELSE NoPath
    OBVIOUS
  <2>1. \/ First.type \in LogIns \cup Orders
        \/ client = "Receiver" /\ state = "RequestedChunk" /\ IsBlock(First)
    BY DEF StopTurn, StartsOrEnds, StartTurn, ChunkTurn, Orders, IsBlock
  <2>2. ~Has(Rest, Busy) /\ ~Has(pending, Busy)
    BY <2>1, NothingWaits
  <2>3. ~Has(Rest, {"DownloadStopped"}) /\ ~Has(pending, {"DownloadStopped"})
    BY <2>2 DEF Has, Busy, Orders
  <2>4. ~Clicked({"DownloadStopped"})'
    BY <1>1, <1>2, <2>3 DEF Clicked
  <2> QED BY <2>4 DEF Shown
<1>4. TheDownload \in Shows3
  BY DEF Shows3
<1>5. CASE ~StartsOrEnds
  <2>1. Adds(Rest, events', {"FileStartedDownloading", "FileFinishedDownloading"})
    BY <1>5, TurnNews
  <2>2. \A e : About(e, TheDownload) => e.type \in {"FileStartedDownloading", "FileFinishedDownloading"}
    BY AboutTypes
  <2>3. Quiet(Rest, events', TheDownload)
    BY <2>1, <2>2, AddsQuiet
  <2>4. Shown' = Shown
    <3>1. CASE First.type = "DownloadStopped"
      <4>1. Clicked({"DownloadStopped"})
        BY <3>1, FirstElem DEF Has, Clicked
      <4>2. client = "Receiver" /\ state = "RequestedChunk"
        BY <3>1, FirstElem DEF OrdersInv, Expected
      <4>3. StopTurn
        BY <3>1, <4>2 DEF Turn, SendTurn, LogInTurn, WelcomeTurn, DropTurn, StatusTurn, EnterTurn,
              MetaTurn, ChunkTurn, PassTurn, StartTurn, UploadTurn, CreatedTurn, LogIns, Orders, Uploads
      <4> QED BY <1>3, <4>1, <4>3 DEF Shown, StopTurn
    <3>2. CASE First.type # "DownloadStopped"
      <4>1. Clicked({"DownloadStopped"})' <=> Clicked({"DownloadStopped"})
        BY <1>2, <3>2
      <4>3. \/ state' = state /\ requesting' = requesting
            \/ state' # "RequestedChunk" /\ state # "RequestedChunk"
        <5>1. CASE SendTurn \/ WelcomeTurn \/ DropTurn \/ StatusTurn \/ PassTurn \/ UploadTurn \/ CreatedTurn
          BY <5>1 DEF SendTurn, WelcomeTurn, DropTurn, StatusTurn, PassTurn, UploadTurn, CreatedTurn, loopVars
        <5>2. CASE \E r \in {"Receiver", "Sender"} : LogInTurn(r)
          <6>1. client = "None" /\ state' = "Initializing"
            BY <5>2, FirstElem DEF LogInTurn, OrdersInv, Expected
          <6> QED BY <6>1
        <5>3. CASE EnterTurn
          BY <5>3 DEF EnterTurn, TypeInv, LoopTypes
        <5>4. CASE MetaTurn
          BY <5>4 DEF MetaTurn
        <5>5. CASE ChunkTurn
          BY <1>5, <5>5 DEF ChunkTurn, StartsOrEnds
        <5>6. CASE StopTurn
          BY <3>2, <5>6 DEF StopTurn
        <5> QED BY <1>5, <5>1, <5>2, <5>3, <5>4, <5>5, <5>6 DEF Turn, StartsOrEnds
      <4> QED BY <4>1, <4>3 DEF Shown
    <3> QED BY <3>1, <3>2
  <2> QED BY <1>1, <1>4, <2>3, <2>4, ShowTurn
<1>6. ASSUME NEW p \in Path, StartTurn(p)
      PROVE  WillShow(events', notices', window', TheDownload, Shown')
  <2>1. PICK x \in Event : x = [type |-> "FileStartedDownloading", path |-> p]
    BY EventMakers
  <2>2. PICK r \in Seq(Event) : r = Append(Rest, Send([type |-> "RequestChunk"]))
    <3>1. Send([type |-> "RequestChunk"]) \in Event
      BY EventMakers, ToServerMakers
    <3> QED BY <1>1, <3>1, AppendFacts
  <2>3. events' = Append(r, x)
    BY <1>6, <2>1, <2>2 DEF StartTurn
  <2>4. About(x, TheDownload) /\ Says(x, TheDownload) = p
    BY <2>1, AboutTypes, SaysWhat
  <2>5. Shown' = p
    BY <1>3, <1>6 DEF StartTurn, StartsOrEnds
  <2> QED BY <2>3, <2>4, <2>5, ShowAppendEvent
<1>7. CASE ChunkTurn /\ state' = "Idle"
  <2>1. Update \in Event /\ [type |-> "FileFinishedDownloading"] \in Event
    BY EventMakers, StatusType
  <2>2. PICK u \in Event : u = Update
    BY <2>1
  <2>3. PICK x \in Event : x = [type |-> "FileFinishedDownloading"]
    BY <2>1
  <2>4. PICK r \in Seq(Event) : r = Append(Rest, x)
    BY <1>1, AppendFacts
  <2>5. events' = Append(r, u)
    BY <1>7, <2>2, <2>3, <2>4 DEF ChunkTurn
  <2>6. About(x, TheDownload) /\ Says(x, TheDownload) = NoPath
    BY <2>3, AboutTypes, SaysWhat
  <2>7. ~About(u, TheDownload)
    BY <2>2, AboutTypes DEF Update
  <2>8. WillShow(r, notices', window', TheDownload, NoPath)
    BY <1>1, <2>4, <2>6, ShowAppendEvent
  <2>9. Shown' = NoPath
    BY <1>3, <1>7 DEF StartsOrEnds
  <2> QED BY <2>5, <2>7, <2>8, <2>9, ShowAppendEvent
<1> QED BY <1>5, <1>6, <1>7 DEF StartsOrEnds

\* CalmInv holds after a turn.
LEMMA CalmTurn ==
    ASSUME TypeInv, TypeInv', events # <<>>, Turn, UNCHANGED guiVars, CalmInv
    PROVE  CalmInv'
<1>1. OrdersInv /\ OrdersInv' /\ StopInv /\ StopInv' /\ UNCHANGED <<window, pending>>
  <2>1. UNCHANGED <<window, pending>>
    BY DEF guiVars
  <2> QED BY <2>1, OrdersTurn, StopsTurn DEF CalmInv
<1>2. client' = "None" => state' = "Initializing"
  <2>1. CASE client' = client
    BY <2>1 DEF CalmInv, Turn, SendTurn, LogInTurn, WelcomeTurn, DropTurn, StatusTurn, EnterTurn,
              MetaTurn, ChunkTurn, PassTurn, StartTurn, StopTurn, UploadTurn, CreatedTurn, loopVars
  <2>2. CASE client' # client
    BY <2>2 DEF Turn, SendTurn, LogInTurn, WelcomeTurn, DropTurn, StatusTurn, EnterTurn,
              MetaTurn, ChunkTurn, PassTurn, StartTurn, StopTurn, UploadTurn, CreatedTurn, loopVars
  <2> QED BY <2>1, <2>2
<1>3. Entered => Entered'
  <2>1. CASE SendTurn \/ WelcomeTurn \/ DropTurn \/ StatusTurn \/ PassTurn \/ UploadTurn \/ CreatedTurn
    BY <2>1 DEF SendTurn, WelcomeTurn, DropTurn, StatusTurn, PassTurn, UploadTurn, CreatedTurn, loopVars, Entered
  <2>2. CASE \E r \in {"Receiver", "Sender"} : LogInTurn(r)
    <3>1. client = "None"
      BY <1>1, <2>2, FirstElem DEF LogInTurn, OrdersInv, Expected
    <3> QED BY <3>1 DEF Entered
  <2>3. CASE EnterTurn \/ MetaTurn \/ ChunkTurn \/ StopTurn
    BY <2>3 DEF EnterTurn, MetaTurn, ChunkTurn, StopTurn, Entered
  <2>4. CASE \E p \in Path : StartTurn(p)
    BY <2>4 DEF StartTurn, Entered
  <2> QED BY <2>1, <2>2, <2>3, <2>4 DEF Turn
<1>4. window'.screen = "ReceiverScreen" \/ Has(notices', {"LoggedInAsReceiver"}) => Entered'
  <2>1. CASE WelcomeTurn
    <3>1. client = "Receiver" /\ state = "Idle"
      BY <1>1, <2>1, FirstElem DEF WelcomeTurn, OrdersInv, Expected
    <3> QED BY <1>3, <3>1 DEF Entered
  <2>2. CASE PassTurn \/ Adds(notices, notices', ReceiverNews)
    <3>1. Has(notices', {"LoggedInAsReceiver"}) => Has(notices, {"LoggedInAsReceiver"})
      <4>1. CASE PassTurn
        <5>1. notices \in Seq(Notice) /\ First \in Notice /\ notices' = Append(notices, First)
              /\ First.type # "LoggedInAsReceiver"
          BY <4>1, FirstFacts, EventFacts DEF PassTurn, TypeInv, QueueTypes
        <5> QED BY <5>1, HasInAppend
      <4>2. CASE Adds(notices, notices', ReceiverNews)
        <5>1. {"LoggedInAsReceiver"} \in SUBSET ReceiverNews
          BY DEF ReceiverNews
        <5> QED BY <4>2, <5>1, AddsFacts
      <4> QED BY <2>2, <4>1, <4>2
    <3> QED BY <1>1, <1>3, <3>1 DEF CalmInv
  <2> QED BY <2>1, <2>2, TurnNotices
<1>5. WillShow(events', notices', window', TheDownload, Shown')
  BY <1>1, ShownTurn DEF CalmInv
<1> QED BY <1>1, <1>2, <1>4, <1>5 DEF CalmInv

\* An event that every client expects changes nothing.
LEMMA OrdersAdded ==
    ASSUME TypeInv, TypeInv', OrdersInv, UNCHANGED <<client, state, received>>,
           window'.dialog \in {window.dialog, NoPath},
           UNCHANGED events \/ \E x \in Event : x.type \notin Busy /\ events' = Append(events, x),
           UNCHANGED pending \/ \E x \in UserEvent : x.type \notin Busy /\ pending' = Append(pending, x)
    PROVE  /\ OrdersInv'
           /\ \A T \in SUBSET Busy : Clicked(T)' <=> Clicked(T)
<1>1. events \in Seq(Event) /\ pending \in Seq(UserEvent)
  BY DEF TypeInv, QueueTypes, WindowTypes
<1>2. Adds(events, events', Busy) /\ Adds(pending, pending', Busy)
  BY <1>1, AddsAppend, AddsNothing
<1>3. \A T \in SUBSET Busy : (Has(events', T) <=> Has(events, T)) /\ (Has(pending', T) <=> Has(pending, T))
  BY <1>2, AddsFacts
<1>4. \A T \in SUBSET Busy : Clicked(T)' <=> Clicked(T)
  BY <1>3 DEF Clicked
<1>5. LogIns \cup Orders \in SUBSET Busy /\ Orders \in SUBSET Busy
      /\ LogIns \cup Orders \cup {"LoggedInAsReceiver"} \in SUBSET Busy
  BY DEF Busy
<1>6. AtMostOne(events', LogIns \cup Orders) /\ AtMostOne(pending', LogIns \cup Orders)
  BY <1>2, <1>5, AddsFacts DEF OrdersInv
<1>7. ~(Has(events', LogIns \cup Orders) /\ Has(pending', LogIns \cup Orders))
  BY <1>3, <1>5 DEF OrdersInv
<1>8. ASSUME NEW e \in Elems(events') \cup Elems(pending') PROVE Expected(e)'
  <2>1. CASE e.type \notin Busy
    BY <2>1, BusyTypes
  <2>2. CASE e.type \in Busy
    <3>1. e \in Elems(events) \cup Elems(pending)
      BY <1>2, <2>2 DEF Adds, Elems
    <3>2. Expected(e)
      BY <3>1 DEF OrdersInv
    <3>3. Clicked(Orders)' <=> Clicked(Orders)
      BY <1>4, <1>5
    <3> QED BY <3>2, <3>3 DEF Expected, Ready
  <2> QED BY <2>1, <2>2
<1>9. window'.dialog # NoPath =>
         /\ Ready(window.dialog)'
         /\ ~Clicked(LogIns \cup Orders \cup {"LoggedInAsReceiver"})'
  BY <1>4, <1>5 DEF OrdersInv, Ready
<1> QED BY <1>4, <1>6, <1>7, <1>8, <1>9 DEF OrdersInv

\* CalmInv holds after the steps of the others.
LEMMA CalmOthers ==
    ASSUME TypeInv, TypeInv', ConnectStep \/ ReadStep \/ TaskStep \/ PushStep \/ GuiStep, CalmInv,
           ~crossed'
    PROVE  CalmInv'
<1>1. /\ UNCHANGED <<client, state, received, requesting, pending>>
      /\ notices \in Seq(Notice) /\ events \in Seq(Event)
  BY DEF ConnectStep, ReadStep, TaskStep, PushStep, GuiStep, loopVars, guiVars, TypeInv, QueueTypes
<1>2. UNCHANGED events \/ \E x \in Event : x.type \notin Busy /\ events' = Append(events, x)
  <2>1. "ProcessMessage" \notin Busy /\ "MetaCreated" \notin Busy /\ "MetaCreationError" \notin Busy
    BY DEF Busy, LogIns, Orders
  <2>2. CASE ReadStep
    BY <2>1, <2>2, ReadEvent
  <2>3. CASE TaskStep
    BY <2>1, <2>3, TaskEvent
  <2>4. CASE ConnectStep \/ PushStep \/ GuiStep
    BY <2>4 DEF ConnectStep, PushStep, GuiStep
  <2> QED BY <2>2, <2>3, <2>4
<1>3. window'.dialog = window.dialog
  BY DEF ConnectStep, ReadStep, TaskStep, PushStep, GuiStep, RestShown, guiVars
<1>4. OrdersInv' /\ (Clicked({"DownloadStopped"})' <=> Clicked({"DownloadStopped"}))
  <2>1. {"DownloadStopped"} \in SUBSET Busy
    BY DEF Busy, Orders
  <2> QED BY <1>1, <1>2, <1>3, <2>1, OrdersAdded DEF CalmInv
<1>5. Shown' = Shown
  BY <1>1, <1>4 DEF Shown
<1>6. StopInv'
  <2>1. CASE ReadStep
    <3>1. PICK x \in Event : /\ x = [type |-> "ProcessMessage", message |-> Head(down)]
                             /\ events' = Append(events, x)
      BY <2>1, ReadEvent
    <3>2. x.type # "DownloadStopped" /\ x.message = Head(down)
      BY <3>1
    <3>3. Has(pending', {"DownloadStopped"}) => Has(pending, {"DownloadStopped"}) /\ ~IsBlock(x)
      BY <1>1, <2>1, <3>2 DEF ReadStep, IsBlock
    <3> QED BY <1>1, <3>1, <3>2, <3>3, StopsAppend DEF CalmInv
  <2>2. ASSUME NEW x \in Event, x.type \in {"MetaCreated", "MetaCreationError"}, events' = Append(events, x)
        PROVE  StopInv'
    <3>1. x.type # "DownloadStopped" /\ ~IsBlock(x)
      BY <2>2 DEF IsBlock
    <3> QED BY <1>1, <2>2, <3>1, StopsAppend DEF CalmInv
  <2>3. CASE UNCHANGED events
    BY <1>1, <2>3 DEF CalmInv, StopInv
  <2> QED BY <2>1, <2>2, <2>3, TaskEvent DEF ConnectStep, PushStep, GuiStep
<1>7. WillShow(events', notices', window', TheDownload, Shown')
  BY <1>5, ShowOthers DEF CalmInv, Shows3
<1>8. window'.screen = "ReceiverScreen" \/ Has(notices', {"LoggedInAsReceiver"})
      => window.screen = "ReceiverScreen" \/ Has(notices, {"LoggedInAsReceiver"})
  <2>1. CASE ConnectStep
    <3>1. PICK n \in Notice : n.type = "ConnectionStatusChanged" /\ notices' = Append(notices, n)
      BY <2>1 DEF ConnectStep
    <3>2. UNCHANGED window
      BY <2>1 DEF ConnectStep, guiVars
    <3> QED BY <1>1, <3>1, <3>2, HasInAppend
  <2>2. CASE GuiStep
    <3>1. /\ notices # <<>> /\ notices' = Tail(notices)
          /\ window'.screen = "ReceiverScreen" =>
                Head(notices).type = "LoggedInAsReceiver" \/ window.screen = "ReceiverScreen"
      BY <2>2 DEF GuiStep, RestShown
    <3>2. Has(notices, {"LoggedInAsReceiver"}) <=>
             Head(notices).type = "LoggedInAsReceiver" \/ Has(Tail(notices), {"LoggedInAsReceiver"})
      BY <1>1, <3>1, HasInTail
    <3> QED BY <3>1, <3>2
  <2>3. CASE ReadStep \/ TaskStep \/ PushStep
    BY <2>3 DEF ReadStep, TaskStep, PushStep, guiVars
  <2> QED BY <2>1, <2>2, <2>3
<1> QED BY <1>1, <1>4, <1>6, <1>7, <1>8 DEF CalmInv, Entered

LEMMA StatusReads ==
    ASSUME TypeInv, NEW p \in Path
    PROVE  /\ Status(p) = "NotDownloaded" => received[p] # Unknown
           /\ Status(p) = "Downloading" =>
                 received[p] # Unknown /\ received[p] < ChunkCount[p] /\ ChunkCount[p] > 0
<1>1. /\ received[p] \in {Unknown} \cup 0 .. ChunkCount[p] /\ Unknown \notin Int
      /\ ChunkCount[p] \in Nat
  BY ClientAssumption DEF TypeInv, LoopTypes
<1>2. CASE received[p] = Unknown
  <2>1. Status(p) = "Absent"
    BY <1>1, <1>2 DEF Status
  <2> QED BY <2>1
<1>3. CASE received[p] = 0
  <2>1. Status(p) = "NotDownloaded"
    BY <1>1, <1>3 DEF Status
  <2> QED BY <1>1, <1>3, <2>1
<1>4. CASE received[p] \in 1 .. ChunkCount[p] - 1
  BY <1>1, <1>4
<1>5. CASE received[p] # Unknown /\ received[p] # 0 /\ received[p] \notin 1 .. ChunkCount[p] - 1
  <2>1. Status(p) = "Downloaded"
    BY <1>5 DEF Status
  <2> QED BY <2>1
<1> QED BY <1>2, <1>3, <1>4, <1>5

\* One order for a client that expects it.
LEMMA OrderGiven ==
    ASSUME TypeInv, OrdersInv, ~Clicked(Busy), NEW e \in UserEvent, Expected(e),
           e.type \in LogIns \cup Orders, pending' = Append(pending, e),
           UNCHANGED <<events, client, state, received>>, window'.dialog = NoPath
    PROVE  OrdersInv'
<1>1. pending \in Seq(UserEvent) /\ Elems(pending') = Elems(pending) \cup {e}
  BY ElemsOfAppend DEF TypeInv, WindowTypes
<1>2. ASSUME NEW x \in Elems(events') \cup Elems(pending') PROVE Expected(x)'
  <2>1. CASE x = e
    <3>1. e.type # "LoggedInAsReceiver"
      BY DEF LogIns, Orders
    <3> QED BY <2>1, <3>1 DEF Expected, Ready
  <2>2. CASE x \in Elems(events) \cup Elems(pending)
    BY <2>2, BusyTypes DEF Has, Clicked
  <2> QED BY <1>1, <2>1, <2>2
<1>3. ~Has(events, LogIns \cup Orders) /\ ~Has(pending, LogIns \cup Orders)
  BY DEF Has, Busy, Clicked
<1>4. AtMostOne(pending', LogIns \cup Orders)
  BY <1>1, <1>3, AtMostOneAppend DEF OrdersInv
<1> QED BY <1>2, <1>3, <1>4 DEF OrdersInv

\* What the user sees when the window has caught up.
LEMMA CaughtUp ==
    ASSUME TypeInv, CalmInv, FilesInv, ~Behind
    PROVE  /\ events = <<>> /\ pending = <<>> /\ notices = <<>> /\ \A T : ~Clicked(T)
           /\ window.downloading = NoPath => state # "RequestedChunk"
           /\ window.downloading # NoPath => state = "RequestedChunk" /\ client = "Receiver"
           /\ window.screen = "ReceiverScreen" /\ window.downloading = NoPath =>
                 /\ client = "Receiver" /\ state = "Idle"
                 /\ \A p \in Path : window.files[p] = Status(p)
<1>1. events = <<>> /\ pending = <<>> /\ notices = <<>> /\ \A T : ~Clicked(T)
  BY HasInEmpty DEF Behind, Clicked
<1>2. /\ NoPath \notin Path /\ state \in {"Initializing", "Idle", "RequestedChunk"}
      /\ state = "RequestedChunk" => client = "Receiver" /\ requesting \in Path
  BY ClientAssumption DEF TypeInv, LoopTypes
<1>3. window.downloading = Shown
  <2>1. WillShow(<<>>, <<>>, window, TheDownload, Shown)
    BY <1>1 DEF CalmInv
  <2> QED BY <2>1, ShowAtEnd, SeenWhat
<1>4. /\ window.downloading = NoPath => state # "RequestedChunk"
      /\ window.downloading # NoPath => state = "RequestedChunk" /\ client = "Receiver"
  BY <1>1, <1>2, <1>3 DEF Shown
<1>5. ASSUME window.screen = "ReceiverScreen", window.downloading = NoPath
      PROVE  /\ client = "Receiver" /\ state = "Idle"
             /\ \A p \in Path : window.files[p] = Status(p)
  <2>1. client = "Receiver" /\ state = "Idle"
    BY <1>2, <1>4, <1>5 DEF CalmInv, Entered
  <2>2. ASSUME NEW p \in Path PROVE window.files[p] = Status(p)
    <3>1. WillShow(<<>>, <<>>, window, TheFile(p), Status(p))
      BY <1>1, <1>5, <2>1 DEF FilesInv
    <3> QED BY <3>1, ShowAtEnd, SeenWhat
  <2> QED BY <2>1, <2>2
<1> QED BY <1>1, <1>4, <1>5

\* CalmInv holds after the user has done something, if that crossed with
\* nothing.
LEMMA CalmUser ==
    ASSUME TypeInv, TypeInv', UserStep, CalmInv, FilesInv, ~crossed'
    PROVE  CalmInv'
<1>1. /\ UNCHANGED <<client, state, received, requesting, events, notices>>
      /\ window'.screen = window.screen /\ OrdersInv /\ StopInv /\ NoPath \notin Path
      /\ pending \in Seq(UserEvent) /\ TheDownload \in Shows3
  BY ClientAssumption DEF UserStep, SameShown, loopVars, CalmInv, TypeInv, WindowTypes, Shows3
<1>2. /\ client' = "None" => state' = "Initializing"
      /\ window'.screen = "ReceiverScreen" \/ Has(notices', {"LoggedInAsReceiver"}) => Entered'
  BY <1>1 DEF CalmInv, Entered
<1>3. ASSUME OrdersInv', window'.downloading = window.downloading,
             Has(pending', {"DownloadStopped"}) <=> Has(pending, {"DownloadStopped"})
      PROVE  CalmInv'
  <2>1. Shown' = Shown
    BY <1>1, <1>3 DEF Shown, Clicked
  <2>2. WillShow(events', notices', window', TheDownload, Shown')
    BY <1>1, <1>3, <2>1, ShowUser DEF CalmInv
  <2>3. StopInv'
    BY <1>1, <1>3 DEF StopInv
  <2> QED BY <1>2, <1>3, <2>2, <2>3 DEF CalmInv
<1>4. \A e \in UserEvent : e.type # "DownloadStopped" /\ pending' = Append(pending, e) =>
         (Has(pending', {"DownloadStopped"}) <=> Has(pending, {"DownloadStopped"}))
  BY <1>1, HasInAppend
<1>5. CASE UploadClick
  <2>1. window'.dialog = window.dialog /\ window'.downloading = window.downloading
    BY <1>5 DEF UploadClick
  <2>2. PICK e \in UserEvent : e.type \in Uploads /\ pending' = Append(pending, e)
    BY <1>5 DEF UploadClick
  <2>3. e.type \notin Busy /\ e.type # "DownloadStopped"
    BY <2>2 DEF Busy, Orders, LogIns, Uploads
  <2>4. OrdersInv'
    BY <1>1, <2>1, <2>2, <2>3, OrdersAdded
  <2> QED BY <1>3, <1>4, <2>1, <2>2, <2>3, <2>4
<1>6. CASE OtherClick
  <2>1. /\ window'.dialog \in {window.dialog, NoPath} /\ window'.downloading = window.downloading
        /\ UNCHANGED pending
    BY <1>6 DEF OtherClick
  <2>2. OrdersInv'
    BY <1>1, <2>1, OrdersAdded
  <2> QED BY <1>3, <2>1, <2>2
<1>7. ASSUME NEW p \in Path, OpenClick(p) PROVE CalmInv'
  <2>1. /\ ~Behind /\ window.downloading = NoPath /\ ChunkCount[p] # 0
        /\ window.screen = "ReceiverScreen" /\ window.files[p] = "NotDownloaded"
        /\ window'.dialog = p /\ window'.downloading = window.downloading /\ UNCHANGED pending
    BY <1>7 DEF OpenClick
  <2>2. /\ \A T : ~Clicked(T)
        /\ client = "Receiver" /\ state = "Idle" /\ Status(p) = "NotDownloaded"
    BY <2>1, CaughtUp
  <2>3. Ready(p)
    BY <2>1, <2>2, StatusReads, ClientAssumption DEF Ready
  <2>4. OrdersInv'
    <3>1. \A e \in Elems(events') \cup Elems(pending') : FALSE
      <4>1. events' = <<>> /\ pending' = <<>>
        BY <1>1, <2>1, CaughtUp
      <4>2. DOMAIN <<>> = {}
        OBVIOUS
      <4> QED BY <4>1, <4>2 DEF Elems
    <3>2. /\ AtMostOne(events', LogIns \cup Orders) /\ AtMostOne(pending', LogIns \cup Orders)
          /\ ~(Has(events', LogIns \cup Orders) /\ Has(pending', LogIns \cup Orders))
      BY <1>1, <2>1 DEF OrdersInv
    <3>3. Ready(window.dialog)' /\ ~Clicked(LogIns \cup Orders \cup {"LoggedInAsReceiver"})'
      BY <1>1, <2>1, <2>2, <2>3 DEF Ready, Clicked
    <3> QED BY <3>1, <3>2, <3>3 DEF OrdersInv
  <2> QED BY <1>3, <2>1, <2>4
<1>8. ASSUME NEW p \in Path, SaveClick(p) PROVE CalmInv'
  <2>1. /\ window.dialog = p /\ window'.dialog = NoPath /\ window'.downloading = window.downloading
        /\ pending' = Append(pending, [type |-> "FileRequested", path |-> p])
    BY <1>8 DEF SaveClick
  <2>2. Ready(p) /\ ~Clicked(Busy)
    BY <1>1, <2>1 DEF OrdersInv, Busy
  <2>3. PICK e \in UserEvent : e = [type |-> "FileRequested", path |-> p]
    BY UserEventMakers
  <2>4. Expected(e) /\ e.type \in LogIns \cup Orders /\ e.type # "DownloadStopped"
    BY <2>2, <2>3 DEF Expected, LogIns, Orders
  <2>5. OrdersInv'
    BY <1>1, <2>1, <2>2, <2>3, <2>4, OrderGiven
  <2> QED BY <1>3, <1>4, <2>1, <2>3, <2>4, <2>5
<1>9. ASSUME NEW p \in Path, ResumeClick(p) PROVE CalmInv'
  <2>1. /\ ~Behind /\ window.downloading = NoPath /\ window.screen = "ReceiverScreen"
        /\ window.dialog = NoPath /\ window.files[p] = "Downloading" /\ UNCHANGED window
        /\ pending' = Append(pending, [type |-> "FileResumed", path |-> p])
    BY <1>9 DEF ResumeClick
  <2>2. /\ \A T : ~Clicked(T)
        /\ client = "Receiver" /\ state = "Idle" /\ Status(p) = "Downloading"
    BY <2>1, CaughtUp
  <2>3. Ready(p) /\ received[p] < ChunkCount[p]
    BY <2>2, StatusReads DEF Ready
  <2>4. PICK e \in UserEvent : e = [type |-> "FileResumed", path |-> p]
    BY UserEventMakers
  <2>5. Expected(e) /\ e.type \in LogIns \cup Orders /\ e.type # "DownloadStopped"
    BY <2>3, <2>4 DEF Expected, LogIns, Orders
  <2>6. OrdersInv'
    BY <1>1, <2>1, <2>2, <2>4, <2>5, OrderGiven
  <2> QED BY <1>3, <1>4, <2>1, <2>4, <2>5, <2>6
<1>10. CASE LogInClick
  <2>1. ~Behind /\ client = "None" /\ window.dialog = NoPath /\ UNCHANGED window
    BY <1>10 DEF LogInClick
  <2>2. PICK t \in LogIns : pending' = Append(pending, [type |-> t])
    BY <1>10 DEF LogInClick
  <2>3. PICK e \in UserEvent : e = [type |-> t]
    BY UserEventMakers
  <2>4. Expected(e) /\ e.type \in LogIns \cup Orders /\ e.type # "DownloadStopped"
    BY <2>1, <2>3 DEF Expected, LogIns
  <2>5. \A T : ~Clicked(T)
    BY <2>1, CaughtUp
  <2>6. OrdersInv'
    BY <1>1, <2>1, <2>2, <2>3, <2>4, <2>5, OrderGiven
  <2> QED BY <1>3, <1>4, <2>1, <2>2, <2>3, <2>4, <2>6
<1>11. CASE StopClick
  <2>1. /\ ~Behind /\ window.downloading # NoPath
        /\ window'.dialog = NoPath /\ window'.downloading = NoPath
        /\ pending' = Append(pending, [type |-> "DownloadStopped"])
    BY <1>11 DEF StopClick
  <2>2. PICK e \in UserEvent : e = [type |-> "DownloadStopped"]
    BY UserEventMakers
  <2>3. /\ events = <<>> /\ notices = <<>> /\ \A T : ~Clicked(T)
        /\ state = "RequestedChunk" /\ client = "Receiver"
    BY <2>1, CaughtUp
  <2>4. Expected(e) /\ e.type \in LogIns \cup Orders
    BY <2>2, <2>3 DEF Expected, LogIns, Orders
  <2>5. OrdersInv'
    BY <1>1, <2>1, <2>2, <2>3, <2>4, OrderGiven
  <2>6. StopInv'
    <3>1. events' = <<>> /\ DOMAIN <<>> = {}
      BY <1>1, <2>3
    <3> QED BY <3>1 DEF StopInv
  <2>7. Shown' = NoPath
    <3>1. Has(pending', {"DownloadStopped"})
      BY <1>1, <2>1, <2>2, HasInAppend
    <3> QED BY <3>1 DEF Shown, Clicked
  <2>8. WillShow(events', notices', window', TheDownload, NoPath)
    <3>1. Silent(events', TheDownload) /\ Silent(notices', TheDownload)
      BY <1>1, <2>3, NewsInEmpty
    <3>2. Seen(window', TheDownload) = NoPath
      BY <2>1, SeenWhat
    <3> QED BY <3>1, <3>2 DEF WillShow
  <2> QED BY <1>2, <2>5, <2>6, <2>7, <2>8 DEF CalmInv
<1> QED BY <1>5, <1>6, <1>7, <1>8, <1>9, <1>10, <1>11 DEF UserStep

\* CalmInv holds after a click has been sent.
LEMMA CalmSend ==
    ASSUME TypeInv, SendStep, CalmInv
    PROVE  CalmInv'
<1>1. /\ UNCHANGED <<client, state, received, requesting, notices, window>>
      /\ pending # <<>> /\ pending' = Tail(pending) /\ window.dialog = NoPath
      /\ events \in Seq(Event) /\ pending \in Seq(UserEvent) /\ OrdersInv /\ StopInv
  BY DEF SendStep, loopVars, TypeInv, QueueTypes, WindowTypes, CalmInv
<1>2. PICK e \in Event : e = Head(pending) /\ events' = Append(events, e)
  BY SendEvents
<1>3. /\ Elems(events') = Elems(events) \cup {e}
      /\ Elems(pending) = {e} \cup Elems(pending')
  BY <1>1, <1>2, ElemsOfAppend, ElemsOfTail
<1>4. \A T : /\ Clicked(T)' <=> Clicked(T)
             /\ Has(events', T) <=> Has(events, T) \/ e.type \in T
             /\ Has(pending, T) <=> e.type \in T \/ Has(pending', T)
  BY <1>3 DEF Clicked, Has
<1>5. OrdersInv'
  <2>1. ASSUME NEW x \in Elems(events') \cup Elems(pending') PROVE Expected(x)'
    <3>1. Expected(x)
      BY <1>1, <1>3, <2>1 DEF OrdersInv
    <3> QED BY <1>1, <1>4, <3>1 DEF Expected, Ready
  <2>2. AtMostOne(events', LogIns \cup Orders)
    BY <1>1, <1>2, <1>4, AtMostOneAppend DEF OrdersInv
  <2>3. /\ AtMostOne(pending', LogIns \cup Orders)
        /\ e.type \in LogIns \cup Orders => ~Has(pending', LogIns \cup Orders)
    BY <1>1, <1>2, AtMostOneTail DEF OrdersInv
  <2>4. ~(Has(events', LogIns \cup Orders) /\ Has(pending', LogIns \cup Orders))
    BY <1>1, <1>4, <2>3 DEF OrdersInv
  <2> QED BY <1>1, <2>1, <2>2, <2>3, <2>4 DEF OrdersInv
<1>6. StopInv'
  <2>1. e.type = "DownloadStopped" => \A j \in DOMAIN events : ~IsBlock(events[j])
    BY <1>1, <1>4 DEF StopInv
  <2>2. ~IsBlock(e)
    BY <1>3, PendingElems
  <2> QED BY <1>1, <1>2, <1>4, <2>1, <2>2, StopsAppend
<1>7. Shown' = Shown
  BY <1>1, <1>4 DEF Shown
<1>8. WillShow(events', notices', window', TheDownload, Shown')
  BY <1>7, ShowSend DEF CalmInv, Shows3
<1> QED BY <1>1, <1>5, <1>6, <1>8 DEF CalmInv, Entered

-----------------------------------------------------------------------------
(***************************************************************************)
(* The names of files to upload.                                           *)
(***************************************************************************)
LEMMA NamesTurn ==
    ASSUME TypeInv, events # <<>>, Turn, UNCHANGED pending, NamesInv
    PROVE  NamesInv'
<1>1. Adds(Rest, events', Commands) /\ "UploadMeta" \in Commands
  BY TurnQueue DEF Commands, Uploads
<1>2. \A e \in Elems(events') : e \in Elems(events) \/ e.type # "UploadMeta"
  BY <1>1, RestElems DEF Adds, Elems
<1> QED BY <1>2 DEF NamesInv

LEMMA NamesOthers ==
    ASSUME TypeInv, ConnectStep \/ ReadStep \/ TaskStep \/ PushStep \/ GuiStep, NamesInv
    PROVE  NamesInv'
<1>1. UNCHANGED pending /\ events \in Seq(Event)
  BY DEF ConnectStep, ReadStep, TaskStep, PushStep, GuiStep, guiVars, TypeInv, QueueTypes
<1>2. UNCHANGED events \/ \E x \in Event : x.type # "UploadMeta" /\ events' = Append(events, x)
  BY ReadEvent, TaskEvent DEF ConnectStep, PushStep, GuiStep
<1>3. \A e \in Elems(events') : e \in Elems(events) \/ e.type # "UploadMeta"
  <2>1. \A x \in Event : Elems(Append(events, x)) = Elems(events) \cup {x}
    BY <1>1, ElemsOfAppend
  <2> QED BY <1>2, <2>1
<1> QED BY <1>1, <1>3 DEF NamesInv

LEMMA NamesUser ==
    ASSUME TypeInv, UserStep, NamesInv, ~nameless'
    PROVE  NamesInv'
<1>1. UNCHANGED events /\ pending \in Seq(UserEvent)
  BY DEF UserStep, TypeInv, WindowTypes
<1>2. \/ UNCHANGED pending
      \/ \E e \in UserEvent : /\ pending' = Append(pending, e)
                              /\ e.type = "UploadMeta" => e.local # "Nameless"
  <2>1. CASE LogInClick \/ StopClick
    <3>1. PICK t \in LogIns \cup {"DownloadStopped"} : pending' = Append(pending, [type |-> t])
      BY <2>1 DEF LogInClick, StopClick
    <3>2. PICK e \in UserEvent : e = [type |-> t]
      BY UserEventMakers
    <3>3. e.type # "UploadMeta"
      BY <3>2 DEF LogIns
    <3> QED BY <3>1, <3>2, <3>3
  <2>2. ASSUME NEW p \in Path, SaveClick(p) \/ ResumeClick(p)
        PROVE  \E e \in UserEvent : pending' = Append(pending, e) /\ e.type # "UploadMeta"
    <3>1. PICK t \in {"FileRequested", "FileResumed"} : pending' = Append(pending, [type |-> t, path |-> p])
      BY <2>2 DEF SaveClick, ResumeClick
    <3>2. PICK e \in UserEvent : e = [type |-> t, path |-> p]
      BY UserEventMakers
    <3> QED BY <3>1, <3>2
  <2>3. CASE UploadClick
    BY <2>3 DEF UploadClick
  <2>4. CASE OtherClick \/ \E p \in Path : OpenClick(p)
    BY <2>4 DEF OtherClick, OpenClick
  <2> QED BY <2>1, <2>2, <2>3, <2>4 DEF UserStep
<1>3. \A e \in Elems(pending') : e \in Elems(pending) \/ (e.type = "UploadMeta" => e.local # "Nameless")
  <2>1. \A x \in UserEvent : Elems(Append(pending, x)) = Elems(pending) \cup {x}
    BY <1>1, ElemsOfAppend
  <2> QED BY <1>2, <2>1
<1> QED BY <1>1, <1>3 DEF NamesInv

LEMMA NamesSend ==
    ASSUME TypeInv, SendStep, NamesInv
    PROVE  NamesInv'
<1>1. events \in Seq(Event) /\ pending \in Seq(UserEvent) /\ pending # <<>> /\ pending' = Tail(pending)
  BY DEF SendStep, TypeInv, QueueTypes, WindowTypes
<1>2. PICK e \in Event : e = Head(pending) /\ events' = Append(events, e)
  BY SendEvents
<1>3. /\ Elems(events') = Elems(events) \cup {e}
      /\ Elems(pending) = {e} \cup Elems(pending')
  BY <1>1, <1>2, ElemsOfAppend, ElemsOfTail
<1> QED BY <1>3 DEF NamesInv

-----------------------------------------------------------------------------
(***************************************************************************)
(* Panics.                                                                 *)
(***************************************************************************)
\* A handler panics when a click crossed with something, for want of a file
\* name, or for want of a connection.
LEMMA PanicTurn ==
    ASSUME TypeInv, event_processor_task, logic' = "Panicked", ~crossed => OrdersInv,
           ~nameless => NamesInv
    PROVE  crossed \/ nameless \/ link' = "cut"
<1> SUFFICES ASSUME OrdersInv, NamesInv, link' # "cut" PROVE FALSE
  OBVIOUS
<1>1. /\ logic = "Running" /\ events # <<>> /\ First \in Event
      /\ \A p \in Path : ChunkCount[p] \in Nat
  BY TurnCases, FirstFacts, ClientAssumption
<1>2. Expected(First)
  BY <1>1, FirstElem DEF OrdersInv
<1>3. ~Quietly
  BY <1>1 DEF Quietly
<1>4. ASSUME First.type = "SendMessage", SendMessage(First.message) PROVE FALSE
  BY <1>3, <1>4 DEF SendMessage, serverVars
<1>5. ASSUME NEW r, LogIn(r) PROVE FALSE
  BY <1>3, <1>5 DEF LogIn
<1>6. ASSUME First.type = "LoggedInAsReceiver", LoggedInAsReceiver(First.files) PROVE FALSE
  BY <1>1, <1>2, <1>6 DEF LoggedInAsReceiver, Expected
<1>7. ASSUME ProcessMessage(First.message) PROVE FALSE
  BY <1>3, <1>7 DEF ProcessMessage
<1>8. ASSUME PassOn(First) PROVE FALSE
  BY <1>1, <1>8 DEF PassOn
<1>9. ASSUME First.type = "FileRequested", FileRequested(First.path) PROVE FALSE
  <2>1. First.path \in Path
    BY <1>1, <1>9, EventFacts
  <2>2. state = "Idle" /\ received[First.path] # Unknown /\ ChunkCount[First.path] > 0
    BY <1>2, <1>9 DEF Expected, Ready
  <2>3. UNCHANGED logic \/ ChunkCount[First.path] = 0
    BY <1>9, <2>2 DEF FileRequested
  <2> QED BY <1>1, <2>1, <2>2, <2>3
<1>10. ASSUME First.type = "FileResumed", FileResumed(First.path) PROVE FALSE
  BY <1>2, <1>3, <1>10 DEF FileResumed, Expected, Ready
<1>11. ASSUME First.type = "DownloadStopped", DownloadStopped PROVE FALSE
  BY <1>2, <1>3, <1>11 DEF DownloadStopped, Expected
<1>12. ASSUME \/ First.type = "UploadMeta" /\ UploadMeta(First.local)
              \/ UploadMultipleMeta(First.files, First.opened) \/ MetaCreated
       PROVE  FALSE
  <2>1. First.type = "UploadMeta" => First.local # "Nameless"
    BY <1>1, FirstElem DEF NamesInv
  <2> QED BY <1>1, <1>12, <2>1 DEF UploadMeta, UploadMultipleMeta, MetaCreated
<1>13. ~Ignored
  BY <1>3 DEF Ignored
<1> QED BY <1>4, <1>5, <1>6, <1>7, <1>8, <1>9, <1>10, <1>11, <1>12, <1>13, TurnCases DEF First

-----------------------------------------------------------------------------
(***************************************************************************)
(* The invariant.                                                          *)
(***************************************************************************)
TurnStep ==
    /\ logic = "Running" /\ UNCHANGED <<logic, guiVars, crossed, nameless, failed>>
    /\ events # <<>> /\ Turn

OtherStep ==
    \/ ConnectStep \/ ReadStep \/ PushStep \/ GuiStep
    \/ TaskStep /\ (JobDone \/ JobFails \/ RetryEnds)

\* Every step after which the loop goes on is one of those.
LEMMA LiveSteps ==
    ASSUME TypeInv, Next, Live'
    PROVE  Live /\ (TurnStep \/ OtherStep \/ UserStep \/ SendStep)
<1>1. /\ logic' \notin {"Ended", "Panicked"}
      /\ logic \in {"Connecting", "Sleeping", "Running", "Ended", "Panicked"}
  BY DEF Live, TypeInv, QueueTypes
<1>2. CASE event_processor_task
  <2>1. logic = "Running" /\ events # <<>> /\ UNCHANGED <<guiVars, crossed, nameless, failed>>
    BY <1>2, TurnCases DEF historyVars
  <2>2. logic' = "Running"
    <3>1. UNCHANGED logic \/ logic' = "Panicked"
      BY <1>2, TurnCases DEF SendMessage, Panic, LogIn, LoggedInAsReceiver, ProcessMessage, PassOn,
            FileRequested, FileResumed, DownloadStopped, UploadMeta, UploadMultipleMeta, MetaCreated,
            Ignored, Quietly, Over
    <3> QED BY <1>1, <2>1, <3>1
  <2> QED BY <1>2, <2>1, <2>2, TurnSteps DEF TurnStep, Live
<1>3. CASE ReadEnds
  BY <1>1, <1>3 DEF ReadEnds, Over
<1>4. CASE \/ Connects \/ ConnectFails \/ TriesAgain \/ ReadMessage \/ JobDone \/ JobFails \/ RetryEnds
           \/ SenderComesOrGoes \/ SenderTransmits \/ SenderPublishes \/ ConnectionLost
           \/ process_gui_event
  <2>1. OtherStep
    BY <1>4, OtherSteps DEF OtherStep
  <2>2. Live
    <3>1. CASE ConnectStep
      BY <3>1 DEF ConnectStep, Live
    <3>2. CASE ReadStep \/ TaskStep \/ PushStep \/ GuiStep
      BY <3>2 DEF ReadStep, TaskStep, PushStep, GuiStep, Live
    <3> QED BY <2>1, <3>1, <3>2 DEF OtherStep
  <2> QED BY <2>1, <2>2
<1>5. CASE User
  <2>1. UNCHANGED logic
    BY <1>5, ClickCases DEF User, Pressed, on_download, save_file, on_resume, on_stop_downloading,
          UploadClicked, CancelClicked, OkClicked, ErrorClosed, WindowOnly
  <2>2. Live
    BY <2>1 DEF Live
  <2> QED BY <1>5, <2>2, UserSteps
<1>6. CASE SendClicked
  BY <1>1, <1>6, SendSteps DEF Live, SendClicked
<1> QED BY <1>2, <1>3, <1>4, <1>5, <1>6 DEF Next, User

\* Who has panicked has crossed with something, has uploaded a path without a
\* file name, or has lost the connection.
LEMMA PanicNext ==
    ASSUME TypeInv, Next, PanicNeedsCrossing, Live /\ ~crossed => OrdersInv,
           Live /\ ~nameless => NamesInv
    PROVE  PanicNeedsCrossing'
<1> SUFFICES ASSUME logic' = "Panicked" PROVE crossed' \/ nameless' \/ link' = "cut"
  BY DEF PanicNeedsCrossing
<1>1. CASE event_processor_task
  <2>1. logic = "Running" /\ UNCHANGED <<crossed, nameless>>
    BY <1>1, TurnCases DEF historyVars
  <2> QED BY <1>1, <2>1, PanicTurn DEF Live
<1>2. CASE \/ Connects \/ ConnectFails \/ TriesAgain \/ ReadEnds \/ ReadMessage \/ JobDone \/ JobFails \/ RetryEnds
           \/ SenderComesOrGoes \/ SenderTransmits \/ SenderPublishes \/ ConnectionLost
           \/ process_gui_event
  <2>1. logic = "Panicked" /\ (crossed => crossed') /\ nameless' = nameless /\ (link' = link \/ link' = "cut")
    <3>1. CASE Connects \/ ConnectFails \/ TriesAgain
      BY <3>1 DEF Connects, ConnectFails, TriesAgain, historyVars
    <3>2. CASE ReadEnds
      BY <3>2 DEF ReadEnds, Over, historyVars
    <3>3. CASE ReadMessage \/ JobDone \/ JobFails \/ RetryEnds \/ process_gui_event
      BY <3>3 DEF ReadMessage, JobDone, JobFails, RetryEnds, process_gui_event, serverVars, historyVars
    <3>4. CASE SenderComesOrGoes \/ SenderTransmits \/ SenderPublishes \/ ConnectionLost
      BY <3>4, PushCases DEF ServerOnly, Cut
    <3> QED BY <1>2, <3>1, <3>2, <3>3, <3>4
  <2> QED BY <2>1 DEF PanicNeedsCrossing
<1>3. CASE User
  <2>1. UNCHANGED <<logic, serverVars>>
    BY <1>3, ClickCases DEF User, Pressed, on_download, save_file, on_resume, on_stop_downloading,
          UploadClicked, CancelClicked, OkClicked, ErrorClosed, WindowOnly
  <2>2. (crossed => crossed') /\ (nameless => nameless')
    <3>1. UNCHANGED historyVars => UNCHANGED <<crossed, nameless>>
      BY DEF historyVars
    <3>0. crossed \in BOOLEAN /\ nameless \in BOOLEAN
      BY DEF TypeInv, ServerTypes
    <3>2. CASE OkClicked
      BY <3>0, <3>2 DEF OkClicked
    <3>3. CASE \E d \in {"single", "multiple"} : UploadClicked(d) \/ CancelClicked(d)
      BY <3>1, <3>3 DEF UploadClicked, CancelClicked, WindowOnly
    <3>4. CASE ErrorClosed
      BY <3>1, <3>4 DEF ErrorClosed, WindowOnly
    <3>5. CASE on_stop_downloading
      BY <3>0, <3>5 DEF on_stop_downloading
    <3>6. ASSUME NEW p \in Path, on_download(p) \/ save_file(p) \/ on_resume(p)
          PROVE  (crossed => crossed') /\ (nameless => nameless')
      BY <3>0, <3>6 DEF on_download, save_file, on_resume
    <3>7. ASSUME NEW e, Pressed(e) PROVE (crossed => crossed') /\ (nameless => nameless')
      BY <3>0, <3>7 DEF Pressed
    <3> QED BY <1>3, <3>2, <3>3, <3>4, <3>5, <3>6, <3>7 DEF User
  <2>3. UNCHANGED link
    BY <2>1 DEF serverVars
  <2> QED BY <2>1, <2>2, <2>3 DEF PanicNeedsCrossing
<1>4. CASE SendClicked
  <2>1. UNCHANGED <<logic, crossed, nameless, link>>
    BY <1>4, SendCases DEF historyVars, serverVars
  <2> QED BY <2>1 DEF PanicNeedsCrossing
<1> QED BY <1>1, <1>2, <1>3, <1>4 DEF Next, User

\* Nothing has happened.
LEMMA InitInv == Init => CInv
<1> SUFFICES ASSUME Init PROVE CInv
  OBVIOUS
<1>1. TypeInv
  BY InitTypes
<1>2. /\ events = <<>> /\ pending = <<>> /\ down = <<>> /\ \A T : ~Has(<<>>, T)
      /\ \A k : Silent(<<>>, k)
      /\ DOMAIN <<>> = {}
  BY HasInEmpty, NewsInEmpty DEF Init
<1>3. PICK n : n = [type |-> "ConnectionStatusChanged", status |-> "Connecting"]
  OBVIOUS
<1>4. /\ notices = <<n>> /\ DOMAIN notices = {1} /\ notices[1] = n
  BY <1>3 DEF Init
<1>5. /\ ~Has(notices, {"LoggedInAsReceiver"})
      /\ Silent(notices, TheSender) /\ Silent(notices, TheDownload)
  BY <1>3, <1>4, AboutTypes DEF Has, Elems, Silent
<1>6. window.queued = 0 /\ window.creating = FALSE /\ window.dialog = NoPath /\ window.dialogs = {}
      /\ window.screen = "MainScreen" /\ window.downloading = NoPath /\ window.sender_connected = FALSE
  BY DEF Init
<1>7. /\ logic = "Connecting" /\ client = "None" /\ state = "Initializing" /\ jobs = 0 /\ retries = 0
      /\ link = "none" /\ role = "None" /\ online = FALSE
  BY DEF Init
<1>8. ScreenInv
  BY <1>2, <1>6, <1>7 DEF ScreenInv, Sorted
<1>9. FilesInv
  BY <1>2, <1>5, <1>6, <1>7 DEF FilesInv, Entered
<1>10. RoleInv
  BY <1>2, <1>5, <1>6, <1>7 DEF RoleInv
<1>11. SenderInv
  BY <1>7 DEF SenderInv
<1>12. QueueInv
  BY <1>3, <1>4, <1>6 DEF QueueInv
<1>13. CalmInv
  <2>1. OrdersInv
    BY <1>2, <1>6 DEF OrdersInv, AtMostOne, Elems, Clicked
  <2>2. WillShow(events, notices, window, TheDownload, Shown)
    BY <1>2, <1>5, <1>6, <1>7, SeenWhat DEF WillShow, Shown, Clicked
  <2>3. StopInv
    BY <1>2 DEF StopInv
  <2> QED BY <1>5, <1>6, <1>7, <2>1, <2>2, <2>3 DEF CalmInv
<1>14. PanicNeedsCrossing
  BY <1>7 DEF PanicNeedsCrossing
<1>15. NamesInv
  BY <1>2 DEF NamesInv, Elems
<1> QED BY <1>1, <1>8, <1>9, <1>10, <1>11, <1>12, <1>13, <1>14, <1>15 DEF CInv

\* Nothing happens.
LEMMA StutterInv == CInv /\ UNCHANGED vars => CInv'
<1> SUFFICES ASSUME CInv, UNCHANGED vars PROVE CInv'
  OBVIOUS
<1>1. /\ UNCHANGED <<logic, client, state, requesting, received, jobs, retries, events, notices, window, pending>>
      /\ UNCHANGED <<link, role, online, asked, down, clicks, pushes, crossed, nameless, failed>>
  BY DEF vars, loopVars, jobVars, guiVars, serverVars, historyVars
<1>2. TypeInv => TypeInv'
  BY UnchangedParts DEF vars, TypeInv, jobVars
<1>3. ScreenInv => ScreenInv'
  BY <1>1 DEF ScreenInv
<1>4. FilesInv => FilesInv'
  BY <1>1 DEF FilesInv, Entered, Status
<1>5. RoleInv => RoleInv'
  BY <1>1 DEF RoleInv
<1>6. SenderInv => SenderInv'
  BY <1>1 DEF SenderInv
<1>7. QueueInv => QueueInv'
  BY <1>1 DEF QueueInv, Coming
<1>8. CalmInv => CalmInv'
  BY <1>1 DEF CalmInv, OrdersInv, StopInv, Expected, Ready, Entered, Shown, Clicked
<1>9. (NamesInv => NamesInv') /\ (Live' <=> Live) /\ (PanicNeedsCrossing => PanicNeedsCrossing')
  BY <1>1 DEF Live, NamesInv, PanicNeedsCrossing
<1> QED BY <1>1, <1>2, <1>3, <1>4, <1>5, <1>6, <1>7, <1>8, <1>9 DEF CInv

\* Every step keeps the invariant.
LEMMA StepInv == CInv /\ Next => CInv'
<1> SUFFICES ASSUME CInv, Next PROVE CInv'
  OBVIOUS
<1>1. TypeInv /\ TypeInv'
  BY NextTypes DEF CInv
<1>2. PanicNeedsCrossing'
  BY <1>1, PanicNext DEF CInv, CalmInv
<1>3. ASSUME Live', Live, TurnStep PROVE CInv'
  <2>0. UNCHANGED <<guiVars, window, pending>>
    BY <1>3 DEF TurnStep, guiVars
  <2>1. ScreenInv' /\ FilesInv' /\ RoleInv' /\ SenderInv'
    BY <1>1, <1>3, <2>0, ScreenTurn, FilesTurn, RoleTurn, SenderTurn DEF CInv, TurnStep
  <2>2. ~failed' => QueueInv'
    BY <1>1, <1>3, <2>0, QueueTurn DEF CInv, TurnStep
  <2>3. ~crossed' => CalmInv'
    BY <1>1, <1>3, <2>0, CalmTurn DEF CInv, TurnStep
  <2>4. ~nameless' => NamesInv'
    BY <1>1, <1>3, <2>0, NamesTurn DEF CInv, TurnStep
  <2> QED BY <1>1, <1>2, <2>1, <2>2, <2>3, <2>4 DEF CInv
<1>4. ASSUME Live', Live, UserStep PROVE CInv'
  <2>1. ScreenInv' /\ FilesInv' /\ RoleInv' /\ SenderInv'
    BY <1>1, <1>4, ScreenUser, FilesUser, RoleUser, SenderUser DEF CInv
  <2>2. ~failed' => QueueInv'
    BY <1>1, <1>4, QueueUser DEF CInv, UserStep
  <2>3. ~crossed' => CalmInv'
    BY <1>1, <1>4, CalmUser DEF CInv, UserStep
  <2>4. ~nameless' => NamesInv'
    BY <1>1, <1>4, NamesUser DEF CInv, UserStep
  <2> QED BY <1>1, <1>2, <2>1, <2>2, <2>3, <2>4 DEF CInv
<1>5. ASSUME Live', Live, OtherStep PROVE CInv'
  <2>1. ScreenInv' /\ FilesInv' /\ RoleInv' /\ SenderInv'
    BY <1>1, <1>5, ScreenOthers, FilesOthers, RoleOthers, SenderOthers DEF CInv, OtherStep
  <2>2. ~crossed' => CalmInv'
    <3>1. crossed => crossed'
      BY <1>5 DEF OtherStep, ConnectStep, ReadStep, TaskStep, PushStep, GuiStep
    <3> QED BY <1>1, <1>5, <3>1, CalmOthers DEF CInv, OtherStep
  <2>3. ~failed' => QueueInv'
    <3>1. CASE ConnectStep \/ ReadStep \/ PushStep \/ GuiStep
      <4>1. failed' = failed
        BY <3>1 DEF ConnectStep, ReadStep, PushStep, GuiStep
      <4> QED BY <1>1, <1>5, <3>1, <4>1, QueueOthers, QueueGui DEF CInv
    <3>2. CASE JobDone \/ RetryEnds
      <4>1. failed' = failed
        BY <3>2 DEF JobDone, RetryEnds, historyVars
      <4> QED BY <1>1, <1>5, <3>2, <4>1, QueueOthers DEF CInv
    <3>3. CASE JobFails
      BY <3>3 DEF JobFails
    <3> QED BY <1>5, <3>1, <3>2, <3>3 DEF OtherStep
  <2>4. ~nameless' => NamesInv'
    <3>1. nameless' = nameless
      BY <1>5 DEF OtherStep, ConnectStep, ReadStep, TaskStep, PushStep, GuiStep
    <3> QED BY <1>1, <1>5, <3>1, NamesOthers DEF CInv, OtherStep
  <2> QED BY <1>1, <1>2, <2>1, <2>2, <2>3, <2>4 DEF CInv
<1>6. ASSUME Live', Live, SendStep PROVE CInv'
  <2>1. ScreenInv' /\ FilesInv' /\ RoleInv' /\ SenderInv'
    BY <1>1, <1>6, ScreenSend, FilesSend, RoleSend, SenderSend DEF CInv
  <2>2. UNCHANGED <<failed, crossed, nameless>>
    BY <1>6 DEF SendStep, historyVars
  <2>3. ~failed' => QueueInv'
    BY <1>1, <1>6, <2>2, QueueSend DEF CInv
  <2>4. (~crossed' => CalmInv') /\ (~nameless' => NamesInv')
    BY <1>1, <1>6, <2>2, CalmSend, NamesSend DEF CInv
  <2> QED BY <1>1, <1>2, <2>1, <2>3, <2>4 DEF CInv
<1>7. CASE ~Live'
  BY <1>1, <1>2, <1>7 DEF CInv
<1> QED BY <1>1, <1>3, <1>4, <1>5, <1>6, <1>7, LiveSteps

\* Holds after every step.
LEMMA NextInv == CInv /\ [Next]_vars => CInv'
BY StutterInv, StepInv

\* What the invariant implies.
LEMMA InvTypes == CInv => TypeOK
BY DEF CInv, TypeInv, LoopTypes, QueueTypes, WindowTypes, Window, TypeOK

LEMMA InvAgrees == CInv => GuiAgrees
<1> SUFFICES ASSUME CInv, logic = "Running", client = "Receiver", window.screen = "ReceiverScreen", ~Behind
             PROVE  /\ ~crossed => window.downloading = IF state = "RequestedChunk" THEN requesting ELSE NoPath
                    /\ \A p \in Path : window.files[p] = Status(p) \/ (state = "RequestedChunk" /\ p = requesting)
                    /\ link = "up" /\ down = <<>> => window.sender_connected = online
  BY DEF GuiAgrees
<1>1. TypeInv /\ FilesInv /\ RoleInv /\ SenderInv /\ (~crossed => CalmInv)
  BY DEF CInv, Live
<1>2. /\ events = <<>> /\ notices = <<>> /\ \A k : Silent(<<>>, k) /\ \A v : ~LastNews(<<>>, k, v)
      /\ ~Clicked({"DownloadStopped"})
  BY NewsInEmpty, HasInEmpty DEF Behind, Clicked
<1>3. ASSUME ~crossed
      PROVE  window.downloading = IF state = "RequestedChunk" THEN requesting ELSE NoPath
  <2>1. WillShow(<<>>, <<>>, window, TheDownload, Shown)
    BY <1>1, <1>2, <1>3 DEF CalmInv
  <2>2. window.downloading = Shown
    BY <2>1, ShowAtEnd, SeenWhat
  <2> QED BY <1>2, <2>2 DEF Shown
<1>4. ASSUME NEW p \in Path, ~(state = "RequestedChunk" /\ p = requesting)
      PROVE  window.files[p] = Status(p)
  <2>1. WillShow(<<>>, <<>>, window, TheFile(p), Status(p))
    BY <1>1, <1>2, <1>4 DEF FilesInv
  <2> QED BY <2>1, ShowAtEnd, SeenWhat
<1>5. ASSUME link = "up", down = <<>> PROVE window.sender_connected = online
  <2>1. role = "Receiver"
    BY <1>1, <1>2, <1>5 DEF RoleInv
  <2>2. WillShow(<<>>, <<>>, window, TheSender, OnOff(online))
    BY <1>1, <1>2, <1>5, <2>1 DEF SenderInv
  <2>3. OnOff(window.sender_connected) = OnOff(online)
    BY <2>2, ShowAtEnd, SeenWhat
  <2>4. window.sender_connected \in BOOLEAN /\ online \in BOOLEAN
    BY <1>1 DEF TypeInv, WindowTypes, Window, ServerTypes
  <2> QED BY <2>3, <2>4 DEF OnOff
<1> QED BY <1>3, <1>4, <1>5

LEMMA InvButtons == CInv => ButtonsBack
<1> SUFFICES ASSUME CInv, logic = "Running", client = "Sender", ~Behind, jobs = 0, ~failed
             PROVE  ~window.creating
  BY DEF ButtonsBack
<1>1. QueueInv /\ events = <<>> /\ notices = <<>>
  BY DEF CInv, Live, Behind
<1>2. Coming(0) = 0
  BY <1>1, CountInEmpty DEF Coming
<1> QED BY <1>1, <1>2 DEF QueueInv

-----------------------------------------------------------------------------
(***************************************************************************)
(* The theorems.                                                           *)
(***************************************************************************)
\* The invariant of the client: what the window will show when both channels
\* are worked off is what the loop has done, whatever was clicked in between
\* (event_processor_task, process_gui_event).
THEOREM ClientInvariance == Spec => []CInv
BY InitInv, NextInv, PTL DEF Spec

\* The type invariant: in particular no more chunks of a file are received than
\* it has, and the index of the upload queue is never beyond its end
\* (stop_transmition, metadata_created).
THEOREM ClientTypeCorrectness == Spec => []TypeOK
BY ClientInvariance, InvTypes, PTL

\* When the loop and the window have nothing left to do, the receiver's screen
\* shows what is (process_gui_event, convert_index).
THEOREM WindowAgrees == Spec => []GuiAgrees
BY ClientInvariance, InvAgrees, PTL

\* None of the unwraps of the loop fails unless a click crossed, a path without
\* a file name was uploaded, or the connection was cut: what the buttons offer
\* once the window has caught up the client accepts, in whatever order the
\* futures of the clicks are polled (event_processor_task, spawn_local).
THEOREM PanicsNeedCrossing == Spec => []PanicNeedsCrossing
<1>1. CInv => PanicNeedsCrossing
  BY DEF CInv
<1> QED BY <1>1, ClientInvariance, PTL

\* The sender's screen gets its buttons back, however uploads of one and of
\* several files overlap (metadata_created).
THEOREM ButtonsComeBack == Spec => []ButtonsBack
BY ClientInvariance, InvButtons, PTL
===============================================================================
