------------------------------ MODULE Forwarder ------------------------------
(***************************************************************************)
(* The Windows service: EventForwardHandler's thread waits on two          *)
(* manual-reset events, pulls batches from its subscription to the System  *)
(* log and sends them; HandlerDispatcher's libuv loop connects, runs the   *)
(* handshake that resumes the thread, and passes the server's answers on.  *)
(*                                                                         *)
(* An event is its record ID; the log holds 1 .. log and the subscription  *)
(* starts at the oldest record.  The stop event is never signalled by this *)
(* code, so the thread ends only with the process.                         *)
(***************************************************************************)
EXTENDS Integers, FiniteSets, Sequences, SequencesExt

CONSTANTS EventsPerSend,   \* EventForwardHandler::eventsPerSend
          MaxEvents        \* bound: records written to the log

ASSUME BatchAssumption == EventsPerSend \in Nat \ {0}
ASSUME EventsAssumption == MaxEvents \in Nat

VARIABLES
  log,        \* records in the System log
  cursor,     \* records EvtNext has returned
  subscribe,  \* aWaitHandles[EVENT_SUBCRIBE_EVENT] is signalled
  upload,     \* aWaitHandles[EVENT_UPLOAD_LAST_ID_EVENT] is signalled
  lastID,     \* lastEventIDUploaded
  pc,         \* where the forwarding thread is
  woken,      \* the event that woke it
  batch,      \* the last batch: eventsToSend and the request for an acceptance
  link,       \* the TCP connection
  wire,       \* messages on their way to the server
  inbound,    \* answers on their way back
  vec,        \* answers decoded and not yet taken
  raised,     \* history: events signalled since the last EvtNext
  causes      \* history: why the thread may wait with records unread

threadVars == <<cursor, pc, woken, batch>>
netVars    == <<link, wire, inbound, vec>>
vars == <<log, threadVars, subscribe, upload, lastID, netVars, raised, causes>>

Log(rids, full) == [op |-> "LOG", rids |-> rids, full |-> full]
Plain(o)        == [op |-> o]
Numbered(o, id) == [op |-> o, id |-> id]
NoBatch == Log(<<>>, FALSE)

\* The record IDs an answer can carry; an acceptance can carry any number.
IDs == 1..MaxEvents + 1
AnyIDs == {0} \cup IDs

\* CREATE_SUSPENDED; or the thread starts at once.
StartRunning   == "wait"
StartSuspended == "suspended"

Init ==
  /\ log \in 0..MaxEvents /\ cursor = 0
  /\ subscribe = TRUE /\ upload = FALSE /\ lastID = 0
  /\ pc = StartSuspended /\ woken = "none" /\ batch = NoBatch
  /\ link = "off" /\ wire = <<>> /\ inbound = <<>> /\ vec = <<>>
  /\ raised = {} /\ causes = {}

-----------------------------------------------------------------------------
(* The System log *)

NewEvent ==
  /\ log < MaxEvents
  /\ log' = log + 1
  /\ subscribe' = TRUE
  /\ raised' = raised \cup {"subscribe"}
  /\ UNCHANGED <<threadVars, upload, lastID, netVars, causes>>

-----------------------------------------------------------------------------
(* The forwarding thread *)

\* Start: the thread subscribes once it has been resumed; if that fails it ends.
Subscribe ==
  /\ pc = "resumed"
  /\ \/ pc' = "wait" /\ UNCHANGED causes
     \/ pc' = "ended" /\ causes' = causes \cup {"EvtSubscribe"}
  /\ UNCHANGED <<log, cursor, woken, batch, subscribe, upload, lastID, netVars, raised>>

\* WaitForMultipleObjects reports the event with the lowest index.
Wake ==
  /\ pc = "wait"
  /\ subscribe \/ upload
  /\ woken' = IF subscribe THEN "subscribe" ELSE "upload"
  /\ pc' = "enumerate"
  /\ UNCHANGED <<log, cursor, batch, subscribe, upload, lastID, netVars, raised,
                 causes>>

AvailableBeyond == IF log - cursor < EventsPerSend THEN log - cursor + 1 ELSE EventsPerSend
Available == IF log - cursor < EventsPerSend THEN log - cursor ELSE EventsPerSend

\* What eventsToSend.clear() leaves of the last batch.
KeptUncleared == batch.rids
Kept == <<>>

\* The next n records, and those of them that `ignore` does not rule out: the log
\* numbers them one by one, so they are all that come after the ones it does.
Records(n) == [i \in 1..n |-> cursor + i]
Fresh(n) == SubSeq(Records(n), IF lastID > cursor THEN lastID - cursor ELSE 1, n)

NeedAcceptNever(count) == count > EventsPerSend
NeedAccept(count) == count = EventsPerSend

\* How many records come before the first one that PrintEvent cannot render.
Rendered == 0..Available - 1

\* EnumerateResults: EvtNext returns up to a batch of records, or fails; the
\* first record that cannot be rendered ends the batch with status 0, and the
\* rest of it is closed unread.  A batch goes out whatever its size.
EnumerateResults ==
  /\ pc = "enumerate"
  /\ \/ /\ cursor' = cursor + Available
        /\ batch' = Log(Kept \o Fresh(Available), NeedAccept(Available))
        /\ UNCHANGED causes
     \/ \E n \in Rendered :
          /\ cursor' = cursor + Available
          /\ batch' = Log(Kept \o Fresh(n), FALSE)
          /\ causes' = causes \cup {"render"}
     \/ /\ UNCHANGED cursor
        /\ batch' = Log(Kept, FALSE)
        /\ causes' = causes \cup {"EvtNext"}
  /\ raised' = {}
  /\ pc' = "send"
  /\ UNCHANGED <<log, woken, subscribe, upload, lastID, netVars>>

\* uv_write is called from this thread, not the loop's: the bytes go out, or
\* the connection is lost to the race.
SendBatch ==
  /\ pc = "send"
  /\ \/ /\ link = "up"
        /\ wire' = Append(wire, batch)
        /\ UNCHANGED <<link, inbound, vec, causes>>
     \/ /\ link' = "lost" /\ wire' = <<>> /\ inbound' = <<>>
        /\ causes' = causes \cup {"link"}
        /\ UNCHANGED vec
  /\ pc' = "reset"
  /\ UNCHANGED <<log, cursor, woken, batch, subscribe, upload, lastID, raised>>

\* ResetEvent forgets a signal that came after EvtNext.
Forgotten == IF woken \in raised THEN {woken} ELSE {}

ResetSignal ==
  /\ pc = "reset"
  /\ subscribe' = (subscribe /\ woken # "subscribe")
  /\ upload' = (upload /\ woken # "upload")
  /\ causes' = causes \cup Forgotten
  /\ pc' = "wait" /\ woken' = "none"
  /\ UNCHANGED <<log, cursor, batch, lastID, netVars, raised>>

ThreadStep == Subscribe \/ Wake \/ EnumerateResults \/ SendBatch \/ ResetSignal

-----------------------------------------------------------------------------
(* The network loop *)

\* Connect, after InitTCP has translated the address.  If neither WinSock nor DNS
\* knows it, InitTCP returns early and Connect goes on with an empty address.
ConnectTo ==
  /\ link = "off"
  /\ link' \in {"connecting", "no address"}
  /\ UNCHANGED <<log, threadVars, subscribe, upload, lastID, wire, inbound, vec,
                 raised, causes>>

\* uvNetworkConnectCB: a failed connection is not tried again.
ConnectCB ==
  /\ link \in {"connecting", "no address"}
  /\ \/ link = "connecting" /\ link' = "up" /\ wire' = <<Plain("CONNECT")>> /\ UNCHANGED causes
     \/ link' = "lost" /\ causes' = causes \cup {"link"} /\ UNCHANGED wire
  /\ UNCHANGED <<log, threadVars, subscribe, upload, lastID, inbound, vec, raised>>

SetUploadNot == UNCHANGED <<upload, raised>>
SetUpload == upload' = TRUE /\ raised' = raised \cup {"upload"}

\* What the loop does with the message it took from the decoder: the handshake
\* goes on, the first last-event ID resumes the thread, an acceptance moves the
\* ID and signals the upload event, anything else is ignored.
Handle(m) ==
  \/ /\ m.op = "CONNECT"
     /\ wire' = Append(wire, Plain("QUERY"))
     /\ UNCHANGED <<lastID, pc, upload, raised>>
  \/ /\ m.op = "RETURN" /\ lastID = 0
     /\ lastID' = m.id
     /\ pc' = IF pc = "suspended" THEN "resumed" ELSE pc
     /\ UNCHANGED <<wire, upload, raised>>
  \/ /\ m.op = "ACCEPT"
     /\ lastID' = m.id
     /\ SetUpload
     /\ UNCHANGED <<wire, pc>>
  \/ /\ m.op = "REFUSE" \/ (m.op = "RETURN" /\ lastID # 0)
     /\ UNCHANGED <<wire, lastID, pc, upload, raised>>

\* uvNetworkReadCB: a read completes any number of messages, one is taken.
ReadCB ==
  /\ link = "up" /\ inbound # <<>>
  /\ \E k \in 0..Len(inbound) :
       LET q == vec \o SubSeq(inbound, 1, k) IN
         /\ q # <<>>
         /\ inbound' = SubSeq(inbound, k + 1, Len(inbound))
         /\ vec' = Tail(q)
         /\ Handle(Head(q))
  /\ UNCHANGED <<log, cursor, woken, batch, subscribe, link, causes>>

-----------------------------------------------------------------------------
(* The server, as Server answers, and the connection *)

\* It refuses when it believes the database is gone; a full batch is accepted
\* with an ID read past the end of its events, so with any ID.  The threads of
\* its pool overtake each other.
ServerAnswers ==
  /\ link = "up"
  /\ \E n \in 1..Len(wire) : LET m == wire[n] IN
       /\ wire' = RemoveAt(wire, n)
       /\ \/ /\ inbound' = Append(inbound, Plain("REFUSE"))
             /\ causes' = causes \cup {"refused"}
          \/ /\ m.op = "CONNECT" /\ inbound' = Append(inbound, Plain("CONNECT"))
             /\ UNCHANGED causes
          \/ /\ m.op = "QUERY"
             /\ \E i \in IDs : inbound' = Append(inbound, Numbered("RETURN", i))
             /\ UNCHANGED causes
          \/ /\ m.op = "LOG" /\ m.full
             /\ \E i \in AnyIDs : inbound' = Append(inbound, Numbered("ACCEPT", i))
             /\ UNCHANGED causes
          \/ /\ m.op = "LOG" /\ ~m.full
             /\ UNCHANGED <<inbound, causes>>
  /\ UNCHANGED <<log, threadVars, subscribe, upload, lastID, link, vec, raised>>

\* The server ends or the connection breaks; uvNetworkReadCB ignores it.
LinkLost ==
  /\ link = "up"
  /\ link' = "lost" /\ wire' = <<>> /\ inbound' = <<>>
  /\ causes' = causes \cup {"link"}
  /\ UNCHANGED <<log, threadVars, subscribe, upload, lastID, vec, raised>>

Next == NewEvent \/ ThreadStep \/ ConnectTo \/ ConnectCB \/ ReadCB \/ ServerAnswers \/ LinkLost

Spec == Init /\ [][Next]_vars

\* The two threads of the service run, and a server that is there answers.
FairSpec ==
  Spec /\ WF_vars(ThreadStep) /\ WF_vars(ConnectTo) /\ WF_vars(ConnectCB) /\ WF_vars(ReadCB)
       /\ WF_vars(ServerAnswers)

-----------------------------------------------------------------------------
(* Properties *)

Causes   == {"subscribe", "upload", "render", "EvtNext", "EvtSubscribe", "link", "refused"}
Batches  == [op: {"LOG"}, rids: Seq(Nat), full: BOOLEAN]
Requests == {Plain("CONNECT"), Plain("QUERY")} \cup Batches
Answers  == {Plain("CONNECT"), Plain("REFUSE")} \cup
              [op: {"RETURN"}, id: IDs] \cup [op: {"ACCEPT"}, id: AnyIDs]

\* The state of the forwarder has the types its declarations give it.
TypeOK ==
  /\ log \in 0..MaxEvents /\ cursor \in 0..log
  /\ subscribe \in BOOLEAN /\ upload \in BOOLEAN /\ lastID \in AnyIDs
  /\ pc \in {"suspended", "resumed", "wait", "enumerate", "send", "reset", "ended"}
  /\ woken \in {"none", "subscribe", "upload"}
  /\ batch \in Batches
  /\ link \in {"off", "connecting", "no address", "up", "lost"}
  /\ wire \in Seq(Requests) /\ inbound \in Seq(Answers) /\ vec \in Seq(Answers)
  /\ raised \subseteq {"subscribe", "upload"}
  /\ causes \subseteq Causes

\* An acceptance that will signal the upload event is on its way.
AcceptDue ==
  \/ \E m \in ToSet(wire) : m.op = "LOG" /\ m.full
  \/ \E m \in ToSet(inbound) \cup ToSet(vec) : m.op = "ACCEPT"

\* The thread never waits with records unread and nothing to wake it, unless a
\* signal was forgotten, an error swallowed, or the server refused or is gone.
NoSilentStall ==
  pc = "wait" /\ cursor < log =>
    subscribe \/ upload \/ AcceptDue \/ causes # {}

\* What is in flight or about to be, oldest first.
InFlight == IF pc = "send" THEN Append(wire, batch) ELSE wire

Increasing(q) == \A a, b \in 1..Len(q) : a < b => q[a] < q[b]
AllBefore(p, q) == \A a \in 1..Len(p), b \in 1..Len(q) : p[a] < q[b]

\* Batches leave in log order and never repeat a record, however the two events
\* interleave, and none holds a record that was not read.
SentInOrder ==
  \A i \in 1..Len(InFlight) :
    InFlight[i].op = "LOG" =>
      LET q == InFlight[i].rids IN
      /\ Increasing(q) /\ \A a \in 1..Len(q) : q[a] \in 1..cursor
      /\ \A j \in 1..Len(InFlight) :
           i < j /\ InFlight[j].op = "LOG" => AllBefore(q, InFlight[j].rids)

\* No batch overtakes the handshake: the thread is suspended, and has sent
\* nothing, until the server's RETURN_LAST_EVENT has been handled.
HandshakeFirst ==
  LET logs      == \E m \in ToSet(wire) : m.op = "LOG"
      handshake == \/ link \in {"off", "connecting", "no address"}
                   \/ \E m \in ToSet(wire) : m.op \in {"CONNECT", "QUERY"}
                   \/ \E m \in ToSet(inbound) \cup ToSet(vec) :
                        m.op \in {"CONNECT", "RETURN"}
  IN  handshake \/ pc = "suspended" => pc = "suspended" /\ ~logs

\* The connection as Session sees it.
LinkState == CASE link = "up" -> "open" [] link = "lost" -> "lost" [] OTHER -> "closed"
Kind(m) == IF m.op = "LOG" THEN (IF m.full THEN "FULL" ELSE "PART") ELSE m.op
Pending == [k \in {"CONNECT", "QUERY", "FULL", "PART"} |->
              Cardinality({i \in DOMAIN wire : Kind(wire[i]) = k})]
Taken == IF link = "up" THEN vec \o inbound ELSE <<>>

Contract == INSTANCE Session WITH
  link <- LinkState, resumed <- link = "up" /\ pc # "suspended", pending <- Pending,
  answers <- [i \in DOMAIN Taken |-> Taken[i].op]

\* The service keeps its side of the session: no batch before it is told where to
\* go on, one request per answer that calls for one.
KeepsSession == Contract!Spec

\* Unless one of the causes occurs, the thread reads every record.
CaughtUp == <>[](cursor = log \/ causes # {})

-----------------------------------------------------------------------------
(* The inductive invariant behind the safety properties *)

\* Nothing is under way before the connection is up, or from the server once
\* it is lost.
Connected ==
  /\ link # "up" => wire = <<>> /\ inbound = <<>>
  /\ link \in {"off", "connecting", "no address"} => pc = "suspended" /\ vec = <<>>

\* Until the thread is resumed there is at most one message, one of the
\* handshake's, on the way there, on the way back or decoded ...
Suspended ==
  pc = "suspended" =>
    /\ lastID = 0
    /\ Len(wire) + Len(inbound) + Len(vec) <= 1
    /\ \A m \in ToSet(wire) : m.op \in {"CONNECT", "QUERY"}
    /\ \A m \in ToSet(inbound) \cup ToSet(vec) : m.op \in {"CONNECT", "RETURN", "REFUSE"}

\* ... and afterwards none of the handshake's is left.
Resumed ==
  pc # "suspended" =>
    /\ \A m \in ToSet(wire) : m.op = "LOG"
    /\ \A m \in ToSet(inbound) \cup ToSet(vec) : m.op \in {"ACCEPT", "REFUSE"}

\* What will wake the thread, from EvtNext to the wait: the batch it has, the
\* acceptance of one it sent, or an event signalled since.
Signalled == {e \in {"subscribe", "upload"} : IF e = "subscribe" THEN subscribe ELSE upload}

Wakes ==
  /\ pc \in {"suspended", "resumed"} => subscribe
  /\ pc \in {"send", "reset"} => raised \subseteq Signalled
  /\ causes = {} /\ cursor < log =>
       /\ pc = "wait"  => subscribe \/ upload \/ AcceptDue
       /\ pc = "send"  => batch.full \/ raised # {}
       /\ pc = "reset" => AcceptDue \/ raised # {}

Inv == TypeOK /\ Connected /\ Suspended /\ Resumed /\ Wakes /\ SentInOrder
=============================================================================
