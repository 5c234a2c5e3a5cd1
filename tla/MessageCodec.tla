---------------------------- MODULE MessageCodec ----------------------------
(***************************************************************************)
(* What a message means on either side of the wire: a process builds a     *)
(* CoreMessage, toBytes turns it into the protobuf coreMessage, and        *)
(* BuildObj turns that into the receiver's object.  PacketDecoder carries  *)
(* the bytes in between.  The events of a batch are rendered from records  *)
(* of the System log, in one Event object that is used again and again.    *)
(*                                                                         *)
(* A text is the field and the record it was taken from.  The texts of     *)
(* CoreMessage itself (names, versions, descriptions) are left out.        *)
(***************************************************************************)
EXTENDS Integers, Sequences, SequencesExt

CONSTANTS MaxMessages,  \* bound: messages built by the sender
          MaxEvents,    \* bound: records of one batch
          IDs,          \* record IDs
          None

ASSUME IDAssumption == IDs \subseteq Nat
ASSUME CodecBounds == MaxMessages \in Nat /\ MaxEvents \in Nat
\* None is a value of its own.
ASSUME NoneIsNoNumber == None \notin 0..5 \cup IDs

VARIABLES pc,        \* "idle", "built", "sent" or "received"
          source,    \* the records a batch was made from, and the first ID wanted
          msg,       \* the sender's object
          wire,      \* the protobuf message
          got,       \* the receiver's object, or None
          senderID, receiverID   \* the static id of nextID in each process

vars == <<pc, source, msg, wire, got, senderID, receiverID>>

-----------------------------------------------------------------------------
(* Enumerations *)

Operations == {"CHECK_VERSION", "UPDATE_LOG", "QUERY_LAST_EVENT",
               "RETURN_LAST_EVENT", "ACCEPT_LAST_EVENT", "CONNECT", "REFUSE"}

\* dispatch(Operation); REFUSE is missing from the switch.
WireOpWithout(op) == IF op = "ACCEPT_LAST_EVENT" THEN "INT_MIN" ELSE op
WireOp(op) == IF op = "REFUSE" THEN "INT_MIN" ELSE op

\* The switch of BuildObj; the others end in assert(false).
Built == {"UPDATE_LOG", "QUERY_LAST_EVENT", "RETURN_LAST_EVENT",
          "ACCEPT_LAST_EVENT", "CONNECT"}

LogLevels == <<"fatal", "error", "warning", "info", "verbose">>

\* Event::dispatch(uint32_t), the level Windows writes into its XML.
LogLevelOf(n) == IF n \in 1..5 THEN LogLevels[n] ELSE "verbose"

\* dispatch(LogLevel): the number of the enumerator in clientService.proto.
WireLevelWithout(l) ==
  IF l = "fatal" THEN 4 ELSE CHOOSE n \in 0..4 : LogLevels[n + 1] = l
WireLevel(l) == CHOOSE n \in 0..4 : LogLevels[n + 1] = l

\* dispatchEventSeverity, and the type LogSeverity of postgres.sql.
Severity(n) == IF n \in 1..5 THEN LogLevels[n] ELSE "others"
LogSeverity == {"fatal", "error", "warning", "info", "verbose", "debug",
                "aduitSuccess", "aduitFailure"}

-----------------------------------------------------------------------------
(* Rendering *)

\* A record's XML names its provider and its time; level and record ID may be
\* missing.
Records     == [level: 0..5 \cup {None}, rid: IDs \cup {None}]
RecordLists == UNION {[1..n -> Records] : n \in 0..MaxEvents}

Text(field, n) == <<field, n>>
Empty == <<"empty", 0>>
Texts == {"empty", "xml", "provider", "time"} \X Nat

Events == [xml: Texts, format: Texts, provider: Texts, timeStamp: Texts,
           level: 0..5, llevel: ToSet(LogLevels), rid: IDs]

\* The Event of EnumerateResults before its first record: its numbers are
\* uninitialised, the two levels need not agree.
Uninitialised ==
  {[xml |-> Empty, format |-> Empty, provider |-> Empty, timeStamp |-> Empty,
    level |-> l, llevel |-> "verbose", rid |-> r] : l \in {0, 1}, r \in IDs}

\* ParseEventXml of the n-th record of a batch; what its XML lacks stays as the
\* record before it left it.
ParseEventXml(e, r, n) ==
  [e EXCEPT !.xml = Text("xml", n), !.provider = Text("provider", n),
            !.timeStamp = Text("time", n),
            !.level  = IF r.level = None THEN @ ELSE r.level,
            !.llevel = IF r.level = None THEN @ ELSE LogLevelOf(r.level),
            !.rid    = IF r.rid = None THEN @ ELSE r.rid]

\* GetMessageString drops the message it has formatted and returns null, as it
\* does when there is none, so that the XML takes its place.  Without metadata
\* of the provider there is no text at all.
FormatEvent(e, metadata) == [e EXCEPT !.format = IF metadata THEN e.xml ELSE Empty]

Wanted(e, ignore) == e.rid >= ignore

\* EnumerateResults over the records that can be rendered: one turn of its loop,
\* what it has after each of them, and what it leaves in sent.
Turn(acc, r, n, ignore, metadata) ==
  LET e == ParseEventXml(acc.e, r, n)
      f == FormatEvent(e, metadata)
  IN  IF Wanted(e, ignore) THEN [e |-> f, sent |-> Append(acc.sent, f)]
      ELSE [e |-> e, sent |-> acc.sent]

Turns(records, ignore, metadata, unset) ==
  LET acc[n \in 0..Len(records)] ==
        IF n = 0 THEN [e |-> unset, sent |-> <<>>]
        ELSE Turn(acc[n - 1], records[n], n, ignore, metadata)
  IN  acc

EnumerateResults(records, ignore, metadata, unset) ==
  Turns(records, ignore, metadata, unset)[Len(records)].sent

-----------------------------------------------------------------------------
(* Objects *)

Objects == [op: Operations, id: Int, last: IDs \cup {0}, refused: IDs \cup {0},
            events: Seq(Events), accept: BOOLEAN]
ASSUME NoneIsNoObject == None \notin Objects

\* The constructor of Event that takes a Windows level.
Event(x, f, p, t, l, r) ==
  [xml |-> x, format |-> f, provider |-> p, timeStamp |-> t,
   level |-> l, llevel |-> LogLevelOf(l), rid |-> r]

Message(op, id) ==
  [op |-> op, id |-> id, last |-> 0, refused |-> 0, events |-> <<>>,
   accept |-> FALSE]

\* The objects the constructors of the other packages build with nextID() = i;
\* a RefusePackage has no ID of its own.
Constructed(i) ==
       {Message("CONNECT", i), Message("QUERY_LAST_EVENT", i)}
  \cup {[Message("RETURN_LAST_EVENT", i) EXCEPT !.last = n] : n \in IDs}
  \cup {[Message("ACCEPT_LAST_EVENT", i) EXCEPT !.last = n] : n \in IDs}
  \cup {[Message("REFUSE", -1) EXCEPT !.refused = n] : n \in IDs}

LogPackage(i, events, accept) ==
  [Message("UPDATE_LOG", i) EXCEPT !.events = events, !.accept = accept]

UsesNextID(m) == m.op # "REFUSE"

\* buildPBObj of each package, and toBytes around it.
WireEvent(e) ==
  [scope |-> e.provider, level |-> WireLevel(e.llevel), rawEventMessage |-> e.format,
   timeStamp |-> e.timeStamp, xmlEventMessage |-> e.xml, recordID |-> e.rid]

ToWire(m) ==
  [op |-> WireOp(m.op), id |-> m.id, lastEvent |-> m.last, refuseID |-> m.refused,
   log |-> [i \in 1..Len(m.events) |-> WireEvent(m.events[i])],
   logNeedAccept |-> m.accept]

ReceivedIDFresh(w, next) == next

\* BuildObj: an ID of -1 is replaced by one of the receiver's.
ReceivedID(w, next) == IF w.id = -1 THEN next ELSE w.id

ReceivedEventSwapped(w) ==
  Event(w.xmlEventMessage, w.rawEventMessage, w.timeStamp, w.scope, w.level, w.recordID)
ReceivedEvent(w) ==
  Event(w.xmlEventMessage, w.rawEventMessage, w.scope, w.timeStamp, w.level, w.recordID)

BuildObj(w, next) ==
  IF w.op \notin Built THEN None
  ELSE [op |-> w.op, id |-> ReceivedID(w, next), last |-> w.lastEvent, refused |-> 0,
        events |-> [i \in 1..Len(w.log) |-> ReceivedEvent(w.log[i])],
        accept |-> w.logNeedAccept]

-----------------------------------------------------------------------------
Construct(m) ==
  /\ msg' = m
  /\ senderID' = IF UsesNextID(m) THEN senderID + 1 ELSE senderID
  /\ pc' = "built" /\ UNCHANGED <<wire, got>>

NoSource == [records |-> <<>>, ignore |-> 0]

Init ==
  /\ pc = "idle" /\ source = NoSource /\ msg = None /\ wire = None /\ got = None
  /\ senderID = 0 /\ receiverID = 0

Build ==
  /\ pc = "idle" /\ senderID < MaxMessages
  /\ \E m \in Constructed(senderID) : Construct(m)
  /\ source' = NoSource
  /\ UNCHANGED receiverID

\* EventForwardHandler::Start, for one batch.
BuildBatch ==
  /\ pc = "idle" /\ senderID < MaxMessages
  /\ \E records \in RecordLists, ignore \in IDs, metadata \in BOOLEAN,
         unset \in Uninitialised, accept \in BOOLEAN :
       /\ Construct(LogPackage(senderID, EnumerateResults(records, ignore, metadata, unset),
                               accept))
       /\ source' = [records |-> records, ignore |-> ignore]
  /\ UNCHANGED receiverID

ToBytes ==
  /\ pc = "built"
  /\ wire' = ToWire(msg)
  /\ pc' = "sent"
  /\ UNCHANGED <<source, msg, got, senderID, receiverID>>

\* The receiver's package constructors take an ID from its nextID before
\* BuildObj overwrites it with the one received.
TakesID(w) == IF w.op \notin Built THEN 0 ELSE IF w.id = -1 THEN 2 ELSE 1

ParseFromArray ==
  /\ pc = "sent"
  /\ got' = BuildObj(wire, receiverID + 1)
  /\ receiverID' = receiverID + TakesID(wire)
  /\ pc' = "received"
  /\ UNCHANGED <<source, msg, wire, senderID>>

\* Both objects have been dealt with and are deleted.
Delete ==
  /\ pc = "received" /\ pc' = "idle"
  /\ source' = NoSource /\ msg' = None /\ wire' = None /\ got' = None
  /\ UNCHANGED <<senderID, receiverID>>

Next == Build \/ BuildBatch \/ ToBytes \/ ParseFromArray \/ Delete

Spec == Init /\ [][Next]_vars

-----------------------------------------------------------------------------
(* Properties *)

Arrived == pc = "received" /\ got # None

\* The receiver's object says what the sender's said: the operation, the ID,
\* the last event, the request for an acceptance, and the record IDs in order.
RoundTrip ==
  Arrived =>
    /\ got.op = msg.op /\ got.id = msg.id /\ got.last = msg.last
    /\ got.accept = msg.accept
    /\ Len(got.events) = Len(msg.events)
    /\ \A i \in 1..Len(msg.events) : got.events[i].rid = msg.events[i].rid

\* What the server receives of a record is that record's own, although one Event
\* object served for all: a batch holds, in log order and once each, the records
\* that are not ignored, each with its own XML, provider, time and ID, and with
\* its own XML or nothing for a message.  Only a record without an ID may bear
\* another's.
RecordsArriveWhole ==
  Arrived /\ got.op = "UPDATE_LOG" =>
    LET Of(i) == got.events[i].xml[2]
        Came  == {Of(i) : i \in DOMAIN got.events}
    IN  /\ \A i, j \in DOMAIN got.events : i < j => Of(i) < Of(j)
        /\ \A n \in DOMAIN source.records :
             source.records[n].rid # None =>
               (n \in Came <=> source.records[n].rid >= source.ignore)
        /\ \A i \in DOMAIN got.events :
             LET e == got.events[i] IN
             /\ e.xml = Text("xml", Of(i)) /\ e.provider = Text("provider", Of(i))
             /\ e.timeStamp = Text("time", Of(i)) /\ e.format \in {Empty, e.xml}
             /\ source.records[Of(i)].rid \in {None, e.rid}

\* Only a refusal is lost.
OnlyRefusalLost ==
  pc = "received" /\ msg # None => (got = None <=> msg.op = "REFUSE")

\* Levels that Windows tells apart stay apart and in order: a record that is more
\* severe than another of its batch is never received as a less severe event.
SeverityOrderKept ==
  Arrived =>
    \A i, j \in DOMAIN got.events :
      LET Level(k) == source.records[got.events[k].xml[2]].level
      IN  /\ Level(i) \in 1..5 /\ Level(j) \in 1..5
          /\ Level(i) < Level(j)
          => got.events[i].level < got.events[j].level

\* BuildObj's assert(false): no message that the program sends is unknown.
EveryMessageKnown == pc = "received" /\ msg # None => got # None

\* The severity the server stores a received event with is one LogSeverity has.
SeverityIsStorable ==
  Arrived => \A i \in 1..Len(got.events) : Severity(got.events[i].level) \in LogSeverity
=============================================================================
