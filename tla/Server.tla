------------------------------- MODULE Server -------------------------------
(***************************************************************************)
(* ClientServiceServer: a libuv loop that accepts connections, decodes     *)
(* messages, answers from PostgreSQL, and hands batches of events to the   *)
(* libuv thread pool, whose workers store them and push their answers into *)
(* a queue that the loop writes out when the async handle wakes it.        *)
(*                                                                         *)
(* The loop's callbacks are atomic towards each other and interleave with  *)
(* the workers; a database transaction on the one shared connection takes  *)
(* two steps.  The build modelled is the one with NDEBUG; what the         *)
(* assertions claim is stated as properties.  Undefined behaviour either   *)
(* stops the process or leaves it running (MayStop).                       *)
(***************************************************************************)
EXTENDS Integers, FiniteSets, Sequences, SequencesExt

CONSTANTS Conns,      \* connections, each made at most once
          Machines,   \* the machine IDs clients report
          Workers,    \* threads of the libuv pool
          MaxLogs,    \* bound: batches sent on one connection
          Loop, None

ASSUME NamesDistinct == Loop \notin Workers /\ None \notin Workers \cup {Loop}
ASSUME LogBound == MaxLogs \in Nat

VARIABLES
  up,          \* "running", "stopping", "exited" or "stopped" (abnormally)
  peer,        \* how far the client behind a connection is in the protocol
  next,        \* the record ID its next batch starts from
  machine,     \* the machine ID it reports
  chan,        \* messages it sent that the server has not read
  out,         \* answers written to its socket and not received
  obj,         \* its Client object on the server
  vec,         \* the messages waiting in Client::decoder
  dbc,         \* Client::_client, None while uninitialised
  clientMap,   \* UvHandler::_clientMap
  op,          \* the message whose transaction the loop is in, or None
  sending,     \* UvHandler::_sending_queue
  writeAsync,  \* is writeAsync signalled?
  stopAsync,   \* is stopAsync signalled?
  work,        \* batches queued with uv_queue_work
  worker,      \* what each pool thread is doing
  finished,    \* batches whose after-work callback is due
  txn,         \* who has a transaction open on Database::conn
  dbOpen,      \* is Database::conn connected?
  dbConnected, \* UvHandler::dbConnected
  cached,      \* machines in Database::_clients
  registered,  \* machines in table Client
  rows,        \* batches in table WindowsEvents
  live         \* messages allocated and not deleted

peerVars   == <<peer, next, machine, chan, out>>
clientVars == <<obj, vec, dbc, clientMap>>
poolVars   == <<work, worker, finished>>
dbVars     == <<txn, dbOpen, dbConnected, cached, registered, rows>>
vars == <<up, peerVars, clientVars, op, sending, writeAsync, stopAsync,
          poolVars, dbVars, live>>

\* A request of connection c.  Batch n carries the events up to record ID rid;
\* it asks for an acceptance when it is full, and the database refuses it when
\* one of its events has a severity that LogSeverity does not have.
Connect(c) == [c |-> c, op |-> "CONNECT"]
Query(c)   == [c |-> c, op |-> "QUERY"]
Batch(c, rid, kind, full) ==
  [c |-> c, op |-> "LOG", rid |-> rid, kind |-> kind, full |-> full]
Kinds == {"good", "bad severity", "empty"}
Rids  == 1..MaxLogs
Batches  == {Batch(c, r, k, f) : c \in Conns, r \in Rids, k \in Kinds, f \in BOOLEAN}
Requests == {Connect(c) : c \in Conns} \cup {Query(c) : c \in Conns} \cup Batches

ASSUME NoneIsNoMessage == None \notin Requests

\* An answer to request m; id is what RETURN_LAST_EVENT carries.  The ID of an
\* acceptance is read past the end of the batch and is left out.
Answer(m, o, id) == [to |-> m.c, of |-> m, op |-> o, id |-> id]

Idle == [pc |-> "idle", job |-> None]

\* The cache that Database::Connect fills.
GetAllClients == registered

Init ==
  /\ up = "running"
  /\ peer = [c \in Conns |-> "off"] /\ next = [c \in Conns |-> 1]
  /\ machine \in [Conns -> Machines]
  /\ chan = [c \in Conns |-> <<>>] /\ out = [c \in Conns |-> <<>>]
  /\ obj = [c \in Conns |-> "none"] /\ vec = [c \in Conns |-> <<>>]
  /\ dbc = [c \in Conns |-> None] /\ clientMap = {}
  /\ op = None /\ sending = <<>> /\ writeAsync = FALSE /\ stopAsync = FALSE
  /\ work = <<>> /\ worker = [w \in Workers |-> Idle] /\ finished = <<>>
  /\ txn = None /\ dbOpen = TRUE
  /\ dbConnected \in BOOLEAN            \* never initialised
  /\ registered \in SUBSET Machines
  /\ cached = GetAllClients
  /\ rows = {} /\ live = {}

Running == up = "running"
Alive   == up \in {"running", "stopping"}
LoopFree == Running /\ op = None

\* The process ends here: a failed check, a null pointer, an exception that no
\* handler catches.  Its memory and its connections are gone, the tables stay.
Stops ==
  /\ up' = "stopped"
  /\ peer' = [c \in Conns |-> "gone"]
  /\ chan' = [c \in Conns |-> <<>>] /\ out' = [c \in Conns |-> <<>>]
  /\ obj' = [c \in Conns |-> "none"] /\ vec' = [c \in Conns |-> <<>>]
  /\ dbc' = [c \in Conns |-> None] /\ clientMap' = {}
  /\ op' = None /\ sending' = <<>> /\ writeAsync' = FALSE /\ stopAsync' = FALSE
  /\ work' = <<>> /\ worker' = [w \in Workers |-> Idle] /\ finished' = <<>>
  /\ txn' = None /\ live' = {}
  /\ UNCHANGED <<next, machine, dbOpen, dbConnected, cached, registered, rows>>

\* A handled message is deleted, except a batch: the pool owns it then.
DisposedKeepingNone(m) == {m}
Disposed(m) == IF m.op = "LOG" THEN {} ELSE {m}

\* The last record ID stored for machine m, 0 if none.
LastEventRecordID(m) ==
  LET ids == {b.rid : b \in {r \in rows : machine[r.c] = m}}
  IN  IF ids = {} THEN 0 ELSE CHOOSE i \in ids : \A j \in ids : j <= i

-----------------------------------------------------------------------------
(* The clients: connect, ask for the last event, then send batches *)

PeerConnect(c) ==
  /\ Running /\ peer[c] = "off"
  /\ peer' = [peer EXCEPT ![c] = "connecting"]
  /\ chan' = [chan EXCEPT ![c] = <<Connect(c)>>]
  /\ UNCHANGED <<up, next, machine, out, clientVars, op, sending, writeAsync,
                 stopAsync, poolVars, dbVars, live>>

\* The answer o moves the peer's protocol on, or is ignored.
PeerReceive(c) ==
  /\ out[c] # <<>> /\ peer[c] # "gone"
  /\ out' = [out EXCEPT ![c] = Tail(@)]
  /\ \/ /\ Head(out[c]).op = "CONNECT"
        /\ peer' = [peer EXCEPT ![c] = "querying"]
        /\ chan' = [chan EXCEPT ![c] = Append(@, Query(c))]
        /\ UNCHANGED next
     \/ /\ Head(out[c]).op = "RETURN"
        /\ peer' = [peer EXCEPT ![c] = "sending"]
        /\ next' = [next EXCEPT ![c] = Head(out[c]).id]
        /\ UNCHANGED chan
     \/ /\ Head(out[c]).op \in {"ACCEPT", "REFUSE"}
        /\ UNCHANGED <<peer, next, chan>>
  /\ UNCHANGED <<up, machine, clientVars, op, sending, writeAsync, stopAsync,
                 poolVars, dbVars, live>>

PeerSend(c) ==
  /\ peer[c] = "sending" /\ next[c] <= MaxLogs
  /\ \E k \in Kinds, f \in BOOLEAN :
       chan' = [chan EXCEPT ![c] = Append(@, Batch(c, next[c], k, f))]
  /\ next' = [next EXCEPT ![c] = @ + 1]
  /\ UNCHANGED <<up, peer, machine, out, clientVars, op, sending, writeAsync,
                 stopAsync, poolVars, dbVars, live>>

\* The client goes away; what it sent can still be read.
PeerClose(c) ==
  /\ peer[c] \notin {"off", "gone"}
  /\ peer' = [peer EXCEPT ![c] = "gone"]
  /\ out' = [out EXCEPT ![c] = <<>>]
  /\ UNCHANGED <<up, next, machine, chan, clientVars, op, sending, writeAsync,
                 stopAsync, poolVars, dbVars, live>>

-----------------------------------------------------------------------------
(* The loop: connections *)

AddClientSkipped(c) == clientMap
AddClient(c) == clientMap \cup {c}

\* uvConnectCB; when uv_accept fails the handle is closed without a callback,
\* so the object is neither deleted nor taken out of the map.
Accept(c) ==
  /\ LoopFree /\ peer[c] # "off" /\ obj[c] = "none"
  /\ \E o \in {"open", "leaked"} : obj' = [obj EXCEPT ![c] = o]
  /\ clientMap' = AddClient(c)
  /\ UNCHANGED <<up, peerVars, vec, dbc, op, sending, writeAsync, stopAsync,
                 poolVars, dbVars, live>>

\* uvReadCB with a status below zero.  EOF and ECONNRESET close the handle; any
\* other error only stops the reading.  The callback copies a name through
\* Client::_client, set or not, and deletes libuv's own buffer descriptor.
ReadErrorState(err) == IF err = "other" THEN "zombie" ELSE "closing"

ReadError(c) ==
  /\ LoopFree /\ obj[c] = "open" /\ peer[c] = "gone"
  /\ \/ /\ \E err \in {"EOF", "ECONNRESET", "other"} :
             /\ err = "EOF" => chan[c] = <<>>
             /\ obj' = [obj EXCEPT ![c] = ReadErrorState(err)]
        /\ chan' = [chan EXCEPT ![c] = <<>>]
        /\ UNCHANGED <<up, peer, next, machine, out, vec, dbc, clientMap, op, sending,
                       writeAsync, stopAsync, poolVars, dbVars, live>>
     \/ Stops

\* ~Client resets the decoder, which deletes the messages waiting in it.
Disconnected(c) == clientMap \ {c}

\* uvCloseCB
UvClose(c) ==
  /\ LoopFree /\ obj[c] = "closing"
  /\ clientMap' = Disconnected(c)
  /\ obj' = [obj EXCEPT ![c] = "freed"]
  /\ live' = live \ ToSet(vec[c])
  /\ vec' = [vec EXCEPT ![c] = <<>>]
  /\ UNCHANGED <<up, peerVars, dbc, op, sending, writeAsync, stopAsync,
                 poolVars, dbVars>>

-----------------------------------------------------------------------------
(* The loop: messages *)

\* WriteToNetwork called on the loop: queue the answer, signal writeAsync.
ReplyWithoutSignal(a) ==
  /\ sending' = Append(sending, a)
  /\ UNCHANGED writeAsync

Reply(a) ==
  /\ sending' = Append(sending, a)
  /\ writeAsync' = TRUE

Refuses == dbConnected

\* readFromNetwork after the decoder gave it message m.
HandleMessage(c, m, others) ==
  \/ /\ Refuses
     /\ Reply(Answer(m, "REFUSE", 0))
     /\ live' = (live \cup others) \ {m}
     /\ UNCHANGED <<up, op, work, txn>>
  \/ /\ ~Refuses /\ m.op = "LOG" /\ m.kind # "empty"
     /\ work' = Append(work, m)
     /\ live' = (live \cup others) \ Disposed(m)
     /\ UNCHANGED <<up, op, sending, writeAsync, txn>>
  \/ /\ ~Refuses /\ m.op \in {"CONNECT", "QUERY"} /\ dbOpen /\ txn = None
     /\ op' = m /\ txn' = Loop
     /\ live' = live \cup others
     /\ UNCHANGED <<up, sending, writeAsync, work>>

\* No last event to read the record ID of, or no transaction to be had.
MessageStops(m) ==
  /\ ~Refuses
  /\ IF m.op = "LOG" THEN m.kind = "empty" ELSE ~dbOpen \/ txn # None

\* One read: it may complete any number of messages, none included, and the
\* callback takes one message from the decoder.
Decoded(c, k) == vec[c] \o SubSeq(chan[c], 1, k)

Read(c) ==
  /\ LoopFree /\ obj[c] = "open" /\ chan[c] # <<>>
  /\ \E k \in 0..Len(chan[c]) :
       LET q == Decoded(c, k) IN
         /\ q # <<>>
         /\ \/ /\ chan' = [chan EXCEPT ![c] = SubSeq(@, k + 1, Len(@))]
               /\ vec' = [vec EXCEPT ![c] = Tail(q)]
               /\ HandleMessage(c, Head(q), ToSet(q))
               /\ UNCHANGED <<peer, next, machine, out, obj, dbc, clientMap, stopAsync,
                              worker, finished, dbOpen, dbConnected, cached,
                              registered, rows>>
            \/ MessageStops(Head(q)) /\ Stops
            \/ dbc[c] = None /\ Stops    \* _client is read uninitialised

\* GetClient: a machine of the cache is updated, an unknown one is inserted
\* (and not put into the cache).  A changed OS version or a machine inserted
\* since the start ends, like any error of the database here, in an exception
\* that nothing catches.
FirstClient(m) == CHOOSE n \in Machines : TRUE
GetClient(m) == m

FinishConnect ==
  /\ Running /\ op # None /\ op.op = "CONNECT"
  /\ LET m == machine[op.c] IN
       \/ /\ dbOpen /\ (m \in cached \/ m \notin registered)
          /\ registered' = registered \cup {m}
          /\ dbc' = [dbc EXCEPT ![op.c] = GetClient(m)]
          /\ Reply(Answer(op, "CONNECT", 0))
          /\ op' = None /\ txn' = None /\ live' = live \ Disposed(op)
          /\ UNCHANGED <<up, peerVars, obj, vec, clientMap, stopAsync, poolVars,
                         dbOpen, dbConnected, cached, rows>>
       \/ Stops

NextEventIDTooHigh(m) == LastEventRecordID(m) + 2
NextEventIDNegative(m) == LastEventRecordID(m) - 1
NextEventID(m) == LastEventRecordID(m) + 1

FinishQuery ==
  /\ Running /\ op # None /\ op.op = "QUERY"
  /\ \/ /\ dbOpen
        /\ Reply(Answer(op, "RETURN", NextEventID(dbc[op.c])))
        /\ op' = None /\ txn' = None /\ live' = live \ Disposed(op)
        /\ UNCHANGED <<up, peerVars, clientVars, stopAsync, poolVars, dbOpen,
                       dbConnected, cached, registered, rows>>
     \/ ~dbOpen /\ Stops

\* The elements of s at the positions P, in their order: SelectSeq, in a form
\* that can be reasoned about without induction.
Chosen(s, P) ==
  [n \in 1..Cardinality(P) |-> s[CHOOSE i \in P : Cardinality({j \in P : j < i}) = n - 1]]

\* _WriteToNetwork drains the queue.  An answer to a closed handle is dropped,
\* one to a freed handle is undefined.  Writing to a peer that is gone raises
\* SIGPIPE.
Delivered(c) == Chosen(sending, {i \in DOMAIN sending : sending[i].to = c})

DrainedByOne(q) == Tail(q)
Drained(q) == <<>>

BrokenPipe ==
  \E a \in ToSet(sending) : peer[a.to] = "gone" /\ obj[a.to] \in {"open", "zombie"}

\* Database::Connect on a closed connection: it connects, which abandons a
\* transaction on the old connection and reads the table of clients again, or
\* gives up after its retries.
Connected ==
  /\ dbOpen' = TRUE /\ txn' = None /\ cached' = GetAllClients
  /\ UNCHANGED stopAsync

GivesUp ==
  /\ stopAsync' = TRUE
  /\ UNCHANGED <<dbOpen, txn, cached>>

\* SIGPIPEHandler takes over the state of the database connection as it was, and
\* if that is closed connects anew or stops the loop; dbConnected is not set again.
SIGPIPEHandler ==
  /\ dbConnected' = dbOpen
  /\ \/ dbOpen /\ UNCHANGED <<dbOpen, txn, cached, stopAsync>>
     \/ ~dbOpen /\ (Connected \/ GivesUp)

WriteToNetwork ==
  /\ LoopFree /\ writeAsync
  /\ \/ /\ writeAsync' = FALSE
        /\ sending' = Drained(sending)
        /\ out' = [c \in Conns |->
                     IF peer[c] # "gone" /\ obj[c] \in {"open", "zombie"}
                     THEN out[c] \o Delivered(c) ELSE out[c]]
        /\ \/ UNCHANGED <<dbConnected, dbOpen, txn, cached, stopAsync>>
           \/ BrokenPipe /\ SIGPIPEHandler
        /\ UNCHANGED <<up, peer, next, machine, chan, clientVars, op, poolVars,
                       registered, rows, live>>
     \/ /\ \/ \E a \in ToSet(sending) : obj[a.to] = "freed"
           \/ BrokenPipe /\ ~dbOpen
        /\ Stops

-----------------------------------------------------------------------------
(* The thread pool *)

\* A worker takes the oldest batch and opens a transaction: two on one
\* connection, or one on a closed connection, is an uncaught exception.
StartWork(w) ==
  /\ Alive /\ worker[w] = Idle /\ work # <<>>
  /\ \/ /\ txn = None /\ dbOpen
        /\ txn' = w
        /\ worker' = [worker EXCEPT ![w] = [pc |-> "insert", job |-> Head(work)]]
        /\ work' = Tail(work)
        /\ UNCHANGED <<up, peerVars, clientVars, op, sending, writeAsync,
                       stopAsync, finished, dbOpen, dbConnected, cached,
                       registered, rows, live>>
     \/ /\ txn # None \/ ~dbOpen \/ obj[Head(work).c] = "freed"
        /\ Stops

\* InsertWindowsEvents commits, or catches the SQL error and aborts; both ways
\* the caller goes on to accept the batch.
StoredNever(b) == rows
Stored(b) == IF b.kind = "good" THEN rows \cup {b} ELSE rows

AfterInsertAccepting(b) == "accept"
AfterInsert(b) == IF b.full THEN "accept" ELSE "return"

InsertWindowsEvents(w) ==
  /\ Alive /\ worker[w].pc = "insert"
  /\ LET b == worker[w].job IN
       \/ /\ dbOpen /\ txn = w
          /\ rows' = Stored(b)
          /\ txn' = None
          /\ worker' = [worker EXCEPT ![w].pc = AfterInsert(b)]
          /\ UNCHANGED <<up, peerVars, clientVars, op, sending, writeAsync,
                         stopAsync, work, finished, dbOpen, dbConnected, cached,
                         registered, live>>
       \/ /\ ~dbOpen \/ txn # w
          /\ Stops

\* The worker's half of WriteToNetwork: queue the acceptance under the mutex.
AcceptBatch(w) ==
  /\ Alive /\ worker[w].pc = "accept"
  /\ LET b == worker[w].job IN
       \/ /\ sending' = Append(sending, Answer(b, "ACCEPT", 0))
          /\ worker' = [worker EXCEPT ![w].pc = "wake"]
          /\ UNCHANGED <<up, peerVars, clientVars, op, writeAsync, stopAsync,
                         work, finished, dbVars, live>>
       \/ obj[b.c] = "freed" /\ Stops

\* uv_async_send, after the mutex is released.
WakeLoop(w) ==
  /\ Alive /\ worker[w].pc = "wake"
  /\ writeAsync' = TRUE
  /\ worker' = [worker EXCEPT ![w].pc = "return"]
  /\ UNCHANGED <<up, peerVars, clientVars, op, sending, stopAsync, work,
                 finished, dbVars, live>>

FinishWork(w) ==
  /\ Alive /\ worker[w].pc = "return"
  /\ finished' = Append(finished, worker[w].job)
  /\ worker' = [worker EXCEPT ![w] = Idle]
  /\ UNCHANGED <<up, peerVars, clientVars, op, sending, writeAsync, stopAsync,
                 work, dbVars, live>>

\* The after-work callback, on the loop, deletes the package.
AfterWorkKeeping ==
  /\ Alive /\ op = None /\ finished # <<>>
  /\ finished' = Tail(finished)
  /\ UNCHANGED <<up, peerVars, clientVars, op, sending, writeAsync, stopAsync,
                 work, worker, dbVars, live>>

AfterWork ==
  /\ Alive /\ op = None /\ finished # <<>>
  /\ finished' = Tail(finished)
  /\ live' = live \ {Head(finished)}
  /\ UNCHANGED <<up, peerVars, clientVars, op, sending, writeAsync, stopAsync,
                 work, worker, dbVars>>

-----------------------------------------------------------------------------
(* Environment and shutdown *)

DropDatabase ==
  /\ Running /\ dbOpen
  /\ dbOpen' = FALSE
  /\ UNCHANGED <<up, peerVars, clientVars, op, sending, writeAsync, stopAsync,
                 poolVars, txn, dbConnected, cached, registered, rows, live>>

SIGTERM ==
  /\ Running /\ ~stopAsync
  /\ stopAsync' = TRUE
  /\ UNCHANGED <<up, peerVars, clientVars, op, sending, writeAsync, poolVars,
                 dbVars, live>>

\* The stop callback closes every handle of the loop.  It deletes each client
\* between two uv_close calls on its handle, which is undefined.
Walked == {c \in clientMap : obj[c] # "leaked"}

StopLoop ==
  /\ LoopFree /\ stopAsync
  /\ \/ /\ up' = "stopping" /\ stopAsync' = FALSE
        /\ clientMap' = clientMap \ Walked
        /\ obj' = [c \in Conns |-> IF c \in Walked THEN "freed" ELSE obj[c]]
        /\ vec' = [c \in Conns |-> IF c \in Walked THEN <<>> ELSE vec[c]]
        /\ live' = live \ (UNION {ToSet(vec[c]) : c \in Walked})
        /\ UNCHANGED <<peerVars, dbc, op, sending, writeAsync, poolVars, dbVars>>
     \/ Walked # {} /\ Stops

\* uv_run returns when no request is pending; DestroyUvHandler drops the queue.
Exit ==
  /\ up = "stopping" /\ work = <<>> /\ finished = <<>>
  /\ \A w \in Workers : worker[w] = Idle
  /\ up' = "exited" /\ sending' = <<>>
  /\ UNCHANGED <<peerVars, clientVars, op, writeAsync, stopAsync, poolVars,
                 dbVars, live>>

PeerStep   == \E c \in Conns :
                PeerConnect(c) \/ PeerReceive(c) \/ PeerSend(c) \/ PeerClose(c)
LoopStep   == \/ \E c \in Conns : Accept(c) \/ Read(c) \/ ReadError(c) \/ UvClose(c)
              \/ FinishConnect \/ FinishQuery \/ WriteToNetwork
              \/ AfterWork \/ StopLoop \/ Exit
WorkerStep(w) == \/ StartWork(w) \/ InsertWindowsEvents(w) \/ AcceptBatch(w)
                 \/ WakeLoop(w) \/ FinishWork(w)

Next == PeerStep \/ LoopStep \/ (\E w \in Workers : WorkerStep(w))
        \/ DropDatabase \/ SIGTERM

Spec == Init /\ [][Next]_vars

\* Every thread that can take a step takes one, and so does the loop for every
\* callback that is due; clients and signals may do nothing.
Fairness ==
  /\ \A w \in Workers : WF_vars(WorkerStep(w))
  /\ WF_vars(FinishConnect) /\ WF_vars(FinishQuery)
  /\ WF_vars(WriteToNetwork) /\ WF_vars(AfterWork)
  /\ \A c \in Conns : WF_vars(Read(c)) /\ WF_vars(UvClose(c))
  /\ WF_vars(StopLoop) /\ WF_vars(Exit)

FairSpec == Spec /\ Fairness

-----------------------------------------------------------------------------
(* Properties *)

Down == up \in {"stopped", "exited"}

PeerStates   == {"off", "connecting", "querying", "sending", "gone"}
ObjectStates == {"none", "open", "leaked", "zombie", "closing", "freed"}
WorkerSteps  == {"insert", "accept", "wake", "return"}
Answers == {a \in [to: Conns, of: Requests,
                   op: {"CONNECT", "RETURN", "ACCEPT", "REFUSE"}, id: Nat] :
              a.op = "RETURN" => a.id # 0}

\* The server's state has the types its declarations give it; record IDs start at 1.
TypeOK ==
  /\ up \in {"running", "stopping", "exited", "stopped"}
  /\ peer \in [Conns -> PeerStates] /\ next \in [Conns -> Nat \ {0}]
  /\ machine \in [Conns -> Machines]
  /\ chan \in [Conns -> Seq(Requests)] /\ out \in [Conns -> Seq(Answers)]
  /\ obj \in [Conns -> ObjectStates] /\ vec \in [Conns -> Seq(Requests)]
  /\ dbc \in [Conns -> Machines \cup {None}] /\ clientMap \subseteq Conns
  /\ op \in Requests \cup {None} /\ sending \in Seq(Answers)
  /\ writeAsync \in BOOLEAN /\ stopAsync \in BOOLEAN
  /\ work \in Seq(Batches) /\ finished \in Seq(Batches)
  /\ worker \in [Workers -> [pc: WorkerSteps, job: Batches] \cup {Idle}]
  /\ txn \in Workers \cup {Loop, None}
  /\ dbOpen \in BOOLEAN /\ dbConnected \in BOOLEAN
  /\ cached \subseteq Machines /\ registered \subseteq Machines
  /\ rows \subseteq Batches /\ live \subseteq Requests

\* The assertion of ClientDisconnect, and what it rests on: _clientMap holds
\* exactly the clients whose object exists.
MapHoldsLiveClients ==
  clientMap = {c \in Conns : obj[c] \notin {"none", "freed"}}

\* The jobs of the pool.
Jobs == {worker[w].job : w \in {v \in Workers : worker[v] # Idle}}

\* Every message allocated has one owner and is deleted once: the decoder that
\* it waits in, the loop, or, for a batch passed to the pool, the work request
\* ("DOTNOT destroy it", client.cpp:87).
Owners(m) ==
  Cardinality({c \in Conns : m \in ToSet(vec[c])})
  + (IF op = m THEN 1 ELSE 0)
  + Cardinality({i \in DOMAIN work : work[i] = m})
  + Cardinality({w \in Workers : worker[w].job = m})
  + Cardinality({i \in DOMAIN finished : finished[i] = m})

Held == (UNION {ToSet(vec[c]) : c \in Conns}) \cup ({op} \ {None})
        \cup ToSet(work) \cup Jobs \cup ToSet(finished)

OneOwner == live = Held /\ \A m \in live : Owners(m) = 1

\* A queued answer is never forgotten: the loop is signalled, or a worker is
\* about to signal it.
WakeupPending ==
  Running /\ sending # <<>> =>
    writeAsync \/ \E w \in Workers : worker[w].pc = "wake"

\* Client::_client is set before a batch or a query uses it.
ClientKnownBeforeUse ==
  \A m \in Held : m.op # "CONNECT" => dbc[m.c] = machine[m.c]

\* Where a client is told to go on lies at most one beyond what is stored for
\* its machine: no event is skipped.
ResumeWithoutGap ==
  \A a \in ToSet(sending) \cup (UNION {ToSet(out[c]) : c \in Conns}) :
    a.op = "RETURN" => a.id <= LastEventRecordID(machine[a.to]) + 1

\* An acceptance is sent once, by the worker, after the batch's transaction: the
\* batch is no longer queued or being inserted, and unless the database rejected
\* it, it is in the table.
Acceptances(b) ==
  Cardinality({i \in DOMAIN sending : sending[i].op = "ACCEPT" /\ sending[i].of = b})
  + Cardinality({i \in DOMAIN out[b.c] : out[b.c][i].op = "ACCEPT" /\ out[b.c][i].of = b})

AcceptAfterTransaction ==
  \A b \in Batches :
    Acceptances(b) > 0 =>
      /\ b.full /\ Acceptances(b) = 1
      /\ b.kind = "good" => b \in rows
      /\ b \notin ToSet(work)
      /\ \A w \in Workers : worker[w].job = b => worker[w].pc \in {"wake", "return"}

\* Connection c as Session sees it: what c has sent and the server has not dealt
\* with, and the answers on their way.
LinkState(c) ==
  IF peer[c] = "off" THEN "closed"
  ELSE IF peer[c] = "gone" \/ ~Running THEN "lost" ELSE "open"

Kind(m) == IF m.op = "LOG" THEN (IF m.full THEN "FULL" ELSE "PART") ELSE m.op

Undealt(c) ==
  {m \in ToSet(chan[c]) \cup ToSet(vec[c]) \cup ({op} \ {None}) \cup ToSet(work)
        \cup {worker[w].job : w \in {v \in Workers : worker[v].pc \in {"insert", "accept"}}} :
     m.c = c}

Pending(c) ==
  [k \in {"CONNECT", "QUERY", "FULL", "PART"} |->
     IF LinkState(c) = "open" THEN Cardinality({m \in Undealt(c) : Kind(m) = k}) ELSE 0]

UnderWay(c) == IF LinkState(c) = "open" THEN out[c] \o Delivered(c) ELSE <<>>

Contract(c) == INSTANCE Session WITH
  link <- LinkState(c), resumed <- LinkState(c) = "open" /\ peer[c] = "sending",
  pending <- Pending(c), answers <- [i \in DOMAIN UnderWay(c) |-> UnderWay(c)[i].op]

\* The server keeps its side of the session on each connection, however the loop
\* and the pool interleave: every answer answers one request, of the right kind.
\* This is \A c \in Conns : Contract(c)!Spec.
KeepsSession ==
  /\ \A c \in Conns : Contract(c)!Init
  /\ [][\A c \in Conns : [Contract(c)!Next]_(Contract(c)!vars)]_vars

\* A batch handed to the pool is eventually given back and deleted.
Queued(c, i)    == \E b \in ToSet(work) : b.c = c /\ b.rid = i
Allocated(c, i) == \E b \in live : b.c = c /\ b.op = "LOG" /\ b.rid = i

WorkReclaimed ==
  \A c \in Conns, i \in Rids : Queued(c, i) ~> (Down \/ ~Allocated(c, i))

\* A queued answer is eventually written out or dropped with the process.
AnswersWritten == sending # <<>> ~> (Down \/ sending = <<>>)

-----------------------------------------------------------------------------
(* What the repository says and the code does not do *)

\* "Refuse Package: database disconnected." is sent only when it is.
RefusedWhenDisconnected ==
  [][Len(sending') > Len(sending) /\ Last(sending').op = "REFUSE" => ~dbOpen]_vars

\* "Refuse: database exception": a batch that the database rejected is refused,
\* so one that is accepted has been stored.
AcceptedIsStored ==
  \A a \in ToSet(sending) : a.op = "ACCEPT" => a.of \in rows

\* One read may complete two messages (ProtobufLibraryTest, encode3); each of
\* them is handled.
EveryMessageHandled ==
  \A c \in Conns :
    obj[c] = "open" /\ vec[c] # <<>> ~> Down \/ obj[c] # "open" \/ vec[c] = <<>>
=============================================================================
