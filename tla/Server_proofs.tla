---------------------------- MODULE Server_proofs ----------------------------
(***************************************************************************)
(* Proofs about the server for every number of connections, machines and   *)
(* pool threads: its map, its wakeups, and that it implements Session on   *)
(* each of its connections.                                                *)
(***************************************************************************)
EXTENDS ServerInvariant_proofs

\* The parts of the type invariant that the two theorems rest on.
ClientTypes == obj \in [Conns -> ObjectStates] /\ clientMap \subseteq Conns

WorkerRecords ==
  /\ worker = [v \in Workers |-> worker[v]]
  /\ \A v \in Workers : worker[v] = [pc |-> worker[v].pc, job |-> worker[v].job]

\* Every step takes one of the actions.
LEMMA Actions ==
  ASSUME Next
  PROVE  \/ PeerStep \/ DropDatabase \/ SIGTERM
         \/ \E c \in Conns : Accept(c) \/ Read(c) \/ ReadError(c) \/ UvClose(c)
         \/ FinishConnect \/ FinishQuery \/ WriteToNetwork
         \/ AfterWork \/ StopLoop \/ Exit
         \/ \E w \in Workers : WorkerStep(w)
  BY DEF Next, LoopStep

-----------------------------------------------------------------------------
(* _clientMap mirrors the objects *)

MapInv == ClientTypes /\ MapHoldsLiveClients

\* An abnormal end leaves no object and no map.
LEMMA StopsMapInv ==
  ASSUME Stops
  PROVE  MapInv'
  BY DEF Stops, MapInv, ClientTypes, MapHoldsLiveClients, ObjectStates

\* Whatever leaves the objects and the map alone preserves the invariant.
LEMMA QuietMapInv ==
  ASSUME MapInv, UNCHANGED <<obj, clientMap>>
  PROVE  MapInv'
  BY DEF MapInv, ClientTypes, MapHoldsLiveClients

\* uvConnectCB allocates a client and adds it to the map.
LEMMA AcceptMapInv ==
  ASSUME MapInv, NEW c \in Conns, Accept(c)
  PROVE  MapInv'
  BY DEF MapInv, ClientTypes, MapHoldsLiveClients, ObjectStates, Accept, AddClient

\* uvReadCB on an error leaves the object allocated and in the map.
LEMMA ReadErrorMapInv ==
  ASSUME MapInv, NEW c \in Conns, ReadError(c)
  PROVE  MapInv'
  <1>1. CASE Stops
    BY <1>1, StopsMapInv
  <1>2. CASE /\ obj[c] = "open"
             /\ \E err \in {"EOF", "ECONNRESET", "other"} :
                  obj' = [obj EXCEPT ![c] = ReadErrorState(err)]
             /\ UNCHANGED clientMap
    BY <1>2 DEF MapInv, ClientTypes, MapHoldsLiveClients, ObjectStates, ReadErrorState
  <1>3. QED
    BY <1>1, <1>2 DEF ReadError

\* uvCloseCB takes the client out of the map and deletes it.
LEMMA UvCloseMapInv ==
  ASSUME MapInv, NEW c \in Conns, UvClose(c)
  PROVE  MapInv'
  BY DEF MapInv, ClientTypes, MapHoldsLiveClients, ObjectStates, UvClose, Disconnected

\* The stop callback takes out exactly the clients it deletes.
LEMMA StopLoopMapInv ==
  ASSUME MapInv, StopLoop
  PROVE  MapInv'
  <1>1. CASE Stops
    BY <1>1, StopsMapInv
  <1>2. CASE /\ clientMap' = clientMap \ Walked
             /\ obj' = [c \in Conns |-> IF c \in Walked THEN "freed" ELSE obj[c]]
    BY <1>2 DEF MapInv, ClientTypes, MapHoldsLiveClients, ObjectStates, Walked
  <1>3. QED
    BY <1>1, <1>2 DEF StopLoop

\* The invariant is inductive.
LEMMA NextMapInv ==
  ASSUME MapInv, [Next]_vars
  PROVE  MapInv'
  <1>1. CASE PeerStep
    BY <1>1, QuietMapInv
       DEF PeerStep, PeerConnect, PeerReceive, PeerSend, PeerClose, clientVars
  <1>2. CASE DropDatabase \/ SIGTERM \/ AfterWork \/ Exit
    BY <1>2, QuietMapInv DEF DropDatabase, SIGTERM, AfterWork, Exit, clientVars
  <1>3. CASE \E c \in Conns : Read(c)
    <2>1. CASE Stops
      BY <2>1, StopsMapInv
    <2>2. CASE UNCHANGED <<obj, clientMap>>
      BY <2>2, QuietMapInv
    <2>3. QED
      BY <1>3, <2>1, <2>2 DEF Read
  <1>4. CASE FinishConnect \/ FinishQuery \/ WriteToNetwork
    <2>1. CASE Stops
      BY <2>1, StopsMapInv
    <2>2. CASE UNCHANGED <<obj, clientMap>>
      BY <2>2, QuietMapInv
    <2>3. QED
      BY <1>4, <2>1, <2>2 DEF FinishConnect, FinishQuery, WriteToNetwork, clientVars
  <1>5. CASE \E w \in Workers : WorkerStep(w)
    <2>1. CASE Stops
      BY <2>1, StopsMapInv
    <2>2. CASE UNCHANGED <<obj, clientMap>>
      BY <2>2, QuietMapInv
    <2>3. QED
      BY <1>5, <2>1, <2>2
         DEF WorkerStep, StartWork, InsertWindowsEvents, AcceptBatch, WakeLoop,
             FinishWork, clientVars
  <1>6. CASE UNCHANGED vars
    BY <1>6, QuietMapInv DEF vars, clientVars
  <1>7. QED
    BY <1>1, <1>2, <1>3, <1>4, <1>5, <1>6, Actions, AcceptMapInv, ReadErrorMapInv,
       UvCloseMapInv, StopLoopMapInv

\* _clientMap always holds exactly the clients whose object exists: the
\* assertion of ClientDisconnect (uv.cpp:233) holds whatever the order of
\* accepts, errors, closes and the stop signal.
THEOREM MapConsistent ==
  Spec => []MapHoldsLiveClients
  <1>1. Init => MapInv
    BY DEF Init, MapInv, ClientTypes, MapHoldsLiveClients, ObjectStates
  <1>2. MapInv /\ [Next]_vars => MapInv'
    BY NextMapInv
  <1>3. MapInv => MapHoldsLiveClients
    BY DEF MapInv
  <1>4. QED
    BY <1>1, <1>2, <1>3, PTL DEF Spec

-----------------------------------------------------------------------------
(* No answer waits in the queue without a signal *)

WakeInv == WorkerRecords /\ WakeupPending

\* After an abnormal end nothing runs.
LEMMA StopsWakeInv ==
  ASSUME Stops
  PROVE  WakeInv'
  BY DEF Stops, WakeInv, WorkerRecords, WakeupPending, Running, Idle

\* Whatever touches neither the queue, its signal nor the pool preserves it.
LEMMA QuietWakeInv ==
  ASSUME WakeInv, Running' => Running, UNCHANGED <<sending, writeAsync, worker>>
  PROVE  WakeInv'
  BY DEF WakeInv, WorkerRecords, WakeupPending

\* The loop signals itself when it queues an answer.
LEMMA ReplyWakeInv ==
  ASSUME WakeInv, NEW a, Reply(a), UNCHANGED worker
  PROVE  WakeInv'
  BY DEF WakeInv, WorkerRecords, WakeupPending, Reply

\* readFromNetwork replies, or leaves the queue alone.
LEMMA ReadWakeInv ==
  ASSUME WakeInv, NEW c \in Conns, Read(c)
  PROVE  WakeInv'
  <1>1. CASE Stops
    BY <1>1, StopsWakeInv
  <1>2. CASE \E k \in 0..Len(chan[c]) :
               /\ HandleMessage(c, Head(Decoded(c, k)), ToSet(Decoded(c, k)))
               /\ UNCHANGED worker
    <2>1. CASE (\E a : Reply(a)) /\ UNCHANGED worker
      BY <2>1, ReplyWakeInv
    <2>2. CASE UNCHANGED <<up, sending, writeAsync, worker>>
      BY <2>2, QuietWakeInv DEF Running
    <2>3. QED
      BY <1>2, <2>1, <2>2 DEF HandleMessage
  <1>3. QED
    BY <1>1, <1>2 DEF Read

\* The end of a transaction of the loop replies.
LEMMA FinishWakeInv ==
  ASSUME WakeInv, FinishConnect \/ FinishQuery
  PROVE  WakeInv'
  <1>1. CASE Stops
    BY <1>1, StopsWakeInv
  <1>2. CASE (\E a : Reply(a)) /\ UNCHANGED worker
    BY <1>2, ReplyWakeInv
  <1>3. QED
    BY <1>1, <1>2 DEF FinishConnect, FinishQuery, poolVars

\* _WriteToNetwork resets the signal and empties the queue.
LEMMA WriteWakeInv ==
  ASSUME WakeInv, WriteToNetwork
  PROVE  WakeInv'
  <1>1. CASE Stops
    BY <1>1, StopsWakeInv
  <1>2. CASE sending' = <<>> /\ UNCHANGED worker
    BY <1>2 DEF WakeInv, WorkerRecords, WakeupPending
  <1>3. QED
    BY <1>1, <1>2 DEF WriteToNetwork, Drained, poolVars

\* A pool thread queues an answer and then signals; no other step of a thread
\* leaves the state in which the signal is due.
LEMMA WorkerWakeInv ==
  ASSUME WakeInv, NEW w \in Workers, WorkerStep(w)
  PROVE  WakeInv'
  <1> USE DEF WakeInv, WorkerRecords, WakeupPending, WorkerSteps, Idle, Running
  <1>1. CASE Stops
    BY <1>1, StopsWakeInv
  <1>2. CASE StartWork(w) /\ ~Stops
    BY <1>2 DEF StartWork
  <1>3. CASE InsertWindowsEvents(w) /\ ~Stops
    BY <1>3 DEF InsertWindowsEvents, AfterInsert
  <1>4. CASE AcceptBatch(w) /\ ~Stops
    BY <1>4 DEF AcceptBatch
  <1>5. CASE WakeLoop(w)
    BY <1>5 DEF WakeLoop
  <1>6. CASE FinishWork(w)
    BY <1>6 DEF FinishWork
  <1>7. QED
    BY <1>1, <1>2, <1>3, <1>4, <1>5, <1>6 DEF WorkerStep

\* The invariant is inductive.
LEMMA NextWakeInv ==
  ASSUME WakeInv, [Next]_vars
  PROVE  WakeInv'
  <1>1. CASE PeerStep
    BY <1>1, QuietWakeInv
       DEF PeerStep, PeerConnect, PeerReceive, PeerSend, PeerClose, poolVars, Running
  <1>2. CASE DropDatabase \/ SIGTERM \/ AfterWork
    BY <1>2, QuietWakeInv DEF DropDatabase, SIGTERM, AfterWork, poolVars, Running
  <1>3. CASE \E c \in Conns : Accept(c) \/ UvClose(c)
    BY <1>3, QuietWakeInv DEF Accept, UvClose, poolVars, Running
  <1>4. CASE \E c \in Conns : ReadError(c)
    <2>1. CASE Stops
      BY <2>1, StopsWakeInv
    <2>2. CASE UNCHANGED <<up, sending, writeAsync, worker>>
      BY <2>2, QuietWakeInv DEF Running
    <2>3. QED
      BY <1>4, <2>1, <2>2 DEF ReadError, poolVars
  <1>5. CASE StopLoop
    <2>1. CASE Stops
      BY <2>1, StopsWakeInv
    <2>2. CASE up' = "stopping" /\ UNCHANGED <<sending, writeAsync, worker>>
      BY <2>2, QuietWakeInv DEF Running
    <2>3. QED
      BY <1>5, <2>1, <2>2 DEF StopLoop, poolVars
  <1>6. CASE Exit
    BY <1>6 DEF Exit, WakeInv, WorkerRecords, WakeupPending, Running, poolVars
  <1>7. CASE UNCHANGED vars
    BY <1>7, QuietWakeInv DEF vars, poolVars, Running
  <1>8. QED
    BY <1>1, <1>2, <1>3, <1>4, <1>5, <1>6, <1>7, Actions, ReadWakeInv, FinishWakeInv,
       WriteWakeInv, WorkerWakeInv

\* While the server runs, an answer in _sending_queue has its signal set or about
\* to be set by the thread that queued it: pushing under the mutex and signalling
\* after it (uv.cpp:189-193) loses no wake-up, for any number of threads.
THEOREM NoLostWakeup ==
  Spec => []WakeupPending
  <1>1. Init => WakeInv
    BY DEF Init, WakeInv, WorkerRecords, WakeupPending, Idle
  <1>2. WakeInv /\ [Next]_vars => WakeInv'
    BY NextWakeInv
  <1>3. WakeInv => WakeupPending
    BY DEF WakeInv
  <1>4. QED
    BY <1>1, <1>2, <1>3, PTL DEF Spec

-----------------------------------------------------------------------------
(* What the server holds of an open connection *)

\* A step that gives the server nothing of a connection whose handle is not open.
LEMMA ServedStays ==
  ASSUME NEW c \in Conns, Served(c),
         Running' => Running, peer[c] = "gone" => peer'[c] = "gone",
         obj'[c] = obj[c] \/ (obj[c] = "none" /\ obj'[c] \in {"open", "leaked"}),
         \A m \in Taken' : m.c = c => m \in Taken \/ obj[c] = "open",
         \A a \in ToSet(sending') : a.to = c => a \in ToSet(sending) \/ obj[c] = "open"
  PROVE  Served(c)'
  BY DEF Served

\* Where the batches of the pool go.
LEMMA PoolTaken ==
  ASSUME Inv, NEW w \in Workers, WorkerStep(w), ~Stops
  PROVE  /\ Taken' = Taken
         /\ UNCHANGED <<up, peer, next, out, vec, chan, obj, op>>
         /\ \/ sending' = sending
            \/ sending' = Append(sending, Answer(worker[w].job, "ACCEPT", 0)) /\ AcceptBatch(w)
  <1>1. CASE StartWork(w)
    <2>1. /\ worker[w] = Idle /\ work # <<>> /\ work' = Tail(work)
          /\ worker' = [worker EXCEPT ![w] = [pc |-> "insert", job |-> Head(work)]]
          /\ UNCHANGED <<up, peer, next, out, vec, chan, obj, op, sending, finished>>
      BY <1>1 DEF StartWork, peerVars, clientVars
    <2>2. ToSet(work) = {Head(work)} \cup ToSet(work')
      BY <2>1, ToSetHeadTail DEF Inv, TypeOK
    <2>3. /\ \A u \in Workers \ {w} : worker'[u] = worker[u]
          /\ worker'[w].job = Head(work) /\ worker'[w] # Idle
      BY <2>1 DEF Inv, TypeOK, Idle
    <2>4. Jobs' = Jobs \cup {Head(work)}
      BY <2>1, <2>3 DEF Jobs
    <2> QED BY <2>1, <2>2, <2>4 DEF Taken
  <1>2. CASE FinishWork(w)
    <2>1. /\ worker[w].pc = "return" /\ finished' = Append(finished, worker[w].job)
          /\ worker' = [worker EXCEPT ![w] = Idle]
          /\ UNCHANGED <<up, peer, next, out, vec, chan, obj, op, sending, work>>
      BY <1>2 DEF FinishWork, peerVars, clientVars
    <2>2. /\ worker[w] # Idle /\ worker[w].job \in Batches /\ finished \in Seq(Batches)
          /\ \A u \in Workers \ {w} : worker'[u] = worker[u]
          /\ worker'[w] = Idle
      BY <2>1, WorkerTypes DEF Inv, TypeOK, Idle
    <2>3. ToSet(finished') = ToSet(finished) \cup {worker[w].job}
      BY <2>1, <2>2, ToSetAppend
    <2>4. Jobs = Jobs' \cup {worker[w].job}
      BY <2>2 DEF Jobs
    <2> QED BY <2>1, <2>3, <2>4 DEF Taken
  <1>3. CASE InsertWindowsEvents(w)
    <2>1. PICK p : Works(w, p)
      BY <1>3 DEF InsertWindowsEvents, Works, AfterInsert, WorkerSteps, peerVars, clientVars
    <2>2. UNCHANGED <<up, peer, next, out, vec, chan, obj, op, sending>>
      BY <1>3 DEF InsertWindowsEvents, peerVars, clientVars
    <2> QED BY <2>1, <2>2, WorksJobs DEF Inv
  <1>4. CASE AcceptBatch(w)
    <2>1. /\ Works(w, "wake") /\ UNCHANGED <<up, peer, next, out, vec, chan, obj, op>>
          /\ sending' = Append(sending, Answer(worker[w].job, "ACCEPT", 0))
      BY <1>4 DEF AcceptBatch, Works, WorkerSteps, peerVars, clientVars, dbVars
    <2> QED BY <1>4, <2>1, WorksJobs DEF Inv
  <1>5. CASE WakeLoop(w)
    <2>1. /\ Works(w, "return")
          /\ UNCHANGED <<up, peer, next, out, vec, chan, obj, op, sending>>
      BY <1>5 DEF WakeLoop, Works, WorkerSteps, peerVars, clientVars, dbVars
    <2> QED BY <2>1, WorksJobs DEF Inv
  <1> QED BY <1>1, <1>2, <1>3, <1>4, <1>5 DEF WorkerStep

\* The steps that give the server nothing.
LEMMA ServedQuiet ==
  ASSUME Inv, NEW c \in Conns, Served(c), ~Stops,
         \/ PeerStep \/ DropDatabase \/ SIGTERM \/ WriteToNetwork \/ AfterWork
         \/ StopLoop \/ Exit \/ UNCHANGED vars
         \/ \E d \in Conns : Accept(d) \/ ReadError(d) \/ UvClose(d)
  PROVE  Served(c)'
  <1>1. CASE PeerStep
    <2>1. UNCHANGED <<up, obj, op, sending, work, worker, finished>>
      BY <1>1 DEF PeerStep, PeerConnect, PeerReceive, PeerSend, PeerClose, clientVars, poolVars
    <2>2. peer[c] = "gone" => peer'[c] = "gone"
      BY <1>1 DEF PeerStep, PeerConnect, PeerReceive, PeerSend, PeerClose, Inv, TypeOK
    <2>3. Taken' = Taken
      BY <2>1 DEF Taken, Jobs
    <2> QED BY <2>1, <2>2, <2>3, ServedStays DEF Running
  <1>2. CASE DropDatabase \/ SIGTERM \/ UNCHANGED vars
    <2>1. UNCHANGED <<up, peer, obj, op, sending, work, worker, finished>>
      BY <1>2 DEF DropDatabase, SIGTERM, vars, peerVars, clientVars, poolVars
    <2>2. Taken' = Taken
      BY <2>1 DEF Taken, Jobs
    <2> QED BY <2>1, <2>2, ServedStays DEF Running
  <1>3. CASE WriteToNetwork
    <2>1. UNCHANGED <<up, peer, obj, op, work, worker, finished>> /\ sending' = <<>>
      BY <1>3 DEF WriteToNetwork, Drained, clientVars, poolVars
    <2>2. Taken' = Taken
      BY <2>1 DEF Taken, Jobs
    <2>3. ToSet(sending') = {}
      <3>1. sending' \in Seq(Answers)
        BY <2>1, EmptySeq
      <3> QED BY <2>1, <3>1, ToSetEmpty
    <2> QED BY <2>1, <2>2, <2>3, ServedStays DEF Running
  <1>4. CASE AfterWork
    <2>1. /\ UNCHANGED <<up, peer, obj, op, work, worker, sending>>
          /\ finished # <<>> /\ finished' = Tail(finished)
      BY <1>4 DEF AfterWork, clientVars, peerVars
    <2>2. ToSet(finished') \subseteq ToSet(finished)
      BY <2>1, ToSetHeadTail DEF Inv, TypeOK
    <2>3. Taken' \subseteq Taken
      BY <2>1, <2>2 DEF Taken, Jobs
    <2> QED BY <2>1, <2>3, ServedStays DEF Running
  <1>5. CASE StopLoop \/ Exit
    BY <1>5 DEF StopLoop, Exit, Served, Running
  <1>6. ASSUME NEW d \in Conns, Accept(d) \/ ReadError(d) \/ UvClose(d)
        PROVE  Served(c)'
    <2>1. UNCHANGED <<up, peer, op, sending, work, worker, finished>>
      BY <1>6 DEF Accept, ReadError, UvClose, peerVars, poolVars
    <2>2. Taken' = Taken
      BY <2>1 DEF Taken, Jobs
    <2>3. CASE obj'[c] = obj[c] \/ (obj[c] = "none" /\ obj'[c] \in {"open", "leaked"})
      BY <2>1, <2>2, <2>3, ServedStays DEF Running
    <2>4. CASE d # c \/ Accept(d)
      <3>1. obj'[c] = obj[c] \/ (obj[c] = "none" /\ obj'[c] \in {"open", "leaked"})
        BY <1>6, <2>4 DEF Accept, ReadError, UvClose, Inv, TypeOK
      <3> QED BY <2>3, <3>1
    <2>5. CASE d = c /\ (ReadError(d) \/ UvClose(d))
      <3>1. ~Running \/ peer[c] = "gone"
        BY <2>5 DEF ReadError, UvClose, Served
      <3> QED BY <2>1, <3>1 DEF Served, Running
    <2> QED BY <1>6, <2>4, <2>5
  <1> QED BY <1>1, <1>2, <1>3, <1>4, <1>5, <1>6

\* A read gives it a message of an open handle; what it answers it had.
LEMMA ServedStep ==
  ASSUME Inv, TypeOK', [Next]_vars, \A d \in Conns : Served(d), NEW c \in Conns
  PROVE  Served(c)'
  <1>0. sending \in Seq(Answers) /\ TypeOK /\ Handled /\ \A d \in Conns : Local(d)
    BY DEF Inv, TypeOK
  <1>1. CASE Stops
    BY <1>1 DEF Stops, Served, Running
  <1>2. CASE ~Stops /\ \E d \in Conns : Read(d)
    <2>1. PICK d \in Conns : Read(d)
      BY <1>2
    <2>2. PICK m : ReadEffect(d, m)
      BY <1>0, <1>2, <2>1, ReadDoes
    <2>3. obj[d] = "open" /\ obj' = obj /\ peer' = peer /\ Running
      BY <1>2, <2>1 DEF Read, LoopFree
    <2>4. m \in Requests /\ m.c = d
      BY <1>0, <2>2, HeadIsAlone DEF ReadEffect
    <2>5. CASE sending' = sending /\ Taken' = Taken \cup {m}
      BY <2>3, <2>4, <2>5, ServedStays
    <2>6. CASE sending' = Append(sending, Answer(m, "REFUSE", 0)) /\ Taken' = Taken
      <3>1. PICK a \in Answers : a = Answer(m, "REFUSE", 0) /\ a.to = d
        BY <2>4, AnswerTypes
      <3>2. ToSet(sending') = ToSet(sending) \cup {a}
        BY <1>0, <2>6, <3>1, ToSetAppend
      <3> QED BY <2>3, <2>6, <3>1, <3>2, ServedStays
    <2> QED BY <1>0, <2>2, <2>4, <2>5, <2>6, ReadTaken
  <1>3. CASE ~Stops /\ (FinishConnect \/ FinishQuery)
    <2>1. PICK a : LoopAnswers(a)
      BY <1>0, <1>3, FinishAnswers
    <2>2. UNCHANGED <<up, obj>> /\ peer' = peer /\ Running
      BY <1>3 DEF FinishConnect, FinishQuery, peerVars, clientVars
    <2>3. Jobs' = Jobs /\ UNCHANGED <<work, finished>> /\ op' = None
      BY <2>1 DEF LoopAnswers, Jobs
    <2>4. Taken' \subseteq Taken /\ op \in Taken
      BY <2>1, <2>3, NoneIsNoMessage DEF Taken, LoopAnswers
    <2>5. a \in Answers /\ a.to = op.c /\ IsAppend(sending', sending, a)
      BY <2>1 DEF LoopAnswers
    <2>6. ToSet(sending') = ToSet(sending) \cup {a}
      BY <1>0, <2>5, AppendKeeps DEF TypeOK
    <2>7. CASE peer[c] # "gone" /\ a.to = c
      <3>1. obj[c] = "open"
        BY <2>2, <2>4, <2>5, <2>7 DEF Served
      <3> QED BY <2>2, <2>4, <2>6, <3>1, ServedStays DEF Running
    <2>8. CASE peer[c] # "gone" /\ a.to # c
      BY <2>2, <2>4, <2>6, <2>8, ServedStays DEF Running
    <2>9. CASE peer[c] = "gone"
      BY <2>2, <2>9 DEF Served
    <2> QED BY <2>7, <2>8, <2>9
  <1>4. CASE ~Stops /\ \E w \in Workers : WorkerStep(w)
    <2>1. PICK w \in Workers : WorkerStep(w)
      BY <1>4
    <2>2. /\ Taken' = Taken
          /\ UNCHANGED <<up, peer, next, out, vec, chan, obj, op>>
          /\ \/ sending' = sending
             \/ sending' = Append(sending, Answer(worker[w].job, "ACCEPT", 0)) /\ AcceptBatch(w)
      BY <1>4, <2>1, PoolTaken
    <2>3. CASE sending' = sending
      BY <2>2, <2>3, ServedStays DEF Running
    <2>4. CASE sending' = Append(sending, Answer(worker[w].job, "ACCEPT", 0)) /\ AcceptBatch(w)
      <3>1. worker[w] # Idle /\ worker[w].job \in Batches
        BY <1>0, <2>4, WorkerTypes DEF TypeOK, AcceptBatch, Idle
      <3>2. PICK b \in Requests : b = worker[w].job /\ b \in Taken
        BY <3>1, BatchTypes DEF Taken, Jobs
      <3>3. PICK a \in Answers : a = Answer(b, "ACCEPT", 0) /\ a.to = b.c
        BY <3>2, AnswerTypes
      <3>4. ToSet(sending') = ToSet(sending) \cup {a}
        BY <1>0, <2>4, <3>2, <3>3, ToSetAppend
      <3>5. CASE Running /\ peer[c] # "gone" /\ b.c = c
        <4>1. obj[c] = "open"
          BY <3>2, <3>5 DEF Served
        <4> QED BY <2>2, <3>4, <4>1, ServedStays DEF Running
      <3>6. CASE b.c # c
        BY <2>2, <3>3, <3>4, <3>6, ServedStays DEF Running
      <3>7. CASE ~Running \/ peer[c] = "gone"
        BY <2>2, <3>7 DEF Served, Running
      <3> QED BY <3>5, <3>6, <3>7
    <2> QED BY <2>2, <2>3, <2>4
  <1>5. CASE ~Stops /\ ( \/ PeerStep \/ DropDatabase \/ SIGTERM \/ WriteToNetwork \/ AfterWork
                         \/ StopLoop \/ Exit \/ UNCHANGED vars
                         \/ \E d \in Conns : Accept(d) \/ ReadError(d) \/ UvClose(d) )
    BY <1>5, ServedQuiet
  <1> QED BY <1>1, <1>2, <1>3, <1>4, <1>5 DEF Next, LoopStep

\* Whatever the server holds of a client that is there is of an open handle.
THEOREM OpenWhileServed == Spec => []SessionInv
  <1>1. Init => SessionInv
    <2>1. Init => \A c \in Conns : Served(c)
      <3> SUFFICES ASSUME Init, NEW c \in Conns PROVE Served(c)
        OBVIOUS
      <3>1. ToSet(sending) = {} /\ ToSet(work) = {} /\ ToSet(finished) = {} /\ Jobs = {}
        <4>1. <<>> \in Seq({}) /\ ToSet(<<>>) = {}
          BY EmptySeq, ToSetEmpty
        <4> QED BY <4>1 DEF Init, Jobs
      <3>2. Taken = {}
        BY <3>1 DEF Taken, Init
      <3> QED BY <3>1, <3>2 DEF Served, Init
    <2> QED BY <2>1, InitInv DEF SessionInv
  <1>2. SessionInv /\ [Next]_vars => SessionInv'
    <2> SUFFICES ASSUME SessionInv, [Next]_vars PROVE SessionInv'
      OBVIOUS
    <2>1. Inv'
      BY StepInv DEF SessionInv
    <2>2. ASSUME NEW c \in Conns PROVE Served(c)'
      BY <2>1, ServedStep DEF SessionInv, Inv
    <2> QED BY <2>1, <2>2 DEF SessionInv
  <1> QED BY <1>1, <1>2, PTL DEF Spec

-----------------------------------------------------------------------------
(* A connection as Session sees it *)

\* The requests of a set by kind, and what Session sees of a connection.
SKinds == {"CONNECT", "QUERY", "FULL", "PART"}
OfKind(U, k) == {m \in U : Kind(m) = k}
CountOf(U) == [k \in SKinds |-> Cardinality(OfKind(U, k))]

AnswersSeen(c) == [i \in DOMAIN UnderWay(c) |-> UnderWay(c)[i].op]
Resumed(c) == LinkState(c) = "open" /\ peer[c] = "sending"

\* Adding and removing a request moves one count.
LEMMA CountMoves ==
  ASSUME NEW U, IsFiniteSet(U), NEW m \in Requests
  PROVE  /\ Kind(m) \in SKinds
         /\ m \notin U => CountOf(U \cup {m}) = [CountOf(U) EXCEPT ![Kind(m)] = @ + 1]
         /\ m \in U => /\ CountOf(U \ {m}) = [CountOf(U) EXCEPT ![Kind(m)] = @ - 1]
                       /\ CountOf(U)[Kind(m)] > 0
  <1>1. Kind(m) \in SKinds
    BY RequestTypes DEF Kind, SKinds
  <1>2. \A k : IsFiniteSet(OfKind(U, k)) /\ Cardinality(OfKind(U, k)) \in Nat
    BY FS_Subset, FS_CardinalityType DEF OfKind
  <1>3. ASSUME NEW k \in SKinds, m \notin U
        PROVE  Cardinality(OfKind(U \cup {m}, k)) = IF k = Kind(m) THEN Cardinality(OfKind(U, k)) + 1
                                                                  ELSE Cardinality(OfKind(U, k))
    <2>1. OfKind(U \cup {m}, k) = IF k = Kind(m) THEN OfKind(U, k) \cup {m} ELSE OfKind(U, k)
      BY DEF OfKind
    <2>2. m \notin OfKind(U, k)
      BY <1>3 DEF OfKind
    <2> QED BY <1>2, <2>1, <2>2, FS_AddElement
  <1>4. ASSUME NEW k \in SKinds, m \in U
        PROVE  Cardinality(OfKind(U \ {m}, k)) = IF k = Kind(m) THEN Cardinality(OfKind(U, k)) - 1
                                                                ELSE Cardinality(OfKind(U, k))
    <2>1. OfKind(U \ {m}, k) = IF k = Kind(m) THEN OfKind(U, k) \ {m} ELSE OfKind(U, k)
      BY DEF OfKind
    <2>2. k = Kind(m) => m \in OfKind(U, k)
      BY <1>4 DEF OfKind
    <2> QED BY <1>2, <2>1, <2>2, FS_RemoveElement
  <1>5. m \in U => CountOf(U)[Kind(m)] > 0
    <2>1. m \in U => Cardinality(OfKind(U \ {m}, Kind(m))) = Cardinality(OfKind(U, Kind(m))) - 1
      BY <1>1, <1>4
    <2>2. Cardinality(OfKind(U \ {m}, Kind(m))) \in Nat
      BY FS_Subset, FS_CardinalityType DEF OfKind
    <2>3. Cardinality(OfKind(U, Kind(m))) \in Nat
      BY <1>2
    <2> QED BY <1>1, <2>1, <2>2, <2>3 DEF CountOf
  <1> QED BY <1>1, <1>3, <1>4, <1>5 DEF CountOf

\* Of nothing there is none of any kind.
LEMMA CountNothing == CountOf({}) = [k \in SKinds |-> 0]
  <1>1. \A k : OfKind({}, k) = {}
    BY DEF OfKind
  <1> QED BY <1>1, FS_EmptySet DEF CountOf

\* Of one request there is one of its kind.
LEMMA CountOne ==
  ASSUME NEW m \in Requests
  PROVE  CountOf({m}) = [CountOf({}) EXCEPT ![Kind(m)] = @ + 1]
  <1>1. PICK U : U = {} /\ IsFiniteSet(U) /\ m \notin U
    BY FS_EmptySet
  <1>2. CountOf(U \cup {m}) = [CountOf(U) EXCEPT ![Kind(m)] = @ + 1]
    BY <1>1, CountMoves
  <1>3. U \cup {m} = {m}
    BY <1>1
  <1> QED BY <1>1, <1>2, <1>3

\* A connection has finitely many requests: two, and batches numbered by MaxLogs.
LEMMA OfOneFinite ==
  ASSUME NEW c \in Conns, NEW U, U \subseteq {m \in Requests : m.c = c}
  PROVE  IsFiniteSet(U)
  <1> DEFINE B(k, f) == {m \in Batches : m.c = c /\ m.kind = k /\ m.full = f}
  <1>1. ASSUME NEW k, NEW f
        PROVE  IsFiniteSet(B(k, f))
    <2> DEFINE g == [m \in B(k, f) |-> m.rid]
    <2>1. IsFiniteSet(Rids)
      BY LogBound, FS_Interval DEF Rids
    <2>2. g \in [B(k, f) -> Rids]
      BY BatchTypes
    <2>3. \A m, n \in B(k, f) : g[m] = g[n] => m = n
      BY DEF Batches, Batch
    <2> HIDE DEF g, B
    <2>4. g \in Injection(B(k, f), Rids)
      BY <2>2, <2>3 DEF Injection, IsInjective
    <2> QED BY <2>1, <2>4, FS_Injection
  <1> DEFINE V == B("good", TRUE) \cup B("good", FALSE)
             W == B("bad severity", TRUE) \cup B("bad severity", FALSE)
             X == B("empty", TRUE) \cup B("empty", FALSE)
             Y == {Connect(c)} \cup {Query(c)}
  <1>2. \A m \in U : m \in (V \cup W) \cup (X \cup Y)
    BY RequestTypes, BatchTypes DEF Kinds
  <1> HIDE DEF B
  <1>3. IsFiniteSet(V) /\ IsFiniteSet(W) /\ IsFiniteSet(X) /\ IsFiniteSet(Y)
    BY <1>1, FS_Union, FS_Singleton
  <1> HIDE DEF V, W, X, Y
  <1>4. IsFiniteSet((V \cup W) \cup (X \cup Y))
    <2>1. IsFiniteSet(V \cup W) /\ IsFiniteSet(X \cup Y)
      BY <1>3, FS_Union
    <2> QED BY <2>1, FS_Union
  <1> QED BY <1>2, <1>4, FS_Subset

\* The four parts of the mapping.
Seen(c) ==
  /\ Undealt(c) = {m \in ToSet(Pipe(c)) \cup Open : m.c = c}
  /\ Undealt(c) \subseteq Requests /\ IsFiniteSet(Undealt(c))
  /\ Line(c) \in Seq(Answers)
  /\ LinkState(c) = "open" =>
       Pending(c) = CountOf(Undealt(c)) /\ AnswersSeen(c) = Ops(Line(c))
  /\ LinkState(c) # "open" =>
       Pending(c) = [k \in SKinds |-> 0] /\ AnswersSeen(c) = <<>>
  /\ LinkState(c) \in {"closed", "open", "lost"}

\* The types give the mapping of every connection.
LEMMA SeenTypes == TypeOK => \A c \in Conns : Seen(c)
  <1> SUFFICES ASSUME TypeOK, NEW c \in Conns PROVE Seen(c)
    OBVIOUS
  <1>1. Queues(c) /\ TakenMessages
    BY QueueTypes, TakenTypes
  <1>2. Undealt(c) = {m \in ToSet(Pipe(c)) \cup Open : m.c = c}
    BY <1>1 DEF Undealt, Open, Queues
  <1>3. Undealt(c) \subseteq {m \in Requests : m.c = c}
    BY <1>1, <1>2 DEF Queues, TakenMessages
  <1>4. IsFiniteSet(Undealt(c))
    BY <1>3, OfOneFinite
  <1>5. CASE LinkState(c) = "open"
    <2>1. Pending(c) = CountOf(Undealt(c))
      BY <1>5 DEF Pending, CountOf, OfKind, SKinds
    <2>2. UnderWay(c) = Line(c)
      BY <1>5 DEF UnderWay, Line
    <2>3. DOMAIN Line(c) = 1..Len(Line(c))
      BY <1>1, LenProperties DEF Queues
    <2>4. AnswersSeen(c) = Ops(Line(c))
      BY <2>2, <2>3 DEF AnswersSeen, Ops
    <2> QED BY <1>1, <1>2, <1>3, <1>4, <1>5, <2>1, <2>4 DEF Seen, Queues
  <1>6. CASE LinkState(c) # "open"
    <2>1. Pending(c) = [k \in SKinds |-> 0]
      BY <1>6 DEF Pending, SKinds
    <2>2. UnderWay(c) = <<>>
      BY <1>6 DEF UnderWay
    <2>3. AnswersSeen(c) = <<>>
      BY <2>2 DEF AnswersSeen
    <2>4. LinkState(c) \in {"closed", "open", "lost"}
      BY DEF LinkState
    <2> QED BY <1>1, <1>2, <1>3, <1>4, <1>6, <2>1, <2>3, <2>4 DEF Seen, Queues
  <1> QED BY <1>5, <1>6

\* And after a step that of the next state.
LEMMA SeenAfter ==
  ASSUME TypeOK'
  PROVE  (\A c \in Conns : Seen(c))'
  <1>1. (TypeOK => \A c \in Conns : Seen(c))'
    BY SeenTypes, PTL
  <1> QED BY <1>1

\* The same of the next state, spelt out.
LEMMA SeenNext ==
  ASSUME TypeOK', NEW c \in Conns
  PROVE  /\ Undealt(c)' = {m \in ToSet(Pipe(c))' \cup Open' : m.c = c}
         /\ Line(c)' \in Seq(Answers)
         /\ LinkState(c)' = "open" =>
              Pending(c)' = CountOf(Undealt(c)') /\ AnswersSeen(c)' = Ops(Line(c)')
         /\ LinkState(c)' # "open" =>
              Pending(c)' = [k \in SKinds |-> 0] /\ AnswersSeen(c)' = <<>>
  <1>1. Seen(c)'
    BY SeenAfter
  <1> QED BY <1>1 DEF Seen, CountOf, OfKind, Kind, Ops

-----------------------------------------------------------------------------
(* The moves of a connection *)

\* The connection stays open.
StaysOpen(c) == LinkState(c) = "open" /\ LinkState(c)' = "open"

\* A connection of which nothing changes takes no step.
LEMMA LinkRests ==
  ASSUME TypeOK, TypeOK', NEW c \in Conns, LinkState(c)' = LinkState(c),
         LinkState(c) = "open" => /\ Undealt(c)' = Undealt(c) /\ Line(c)' = Line(c)
                                  /\ peer'[c] = peer[c]
  PROVE  UNCHANGED Contract(c)!vars
  <1>1. Resumed(c)' = Resumed(c)
    BY DEF Resumed
  <1>2. Pending(c)' = Pending(c) /\ AnswersSeen(c)' = AnswersSeen(c)
    BY SeenTypes, SeenNext DEF Seen
  <1> QED BY <1>1, <1>2 DEF Contract!vars, Resumed, AnswersSeen

\* A connection that is lost takes Lose, whatever it held.
LEMMA LinkLoses ==
  ASSUME TypeOK', NEW c \in Conns, LinkState(c) # "lost", LinkState(c)' = "lost"
  PROVE  Contract(c)!Lose
  <1>1. Pending(c)' = [k \in SKinds |-> 0] /\ AnswersSeen(c)' = <<>> /\ Resumed(c)' = FALSE
    BY SeenNext DEF Resumed
  <1> QED BY <1>1 DEF Contract!Lose, Contract!Nothing, Contract!Kinds, SKinds, Resumed, AnswersSeen

\* One more batch before the server is a SendBatch.
LEMMA LinkSends ==
  ASSUME TypeOK, TypeOK', NEW c \in Conns, StaysOpen(c),
         peer[c] = "sending", peer'[c] = "sending",
         NEW m \in Requests, m.op = "LOG", m \notin Undealt(c),
         Undealt(c)' = Undealt(c) \cup {m}, Line(c)' = Line(c)
  PROVE  Contract(c)!Next
  <1>1. PICK k \in {"FULL", "PART"} : k = Kind(m)
    BY DEF Kind
  <1>2. Resumed(c) = TRUE /\ Resumed(c)' = TRUE
    BY DEF Resumed, StaysOpen
  <1>3. Pending(c)' = [Pending(c) EXCEPT ![k] = @ + 1]
    <2>1. PICK U : U = Undealt(c) /\ IsFiniteSet(U)
      BY SeenTypes DEF Seen
    <2>2. CountOf(U \cup {m}) = [CountOf(U) EXCEPT ![k] = @ + 1]
      BY <1>1, <2>1, CountMoves
    <2> QED BY <2>1, <2>2, SeenTypes, SeenNext DEF Seen, StaysOpen
  <1>4. AnswersSeen(c)' = AnswersSeen(c)
    BY SeenTypes, SeenNext DEF Seen, StaysOpen
  <1>5. Contract(c)!SendBatch(k)
    BY <1>2, <1>3, <1>4 DEF Contract!SendBatch, Contract!More, Resumed, AnswersSeen, StaysOpen
  <1> QED BY <1>5 DEF Contract!Next, Contract!Kinds

\* The answers Session allows to a request.
IsAnswerTo(m, a) ==
  \/ a.op = "REFUSE"
  \/ m.op = "CONNECT" /\ a.op = "CONNECT"
  \/ m.op = "QUERY" /\ a.op = "RETURN"
  \/ m.op = "LOG" /\ m.full /\ a.op = "ACCEPT"

\* A request dealt with is one less of its kind.
LEMMA PendingLess ==
  ASSUME TypeOK, TypeOK', NEW c \in Conns, StaysOpen(c),
         NEW m \in Requests, m \in Undealt(c), Undealt(c)' = Undealt(c) \ {m}
  PROVE  /\ Kind(m) \in SKinds /\ Pending(c)[Kind(m)] > 0
         /\ Pending(c)' = [Pending(c) EXCEPT ![Kind(m)] = @ - 1]
  <1>1. PICK U : U = Undealt(c) /\ IsFiniteSet(U)
    BY SeenTypes DEF Seen
  <1>2. /\ Kind(m) \in SKinds /\ CountOf(U)[Kind(m)] > 0
        /\ CountOf(U \ {m}) = [CountOf(U) EXCEPT ![Kind(m)] = @ - 1]
    BY <1>1, CountMoves
  <1> QED BY <1>1, <1>2, SeenTypes, SeenNext DEF Seen, StaysOpen

\* A request that leaves for an answer of its kind in the line is an Answer.
LEMMA LinkAnswers ==
  ASSUME TypeOK, TypeOK', NEW c \in Conns, StaysOpen(c), peer'[c] = peer[c],
         NEW m \in Requests, NEW a \in Answers, m \in Undealt(c),
         Undealt(c)' = Undealt(c) \ {m}, IsAppend(Line(c)', Line(c), a), IsAnswerTo(m, a)
  PROVE  Contract(c)!Next
  <1>1. PICK k \in SKinds : k = Kind(m) /\ Pending(c)[k] > 0
                            /\ Pending(c)' = [Pending(c) EXCEPT ![k] = @ - 1]
    BY PendingLess
  <1>2. Resumed(c)' = Resumed(c)
    BY DEF Resumed, StaysOpen
  <1>3. AnswersSeen(c)' = Append(AnswersSeen(c), a.op)
    <2>1. Line(c) \in Seq(Answers) /\ Line(c)' \in Seq(Answers)
      BY SeenTypes, SeenNext DEF Seen
    <2>2. Line(c)' = Append(Line(c), a)
      BY <2>1, AppendOnly
    <2>3. Ops(Append(Line(c), a)) = Append(Ops(Line(c)), a.op)
      BY <2>1, OpsForms
    <2> QED BY <2>2, <2>3, SeenTypes, SeenNext DEF Seen, StaysOpen
  <1>4. a.op \in {"REFUSE"} \cup {Contract(c)!AnswerTo[o] : o \in DOMAIN Contract(c)!AnswerTo \cap {k}}
    <2>1. \/ a.op = "REFUSE"
          \/ k = "CONNECT" /\ a.op = "CONNECT"
          \/ k = "QUERY" /\ a.op = "RETURN"
          \/ k = "FULL" /\ a.op = "ACCEPT"
      BY <1>1 DEF Kind, IsAnswerTo
    <2>2. PICK f : f = Contract(c)!AnswerTo
      OBVIOUS
    <2>3. f = [CONNECT |-> "CONNECT", QUERY |-> "RETURN", FULL |-> "ACCEPT"]
      BY <2>2 DEF Contract!AnswerTo
    <2>4. DOMAIN f = {"CONNECT", "QUERY", "FULL"}
      BY <2>3
    <2>5. f["CONNECT"] = "CONNECT" /\ f["QUERY"] = "RETURN" /\ f["FULL"] = "ACCEPT"
      BY <2>3
    <2>6. a.op = "REFUSE" \/ (k \in DOMAIN f /\ a.op = f[k])
      BY <2>1, <2>4, <2>5
    <2> QED BY <2>2, <2>6
  <1>5. Contract(c)!Answer(k)
    BY <1>1, <1>2, <1>3, <1>4 DEF Contract!Answer, Contract!Less, Resumed, AnswersSeen, StaysOpen
  <1> QED BY <1>5 DEF Contract!Next, Contract!Kinds, SKinds

\* A partial batch that leaves without an answer is a Settle.
LEMMA LinkSettles ==
  ASSUME TypeOK, TypeOK', NEW c \in Conns, StaysOpen(c), peer'[c] = peer[c],
         NEW m \in Requests, m \in Undealt(c), Kind(m) = "PART",
         Undealt(c)' = Undealt(c) \ {m}, Line(c)' = Line(c)
  PROVE  Contract(c)!Next
  <1>1. Pending(c)["PART"] > 0 /\ Pending(c)' = [Pending(c) EXCEPT !["PART"] = @ - 1]
    BY PendingLess
  <1>2. Resumed(c)' = Resumed(c)
    BY DEF Resumed, StaysOpen
  <1>3. AnswersSeen(c)' = AnswersSeen(c)
    BY SeenTypes, SeenNext DEF Seen, StaysOpen
  <1>4. Contract(c)!Settle
    BY <1>1, <1>2, <1>3 DEF Contract!Settle, Contract!Less, Resumed, AnswersSeen, StaysOpen
  <1> QED BY <1>4 DEF Contract!Next

-----------------------------------------------------------------------------
(* The client's steps *)

\* An answer still in the queue waits for its connection.
LEMMA LineStays ==
  ASSUME NEW c \in Conns, out'[c] = out[c], sending' = sending
  PROVE  Line(c)' = Line(c)
  BY DEF Line, Delivered, Chosen

\* A client with nothing on the connection has nothing under way.
LEMMA NothingSeen ==
  ASSUME TypeOK, NEW c \in Conns, Asked(c) = {}
  PROVE  Undealt(c) = {}
  <1>1. Open \subseteq Taken
    BY TakenTypes DEF TakenMessages
  <1> QED BY <1>1, SeenTypes DEF Seen, Asked

\* A client that connects opens its link with a CONNECT under way.
LEMMA PeerConnectSession ==
  ASSUME Inv, TypeOK', NEW c \in Conns, PeerConnect(c)
  PROVE  Contract(c)!Next
  <1>1. /\ peer[c] = "off" /\ peer'[c] = "connecting" /\ chan'[c] = <<Connect(c)>> /\ Running
        /\ UNCHANGED <<up, out, vec, sending>> /\ Elsewhere
    BY DEF PeerConnect, Inv, TypeOK, Elsewhere, clientVars, poolVars, dbVars
  <1>2. TypeOK /\ Queues(c) /\ Queues(c)' /\ Open' = Open /\ Local(c)
    BY <1>1, QueueTypes, NextTypes, ElsewhereTaken DEF Inv
  <1>3. Asked(c) = {} /\ Replied(c) = {}
    BY <1>1, <1>2 DEF Local, Phase
  <1>4. Undealt(c) = {} /\ Line(c) = <<>>
    <2>1. ToSet(Line(c)) = {}
      BY <1>3 DEF Replied
    <2> QED BY <1>2, <1>3, <2>1, NothingSeen, ToSetEmpty DEF Queues
  <1>5. LinkState(c) = "closed" /\ LinkState(c)' = "open"
    BY <1>1 DEF LinkState, Running
  <1>6. Connect(c) \in Requests /\ Connect(c).c = c /\ Kind(Connect(c)) = "CONNECT"
    BY RequestTypes DEF Kind
  <1>7. Undealt(c)' = {Connect(c)}
    <2>1. ToSet(Pipe(c))' = ToSet(vec[c]) \cup ToSet(chan[c])'
      BY <1>1, <1>2 DEF Queues
    <2>2. ToSet(vec[c]) = {}
      BY <1>2, <1>3 DEF Asked, Queues
    <2>3. ToSet(<<Connect(c)>>) = {Connect(c)}
      <3>1. PICK m \in Requests : m = Connect(c)
        BY <1>6
      <3>2. <<m>> \in Seq(Requests) /\ <<m>> # <<>> /\ Head(<<m>>) = m /\ Tail(<<m>>) = <<>>
        OBVIOUS
      <3>3. ToSet(<<m>>) = {m} \cup ToSet(<<>>) /\ ToSet(<<>>) = {}
        <4>1. <<>> \in Seq(Requests)
          BY EmptySeq
        <4> QED BY <3>2, <4>1, ToSetHeadTail, ToSetEmpty
      <3> QED BY <3>1, <3>3
    <2>4. ToSet(Pipe(c))' = {Connect(c)}
      BY <1>1, <2>1, <2>2, <2>3
    <2>5. {m \in Open : m.c = c} = {}
      BY <1>2, <1>4, SeenTypes DEF Seen
    <2> QED BY <1>2, <1>6, <2>4, <2>5, SeenNext
  <1>8. CountOf({Connect(c)}) = [CountOf({}) EXCEPT !["CONNECT"] = @ + 1]
    BY <1>6, CountOne
  <1>9. /\ Pending(c) = [k \in SKinds |-> 0] /\ AnswersSeen(c) = <<>>
        /\ Pending(c)' = CountOf(Undealt(c)') /\ AnswersSeen(c)' = Ops(Line(c)')
    BY <1>2, <1>5, SeenTypes, SeenNext DEF Seen
  <1>10. Pending(c)' = [Pending(c) EXCEPT !["CONNECT"] = @ + 1]
    BY <1>7, <1>8, <1>9, CountNothing
  <1>11. AnswersSeen(c)' = AnswersSeen(c)
    <2>1. Line(c)' = <<>>
      BY <1>1, <1>4, LineStays
    <2>2. Ops(<<>>) = <<>>
      <3>1. 1..Len(<<>>) = {}
        BY EmptySeq
      <3> QED BY <3>1 DEF Ops
    <2> QED BY <1>9, <2>1, <2>2
  <1>12. Resumed(c) = FALSE /\ Resumed(c)' = FALSE
    BY <1>1 DEF Resumed
  <1>13. Contract(c)!Open
    BY <1>5, <1>10, <1>11, <1>12 DEF Contract!Open, Contract!More, Resumed, AnswersSeen
  <1> QED BY <1>13 DEF Contract!Next

\* What the client takes is the first answer of the line.
LEMMA LineTakes ==
  ASSUME TypeOK, NEW c \in Conns, out[c] # <<>>, out'[c] = Tail(out[c]), sending' = sending
  PROVE  /\ Line(c) # <<>> /\ Head(out[c]) = Head(Line(c)) /\ Head(out[c]) \in ToSet(Line(c))
         /\ Line(c)' = Tail(Line(c))
  <1>1. Queues(c)
    BY QueueTypes
  <1>2. Delivered(c)' = Delivered(c)
    BY DEF Delivered, Chosen
  <1>3. /\ Head(out[c] \o Delivered(c)) = Head(out[c])
        /\ Tail(out[c] \o Delivered(c)) = Tail(out[c]) \o Delivered(c)
    BY <1>1, HeadTailConcat DEF Queues
  <1>4. Head(out[c]) \in ToSet(Line(c))
    BY <1>1, ToSetHeadTail DEF Queues
  <1>5. Line(c) # <<>>
    BY <1>1, <1>4, ToSetEmpty DEF Queues
  <1> QED BY <1>2, <1>3, <1>4, <1>5 DEF Line

\* A client that takes an answer takes the first of the line, and asks what it asks for.
LEMMA PeerReceiveSession ==
  ASSUME Inv, TypeOK', NEW c \in Conns, PeerReceive(c), Running
  PROVE  Contract(c)!Next
  <1>1. PICK a : a = Head(out[c])
    OBVIOUS
  <1>2. /\ out[c] # <<>> /\ peer[c] # "gone" /\ out'[c] = Tail(out[c])
        /\ UNCHANGED <<up, vec, sending>> /\ Elsewhere
    BY DEF PeerReceive, Inv, TypeOK, Elsewhere, clientVars, poolVars, dbVars
  <1>3. TypeOK /\ Queues(c) /\ Queues(c)' /\ Open' = Open /\ Local(c)
    BY <1>2, QueueTypes, NextTypes, ElsewhereTaken DEF Inv
  <1>4. Line(c) # <<>> /\ a = Head(Line(c)) /\ a \in ToSet(Line(c)) /\ Line(c)' = Tail(Line(c))
    BY <1>1, <1>2, <1>3, LineTakes
  <1>5. peer[c] # "off"
    <2>1. Replied(c) # {}
      BY <1>4 DEF Replied
    <2> QED BY <1>3, <2>1 DEF Local, Phase
  <1>6. \/ a.op = "CONNECT" /\ peer'[c] = "querying" /\ chan'[c] = Append(chan[c], Query(c))
        \/ a.op = "RETURN" /\ peer'[c] = "sending" /\ chan' = chan
        \/ a.op \in {"ACCEPT", "REFUSE"} /\ peer' = peer /\ chan' = chan
    BY <1>1, <1>3 DEF PeerReceive, TypeOK
  <1>7. StaysOpen(c)
    BY <1>2, <1>5, <1>6 DEF StaysOpen, LinkState, Running
  <1>8. /\ Ops(Line(c)) # <<>> /\ Head(Ops(Line(c))) = a.op
        /\ Ops(Tail(Line(c))) = Tail(Ops(Line(c)))
    BY <1>3, <1>4, OpsForms DEF Queues
  <1>9. AnswersSeen(c) # <<>> /\ Head(AnswersSeen(c)) = a.op
        /\ AnswersSeen(c)' = Tail(AnswersSeen(c))
    BY <1>3, <1>4, <1>7, <1>8, SeenTypes, SeenNext DEF Seen, StaysOpen
  <1>10. Resumed(c)' = (Resumed(c) \/ a.op = "RETURN")
    <2>1. a.op = "CONNECT" => peer[c] = "connecting"
      BY <1>2, <1>3, <1>4, HandshakeAnswer
    <2> QED BY <1>6, <1>7, <2>1 DEF Resumed, StaysOpen
  <1>11. Pending(c)' = IF a.op = "CONNECT" THEN [Pending(c) EXCEPT !["QUERY"] = @ + 1] ELSE Pending(c)
    <2>1. CASE a.op = "CONNECT"
      <3>1. Query(c) \in Requests /\ Query(c).c = c /\ Kind(Query(c)) = "QUERY"
        BY RequestTypes DEF Kind
      <3>2. Undealt(c) = {}
        <4>1. Asked(c) = {}
          BY <1>2, <1>3, <1>4, <2>1, HandshakeAnswer
        <4> QED BY <1>3, <4>1, NothingSeen
      <3>3. ToSet(chan'[c]) = ToSet(chan[c]) \cup {Query(c)}
        <4>1. chan[c] \in Seq(Requests) /\ chan'[c] = Append(chan[c], Query(c))
          BY <1>3, <1>6, <2>1 DEF Queues
        <4> QED BY <3>1, <4>1, ToSetAppend
      <3>4. ToSet(Pipe(c))' = ToSet(Pipe(c)) \cup {Query(c)}
        BY <1>2, <1>3, <3>3 DEF Queues
      <3>5. Undealt(c)' = {Query(c)}
        BY <1>3, <3>1, <3>2, <3>4, SeenTypes, SeenNext DEF Seen
      <3>6. CountOf({Query(c)}) = [CountOf({}) EXCEPT !["QUERY"] = @ + 1]
        BY <3>1, CountOne
      <3> QED BY <1>3, <1>7, <2>1, <3>2, <3>5, <3>6, SeenTypes, SeenNext DEF Seen, StaysOpen
    <2>2. CASE a.op # "CONNECT"
      <3>1. Pipe(c)' = Pipe(c)
        BY <1>2, <1>6, <2>2 DEF Pipe
      <3>2. Undealt(c)' = Undealt(c)
        BY <1>3, <3>1, SeenTypes, SeenNext DEF Seen
      <3> QED BY <1>3, <1>7, <2>2, <3>2, SeenTypes, SeenNext DEF Seen, StaysOpen
    <2> QED BY <2>1, <2>2
  <1>12. Contract(c)!Take
    BY <1>7, <1>9, <1>10, <1>11
       DEF Contract!Take, Contract!More, Resumed, AnswersSeen, StaysOpen
  <1> QED BY <1>12 DEF Contract!Next

\* A client that sends a batch has one more under way.
LEMMA PeerSendSession ==
  ASSUME Inv, TypeOK', NEW c \in Conns, PeerSend(c), Running
  PROVE  Contract(c)!Next
  <1>1. PICK k \in Kinds, f \in BOOLEAN :
          chan' = [chan EXCEPT ![c] = Append(@, Batch(c, next[c], k, f))]
    BY DEF PeerSend
  <1>2. PICK m : m = Batch(c, next[c], k, f)
    OBVIOUS
  <1>3. /\ peer[c] = "sending" /\ peer' = peer /\ next[c] \in Rids
        /\ chan'[c] = Append(chan[c], m)
        /\ UNCHANGED <<up, out, vec, sending>> /\ Elsewhere
    BY <1>1, <1>2, LogBound
       DEF PeerSend, Inv, TypeOK, Rids, Elsewhere, clientVars, poolVars, dbVars
  <1>4. m \in Requests /\ m.c = c /\ m.op = "LOG" /\ m.rid = next[c]
    BY <1>2, <1>3, BatchTypes DEF Batch
  <1>5. TypeOK /\ Queues(c) /\ Queues(c)' /\ TakenMessages /\ Open' = Open /\ Local(c)
    BY <1>3, QueueTypes, NextTypes, TakenTypes, ElsewhereTaken DEF Inv
  <1>6. StaysOpen(c)
    BY <1>3 DEF StaysOpen, LinkState, Running
  <1>7. m \notin Undealt(c)
    <2>1. \A n \in Asked(c) : n.rid < next[c]
      BY <1>3, <1>5 DEF Local, Phase
    <2>2. m \notin Asked(c)
      BY <1>3, <1>4, <2>1 DEF Rids
    <2> QED BY <1>5, <2>2, SeenTypes DEF Seen, Asked, TakenMessages
  <1>8. Undealt(c)' = Undealt(c) \cup {m}
    <2>1. ToSet(chan'[c]) = ToSet(chan[c]) \cup {m}
      BY <1>3, <1>4, <1>5, ToSetAppend DEF Queues
    <2>2. ToSet(Pipe(c))' = ToSet(Pipe(c)) \cup {m}
      BY <1>3, <1>5, <2>1 DEF Queues
    <2> QED BY <1>4, <1>5, <2>2, SeenTypes, SeenNext DEF Seen
  <1>9. Line(c)' = Line(c)
    BY <1>3, LineStays
  <1> QED BY <1>3, <1>4, <1>5, <1>6, <1>7, <1>8, <1>9, LinkSends

\* A client that closes loses its link.
LEMMA PeerCloseSession ==
  ASSUME Inv, TypeOK', NEW c \in Conns, PeerClose(c)
  PROVE  Contract(c)!Next \/ UNCHANGED Contract(c)!vars
  <1>1. peer'[c] = "gone" /\ peer[c] \notin {"off", "gone"}
    BY DEF PeerClose, Inv, TypeOK
  <1>2. LinkState(c)' = "lost"
    BY <1>1 DEF LinkState
  <1>3. CASE LinkState(c) # "lost"
    BY <1>2, <1>3, LinkLoses DEF Contract!Next
  <1>4. CASE LinkState(c) = "lost"
    BY <1>2, <1>4, LinkRests DEF Inv
  <1> QED BY <1>3, <1>4

-----------------------------------------------------------------------------
(* The server's steps *)

\* A step that leaves a connection alone.
LEMMA LinkAlone ==
  ASSUME TypeOK, TypeOK', NEW c \in Conns, LinkState(c)' = LinkState(c), peer'[c] = peer[c],
         LinkState(c) = "open" =>
           /\ ToSet(Pipe(c))' = ToSet(Pipe(c)) /\ Line(c)' = Line(c)
           /\ \A m \in Open \cup Open' : m.c = c => m \in Open /\ m \in Open'
  PROVE  UNCHANGED Contract(c)!vars
  <1>1. LinkState(c) = "open" => Undealt(c)' = Undealt(c)
    BY SeenTypes, SeenNext DEF Seen
  <1> QED BY <1>1, LinkRests

\* A message that the server has is not one that it has yet to read.
LEMMA OpenIsRead ==
  ASSUME Inv, NEW m \in Open
  PROVE  m \in Requests /\ m.c \in Conns /\ m \notin ToSet(Pipe(m.c)) /\ m \in Undealt(m.c)
  <1>1. m \in Taken /\ m \in Requests /\ m.c \in Conns
    BY TakenTypes, RequestTypes DEF TakenMessages, Inv
  <1>2. Rank(m) \in Int
    BY <1>1, RequestTypes, BatchTypes DEF Rank, Rids
  <1>3. m \notin ToSet(Pipe(m.c))
    BY <1>1, <1>2 DEF Inv, Local, InOrder
  <1>4. m \in Undealt(m.c)
    BY <1>1, SeenTypes DEF Seen, Inv
  <1> QED BY <1>1, <1>3, <1>4

\* A batch with a thread is with no other, nor in the queue, nor the loop's.
LEMMA OpenOnce ==
  ASSUME Inv, NEW w \in Workers, worker[w].pc \in {"insert", "accept"}
  PROVE  /\ worker[w].job \notin ToSet(work) /\ worker[w].job \notin {op} \ {None}
         /\ \A u \in Workers : u # w /\ worker[u].pc \in {"insert", "accept"} =>
              worker[u].job # worker[w].job
  <1>1. \A u \in Workers : worker[u].pc \in {"insert", "accept"} =>
          worker[u] # Idle /\ worker[u].job \in Batches
    BY WorkerTypes DEF Inv, TypeOK, Idle
  <1>2. worker[w].job \in Jobs /\ worker[w].job.op = "LOG"
    BY <1>1, BatchTypes DEF Jobs
  <1>3. worker[w].job \notin {op} \ {None}
    BY <1>2 DEF Inv, Handled
  <1> QED BY <1>1, <1>2, <1>3 DEF Inv, OnePlace

\* A request that the server has is answered and put away.
LEMMA AnswerSession ==
  ASSUME Inv, TypeOK', NEW m \in Open, NEW a \in Answers, a.to = m.c, IsAnswerTo(m, a),
         IsAppend(sending', sending, a), UNCHANGED <<up, peer, out, vec, chan>>,
         Open' = Open \ {m}, NEW c \in Conns
  PROVE  Contract(c)!Next \/ UNCHANGED Contract(c)!vars
  <1>1. TypeOK /\ Pipe(c)' = Pipe(c) /\ LinkState(c)' = LinkState(c)
    BY DEF Inv, Pipe, LinkState, Running
  <1>2. m \in Requests /\ m \notin ToSet(Pipe(m.c)) /\ m \in Undealt(m.c)
    BY OpenIsRead
  <1>3. CASE c = m.c /\ LinkState(c) = "open"
    <2>1. IsAppend(Line(c)', Line(c), a)
      BY <1>1, <1>3, ReplyJoins
    <2>2. Undealt(c)' = Undealt(c) \ {m}
      BY <1>1, <1>2, <1>3, SeenTypes, SeenNext DEF Seen
    <2>3. StaysOpen(c)
      BY <1>1, <1>3 DEF StaysOpen
    <2> QED BY <1>1, <1>2, <1>3, <2>1, <2>2, <2>3, LinkAnswers
  <1>4. CASE c # m.c
    <2>1. Line(c)' = Line(c)
      BY <1>1, <1>4, ReplyJoins
    <2> QED BY <1>1, <1>4, <2>1, LinkAlone
  <1>5. CASE LinkState(c) # "open"
    BY <1>1, <1>5, LinkAlone
  <1> QED BY <1>3, <1>4, <1>5

\* A read passes the message on, or refuses it.
LEMMA ReadSession ==
  ASSUME Inv, TypeOK', NEW d \in Conns, Read(d), ~Stops, NEW c \in Conns
  PROVE  Contract(c)!Next \/ UNCHANGED Contract(c)!vars
  <1>1. PICK k \in 0..Len(chan[d]) :
          /\ ReadEffect(d, Head(Decoded(d, k)))
          /\ HandleMessage(d, Head(Decoded(d, k)), ToSet(Decoded(d, k)))
    BY ReadDoes DEF Inv
  <1>2. PICK m : m = Head(Decoded(d, k)) /\ ReadEffect(d, m)
    BY <1>1
  <1>3. /\ UNCHANGED <<up, peer, out>>
        /\ \A e \in Conns \ {d} : vec'[e] = vec[e] /\ chan'[e] = chan[e]
    BY <1>1, <1>2 DEF HandleMessage, ReadEffect
  <1>4. TypeOK /\ Local(d) /\ sending \in Seq(Answers)
    BY DEF Inv, TypeOK
  <1>5. /\ ToSet(Pipe(d)) = {m} \cup ToSet(Pipe(d))' /\ m \in Requests /\ m.c = d
        /\ m \notin Taken /\ m \notin ToSet(Pipe(d))'
    BY <1>2, <1>4, HeadIsAlone DEF ReadEffect, ReadTakes
  <1>6. LinkState(c)' = LinkState(c) /\ (c # d => Pipe(c)' = Pipe(c))
    BY <1>3 DEF LinkState, Running, Pipe
  <1>7. Open \subseteq Taken /\ \A e \in Conns : Seen(e)
    BY <1>4, TakenTypes, SeenTypes DEF TakenMessages
  <1>8. CASE sending' = sending /\ Open' = Open \cup {m}
    <2>1. Line(c)' = Line(c)
      BY <1>3, <1>8, LineStays
    <2>2. Undealt(c)' = Undealt(c)
      <3>1. CASE c = d
        <4>1. Undealt(d) = {n \in ToSet(Pipe(d)) \cup Open : n.c = d}
          BY <1>7 DEF Seen
        <4>2. Undealt(d)' = {n \in ToSet(Pipe(d))' \cup Open' : n.c = d}
          BY SeenNext
        <4>3. ToSet(Pipe(d))' \cup Open' = ToSet(Pipe(d)) \cup Open
          BY <1>5, <1>8
        <4> QED BY <3>1, <4>1, <4>2, <4>3
      <3>2. CASE c # d
        <4>1. Undealt(c) = {n \in ToSet(Pipe(c)) \cup Open : n.c = c}
          BY <1>7 DEF Seen
        <4>2. Undealt(c)' = {n \in ToSet(Pipe(c))' \cup Open' : n.c = c}
          BY SeenNext
        <4>3. Pipe(c)' = Pipe(c)
          BY <1>6, <3>2
        <4>4. ToSet(Pipe(c))' = ToSet(Pipe(c))
          BY <4>3
        <4>5. m.c # c
          BY <1>5, <3>2
        <4> QED BY <1>8, <4>1, <4>2, <4>4, <4>5
      <3> QED BY <3>1, <3>2
    <2> QED BY <1>3, <1>4, <1>6, <2>1, <2>2, LinkRests
  <1>9. CASE sending' = Append(sending, Answer(m, "REFUSE", 0)) /\ Open' = Open
    <2>1. PICK a \in Answers : a = Answer(m, "REFUSE", 0) /\ a.to = d /\ a.op = "REFUSE"
      BY <1>5, AnswerTypes
    <2>2. IsAppend(sending', sending, a)
      BY <1>4, <1>9, <2>1, AppendIs
    <2>3. CASE c = d /\ LinkState(c) = "open"
      <3>1. IsAppend(Line(c)', Line(c), a)
        BY <1>3, <1>4, <2>1, <2>2, <2>3, ReplyJoins
      <3>2. m \in Undealt(c)
        BY <1>5, <1>7, <2>3 DEF Seen
      <3>3. Undealt(c)' = Undealt(c) \ {m}
        BY <1>5, <1>7, <1>9, <2>3, SeenNext DEF Seen
      <3>4. StaysOpen(c) /\ IsAnswerTo(m, a)
        BY <1>6, <2>1, <2>3 DEF StaysOpen, IsAnswerTo
      <3> QED BY <1>3, <1>4, <1>5, <3>1, <3>2, <3>3, <3>4, LinkAnswers
    <2>4. CASE c # d
      <3>1. Line(c)' = Line(c)
        BY <1>3, <1>4, <2>1, <2>2, <2>4, ReplyJoins
      <3> QED BY <1>3, <1>4, <1>6, <1>9, <2>4, <3>1, LinkAlone
    <2>5. CASE LinkState(c) # "open"
      BY <1>3, <1>4, <1>6, <2>5, LinkAlone
    <2> QED BY <2>3, <2>4, <2>5
  <1> QED BY <1>2, <1>4, <1>5, <1>8, <1>9, ReadTaken

\* The end of a transaction of the loop answers its request.
LEMMA FinishSession ==
  ASSUME Inv, TypeOK', ~Stops, FinishConnect \/ FinishQuery, NEW c \in Conns
  PROVE  Contract(c)!Next \/ UNCHANGED Contract(c)!vars
  <1>1. PICK a : LoopAnswers(a)
    BY FinishAnswers DEF Inv
  <1>2. UNCHANGED <<up, peer, out, vec, chan>>
    BY <1>1 DEF FinishConnect, FinishQuery, LoopAnswers
  <1>3. op \in Open /\ Open' = Open \ {op}
    <2>1. op # None /\ op \notin Batches
      BY <1>1, NoneIsNoMessage, BatchTypes DEF LoopAnswers, Handled, Inv
    <2>2. ToSet(work) \subseteq Batches
          /\ \A w \in Workers : worker[w].pc \in {"insert", "accept"} => worker[w].job \in Batches
      BY TakenTypes DEF TakenMessages, Jobs, Idle, Inv
    <2> QED BY <1>1, <2>1, <2>2 DEF LoopAnswers, Open
  <1>4. IsAnswerTo(op, a)
    BY <1>1 DEF LoopAnswers, Means, Answers, IsAnswerTo
  <1> QED BY <1>1, <1>2, <1>3, <1>4, AnswerSession DEF LoopAnswers

\* Writing out the queue moves the answers on.
LEMMA WriteSession ==
  ASSUME Inv, TypeOK', ~Stops, WriteToNetwork, NEW c \in Conns, Served(c)
  PROVE  UNCHANGED Contract(c)!vars
  <1>1. /\ sending' = <<>> /\ UNCHANGED <<up, peer, chan, vec>> /\ Running
        /\ out'[c] = IF peer[c] # "gone" /\ obj[c] \in {"open", "zombie"}
                     THEN out[c] \o Delivered(c) ELSE out[c]
        /\ Elsewhere
    BY DEF WriteToNetwork, LoopFree, Drained, Elsewhere, clientVars, poolVars
  <1>2. TypeOK /\ Open' = Open /\ Pipe(c)' = Pipe(c) /\ LinkState(c)' = LinkState(c)
    BY <1>1, ElsewhereTaken DEF Inv, Pipe, LinkState, Running
  <1>3. Queues(c) /\ Queues(c)'
    BY <1>2, QueueTypes, NextTypes
  <1>4. ASSUME LinkState(c) = "open" PROVE Line(c)' = Line(c)
    <2>1. peer[c] # "gone"
      BY <1>4 DEF LinkState
    <2>2. Line(c)' = out'[c]
      <3>1. Line(c)' = out'[c] \o <<>>
        BY <1>1, <1>3 DEF Line, Queues
      <3> QED BY <1>3, <3>1, ConcatEmptySeq DEF Queues
    <2>3. CASE obj[c] = "open"
      BY <1>1, <2>1, <2>2, <2>3 DEF Line
    <2>4. CASE obj[c] # "open"
      <3>1. obj[c] \in {"none", "leaked"} /\ \A a \in ToSet(sending) : a.to # c
        BY <1>1, <2>1, <2>4 DEF Served
      <3>2. {a \in ToSet(sending) : a.to = c} = {}
        BY <3>1
      <3>3. ToSet(Delivered(c)) = {a \in ToSet(sending) : a.to = c}
        BY <1>2, DeliveredElements DEF TypeOK
      <3>4. Delivered(c) = <<>>
        BY <1>3, <3>2, <3>3, ToSetEmpty DEF Queues
      <3>5. Line(c) = out[c]
        <4>1. Line(c) = out[c] \o <<>>
          BY <3>4 DEF Line
        <4> QED BY <1>3, <4>1, ConcatEmptySeq DEF Queues
      <3> QED BY <1>1, <2>2, <3>1, <3>5
    <2> QED BY <2>3, <2>4
  <1> QED BY <1>1, <1>2, <1>4, LinkAlone

\* A pool thread settles a partial batch when its transaction is over, answers a
\* full one, and otherwise moves it about.
LEMMA InsertSession ==
  ASSUME Inv, TypeOK', NEW w \in Workers, InsertWindowsEvents(w), ~Stops, NEW c \in Conns
  PROVE  Contract(c)!Next \/ UNCHANGED Contract(c)!vars
  <1>1. PICK b : b = worker[w].job
    OBVIOUS
  <1>2. PICK p : p = AfterInsert(b)
    OBVIOUS
  <1>3. /\ worker[w].pc = "insert" /\ Works(w, p)
        /\ UNCHANGED <<up, peer, out, vec, chan, sending>>
    BY <1>1, <1>2 DEF InsertWindowsEvents, Works, AfterInsert, WorkerSteps, peerVars, clientVars
  <1>4. TypeOK /\ Pipe(c)' = Pipe(c) /\ LinkState(c)' = LinkState(c) /\ Line(c)' = Line(c)
    BY <1>3, LineStays DEF Inv, Pipe, LinkState, Running
  <1>5. \A u \in Workers : /\ worker'[u].job = worker[u].job
                           /\ worker'[u].pc = IF u = w THEN p ELSE worker[u].pc
    BY <1>3, <1>4, WorksJobs
  <1>6. b \in Open /\ work' = work /\ op' = op
    BY <1>1, <1>3 DEF Open, Works
  <1>7. CASE b.full
    <2>1. p = "accept"
      BY <1>2, <1>7 DEF AfterInsert
    <2>2. Open' = Open
      BY <1>3, <1>5, <1>6, <2>1 DEF Open
    <2> QED BY <1>3, <1>4, <2>2, LinkAlone
  <1>8. CASE ~b.full
    <2>1. p = "return"
      BY <1>2, <1>8 DEF AfterInsert
    <2>2. \A u \in Workers : worker'[u].pc \in {"insert", "accept"} <=>
            u # w /\ worker[u].pc \in {"insert", "accept"}
      BY <1>3, <1>5, <2>1
    <2>3. Open' = Open \ {b}
      BY <1>1, <1>3, <1>5, <1>6, <2>2, OpenOnce DEF Open
    <2>4. b \in Requests /\ b \notin ToSet(Pipe(b.c)) /\ b \in Undealt(b.c)
      BY <1>6, OpenIsRead
    <2>5. CASE c = b.c /\ LinkState(c) = "open"
      <3>1. Undealt(c)' = Undealt(c) \ {b}
        BY <1>4, <2>3, <2>4, <2>5, SeenTypes, SeenNext DEF Seen
      <3>2. Kind(b) = "PART"
        <4>1. b \in Batches
          BY <1>1, <1>3, <1>4, WorkerTypes DEF TypeOK, Idle
        <4> QED BY <1>8, <4>1, BatchTypes DEF Kind
      <3>3. StaysOpen(c)
        BY <1>4, <2>5 DEF StaysOpen
      <3> QED BY <1>3, <1>4, <2>4, <2>5, <3>1, <3>2, <3>3, LinkSettles
    <2>6. CASE c # b.c
      BY <1>3, <1>4, <2>3, <2>6, LinkAlone
    <2>7. CASE LinkState(c) # "open"
      BY <1>3, <1>4, <2>7, LinkAlone
    <2> QED BY <2>5, <2>6, <2>7
  <1> QED BY <1>7, <1>8

\* A pool thread that answers ACCEPT answers the full batch of its job.
LEMMA AcceptBatchSession ==
  ASSUME Inv, TypeOK', NEW w \in Workers, AcceptBatch(w), ~Stops, NEW c \in Conns
  PROVE  Contract(c)!Next \/ UNCHANGED Contract(c)!vars
  <1>1. PICK b : b = worker[w].job
    OBVIOUS
  <1>2. /\ worker[w].pc = "accept" /\ Works(w, "wake") /\ sending' = Append(sending, Answer(b, "ACCEPT", 0))
        /\ UNCHANGED <<up, peer, out, vec, chan>>
    BY <1>1 DEF AcceptBatch, Works, WorkerSteps, peerVars, clientVars, dbVars
  <1>3. TypeOK /\ sending \in Seq(Answers)
    BY DEF Inv, TypeOK
  <1>4. \A u \in Workers : /\ worker'[u].job = worker[u].job
                           /\ worker'[u].pc = IF u = w THEN "wake" ELSE worker[u].pc
    BY <1>2, <1>3, WorksJobs
  <1>5. b \in Batches /\ b \in Open /\ b.full /\ work' = work /\ op' = op
    <2>1. b \in Batches
      BY <1>1, <1>2, <1>3, WorkerTypes DEF TypeOK, Idle
    <2>2. b.full
      BY <1>1, <1>2 DEF Inv, Handled
    <2> QED BY <1>1, <1>2, <2>1, <2>2 DEF Open, Works
  <1>6. Open' = Open \ {b}
    <2>1. \A u \in Workers : worker'[u].pc \in {"insert", "accept"} <=>
            u # w /\ worker[u].pc \in {"insert", "accept"}
      BY <1>2, <1>4
    <2> QED BY <1>1, <1>2, <1>4, <1>5, <2>1, OpenOnce DEF Open
  <1>7. PICK a \in Answers : a = Answer(b, "ACCEPT", 0) /\ a.to = b.c /\ a.op = "ACCEPT"
    BY <1>5, BatchTypes, AnswerTypes
  <1>8. IsAppend(sending', sending, a) /\ IsAnswerTo(b, a)
    BY <1>2, <1>3, <1>5, <1>7, AppendIs, BatchTypes DEF IsAnswerTo
  <1> QED BY <1>2, <1>5, <1>6, <1>7, <1>8, AnswerSession

\* Every step of a pool thread is a step of each link or none.
LEMMA PoolSession ==
  ASSUME Inv, TypeOK', NEW w \in Workers, WorkerStep(w), ~Stops, NEW c \in Conns
  PROVE  Contract(c)!Next \/ UNCHANGED Contract(c)!vars
  <1>1. CASE InsertWindowsEvents(w)
    BY <1>1, InsertSession
  <1>2. CASE AcceptBatch(w)
    BY <1>2, AcceptBatchSession
  <1>3. CASE StartWork(w) \/ WakeLoop(w) \/ FinishWork(w)
    <2>1. /\ UNCHANGED <<up, peer, out, vec, chan, sending, op>>
          /\ worker \in [Workers -> [pc: WorkerSteps, job: Batches] \cup {Idle}]
          /\ TypeOK
      BY <1>3 DEF StartWork, WakeLoop, FinishWork, peerVars, clientVars, Inv, TypeOK
    <2>2. Open' = Open
      <3>1. CASE StartWork(w)
        <4>1. /\ worker[w] = Idle /\ work # <<>> /\ work' = Tail(work)
              /\ worker' = [worker EXCEPT ![w] = [pc |-> "insert", job |-> Head(work)]]
          BY <3>1 DEF StartWork
        <4>2. ToSet(work) = {Head(work)} \cup ToSet(work')
          BY <2>1, <4>1, ToSetHeadTail DEF TypeOK
        <4>3. \A u \in Workers : /\ u # w => worker'[u] = worker[u]
                                 /\ worker'[w].job = Head(work) /\ worker'[w].pc = "insert"
          BY <2>1, <4>1
        <4>4. worker[w].pc \notin {"insert", "accept"}
          BY <4>1 DEF Idle
        <4> QED BY <2>1, <4>2, <4>3, <4>4 DEF Open
      <3>2. CASE WakeLoop(w)
        <4>1. worker[w].pc = "wake" /\ work' = work /\ Works(w, "return")
          BY <3>2 DEF WakeLoop, Works, WorkerSteps, peerVars, clientVars, dbVars
        <4>2. \A u \in Workers : /\ worker'[u].job = worker[u].job
                                 /\ worker'[u].pc = IF u = w THEN "return" ELSE worker[u].pc
          BY <2>1, <4>1, WorksJobs
        <4> QED BY <2>1, <4>1, <4>2 DEF Open
      <3>3. CASE FinishWork(w)
        <4>1. worker[w].pc = "return" /\ work' = work /\ worker' = [worker EXCEPT ![w] = Idle]
          BY <3>3 DEF FinishWork
        <4>2. worker'[w].pc = "idle" /\ \A u \in Workers : u # w => worker'[u] = worker[u]
          BY <2>1, <4>1 DEF Idle
        <4> QED BY <2>1, <4>1, <4>2 DEF Open
      <3> QED BY <1>3, <3>1, <3>2, <3>3
    <2>3. Pipe(c)' = Pipe(c) /\ LinkState(c)' = LinkState(c) /\ Line(c)' = Line(c)
      BY <2>1, LineStays DEF Pipe, LinkState, Running
    <2> QED BY <2>1, <2>2, <2>3, LinkAlone
  <1> QED BY <1>1, <1>2, <1>3 DEF WorkerStep

\* The steps that leave the connections of the clients that are there alone.
LEMMA OtherSession ==
  ASSUME Inv, TypeOK', ~Stops, NEW c \in Conns, Served(c),
         \/ DropDatabase \/ SIGTERM \/ AfterWork \/ UNCHANGED vars
         \/ \E d \in Conns : Accept(d) \/ ReadError(d) \/ UvClose(d)
  PROVE  UNCHANGED Contract(c)!vars
  <1>1. UNCHANGED <<up, peer, out, sending, op, work, worker>>
    BY DEF DropDatabase, SIGTERM, AfterWork, Accept, ReadError, UvClose, vars, peerVars,
           clientVars, poolVars
  <1>2. TypeOK /\ Open' = Open /\ LinkState(c)' = LinkState(c) /\ Line(c)' = Line(c)
    BY <1>1, LineStays DEF Inv, Open, LinkState, Running
  <1>3. ASSUME LinkState(c) = "open" PROVE Pipe(c)' = Pipe(c)
    <2>1. Running /\ peer[c] # "gone"
      BY <1>3 DEF LinkState
    <2>2. \A d \in Conns : ReadError(d) \/ UvClose(d) => d # c
      BY <2>1 DEF ReadError, UvClose, Served
    <2>3. vec'[c] = vec[c] /\ chan'[c] = chan[c]
      BY <1>2, <2>2 DEF DropDatabase, SIGTERM, AfterWork, Accept, ReadError, UvClose, vars,
                        peerVars, clientVars, poolVars, TypeOK
    <2> QED BY <2>3 DEF Pipe
  <1> QED BY <1>1, <1>2, <1>3, LinkAlone

\* The end of the process is the end of its connections.
LEMMA EndSession ==
  ASSUME Inv, TypeOK', NEW c \in Conns, Stops \/ StopLoop \/ Exit
  PROVE  Contract(c)!Next \/ UNCHANGED Contract(c)!vars
  <1>1. LinkState(c)' = "lost" \/ (LinkState(c) = "closed" /\ LinkState(c)' = "closed")
    BY DEF Stops, StopLoop, Exit, LinkState, Running, peerVars
  <1>2. CASE LinkState(c)' = "lost" /\ LinkState(c) # "lost"
    BY <1>2, LinkLoses DEF Contract!Next
  <1>3. CASE LinkState(c)' = LinkState(c) /\ LinkState(c) # "open"
    BY <1>3, LinkRests DEF Inv
  <1> QED BY <1>1, <1>2, <1>3

\* A client's step is a step of its own link and of no other.
LEMMA PeerSession ==
  ASSUME Inv, TypeOK', PeerStep, NEW c \in Conns
  PROVE  Contract(c)!Next \/ UNCHANGED Contract(c)!vars
  <1>1. PICK d \in Conns : PeerConnect(d) \/ PeerReceive(d) \/ PeerSend(d) \/ PeerClose(d)
    BY DEF PeerStep
  <1>2. TypeOK /\ UNCHANGED <<up, vec, sending>> /\ Elsewhere
    BY <1>1 DEF PeerConnect, PeerReceive, PeerSend, PeerClose, Inv, Elsewhere, clientVars,
                poolVars, dbVars
  <1>3. CASE d # c
    <2>1. chan'[c] = chan[c] /\ out'[c] = out[c] /\ peer'[c] = peer[c]
      BY <1>1, <1>2, <1>3 DEF PeerConnect, PeerReceive, PeerSend, PeerClose, TypeOK
    <2>2. Pipe(c)' = Pipe(c) /\ LinkState(c)' = LinkState(c) /\ Line(c)' = Line(c) /\ Open' = Open
      BY <1>2, <2>1, LineStays, ElsewhereTaken DEF Pipe, LinkState, Running
    <2> QED BY <1>2, <2>1, <2>2, LinkAlone
  <1>4. CASE d = c /\ Running
    BY <1>1, <1>4, PeerConnectSession, PeerReceiveSession, PeerSendSession, PeerCloseSession
  <1>5. CASE d = c /\ ~Running
    <2>1. LinkState(c)' = "lost" /\ LinkState(c) = "lost"
      <3>1. peer[c] # "off"
        <4>1. CASE PeerReceive(c)
          <5>1. out[c] # <<>> /\ out'[c] = Tail(out[c])
            BY <1>2, <4>1 DEF PeerReceive, TypeOK
          <5>2. Replied(c) # {}
            BY <1>2, <5>1, LineTakes DEF Replied
          <5> QED BY <5>2 DEF Inv, Local, Phase
        <4> QED BY <1>1, <1>5, <4>1 DEF PeerConnect, PeerSend, PeerClose
      <3>2. peer'[c] # "off" /\ ~Running'
        BY <1>1, <1>2, <1>5, <3>1
           DEF PeerConnect, PeerReceive, PeerSend, PeerClose, TypeOK, Running
      <3> QED BY <1>5, <3>1, <3>2 DEF LinkState
    <2> QED BY <1>2, <2>1, LinkRests
  <1> QED BY <1>3, <1>4, <1>5

\* Every step of the server is a step of each of its connections, or leaves it alone.
LEMMA SessionStep ==
  ASSUME SessionInv, SessionInv', [Next]_vars, NEW c \in Conns
  PROVE  [Contract(c)!Next]_(Contract(c)!vars)
  <1>1. Inv /\ TypeOK' /\ Served(c)
    BY DEF SessionInv, Inv
  <1>2. CASE Stops
    BY <1>1, <1>2, EndSession
  <1>3. CASE ~Stops
    <2>1. CASE PeerStep
      BY <1>1, <2>1, PeerSession
    <2>2. CASE DropDatabase \/ SIGTERM \/ AfterWork \/ UNCHANGED vars
      BY <1>1, <1>3, <2>2, OtherSession
    <2>3. CASE \E d \in Conns : Accept(d) \/ ReadError(d) \/ UvClose(d)
      BY <1>1, <1>3, <2>3, OtherSession
    <2>4. CASE \E d \in Conns : Read(d)
      BY <1>1, <1>3, <2>4, ReadSession
    <2>5. CASE FinishConnect \/ FinishQuery
      BY <1>1, <1>3, <2>5, FinishSession
    <2>6. CASE WriteToNetwork
      BY <1>1, <1>3, <2>6, WriteSession
    <2>7. CASE StopLoop \/ Exit
      BY <1>1, <2>7, EndSession
    <2>8. CASE \E w \in Workers : WorkerStep(w)
      BY <1>1, <1>3, <2>8, PoolSession
    <2> QED BY <2>1, <2>2, <2>3, <2>4, <2>5, <2>6, <2>7, <2>8 DEF Next, LoopStep
  <1> QED BY <1>2, <1>3

\* No connection is open at the start.
LEMMA SessionStart ==
  ASSUME Init, NEW c \in Conns
  PROVE  Contract(c)!Init
  <1>1. TypeOK /\ LinkState(c) = "closed" /\ Resumed(c) = FALSE
    BY InitTypes DEF Init, LinkState, Resumed
  <1>2. Pending(c) = [k \in SKinds |-> 0] /\ AnswersSeen(c) = <<>>
    BY <1>1, SeenTypes DEF Seen
  <1> QED BY <1>1, <1>2
          DEF Contract!Init, Contract!Nothing, Contract!Kinds, SKinds, Resumed, AnswersSeen

\* The server keeps its side of Session on each of its connections, for every
\* number of connections, machines, pool threads and batches: however the loop
\* and the pool interleave, and whatever ends the process, an answer answers one
\* request that was sent and not yet dealt with, and is of the right kind.
THEOREM ImplementsSession == Spec => KeepsSession
  <1>1. Init => \A c \in Conns : Contract(c)!Init
    BY SessionStart
  <1>2. SessionInv /\ SessionInv' /\ [Next]_vars =>
          \A c \in Conns : [Contract(c)!Next]_(Contract(c)!vars)
    BY SessionStep
  <1> QED BY <1>1, <1>2, OpenWhileServed, PTL DEF Spec, KeepsSession
=============================================================================
