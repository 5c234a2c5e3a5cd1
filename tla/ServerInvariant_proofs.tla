------------------------ MODULE ServerInvariant_proofs ------------------------
(***************************************************************************)
(* The server's state keeps its types; its inductive invariant, and the    *)
(* safety properties that follow from it, for every number of connections, *)
(* machines, pool threads and batches.                                     *)
(***************************************************************************)
EXTENDS ServerInvariant, SequenceLemmas

-----------------------------------------------------------------------------
(* Chosen and Delivered *)

\* What Chosen returns: as many elements as positions, each in its place.
IsChosen(t, s, P) ==
  /\ Len(t) = Cardinality(P) /\ Cardinality(P) \in Nat
  /\ \A n \in 1..Cardinality(P) : \E i \in P :
       Cardinality(Below(P, i)) = n - 1 /\ t[n] = s[i]
  /\ \A i \in P : /\ Cardinality(Below(P, i)) + 1 \in 1..Cardinality(P)
                  /\ t[Cardinality(Below(P, i)) + 1] = s[i]

\* The elements chosen from a sequence are a sequence of its elements.
LEMMA ChosenElements ==
  ASSUME NEW S, NEW s \in Seq(S), NEW P \in SUBSET (1..Len(s))
  PROVE  Chosen(s, P) \in Seq(S) /\ IsChosen(Chosen(s, P), s, P)
  <1> DEFINE Nth(n) == CHOOSE i \in P : Cardinality(Below(P, i)) = n - 1
             N == Cardinality(P)
             t == [n \in 1..N |-> s[Nth(n)]]
  <1>1. Len(s) \in Nat /\ (\A i \in 1..Len(s) : s[i] \in S)
    BY LenProperties, ElementOfSeq
  <1>2. IsFiniteSet(P)
    <2>1. IsFiniteSet(1..Len(s))
      BY <1>1, FS_Interval
    <2> QED BY <2>1, FS_Subset
  <1>3. /\ N \in Nat
        /\ \A n \in 1..N : \E i \in P : Cardinality(Below(P, i)) = n - 1
        /\ \A i, k \in P : Cardinality(Below(P, i)) = Cardinality(Below(P, k)) => i = k
        /\ \A i \in P : Cardinality(Below(P, i)) + 1 \in 1..N
    BY <1>1, <1>2, NthPosition
  <1>4. \A n \in 1..N : Nth(n) \in P /\ Cardinality(Below(P, Nth(n))) = n - 1
    BY <1>3
  <1>5. Chosen(s, P) = t
    BY DEF Chosen, Below
  <1> HIDE DEF Nth
  <1>6. \A n \in 1..N : t[n] = s[Nth(n)] /\ t[n] \in S
    BY <1>1, <1>4
  <1>7. t \in Seq(S) /\ Len(t) = N
    BY <1>3, <1>6
  <1>8. ASSUME NEW i \in P
        PROVE  t[Cardinality(Below(P, i)) + 1] = s[i]
    <2> DEFINE n == Cardinality(Below(P, i)) + 1
    <2>1. n \in 1..N
      BY <1>3
    <2>2. Nth(n) \in P /\ Cardinality(Below(P, Nth(n))) = n - 1
      BY <1>4, <2>1
    <2>3. n - 1 = Cardinality(Below(P, i))
      BY <1>2, <2>1, FS_Subset, FS_CardinalityType DEF Below
    <2>4. Nth(n) = i
      BY <1>3, <2>2, <2>3
    <2> QED BY <1>6, <2>1, <2>4
  <1> HIDE DEF t, N
  <1> QED BY <1>3, <1>4, <1>5, <1>6, <1>7, <1>8 DEF N, IsChosen

\* Chosen holds the elements at the chosen positions.
LEMMA ChosenToSet ==
  ASSUME NEW S, NEW s \in Seq(S), NEW P \in SUBSET (1..Len(s))
  PROVE  ToSet(Chosen(s, P)) = {s[i] : i \in P}
  <1> DEFINE t == Chosen(s, P)
  <1>1. /\ t \in Seq(S) /\ Len(t) = Cardinality(P)
        /\ \A n \in 1..Len(t) : \E i \in P : t[n] = s[i]
        /\ \A i \in P : \E n \in 1..Len(t) : t[n] = s[i]
    <2>1. t \in Seq(S) /\ IsChosen(t, s, P)
      BY ChosenElements
    <2> QED BY <2>1 DEF IsChosen
  <1> HIDE DEF t
  <1>2. ToSet(t) = {t[n] : n \in 1..Len(t)}
    BY <1>1, ToSetByIndex
  <1>3. ToSet(t) \subseteq {s[i] : i \in P}
    BY <1>1, <1>2
  <1>4. {s[i] : i \in P} \subseteq ToSet(t)
    BY <1>1, <1>2
  <1> QED BY <1>3, <1>4 DEF t

\* Two sequences that agree on the chosen positions have the same Chosen.
LEMMA ChosenAgree ==
  ASSUME NEW S, NEW s \in Seq(S), NEW t \in Seq(S), NEW P,
         P \in SUBSET (1..Len(s)), P \in SUBSET (1..Len(t)), \A i \in P : s[i] = t[i]
  PROVE  Chosen(s, P) = Chosen(t, P)
  <1>1. Chosen(s, P) \in Seq(S) /\ IsChosen(Chosen(s, P), s, P)
    BY ChosenElements
  <1>2. Chosen(t, P) \in Seq(S) /\ IsChosen(Chosen(t, P), t, P)
    BY ChosenElements
  <1>3. ASSUME NEW n \in 1..Cardinality(P)
        PROVE  Chosen(s, P)[n] = Chosen(t, P)[n]
    <2>1. PICK i \in P : Cardinality(Below(P, i)) = n - 1 /\ Chosen(s, P)[n] = s[i]
      BY <1>1 DEF IsChosen
    <2>2. Cardinality(Below(P, i)) + 1 = n
      BY <2>1, <1>2 DEF IsChosen
    <2> QED BY <2>1, <2>2, <1>2 DEF IsChosen
  <1> QED BY <1>1, <1>2, <1>3, SeqEqual DEF IsChosen

\* An element appended at a chosen position comes last.
LEMMA ChosenAppend ==
  ASSUME NEW S, NEW s \in Seq(S), NEW P \in SUBSET (1..Len(s)), NEW e \in S,
         NEW t \in Seq(S), IsAppend(t, s, e)
  PROVE  /\ Chosen(t, P) = Chosen(s, P)
         /\ Chosen(t, P \cup {Len(s) + 1}) \in Seq(S) /\ Chosen(s, P) \in Seq(S)
         /\ IsAppend(Chosen(t, P \cup {Len(s) + 1}), Chosen(s, P), e)
  <1> DEFINE L == Len(s) + 1
             Q == P \cup {L}
             u == Chosen(s, P)
             v == Chosen(t, Q)
  <1>1. /\ t \in Seq(S) /\ Len(t) = Len(s) + 1 /\ Len(s) \in Nat
        /\ (\A i \in 1..Len(s) : t[i] = s[i]) /\ t[L] = e
    BY LenProperties DEF IsAppend
  <1>2. P \in SUBSET (1..Len(t)) /\ Q \in SUBSET (1..Len(t)) /\ L \notin P
    <2>1. \A i \in 1..Len(s) : i \in 1..Len(t) /\ i # L
      BY <1>1
    <2>2. L \in 1..Len(t)
      BY <1>1
    <2> HIDE DEF L
    <2> QED BY <2>1, <2>2
  <1>3. Chosen(t, P) = u
    <2> \A i \in P : t[i] = s[i]
      BY <1>1
    <2> QED BY <1>1, <1>2, ChosenAgree
  <1>4. IsFiniteSet(P) /\ Cardinality(P) \in Nat
    <2>1. IsFiniteSet(1..Len(s))
      BY <1>1, FS_Interval
    <2> QED BY <2>1, FS_Subset, FS_CardinalityType
  <1>5. Cardinality(Q) = Cardinality(P) + 1
    BY <1>2, <1>4, FS_AddElement
  <1>6. (\A i \in P : Below(Q, i) = Below(P, i)) /\ Below(Q, L) = P
    <2>1. \A i \in P : i \in Int /\ i < L
      BY <1>1
    <2>2. ASSUME NEW i \in P PROVE Below(Q, i) = Below(P, i)
      BY <2>1 DEF Below
    <2>3. ~(L < L)
      BY <1>1
    <2>4. Below(Q, L) = P
      <3> HIDE DEF L
      <3> QED BY <2>1, <2>3 DEF Below, Q
    <2> QED BY <2>2, <2>4
  <1> HIDE DEF L, Q
  <1>7. u \in Seq(S) /\ IsChosen(u, s, P)
    BY ChosenElements
  <1>8. v \in Seq(S) /\ IsChosen(v, t, Q)
    BY <1>1, <1>2, ChosenElements
  <1> HIDE DEF u, v
  <1>9. Len(v) = Len(u) + 1
    BY <1>5, <1>7, <1>8 DEF IsChosen
  <1>10. ASSUME NEW n \in 1..Len(u)
         PROVE  v[n] = u[n]
    <2>1. PICK i \in P : Cardinality(Below(P, i)) = n - 1 /\ u[n] = s[i]
      BY <1>7 DEF IsChosen
    <2>2. Cardinality(Below(Q, i)) + 1 = n
      BY <2>1, <1>6, <1>7 DEF IsChosen
    <2>3. i \in Q
      BY DEF Q
    <2>4. v[n] = t[i] /\ t[i] = s[i]
      BY <2>2, <2>3, <1>8, <1>1 DEF IsChosen
    <2> QED BY <2>1, <2>4
  <1>11. v[Len(u) + 1] = e
    <2>1. L \in Q /\ Cardinality(Below(Q, L)) = Len(u)
      BY <1>6, <1>7 DEF Q, IsChosen
    <2> QED BY <2>1, <1>8, <1>1 DEF IsChosen
  <1>12. IsAppend(v, u, e)
    BY <1>9, <1>10, <1>11 DEF IsAppend
  <1> QED BY <1>3, <1>7, <1>8, <1>12 DEF L, Q, u, v

\* The answers to c in a queue.
For(s, c) == Chosen(s, {i \in DOMAIN s : s[i].to = c})

\* The answers to c wait in the order in which they were queued.
LEMMA DeliveredElements ==
  ASSUME sending \in Seq(Answers), NEW c
  PROVE  /\ Delivered(c) \in Seq(Answers)
         /\ ToSet(Delivered(c)) = {a \in ToSet(sending) : a.to = c}
         /\ sending = <<>> => Delivered(c) = <<>>
  <1> DEFINE P == {i \in DOMAIN sending : sending[i].to = c}
  <1>1. P \in SUBSET (1..Len(sending)) /\ DOMAIN sending = 1..Len(sending)
    BY LenProperties
  <1> HIDE DEF P
  <1>2. /\ Chosen(sending, P) \in Seq(Answers)
        /\ ToSet(Chosen(sending, P)) = {sending[i] : i \in P}
    BY <1>1, ChosenElements, ChosenToSet
  <1>3. {sending[i] : i \in P} = {a \in ToSet(sending) : a.to = c}
    BY <1>1, ToSetByIndex DEF P
  <1>4. sending = <<>> => Delivered(c) = <<>>
    <2>1. SUFFICES ASSUME sending = <<>> PROVE Chosen(sending, P) = <<>>
      BY DEF Delivered, P
    <2>2. ToSet(sending) = {}
      BY <2>1, ToSetEmpty
    <2> QED BY <1>2, <1>3, <2>2, ToSetEmpty
  <1> QED BY <1>2, <1>3, <1>4 DEF Delivered, P

\* An answer appended to the queue is appended for its connection alone.
LEMMA DeliveredAppendIs ==
  ASSUME NEW s \in Seq(Answers), NEW a \in Answers, NEW t \in Seq(Answers), IsAppend(t, s, a),
         NEW c
  PROVE  /\ For(s, c) \in Seq(Answers) /\ For(t, c) \in Seq(Answers)
         /\ IF a.to = c THEN IsAppend(For(t, c), For(s, c), a) ELSE For(t, c) = For(s, c)
  <1> DEFINE P == {i \in DOMAIN s : s[i].to = c}
             Q == {i \in DOMAIN t : t[i].to = c}
             L == Len(s) + 1
  <1>1. P \in SUBSET (1..Len(s)) /\ DOMAIN s = 1..Len(s) /\ DOMAIN t = 1..Len(t) /\ Len(s) \in Nat
    BY LenProperties
  <1>2. Q = IF a.to = c THEN P \cup {L} ELSE P
    <2>1. \A i \in DOMAIN t : i \in DOMAIN s \/ i = L
      BY <1>1 DEF IsAppend
    <2>2. \A i \in DOMAIN s : i \in DOMAIN t /\ t[i] = s[i]
      BY <1>1 DEF IsAppend
    <2>3. L \in DOMAIN t /\ t[L] = a
      BY <1>1 DEF IsAppend
    <2> QED BY <2>1, <2>2, <2>3
  <1> HIDE DEF P, Q
  <1>3. /\ Chosen(t, P) = Chosen(s, P)
        /\ Chosen(t, P \cup {Len(s) + 1}) \in Seq(Answers)
        /\ Chosen(s, P) \in Seq(Answers)
        /\ IsAppend(Chosen(t, P \cup {Len(s) + 1}), Chosen(s, P), a)
    BY <1>1, ChosenAppend
  <1>4. For(s, c) = Chosen(s, P) /\ For(t, c) = Chosen(t, Q)
    BY DEF For, P, Q
  <1> QED BY <1>2, <1>3, <1>4

\* The same of the queue before and after a step.
LEMMA DeliveredAppend ==
  ASSUME sending \in Seq(Answers), sending' \in Seq(Answers), NEW a \in Answers,
         IsAppend(sending', sending, a), NEW c
  PROVE  Delivered(c)' = IF a.to = c THEN Append(Delivered(c), a) ELSE Delivered(c)
  <1>2. /\ For(sending, c) \in Seq(Answers) /\ For(sending', c) \in Seq(Answers)
        /\ IF a.to = c THEN IsAppend(For(sending', c), For(sending, c), a)
                       ELSE For(sending', c) = For(sending, c)
    BY DeliveredAppendIs
  <1>3. Delivered(c) = For(sending, c) /\ Delivered(c)' = For(sending', c)
    BY DEF Delivered, For, Chosen
  <1> QED BY <1>2, <1>3, AppendOnly

-----------------------------------------------------------------------------
(* Messages *)

\* A batch has its fields.
LEMMA BatchTypes ==
  /\ \A m \in Batches : /\ m.c \in Conns /\ m.op = "LOG" /\ m.rid \in Rids
                        /\ m.kind \in Kinds /\ m.full \in BOOLEAN
  /\ \A c \in Conns, r \in Rids, k \in Kinds, f \in BOOLEAN :
       Batch(c, r, k, f) \in Batches
  /\ Batches \subseteq Requests
  BY DEF Batches, Batch, Requests

\* A request is one of three.
LEMMA RequestTypes ==
  /\ \A m \in Requests :
       /\ m.c \in Conns
       /\ \/ m.op = "CONNECT" /\ m = Connect(m.c)
          \/ m.op = "QUERY" /\ m = Query(m.c)
          \/ m.op = "LOG" /\ m \in Batches
  /\ \A c \in Conns : /\ Connect(c) \in Requests /\ Connect(c).op = "CONNECT" /\ Connect(c).c = c
                      /\ Query(c) \in Requests /\ Query(c).op = "QUERY" /\ Query(c).c = c
  <1>1. ASSUME NEW m \in Requests
        PROVE  /\ m.c \in Conns
               /\ \/ m.op = "CONNECT" /\ m = Connect(m.c)
                  \/ m.op = "QUERY" /\ m = Query(m.c)
                  \/ m.op = "LOG" /\ m \in Batches
    <2>1. CASE m \in Batches
      BY <2>1, BatchTypes
    <2>2. CASE \E c \in Conns : m = Connect(c)
      BY <2>2 DEF Connect
    <2>3. CASE \E c \in Conns : m = Query(c)
      BY <2>3 DEF Query
    <2> QED BY <2>1, <2>2, <2>3 DEF Requests
  <1>2. \A c \in Conns : /\ Connect(c) \in Requests /\ Connect(c).op = "CONNECT" /\ Connect(c).c = c
                        /\ Query(c) \in Requests /\ Query(c).op = "QUERY" /\ Query(c).c = c
    BY DEF Requests, Connect, Query
  <1> QED BY <1>1, <1>2

\* An answer goes to the connection of its request.
LEMMA AnswerTypes ==
  /\ \A m \in Requests, o \in {"CONNECT", "RETURN", "ACCEPT", "REFUSE"}, id \in Nat :
       (o = "RETURN" => id # 0) =>
       /\ Answer(m, o, id) \in Answers
       /\ Answer(m, o, id).to = m.c /\ Answer(m, o, id).of = m
       /\ Answer(m, o, id).op = o /\ Answer(m, o, id).id = id
  /\ \A a \in Answers : a.to \in Conns /\ a.of \in Requests /\ a.id \in Nat
                      /\ (a.op = "RETURN" => a.id # 0)
  BY RequestTypes DEF Answer, Answers

\* A thread is idle or has a batch.
LEMMA WorkerTypes ==
  ASSUME worker \in [Workers -> [pc: WorkerSteps, job: Batches] \cup {Idle}], NEW w \in Workers
  PROVE  /\ worker[w] = Idle \/ worker[w] \in [pc: WorkerSteps, job: Batches]
         /\ worker[w] = Idle <=> worker[w].pc = "idle"
         /\ worker[w] # Idle => worker[w].pc \in WorkerSteps /\ worker[w].job \in Batches
         /\ worker[w] = Idle => worker[w].job = None
  BY DEF Idle, WorkerSteps

\* The greatest record ID of a machine, 0 if there is none.
LEMMA LastIsGreatest ==
  ASSUME rows \subseteq Batches, NEW m
  PROVE  /\ LastEventRecordID(m) \in Nat
         /\ \A b \in rows : machine[b.c] = m => b.rid <= LastEventRecordID(m)
         /\ \/ LastEventRecordID(m) = 0
            \/ \E b \in rows : machine[b.c] = m /\ b.rid = LastEventRecordID(m)
  <1> DEFINE ids == {b.rid : b \in {r \in rows : machine[r.c] = m}}
             T == {MaxLogs - i : i \in ids}
  <1>1. \A i \in ids : i \in Nat /\ 1 <= i /\ i <= MaxLogs
    BY BatchTypes DEF Rids
  <1>2. CASE ids = {}
    BY <1>2 DEF LastEventRecordID
  <1>3. CASE ids # {}
    <2> HIDE DEF ids
    <2>1. T \subseteq Nat /\ T # {}
      BY <1>1, <1>3, LogBound
    <2>2. PICK n \in T : \A k \in T : n <= k
      <3> HIDE DEF T
      <3> QED BY <2>1, LeastNatural
    <2>3. PICK i \in ids : n = MaxLogs - i
      BY <2>2
    <2>4. \A j \in ids : j <= i
      BY <1>1, <2>2, <2>3, LogBound
    <2>5. /\ (CHOOSE x \in ids : \A j \in ids : j <= x) \in ids
          /\ \A j \in ids : j <= (CHOOSE x \in ids : \A k \in ids : k <= x)
      BY <2>4
    <2>6. LastEventRecordID(m) = CHOOSE x \in ids : \A j \in ids : j <= x
      BY <1>3 DEF LastEventRecordID, ids
    <2>7. LastEventRecordID(m) \in ids /\ \A j \in ids : j <= LastEventRecordID(m)
      BY <2>5, <2>6
    <2> QED BY <1>1, <2>7 DEF ids
  <1> QED BY <1>2, <1>3

-----------------------------------------------------------------------------
(* Types *)

\* The initial state has its types.
LEMMA InitTypes ==
  ASSUME Init
  PROVE  TypeOK
  <1>1. <<>> \in Seq(Requests) /\ <<>> \in Seq(Answers) /\ <<>> \in Seq(Batches)
    BY EmptySeq
  <1>2. /\ peer \in [Conns -> PeerStates] /\ next \in [Conns -> Nat \ {0}]
        /\ obj \in [Conns -> ObjectStates] /\ dbc \in [Conns -> Machines \cup {None}]
        /\ worker \in [Workers -> [pc: WorkerSteps, job: Batches] \cup {Idle}]
    BY DEF Init, PeerStates, ObjectStates
  <1>3. /\ chan \in [Conns -> Seq(Requests)] /\ out \in [Conns -> Seq(Answers)]
        /\ vec \in [Conns -> Seq(Requests)]
        /\ sending \in Seq(Answers) /\ work \in Seq(Batches) /\ finished \in Seq(Batches)
    BY <1>1 DEF Init
  <1>4. /\ up \in {"running", "stopping", "exited", "stopped"} /\ machine \in [Conns -> Machines]
        /\ clientMap \subseteq Conns /\ op \in Requests \cup {None}
        /\ writeAsync \in BOOLEAN /\ stopAsync \in BOOLEAN
        /\ txn \in Workers \cup {Loop, None} /\ dbOpen \in BOOLEAN /\ dbConnected \in BOOLEAN
        /\ cached \subseteq Machines /\ registered \subseteq Machines
        /\ rows \subseteq Batches /\ live \subseteq Requests
    BY DEF Init, GetAllClients
  <1> QED BY <1>2, <1>3, <1>4 DEF TypeOK

\* An abnormal end leaves the initial values and the tables.
LEMMA StopsTypes ==
  ASSUME TypeOK, Stops
  PROVE  TypeOK'
  <1> <<>> \in Seq(Requests) /\ <<>> \in Seq(Answers) /\ <<>> \in Seq(Batches)
    BY EmptySeq
  <1> QED BY DEF Stops, TypeOK, PeerStates, ObjectStates

\* Clients.
LEMMA PeerTypes ==
  ASSUME TypeOK, PeerStep
  PROVE  TypeOK'
  <1> USE DEF TypeOK, PeerStates, clientVars, poolVars, dbVars
  <1>1. ASSUME NEW c \in Conns, PeerConnect(c) PROVE TypeOK'
    <2>1. <<Connect(c)>> \in Seq(Requests)
      BY RequestTypes
    <2> QED BY <1>1, <2>1 DEF PeerConnect
  <1>2. ASSUME NEW c \in Conns, PeerReceive(c) PROVE TypeOK'
    <2>1. Tail(out[c]) \in Seq(Answers) /\ Head(out[c]) \in Answers /\ out[c] # <<>>
      BY <1>2, ToSetHeadTail DEF PeerReceive
    <2>2. Append(chan[c], Query(c)) \in Seq(Requests)
      BY RequestTypes, ToSetAppend
    <2>3. Head(out[c]).id \in Nat /\ (Head(out[c]).op = "RETURN" => Head(out[c]).id # 0)
      BY <2>1, AnswerTypes
    <2>4. out' \in [Conns -> Seq(Answers)]
      BY <1>2, <2>1 DEF PeerReceive
    <2>5. peer' \in [Conns -> PeerStates] /\ next' \in [Conns -> Nat \ {0}]
          /\ chan' \in [Conns -> Seq(Requests)]
      BY <1>2, <2>2, <2>3 DEF PeerReceive
    <2> QED BY <1>2, <2>4, <2>5 DEF PeerReceive
  <1>3. ASSUME NEW c \in Conns, PeerSend(c) PROVE TypeOK'
    <2>1. next[c] \in Rids
      BY <1>3, LogBound DEF PeerSend, Rids
    <2>2. PICK k \in Kinds, f \in BOOLEAN :
            chan' = [chan EXCEPT ![c] = Append(@, Batch(c, next[c], k, f))]
      BY <1>3 DEF PeerSend
    <2>3. Append(chan[c], Batch(c, next[c], k, f)) \in Seq(Requests)
      BY <2>1, BatchTypes, ToSetAppend
    <2>4. chan' \in [Conns -> Seq(Requests)]
      BY <2>2, <2>3
    <2>5. next' \in [Conns -> Nat \ {0}]
      BY <1>3 DEF PeerSend
    <2> QED BY <1>3, <2>4, <2>5 DEF PeerSend
  <1>4. ASSUME NEW c \in Conns, PeerClose(c) PROVE TypeOK'
    BY <1>4, EmptySeq DEF PeerClose
  <1> QED BY <1>1, <1>2, <1>3, <1>4 DEF PeerStep

\* Connections come and go.
LEMMA ConnectionTypes ==
  ASSUME TypeOK, NEW c \in Conns, Accept(c) \/ ReadError(c) \/ UvClose(c)
  PROVE  TypeOK'
  <1> <<>> \in Seq(Requests)
    BY EmptySeq
  <1> USE DEF TypeOK, ObjectStates, peerVars, clientVars, poolVars, dbVars
  <1>1. CASE Accept(c)
    BY <1>1 DEF Accept, AddClient
  <1>2. CASE ReadError(c) /\ Stops
    BY <1>2, StopsTypes
  <1>3. CASE ReadError(c) /\ ~Stops
    BY <1>3 DEF ReadError, ReadErrorState
  <1>4. CASE UvClose(c)
    BY <1>4 DEF UvClose, Disconnected
  <1> QED BY <1>1, <1>2, <1>3, <1>4

\* What a read moves out of the channel are requests.
LEMMA ReadQueues ==
  ASSUME TypeOK, NEW c \in Conns, NEW k \in 0..Len(chan[c])
  PROVE  /\ Decoded(c, k) \in Seq(Requests)
         /\ SubSeq(chan[c], k + 1, Len(chan[c])) \in Seq(Requests)
         /\ Decoded(c, k) # <<>> => /\ Head(Decoded(c, k)) \in Requests
                                    /\ Tail(Decoded(c, k)) \in Seq(Requests)
                                    /\ ToSet(Decoded(c, k)) \subseteq Requests
  <1>1. chan[c] \in Seq(Requests) /\ vec[c] \in Seq(Requests)
    BY DEF TypeOK
  <1>2. /\ SubSeq(chan[c], 1, k) \in Seq(Requests)
        /\ SubSeq(chan[c], k + 1, Len(chan[c])) \in Seq(Requests)
    BY <1>1, ToSetSplit
  <1>3. Decoded(c, k) \in Seq(Requests)
    BY <1>1, <1>2, ToSetConcat DEF Decoded
  <1> QED BY <1>2, <1>3, ToSetHeadTail, ToSetByIndex

\* A reply is an answer.
LEMMA ReplyTypes ==
  ASSUME TypeOK, NEW a \in Answers, Reply(a)
  PROVE  sending' \in Seq(Answers) /\ writeAsync' \in BOOLEAN
  BY ToSetAppend DEF Reply, TypeOK

\* A read keeps the types.
LEMMA ReadTypes ==
  ASSUME TypeOK, NEW c \in Conns, Read(c)
  PROVE  TypeOK'
  <1>1. CASE Stops
    BY <1>1, StopsTypes
  <1>2. CASE ~Stops
    <2>1. PICK k \in 0..Len(chan[c]) :
            /\ Decoded(c, k) # <<>>
            /\ chan' = [chan EXCEPT ![c] = SubSeq(@, k + 1, Len(@))]
            /\ vec' = [vec EXCEPT ![c] = Tail(Decoded(c, k))]
            /\ HandleMessage(c, Head(Decoded(c, k)), ToSet(Decoded(c, k)))
            /\ UNCHANGED <<peer, next, machine, out, obj, dbc, clientMap, stopAsync,
                           worker, finished, dbOpen, dbConnected, cached, registered, rows>>
      BY <1>2 DEF Read
    <2> DEFINE m == Head(Decoded(c, k))
               q == ToSet(Decoded(c, k))
    <2>2. /\ m \in Requests /\ q \subseteq Requests
          /\ Tail(Decoded(c, k)) \in Seq(Requests)
          /\ SubSeq(chan[c], k + 1, Len(chan[c])) \in Seq(Requests)
      BY <2>1, ReadQueues
    <2>3. chan' \in [Conns -> Seq(Requests)] /\ vec' \in [Conns -> Seq(Requests)]
      BY <2>1, <2>2 DEF TypeOK
    <2> HIDE DEF m, q
    <2>4. HandleMessage(c, m, q)
      BY <2>1 DEF m, q
    <2>5. /\ up' = up /\ op' \in Requests \cup {None} /\ work' \in Seq(Batches)
          /\ txn' \in Workers \cup {Loop, None} /\ live' \subseteq Requests
          /\ sending' \in Seq(Answers) /\ writeAsync' \in BOOLEAN
      <3>1. CASE Refuses /\ Reply(Answer(m, "REFUSE", 0))
                 /\ live' = (live \cup q) \ {m} /\ UNCHANGED <<up, op, work, txn>>
        <4>1. Answer(m, "REFUSE", 0) \in Answers
          BY <2>2, AnswerTypes
        <4> QED BY <3>1, <4>1, <2>2, ReplyTypes DEF TypeOK
      <3>2. CASE /\ m.op = "LOG" /\ work' = Append(work, m)
                 /\ live' = (live \cup q) \ Disposed(m)
                 /\ UNCHANGED <<up, op, sending, writeAsync, txn>>
        <4>1. work' \in Seq(Batches)
          BY <2>2, <3>2, RequestTypes, ToSetAppend DEF TypeOK
        <4> QED BY <3>2, <4>1, <2>2 DEF TypeOK
      <3>3. CASE op' = m /\ txn' = Loop /\ live' = live \cup q
                 /\ UNCHANGED <<up, sending, writeAsync, work>>
        BY <3>3, <2>2 DEF TypeOK
      <3> QED BY <2>4, <3>1, <3>2, <3>3 DEF HandleMessage
    <2> QED BY <2>1, <2>3, <2>5 DEF TypeOK
  <1> QED BY <1>1, <1>2

\* The loop's transactions end, and the queue is written out.
LEMMA LoopTypes ==
  ASSUME TypeOK, FinishConnect \/ FinishQuery \/ WriteToNetwork \/ AfterWork \/ StopLoop \/ Exit
  PROVE  TypeOK'
  <1> <<>> \in Seq(Requests) /\ <<>> \in Seq(Answers) /\ <<>> \in Seq(Batches)
    BY EmptySeq
  <1>0. CASE Stops
    BY <1>0, StopsTypes
  <1>1. CASE FinishConnect /\ ~Stops
    <2>1. /\ op \in Requests
          /\ Reply(Answer(op, "CONNECT", 0))
          /\ registered' = registered \cup {machine[op.c]}
          /\ dbc' = [dbc EXCEPT ![op.c] = machine[op.c]]
          /\ op' = None /\ txn' = None /\ live' = live \ Disposed(op)
          /\ UNCHANGED <<up, peerVars, obj, vec, clientMap, stopAsync, poolVars,
                         dbOpen, dbConnected, cached, rows>>
      BY <1>1 DEF FinishConnect, GetClient, TypeOK
    <2>2. sending' \in Seq(Answers) /\ writeAsync' \in BOOLEAN
      BY <2>1, AnswerTypes, ReplyTypes
    <2>3. op.c \in Conns
      BY <2>1, RequestTypes
    <2> QED BY <2>1, <2>2, <2>3 DEF TypeOK, peerVars, poolVars
  <1>2. CASE FinishQuery /\ ~Stops
    <2>1. /\ op \in Requests
          /\ Reply(Answer(op, "RETURN", NextEventID(dbc[op.c])))
          /\ op' = None /\ txn' = None /\ live' = live \ Disposed(op)
          /\ UNCHANGED <<up, peerVars, clientVars, stopAsync, poolVars, dbOpen,
                         dbConnected, cached, registered, rows>>
      BY <1>2 DEF FinishQuery, TypeOK
    <2>2. NextEventID(dbc[op.c]) \in Nat /\ NextEventID(dbc[op.c]) # 0
      BY LastIsGreatest DEF NextEventID, TypeOK
    <2>3. sending' \in Seq(Answers) /\ writeAsync' \in BOOLEAN
      BY <2>1, <2>2, AnswerTypes, ReplyTypes
    <2> QED BY <2>1, <2>3 DEF TypeOK, peerVars, clientVars, poolVars
  <1>3. CASE WriteToNetwork /\ ~Stops
    <2>1. /\ writeAsync' = FALSE /\ sending' = <<>>
          /\ out' = [c \in Conns |->
                       IF peer[c] # "gone" /\ obj[c] \in {"open", "zombie"}
                       THEN out[c] \o Delivered(c) ELSE out[c]]
          /\ \/ UNCHANGED <<dbConnected, dbOpen, txn, cached, stopAsync>>
             \/ SIGPIPEHandler
          /\ UNCHANGED <<up, peer, next, machine, chan, clientVars, op, poolVars,
                         registered, rows, live>>
      BY <1>3 DEF WriteToNetwork, Drained
    <2>2. \A c \in Conns : out[c] \o Delivered(c) \in Seq(Answers)
      BY DeliveredElements, ToSetConcat DEF TypeOK
    <2>3. out' \in [Conns -> Seq(Answers)]
      BY <2>1, <2>2 DEF TypeOK
    <2>4. /\ dbConnected' \in BOOLEAN /\ dbOpen' \in BOOLEAN /\ stopAsync' \in BOOLEAN
          /\ txn' \in Workers \cup {Loop, None} /\ cached' \subseteq Machines
      BY <2>1 DEF TypeOK, SIGPIPEHandler, Connected, GivesUp, GetAllClients
    <2> QED BY <2>1, <2>3, <2>4 DEF TypeOK, clientVars, poolVars
  <1>4. CASE AfterWork
    <2>1. Tail(finished) \in Seq(Batches)
      BY <1>4, ToSetHeadTail DEF AfterWork, TypeOK
    <2> QED BY <1>4, <2>1 DEF AfterWork, TypeOK, peerVars, clientVars, dbVars
  <1>5. CASE StopLoop /\ ~Stops
    <2>1. /\ up' = "stopping" /\ stopAsync' = FALSE
          /\ clientMap' = clientMap \ Walked
          /\ obj' = [c \in Conns |-> IF c \in Walked THEN "freed" ELSE obj[c]]
          /\ vec' = [c \in Conns |-> IF c \in Walked THEN <<>> ELSE vec[c]]
          /\ live' \subseteq live
          /\ UNCHANGED <<peerVars, dbc, op, sending, writeAsync, poolVars, dbVars>>
      BY <1>5 DEF StopLoop
    <2>2. obj' \in [Conns -> ObjectStates] /\ vec' \in [Conns -> Seq(Requests)]
      BY <2>1 DEF TypeOK, ObjectStates
    <2> QED BY <2>1, <2>2 DEF TypeOK, peerVars, poolVars, dbVars
  <1>6. CASE Exit
    BY <1>6 DEF Exit, TypeOK, peerVars, clientVars, poolVars, dbVars
  <1> QED BY <1>0, <1>1, <1>2, <1>3, <1>4, <1>5, <1>6

\* The pool's threads.
LEMMA PoolTypes ==
  ASSUME TypeOK, NEW w \in Workers, WorkerStep(w)
  PROVE  TypeOK'
  <1>0. CASE Stops
    BY <1>0, StopsTypes
  <1>a. /\ worker[w] = Idle \/ worker[w] \in [pc: WorkerSteps, job: Batches]
        /\ worker[w] = Idle <=> worker[w].pc = "idle"
        /\ worker[w] # Idle => worker[w].pc \in WorkerSteps /\ worker[w].job \in Batches
    BY WorkerTypes DEF TypeOK
  <1>1. CASE StartWork(w) /\ ~Stops
    <2>1. /\ work # <<>> /\ txn' = w
          /\ worker' = [worker EXCEPT ![w] = [pc |-> "insert", job |-> Head(work)]]
          /\ work' = Tail(work)
          /\ UNCHANGED <<up, peerVars, clientVars, op, sending, writeAsync,
                         stopAsync, finished, dbOpen, dbConnected, cached,
                         registered, rows, live>>
      BY <1>1 DEF StartWork
    <2>2. Head(work) \in Batches /\ Tail(work) \in Seq(Batches)
      BY <2>1, ToSetHeadTail DEF TypeOK
    <2>3. worker' \in [Workers -> [pc: WorkerSteps, job: Batches] \cup {Idle}]
      BY <2>1, <2>2 DEF TypeOK, WorkerSteps
    <2> QED BY <2>1, <2>2, <2>3 DEF TypeOK, peerVars, clientVars
  <1>2. CASE InsertWindowsEvents(w) /\ ~Stops
    <2>1. /\ worker[w].pc = "insert" /\ rows' = Stored(worker[w].job) /\ txn' = None
          /\ worker' = [worker EXCEPT ![w].pc = AfterInsert(worker[w].job)]
          /\ UNCHANGED <<up, peerVars, clientVars, op, sending, writeAsync,
                         stopAsync, work, finished, dbOpen, dbConnected, cached,
                         registered, live>>
      BY <1>2 DEF InsertWindowsEvents
    <2>2. worker[w] \in [pc: WorkerSteps, job: Batches] /\ worker[w].job \in Batches
      BY <2>1, <1>a
    <2>3. worker' \in [Workers -> [pc: WorkerSteps, job: Batches] \cup {Idle}]
      BY <2>1, <2>2 DEF TypeOK, WorkerSteps, AfterInsert
    <2>4. rows' \subseteq Batches
      BY <2>1, <2>2 DEF Stored, TypeOK
    <2> QED BY <2>1, <2>3, <2>4 DEF TypeOK, peerVars, clientVars
  <1>3. CASE AcceptBatch(w) /\ ~Stops
    <2>1. /\ worker[w].pc = "accept"
          /\ sending' = Append(sending, Answer(worker[w].job, "ACCEPT", 0))
          /\ worker' = [worker EXCEPT ![w].pc = "wake"]
          /\ UNCHANGED <<up, peerVars, clientVars, op, writeAsync, stopAsync,
                         work, finished, dbVars, live>>
      BY <1>3 DEF AcceptBatch
    <2>2. worker[w] \in [pc: WorkerSteps, job: Batches] /\ worker[w].job \in Requests
      BY <2>1, <1>a, BatchTypes
    <2>3. worker' \in [Workers -> [pc: WorkerSteps, job: Batches] \cup {Idle}]
      BY <2>1, <2>2 DEF TypeOK, WorkerSteps
    <2>4. Answer(worker[w].job, "ACCEPT", 0) \in Answers
      BY <2>2, AnswerTypes
    <2>5. sending' \in Seq(Answers)
      BY <2>1, <2>4, ToSetAppend DEF TypeOK
    <2> QED BY <2>1, <2>3, <2>5 DEF TypeOK, peerVars, clientVars, dbVars
  <1>4. CASE WakeLoop(w)
    <2>1. worker[w] \in [pc: WorkerSteps, job: Batches]
      BY <1>4, <1>a DEF WakeLoop
    <2>2. worker' \in [Workers -> [pc: WorkerSteps, job: Batches] \cup {Idle}]
      BY <1>4, <2>1 DEF WakeLoop, TypeOK, WorkerSteps
    <2> QED BY <1>4, <2>2 DEF WakeLoop, TypeOK, peerVars, clientVars, dbVars
  <1>5. CASE FinishWork(w)
    <2>1. worker[w].job \in Batches
      BY <1>5, <1>a DEF FinishWork
    <2>2. Append(finished, worker[w].job) \in Seq(Batches)
      BY <2>1, ToSetAppend DEF TypeOK
    <2>3. worker' \in [Workers -> [pc: WorkerSteps, job: Batches] \cup {Idle}]
      BY <1>5 DEF FinishWork, TypeOK
    <2> QED BY <1>5, <2>2, <2>3 DEF FinishWork, TypeOK, peerVars, clientVars, dbVars
  <1> QED BY <1>0, <1>1, <1>2, <1>3, <1>4, <1>5 DEF WorkerStep

\* Every step keeps the types.
LEMMA StepTypes == TypeOK /\ [Next]_vars => TypeOK'
  <1> SUFFICES ASSUME TypeOK, [Next]_vars PROVE TypeOK'
    OBVIOUS
  <1>1. CASE DropDatabase
    BY <1>1 DEF DropDatabase, TypeOK, peerVars, clientVars, poolVars
  <1>2. CASE SIGTERM
    BY <1>2 DEF SIGTERM, TypeOK, peerVars, clientVars, poolVars, dbVars
  <1>3. CASE UNCHANGED vars
    BY <1>3 DEF TypeOK, vars, peerVars, clientVars, poolVars, dbVars
  <1>4. CASE PeerStep
    BY <1>4, PeerTypes
  <1>5. CASE LoopStep
    BY <1>5, ConnectionTypes, ReadTypes, LoopTypes DEF LoopStep
  <1>6. CASE \E w \in Workers : WorkerStep(w)
    BY <1>6, PoolTypes
  <1> QED BY <1>1, <1>2, <1>3, <1>4, <1>5, <1>6 DEF Next

\* The server's state has its types in every reachable state.
THEOREM TypeCorrect == Spec => []TypeOK
  BY InitTypes, StepTypes, PTL DEF Spec

-----------------------------------------------------------------------------
(* Orders and queues *)

\* A part of a sequence keeps its order and its distinct elements.
LEMMA PartKeeps ==
  ASSUME NEW S, NEW s \in Seq(S), NEW t \in Seq(S), IsPart(t, s)
  PROVE  /\ Increasing(s) => Increasing(t)
         /\ Single(s) => Single(t)
         /\ Distinct(s) => Distinct(t)
  <1>1. PICK k \in Nat : \A i \in 1..Len(t) : i + k \in 1..Len(s) /\ t[i] = s[i + k]
    BY DEF IsPart
  <1>2. \A i, j \in 1..Len(t) : (i < j <=> i + k < j + k) /\ (i + k = j + k <=> i = j)
    BY LenProperties
  <1>3. ASSUME Increasing(s) PROVE Increasing(t)
    <2> SUFFICES ASSUME NEW i \in 1..Len(t), NEW j \in 1..Len(t), i < j
                 PROVE  Rank(t[i]) < Rank(t[j])
      BY DEF Increasing
    <2>1. i + k \in 1..Len(s) /\ j + k \in 1..Len(s) /\ t[i] = s[i + k] /\ t[j] = s[j + k]
      BY <1>1
    <2>2. i + k < j + k
      BY <1>2
    <2>3. Rank(s[i + k]) < Rank(s[j + k])
      BY <1>3, <2>1, <2>2 DEF Increasing
    <2> QED BY <2>1, <2>3
  <1>4. ASSUME Single(s) PROVE Single(t)
    <2> SUFFICES ASSUME NEW i \in 1..Len(t), NEW j \in 1..Len(t), t[i].of = t[j].of
                 PROVE  i = j
      BY DEF Single
    <2>1. s[i + k].of = s[j + k].of /\ i + k \in 1..Len(s) /\ j + k \in 1..Len(s)
      BY <1>1
    <2> QED BY <2>1, <1>2, <1>4 DEF Single
  <1>5. Distinct(s) => Distinct(t)
    BY <1>1, <1>2 DEF Distinct
  <1> QED BY <1>3, <1>4, <1>5

\* So does a sequence with a new last element.
LEMMA AppendKeeps ==
  ASSUME NEW S, NEW s \in Seq(S), NEW t \in Seq(S), NEW e, IsAppend(t, s, e)
  PROVE  /\ Increasing(s) /\ (\A m \in ToSet(s) : Rank(m) < Rank(e)) => Increasing(t)
         /\ Single(s) /\ (\A a \in ToSet(s) : a.of # e.of) => Single(t)
         /\ Distinct(s) /\ e \notin ToSet(s) => Distinct(t)
         /\ ToSet(t) = ToSet(s) \cup {e}
  <1>1. /\ Len(s) \in Nat /\ Len(t) = Len(s) + 1 /\ t[Len(t)] = e
        /\ \A i \in 1..Len(s) : i \in 1..Len(t) /\ t[i] = s[i] /\ s[i] \in ToSet(s)
        /\ \A i \in 1..Len(t) : i \in 1..Len(s) \/ i = Len(t)
        /\ Len(t) \in 1..Len(t)
    BY LenProperties, ToSetByIndex DEF IsAppend
  <1>2. ToSet(t) = ToSet(s) \cup {e}
    <2>1. ToSet(s) = {s[i] : i \in 1..Len(s)} /\ ToSet(t) = {t[i] : i \in 1..Len(t)}
      BY ToSetByIndex
    <2> QED BY <1>1, <2>1
  <1>3. ASSUME Increasing(s), \A m \in ToSet(s) : Rank(m) < Rank(e)
        PROVE  Increasing(t)
    <2> SUFFICES ASSUME NEW i \in 1..Len(t), NEW j \in 1..Len(t), i < j
                 PROVE  Rank(t[i]) < Rank(t[j])
      BY DEF Increasing
    <2>1. i \in 1..Len(s)
      BY <1>1
    <2> QED BY <1>1, <1>3, <2>1 DEF Increasing
  <1>4. ASSUME Single(s), \A a \in ToSet(s) : a.of # e.of
        PROVE  Single(t)
    BY <1>1, <1>4 DEF Single
  <1>5. ASSUME Distinct(s), e \notin ToSet(s)
        PROVE  Distinct(t)
    BY <1>1, <1>5 DEF Distinct
  <1> QED BY <1>2, <1>3, <1>4, <1>5

\* In an increasing queue the head is below the rest.
LEMMA HeadIsLeast ==
  ASSUME NEW S, NEW s \in Seq(S), s # <<>>, Increasing(s)
  PROVE  \A n \in ToSet(Tail(s)) : Rank(Head(s)) < Rank(n)
  <1> DEFINE t == Tail(s)
  <1>1. /\ t \in Seq(S) /\ Len(t) = Len(s) - 1 /\ Len(s) \in Nat \ {0} /\ Head(s) = s[1]
        /\ \A i \in 1..Len(t) : t[i] = s[i + 1]
    BY HeadTailProperties, EmptySeq
  <1> HIDE DEF t
  <1>2. ToSet(t) = {t[i] : i \in 1..Len(t)}
    BY <1>1, ToSetByIndex
  <1>3. ASSUME NEW i \in 1..Len(t) PROVE Rank(s[1]) < Rank(t[i])
    <2>1. 1 \in 1..Len(s) /\ i + 1 \in 1..Len(s) /\ 1 < i + 1 /\ t[i] = s[i + 1]
      BY <1>1
    <2> QED BY <2>1 DEF Increasing
  <1> QED BY <1>1, <1>2, <1>3 DEF t

\* In a queue with distinct elements the head is not in the rest.
LEMMA HeadIsGone ==
  ASSUME NEW S, NEW s \in Seq(S), s # <<>>
  PROVE  /\ Distinct(s) => Head(s) \notin ToSet(Tail(s))
         /\ Single(s) => \A a \in ToSet(Tail(s)) : a.of # Head(s).of
  <1> DEFINE t == Tail(s)
  <1>1. /\ t \in Seq(S) /\ Len(t) = Len(s) - 1 /\ Len(s) \in Nat \ {0} /\ Head(s) = s[1]
        /\ \A i \in 1..Len(t) : t[i] = s[i + 1]
    BY HeadTailProperties, EmptySeq
  <1> HIDE DEF t
  <1>2. ToSet(t) = {t[i] : i \in 1..Len(t)}
    BY <1>1, ToSetByIndex
  <1>3. \A i \in 1..Len(t) : 1 \in 1..Len(s) /\ i + 1 \in 1..Len(s) /\ 1 # i + 1
    BY <1>1
  <1>4. Distinct(s) => \A i \in 1..Len(t) : s[1] # t[i]
    BY <1>1, <1>3 DEF Distinct
  <1>5. Single(s) => \A i \in 1..Len(t) : t[i].of # s[1].of
    BY <1>1, <1>3 DEF Single
  <1> QED BY <1>1, <1>2, <1>4, <1>5 DEF t

\* The two queues of a connection, and what they hold.
Queues(c) ==
  /\ Pipe(c) \in Seq(Requests) /\ vec[c] \in Seq(Requests) /\ chan[c] \in Seq(Requests)
  /\ ToSet(Pipe(c)) = ToSet(vec[c]) \cup ToSet(chan[c])
  /\ ToSet(Pipe(c)) \subseteq Requests
  /\ Line(c) \in Seq(Answers) /\ out[c] \in Seq(Answers) /\ Delivered(c) \in Seq(Answers)
  /\ ToSet(Line(c)) = ToSet(out[c]) \cup {a \in ToSet(sending) : a.to = c}
  /\ ToSet(Line(c)) \subseteq Answers
  /\ sending = <<>> => Delivered(c) = <<>>

\* The queues of every connection have their types.
LEMMA QueueTypes == TypeOK => \A c \in Conns : Queues(c)
  <1> SUFFICES ASSUME TypeOK, NEW c \in Conns PROVE Queues(c)
    OBVIOUS
  <1>1. vec[c] \in Seq(Requests) /\ chan[c] \in Seq(Requests) /\ out[c] \in Seq(Answers)
    BY DEF TypeOK
  <1>2. /\ Delivered(c) \in Seq(Answers)
        /\ ToSet(Delivered(c)) = {a \in ToSet(sending) : a.to = c}
        /\ sending = <<>> => Delivered(c) = <<>>
    BY DeliveredElements DEF TypeOK
  <1>3. Pipe(c) \in Seq(Requests) /\ ToSet(Pipe(c)) = ToSet(vec[c]) \cup ToSet(chan[c])
    BY <1>1, ToSetConcat DEF Pipe
  <1>4. Line(c) \in Seq(Answers) /\ ToSet(Line(c)) = ToSet(out[c]) \cup ToSet(Delivered(c))
    BY <1>1, <1>2, ToSetConcat DEF Line
  <1> QED BY <1>1, <1>2, <1>3, <1>4, ToSetByIndex DEF Queues

\* The messages in the server's hands are requests; those of the pool, batches.
TakenMessages ==
  /\ Taken \subseteq Requests /\ Open \subseteq Taken
  /\ Jobs \subseteq Batches /\ ToSet(work) \subseteq Batches /\ ToSet(finished) \subseteq Batches
  /\ Held = (UNION {ToSet(vec[c]) : c \in Conns}) \cup Taken
  /\ \A m \in Taken \ Open : m \in Batches

\* The messages the server holds are requests, and jobs are batches.
LEMMA TakenTypes == TypeOK => TakenMessages
  <1> SUFFICES ASSUME TypeOK PROVE TakenMessages
    OBVIOUS
  <1>1. ToSet(work) \subseteq Batches /\ ToSet(finished) \subseteq Batches
    BY ToSetByIndex DEF TypeOK
  <1>2. \A w \in Workers : /\ worker[w].pc \in {"insert", "accept"} => worker[w] # Idle
                           /\ worker[w] # Idle => worker[w].job \in Batches
    BY WorkerTypes DEF TypeOK, Idle
  <1>3. Jobs \subseteq Batches
    BY <1>2 DEF Jobs
  <1>4. Open \subseteq Taken
    BY <1>2 DEF Open, Taken, Jobs
  <1>5. Taken \subseteq Requests
    BY <1>1, <1>3, BatchTypes DEF Taken, TypeOK
  <1>6. Held = (UNION {ToSet(vec[c]) : c \in Conns}) \cup Taken
    BY DEF Held, Taken
  <1>7. \A m \in Taken \ Open : m \in Batches
    BY <1>1, <1>3 DEF Taken, Open
  <1> QED BY <1>1, <1>3, <1>4, <1>5, <1>6, <1>7 DEF TakenMessages

\* What LastEventRecordID returns.
LastStored ==
  \A m \in Machines :
    /\ LastEventRecordID(m) \in Nat
    /\ \A b \in rows : machine[b.c] = m => b.rid <= LastEventRecordID(m)
    /\ \/ LastEventRecordID(m) = 0
       \/ \E b \in rows : machine[b.c] = m /\ b.rid = LastEventRecordID(m)

\* The stored record IDs have their types.
LEMMA LastTypes == TypeOK => LastStored
  BY LastIsGreatest DEF TypeOK, LastStored

\* The same of the next state.
LEMMA NextTypes ==
  ASSUME TypeOK'
  PROVE  (\A c \in Conns : Queues(c))' /\ TakenMessages' /\ LastStored'
  <1>1. (TypeOK => \A c \in Conns : Queues(c))'
    BY QueueTypes, PTL
  <1>2. (TypeOK => TakenMessages)'
    BY TakenTypes, PTL
  <1>3. (TypeOK => LastStored)'
    BY LastTypes, PTL
  <1> QED BY <1>1, <1>2, <1>3

\* The table only grows, and with it the last record ID.
LEMMA LastGrows ==
  ASSUME TypeOK, TypeOK', rows \subseteq rows', machine' = machine
  PROVE  \A m \in Machines : /\ LastEventRecordID(m) \in Nat /\ LastEventRecordID(m)' \in Nat
                             /\ LastEventRecordID(m) <= LastEventRecordID(m)'
  <1> SUFFICES ASSUME NEW m \in Machines
               PROVE  /\ LastEventRecordID(m) \in Nat /\ LastEventRecordID(m)' \in Nat
                      /\ LastEventRecordID(m) <= LastEventRecordID(m)'
    OBVIOUS
  <1> DEFINE l == LastEventRecordID(m)
             n == LastEventRecordID(m)'
  <1>1. /\ l \in Nat
        /\ l = 0 \/ \E b \in rows : machine[b.c] = m /\ b.rid = l
    BY LastTypes DEF LastStored
  <1>2. /\ n \in Nat
        /\ \A b \in rows' : machine'[b.c] = m => b.rid <= n
    BY NextTypes DEF LastStored
  <1> HIDE DEF l, n
  <1>3. l <= n
    BY <1>1, <1>2
  <1> QED BY <1>1, <1>2, <1>3 DEF l, n

-----------------------------------------------------------------------------
(* What keeps the invariant of one connection *)

\* A new answer: to a request that the server had, and no longer has.
NewAnswer(c, a) ==
  /\ a.to = c /\ a.of.c = c
  /\ a.of \in ToSet(Pipe(c)) \cup Open
  /\ a.of \notin ToSet(Pipe(c))' \cup Open'
  /\ Means(a)'
  /\ a.op \in {"CONNECT", "RETURN"} => dbc'[c] = machine'[c]

\* A step of the server drops an end of a connection's queues, takes requests
\* from the first, answers one, or leaves them alone; the client may go away.
ServerSide(c) ==
  /\ IsPart(Pipe(c)', Pipe(c))
  /\ \/ IsPart(Line(c)', Line(c))
     \/ \E a \in Answers : IsAppend(Line(c)', Line(c), a) /\ NewAnswer(c, a)
  /\ \A m \in Taken' : m.c = c =>
       \/ m \in Taken
       \/ /\ m \in ToSet(Pipe(c))
          /\ \A n \in ToSet(Pipe(c))' : Rank(m) < Rank(n)
  /\ \A m \in Open' : m.c = c => m \in Open \cup ToSet(Pipe(c))
  /\ dbc'[c] \in {dbc[c], machine[c]}
  /\ machine' = machine /\ next'[c] = next[c] /\ rows \subseteq rows'
  /\ peer'[c] \in {peer[c], "gone"}
  /\ peer'[c] = "gone" => out'[c] = <<>>

\* A step of the server's that moves nothing of a connection keeps its facts.
LEMMA ServerKeeps ==
  ASSUME TypeOK, TypeOK', NEW c \in Conns, Local(c), ServerSide(c)
  PROVE  Local(c)'
  <1> USE DEF Local
  <1>1. Queues(c) /\ Queues(c)' /\ TakenMessages /\ TakenMessages'
    BY QueueTypes, TakenTypes, NextTypes
  <1> DEFINE P == ToSet(Pipe(c))
             Q == ToSet(Pipe(c))'
             L == ToSet(Line(c))
             M == ToSet(Line(c))'
  <1>2. Q \subseteq P
    BY <1>1, PartElements DEF Queues, ServerSide
  <1>3. \A a \in M : a \in L \/ (a \in Answers /\ NewAnswer(c, a))
    <2>1. CASE IsPart(Line(c)', Line(c))
      BY <1>1, <2>1, PartElements DEF Queues
    <2>2. ASSUME NEW a \in Answers, IsAppend(Line(c)', Line(c), a), NewAnswer(c, a)
          PROVE  \A b \in M : b \in L \/ b = a
      BY <1>1, <2>2, AppendKeeps DEF Queues
    <2> QED BY <2>1, <2>2 DEF ServerSide
  <1>4. Named(c)'
    BY <1>2, <1>3 DEF Named, NewAnswer
  <1>5. InOrder(c)'
    <2>1. Increasing(Pipe(c))'
      BY <1>1, PartKeeps DEF Queues, ServerSide, InOrder
    <2>2. \A m \in Taken', n \in Q : m.c = c => Rank(m) < Rank(n)
      BY <1>2 DEF ServerSide, InOrder
    <2> QED BY <2>1, <2>2 DEF InOrder
  <1>6. Answered(c)'
    <2>1. Single(Line(c))'
      <3>1. CASE IsPart(Line(c)', Line(c))
        BY <1>1, <3>1, PartKeeps DEF Queues, Answered
      <3>2. ASSUME NEW a \in Answers, IsAppend(Line(c)', Line(c), a), NewAnswer(c, a)
            PROVE  Single(Line(c)')
        <4>1. \A b \in L : b.of # a.of
          BY <3>2 DEF Answered, Replied, NewAnswer
        <4> QED BY <1>1, <3>2, <4>1, AppendKeeps DEF Queues, Answered
      <3> QED BY <3>1, <3>2 DEF ServerSide
    <2>2. \A a \in M : a.of \notin Q \cup Open'
      BY <1>2, <1>3 DEF Answered, Replied, NewAnswer, Named, ServerSide
    <2> QED BY <2>1, <2>2 DEF Answered, Replied
  <1>7. Meaning(c)'
    <2> SUFFICES ASSUME NEW a \in M, a \in L PROVE Means(a)'
      BY <1>3 DEF Meaning, NewAnswer
    <2>1. Means(a) /\ a \in Answers /\ a.to = c
      BY <1>1 DEF Meaning, Queues, Named
    <2>2. machine[c] \in Machines
      BY DEF TypeOK
    <2>3. \A i \in 1..LastEventRecordID(machine[c]) + 1 :
            i \in 1..LastEventRecordID(machine[c])' + 1
      BY <2>2, LastGrows DEF ServerSide
    <2>4. a.op = "RETURN" => a.id \in 1..LastEventRecordID(machine[a.to])' + 1
      BY <2>1, <2>3 DEF Means, ServerSide
    <2>5. a.op = "ACCEPT" => (a.of.kind = "good" => a.of \in rows')
      BY <2>1 DEF Means, ServerSide
    <2> QED BY <2>1, <2>4, <2>5 DEF Means
  <1>8. Asked(c)' \subseteq Asked(c)
    BY <1>2 DEF Asked, ServerSide
  <1>9. Replied(c)' \subseteq Replied(c) \cup Asked(c)
    BY <1>1, <1>3 DEF Replied, Asked, NewAnswer, TakenMessages
  <1>10. Known(c)'
    BY <1>3, <1>8 DEF Known, NewAnswer, ServerSide
  <1>11. Phase(c)'
    BY <1>8, <1>9 DEF Phase, ServerSide
  <1> QED BY <1>4, <1>5, <1>6, <1>7, <1>10, <1>11

\* The pool and the tables are left alone.
Elsewhere == UNCHANGED <<machine, dbc, op, work, worker, finished, rows>>

\* A step elsewhere takes and lets go of no message.
LEMMA ElsewhereTaken ==
  ASSUME Elsewhere
  PROVE  Taken' = Taken /\ Open' = Open /\ Jobs' = Jobs
  BY DEF Elsewhere, Taken, Open, Jobs

\* A connection that a step does not touch.
LEMMA Untouched ==
  ASSUME TypeOK, TypeOK', NEW c \in Conns, Local(c),
         vec'[c] = vec[c], chan'[c] = chan[c], out'[c] = out[c], Delivered(c)' = Delivered(c),
         peer'[c] = peer[c], next'[c] = next[c], dbc'[c] = dbc[c],
         machine' = machine, rows \subseteq rows',
         \A m \in Taken' : m.c = c => m \in Taken,
         \A m \in Open' : m.c = c => m \in Open
  PROVE  Local(c)'
  <1>1. Pipe(c)' = Pipe(c) /\ Line(c)' = Line(c)
    BY DEF Pipe, Line
  <1>2. IsPart(Pipe(c)', Pipe(c)) /\ IsPart(Line(c)', Line(c))
    <2>1. Queues(c)
      BY QueueTypes
    <2> QED BY <1>1, <2>1, PartTail DEF Queues
  <1>3. peer'[c] = "gone" => out'[c] = <<>>
    BY DEF Local, Phase
  <1>4. ServerSide(c)
    BY <1>2, <1>3 DEF ServerSide
  <1> QED BY <1>4, ServerKeeps

\* A client sends a request that follows all that the server has of it.
LEMMA ClientSends ==
  ASSUME TypeOK, TypeOK', NEW c \in Conns, Local(c), Elsewhere,
         NEW m \in Requests, m.c = c,
         IsAppend(Pipe(c)', Pipe(c), m), IsPart(Line(c)', Line(c)),
         \A n \in Asked(c) : Rank(n) < Rank(m),
         m \notin Replied(c)',
         m.op # "CONNECT" \/ peer'[c] \in {"querying", "sending"} => dbc[c] = machine[c],
         Phase(c)'
  PROVE  Local(c)'
  <1> USE DEF Local
  <1>1. Queues(c) /\ Queues(c)' /\ TakenMessages /\ TakenMessages'
    BY QueueTypes, TakenTypes, NextTypes
  <1>2. Taken' = Taken /\ Open' = Open /\ machine' = machine /\ dbc' = dbc /\ rows' = rows
    BY ElsewhereTaken DEF Elsewhere
  <1>3. ToSet(Pipe(c))' = ToSet(Pipe(c)) \cup {m}
    BY <1>1, AppendKeeps DEF Queues
  <1>4. ToSet(Line(c))' \subseteq ToSet(Line(c))
    BY <1>1, PartElements DEF Queues
  <1>5. Named(c)'
    BY <1>3, <1>4 DEF Named
  <1>6. InOrder(c)'
    <2>1. \A n \in ToSet(Pipe(c)) : Rank(n) < Rank(m)
      BY DEF Asked
    <2>2. Increasing(Pipe(c))'
      BY <1>1, <2>1, AppendKeeps DEF Queues, InOrder
    <2>3. \A n \in Taken, k \in ToSet(Pipe(c))' : n.c = c => Rank(n) < Rank(k)
      BY <1>3 DEF InOrder, Asked
    <2> QED BY <1>2, <2>2, <2>3 DEF InOrder
  <1>7. Answered(c)'
    <2>1. Single(Line(c))'
      BY <1>1, PartKeeps DEF Queues, Answered
    <2>2. Replied(c)' \subseteq Replied(c)
      BY <1>4 DEF Replied
    <2> QED BY <1>2, <1>3, <2>1, <2>2 DEF Answered
  <1>8. Meaning(c)'
    <2> SUFFICES ASSUME NEW a \in ToSet(Line(c)) PROVE Means(a)'
      BY <1>4 DEF Meaning
    <2>1. Means(a)
      BY DEF Meaning
    <2>2. LastEventRecordID(machine[a.to])' = LastEventRecordID(machine[a.to])
      BY <1>2 DEF LastEventRecordID
    <2> QED BY <1>2, <2>1, <2>2 DEF Means
  <1>9. Known(c)'
    <2>1. Asked(c)' = Asked(c) \cup {m}
      BY <1>2, <1>3 DEF Asked
    <2> QED BY <1>2, <1>4, <2>1 DEF Known
  <1> QED BY <1>5, <1>6, <1>7, <1>8, <1>9

-----------------------------------------------------------------------------
(* The clients' steps *)

\* The client's connecting keeps the facts of its connection.
LEMMA PeerConnectKeeps ==
  ASSUME TypeOK, TypeOK', NEW c \in Conns, Local(c), PeerConnect(c)
  PROVE  Local(c)'
  <1>1. /\ peer[c] = "off" /\ peer'[c] = "connecting" /\ chan'[c] = <<Connect(c)>>
        /\ out' = out /\ vec' = vec /\ sending' = sending /\ Elsewhere
    BY DEF PeerConnect, TypeOK, Elsewhere, clientVars, poolVars, dbVars
  <1>2. Queues(c) /\ Queues(c)' /\ Taken' = Taken
    BY <1>1, QueueTypes, NextTypes, ElsewhereTaken
  <1>3. Asked(c) \cup Replied(c) = {}
    BY <1>1 DEF Local, Phase
  <1>4. vec[c] = <<>> /\ Pipe(c) = <<>>
    BY <1>2, <1>3, ToSetEmpty DEF Asked, Queues
  <1>5. Connect(c) \in Requests /\ Connect(c).c = c /\ Connect(c).op = "CONNECT"
    BY RequestTypes
  <1>6. Pipe(c)' = <<Connect(c)>>
    BY <1>1, <1>4, <1>5 DEF Pipe
  <1>7. IsAppend(Pipe(c)', Pipe(c), Connect(c))
    BY <1>4, <1>6 DEF IsAppend
  <1>8. Line(c)' = Line(c)
    BY <1>1 DEF Line, Delivered, Chosen
  <1>9. IsPart(Line(c)', Line(c))
    BY <1>2, <1>8, PartTail DEF Queues
  <1>10. ToSet(Pipe(c))' = {Connect(c)}
    <2>1. ToSet(Pipe(c))' = ToSet(Pipe(c)) \cup {Connect(c)}
      BY <1>2, <1>7, AppendKeeps DEF Queues
    <2> QED BY <1>3, <2>1 DEF Asked
  <1>11. Replied(c)' = {} /\ Asked(c)' = {Connect(c)}
    BY <1>2, <1>3, <1>8, <1>10 DEF Replied, Asked
  <1>12. Phase(c)'
    BY <1>1, <1>11 DEF Phase
  <1> QED BY <1>1, <1>3, <1>5, <1>7, <1>9, <1>11, <1>12, ClientSends

\* The client's sending keeps the facts of its connection.
LEMMA PeerSendKeeps ==
  ASSUME TypeOK, TypeOK', NEW c \in Conns, Local(c), PeerSend(c)
  PROVE  Local(c)'
  <1>1. PICK k \in Kinds, f \in BOOLEAN :
          chan' = [chan EXCEPT ![c] = Append(@, Batch(c, next[c], k, f))]
    BY DEF PeerSend
  <1> DEFINE m == Batch(c, next[c], k, f)
  <1>2. /\ peer[c] = "sending" /\ peer' = peer /\ next'[c] = next[c] + 1 /\ next[c] \in Nat \ {0}
        /\ next[c] \in Rids /\ chan'[c] = Append(chan[c], m)
        /\ out' = out /\ vec' = vec /\ sending' = sending /\ Elsewhere
    BY <1>1, LogBound DEF PeerSend, TypeOK, Rids, Elsewhere, clientVars, poolVars, dbVars
  <1>3. m \in Requests /\ m.c = c /\ m.op = "LOG" /\ m.rid = next[c]
    BY <1>2, BatchTypes DEF Batch
  <1> HIDE DEF m
  <1>4. Queues(c) /\ Queues(c)' /\ Taken' = Taken /\ TakenMessages
    BY <1>2, QueueTypes, NextTypes, ElsewhereTaken, TakenTypes
  <1>5. \A n \in Asked(c) \cup Replied(c) : n.op = "LOG" /\ n.rid < next[c]
    BY <1>2 DEF Local, Phase
  <1>6. IsAppend(Pipe(c)', Pipe(c), m)
    <2>1. chan'[c] \in Seq(Requests) /\ IsAppend(chan'[c], chan[c], m)
      BY <1>2, <1>3, <1>4, AppendIs DEF Queues
    <2>2. Pipe(c)' = vec[c] \o chan'[c]
      BY <1>2 DEF Pipe
    <2> QED BY <1>3, <1>4, <2>1, <2>2, AppendSecond DEF Pipe, Queues
  <1>7. Line(c)' = Line(c)
    BY <1>2 DEF Line, Delivered, Chosen
  <1>8. IsPart(Line(c)', Line(c))
    BY <1>4, <1>7, PartTail DEF Queues
  <1>9. Asked(c)' = Asked(c) \cup {m} /\ Replied(c)' = Replied(c)
    <2>1. ToSet(Pipe(c))' = ToSet(Pipe(c)) \cup {m}
      BY <1>4, <1>6, AppendKeeps DEF Queues
    <2> QED BY <1>3, <1>4, <1>7, <2>1 DEF Asked, Replied
  <1>a. \A n \in Asked(c) \cup Replied(c) : n \in Requests
    <2>1. \A a \in ToSet(Line(c)) : a.of \in Requests
      BY <1>4, AnswerTypes DEF Queues
    <2> QED BY <1>4, <2>1 DEF Asked, Replied, Queues, TakenMessages
  <1>b. \A n \in Asked(c) \cup Replied(c) : n.rid \in Int
    BY <1>5, <1>a, RequestTypes, BatchTypes DEF Rids
  <1>10. \A n \in Asked(c) : Rank(n) < Rank(m)
    BY <1>2, <1>3, <1>5, <1>b DEF Rank
  <1>11. m \notin Replied(c)'
    BY <1>2, <1>3, <1>5, <1>9
  <1>12. Phase(c)'
    BY <1>2, <1>3, <1>5, <1>9, <1>b DEF Phase
  <1>13. dbc[c] = machine[c]
    BY <1>2 DEF Local, Known
  <1> QED BY <1>2, <1>3, <1>6, <1>8, <1>10, <1>11, <1>12, <1>13, ClientSends

\* An answer of the handshake on its way is the only trace of its request.
LEMMA HandshakeAnswer ==
  ASSUME TypeOK, NEW c \in Conns, Local(c), peer[c] # "gone",
         NEW a \in ToSet(Line(c)), a.op \in {"CONNECT", "RETURN"}
  PROVE  /\ peer[c] = IF a.op = "CONNECT" THEN "connecting" ELSE "querying"
         /\ Asked(c) = {} /\ Replied(c) = {a.of}
  <1>1. Queues(c) /\ TakenMessages
    BY QueueTypes, TakenTypes
  <1>2. a.of \in Replied(c) /\ a.of.c = c /\ a.of \in Requests
    BY <1>1, AnswerTypes DEF Replied, Local, Named, Queues
  <1>3. a.of.op = IF a.op = "CONNECT" THEN "CONNECT" ELSE "QUERY"
    BY DEF Local, Meaning, Means
  <1>4. Connect(c).op = "CONNECT" /\ Query(c).op = "QUERY"
    BY RequestTypes
  <1>5. peer[c] = IF a.op = "CONNECT" THEN "connecting" ELSE "querying"
    BY <1>2, <1>3, <1>4 DEF Local, Phase, TypeOK, PeerStates
  <1>6. Asked(c) \cup Replied(c) = {a.of}
    BY <1>2, <1>3, <1>4, <1>5 DEF Local, Phase
  <1>7. a.of \notin Asked(c)
    <2>1. a.of \notin ToSet(Pipe(c)) \cup Open
      BY <1>2 DEF Local, Answered
    <2>2. a.of \notin Batches
      BY <1>3, BatchTypes
    <2> QED BY <1>1, <2>1, <2>2 DEF Asked, TakenMessages
  <1> QED BY <1>2, <1>5, <1>6, <1>7

\* The client's taking an answer keeps the facts of its connection.
LEMMA PeerReceiveKeeps ==
  ASSUME TypeOK, TypeOK', NEW c \in Conns, Local(c), PeerReceive(c)
  PROVE  Local(c)'
  <1> DEFINE a == Head(out[c])
  <1>1. /\ out[c] # <<>> /\ peer[c] # "gone" /\ out'[c] = Tail(out[c])
        /\ vec' = vec /\ sending' = sending /\ Elsewhere
    BY DEF PeerReceive, TypeOK, Elsewhere, clientVars, poolVars, dbVars
  <1>2. /\ Queues(c) /\ Queues(c)' /\ TakenMessages /\ Taken' = Taken /\ Open' = Open
    BY <1>1, QueueTypes, NextTypes, ElsewhereTaken, TakenTypes
  <1>3. /\ Line(c) # <<>> /\ a = Head(Line(c)) /\ a \in ToSet(Line(c))
        /\ Line(c)' = Tail(Line(c))
    <2>1. Delivered(c)' = Delivered(c)
      BY <1>1 DEF Delivered, Chosen
    <2>2. /\ Head(out[c] \o Delivered(c)) = a
          /\ Tail(out[c] \o Delivered(c)) = Tail(out[c]) \o Delivered(c)
      BY <1>1, <1>2, HeadTailConcat DEF Queues
    <2>3. a \in ToSet(out[c])
      BY <1>1, <1>2, ToSetHeadTail DEF Queues
    <2>4. a \in ToSet(Line(c))
      BY <1>2, <2>3 DEF Queues
    <2>5. Line(c) # <<>>
      BY <1>2, <2>4, ToSetEmpty DEF Queues
    <2> QED BY <1>1, <2>1, <2>2, <2>4, <2>5 DEF Line
  <1> HIDE DEF a
  <1>4. IsPart(Line(c)', Line(c)) /\ ToSet(Line(c))' \subseteq ToSet(Line(c))
        /\ \A b \in ToSet(Line(c))' : b.of # a.of
    <2>1. IsPart(Line(c)', Line(c))
      BY <1>2, <1>3, PartTail DEF Queues
    <2>2. \A b \in ToSet(Line(c))' : b.of # a.of
      BY <1>2, <1>3, HeadIsGone DEF Queues, Local, Answered
    <2> QED BY <1>2, <2>1, <2>2, PartElements DEF Queues
  <1>5. CASE a.op \in {"CONNECT", "RETURN"}
    <2>1. /\ peer[c] = IF a.op = "CONNECT" THEN "connecting" ELSE "querying"
          /\ Asked(c) = {} /\ Replied(c) = {a.of}
      BY <1>1, <1>3, <1>5, HandshakeAnswer
    <2>2. Replied(c)' = {} /\ ToSet(Line(c))' = {}
      BY <1>4, <2>1 DEF Replied
    <2>3. dbc[c] = machine[c]
      BY <1>3, <1>5 DEF Local, Known
    <2>4. CASE a.op = "CONNECT"
      <3>1. peer'[c] = "querying" /\ chan'[c] = Append(chan[c], Query(c))
        BY <2>4 DEF PeerReceive, TypeOK, a
      <3>2. Query(c) \in Requests /\ Query(c).c = c
        BY RequestTypes
      <3>3. IsAppend(Pipe(c)', Pipe(c), Query(c))
        <4>1. chan'[c] \in Seq(Requests) /\ IsAppend(chan'[c], chan[c], Query(c))
          BY <1>2, <3>1, <3>2, AppendIs DEF Queues
        <4>2. Pipe(c)' = vec[c] \o chan'[c]
          BY <1>1 DEF Pipe
        <4> QED BY <1>2, <3>2, <4>1, <4>2, AppendSecond DEF Pipe, Queues
      <3>4. ToSet(Pipe(c))' = ToSet(Pipe(c)) \cup {Query(c)}
        BY <1>2, <3>3, AppendKeeps DEF Queues
      <3>5. Asked(c)' = {Query(c)}
        BY <1>2, <2>1, <3>4 DEF Asked
      <3>6. Phase(c)'
        BY <2>2, <3>1, <3>5 DEF Phase
      <3> QED BY <1>1, <1>4, <2>1, <2>2, <2>3, <3>2, <3>3, <3>6, ClientSends
    <2>5. CASE a.op = "RETURN"
      <3>1. peer'[c] = "sending" /\ chan' = chan
        BY <2>5 DEF PeerReceive, TypeOK, a
      <3>2. Pipe(c)' = Pipe(c) /\ Asked(c)' = {}
        BY <1>1, <1>2, <2>1, <3>1 DEF Pipe, Asked
      <3>3. ToSet(Pipe(c))' = {} /\ Line(c)' = <<>> /\ \A m \in Taken' : m.c # c
        BY <1>2, <2>2, <3>2, ToSetEmpty DEF Asked, Queues
      <3>4. Single(Line(c))' /\ Increasing(Pipe(c))'
        <4>1. Single(Line(c))'
          BY <1>2, <1>4, PartKeeps DEF Queues, Local, Answered
        <4> QED BY <3>2, <4>1 DEF Local, InOrder
      <3>5. Known(c)'
        BY <1>1, <2>3 DEF Known, Elsewhere
      <3> QED BY <2>2, <3>1, <3>2, <3>3, <3>4, <3>5
              DEF Local, Named, InOrder, Answered, Meaning, Phase
    <2> QED BY <1>5, <2>4, <2>5
  <1>6. CASE a.op \notin {"CONNECT", "RETURN"}
    <2>1. UNCHANGED <<peer, next, chan>>
      BY <1>6 DEF PeerReceive, a
    <2>2. Pipe(c)' = Pipe(c) /\ IsPart(Pipe(c), Pipe(c))
      BY <1>1, <1>2, <2>1, PartTail DEF Pipe, Queues
    <2>3. ServerSide(c)
      BY <1>1, <1>2, <1>4, <2>1, <2>2 DEF ServerSide, Elsewhere
    <2> QED BY <2>3, ServerKeeps
  <1> QED BY <1>5, <1>6

\* The client's closing keeps the facts of its connection.
LEMMA PeerCloseKeeps ==
  ASSUME TypeOK, TypeOK', NEW c \in Conns, Local(c), PeerClose(c)
  PROVE  Local(c)'
  <1>1. /\ out'[c] = <<>> /\ peer'[c] = "gone" /\ next' = next /\ chan' = chan
        /\ vec' = vec /\ sending' = sending /\ Elsewhere
    BY DEF PeerClose, TypeOK, Elsewhere, clientVars, poolVars, dbVars
  <1>2. Queues(c) /\ Taken' = Taken /\ Open' = Open
    BY <1>1, QueueTypes, ElsewhereTaken
  <1>3. Pipe(c)' = Pipe(c) /\ IsPart(Pipe(c), Pipe(c))
    BY <1>1, <1>2, PartTail DEF Pipe, Queues
  <1>4. Line(c)' = Delivered(c)
    <2>1. Line(c)' = <<>> \o Delivered(c)
      BY <1>1 DEF Line, Delivered, Chosen
    <2> QED BY <1>2, <2>1, ConcatEmptySeq DEF Queues
  <1>5. IsPart(Line(c)', Line(c))
    BY <1>2, <1>4, PartConcat DEF Line, Queues
  <1>6. ServerSide(c)
    BY <1>1, <1>2, <1>3, <1>5 DEF ServerSide, Elsewhere
  <1> QED BY <1>6, ServerKeeps

\* A step of one client leaves the others' connections alone.
LEMMA PeerStepKeeps ==
  ASSUME TypeOK, TypeOK', PeerStep, NEW d \in Conns, Local(d)
  PROVE  Local(d)'
  <1>1. PICK c \in Conns : PeerConnect(c) \/ PeerReceive(c) \/ PeerSend(c) \/ PeerClose(c)
    BY DEF PeerStep
  <1>2. CASE c = d
    BY <1>1, <1>2, PeerConnectKeeps, PeerReceiveKeeps, PeerSendKeeps, PeerCloseKeeps
  <1>3. CASE c # d
    <2>1. /\ chan'[d] = chan[d] /\ out'[d] = out[d] /\ peer'[d] = peer[d] /\ next'[d] = next[d]
          /\ vec' = vec /\ sending' = sending /\ Elsewhere
      BY <1>1, <1>3 DEF PeerConnect, PeerReceive, PeerSend, PeerClose, TypeOK, Elsewhere,
                        clientVars, poolVars, dbVars
    <2>2. Delivered(d)' = Delivered(d) /\ Taken' = Taken /\ Open' = Open
      BY <2>1, ElsewhereTaken DEF Delivered, Chosen
    <2> QED BY <2>1, <2>2, Untouched DEF Elsewhere
  <1> QED BY <1>2, <1>3

-----------------------------------------------------------------------------
(* The loop's steps *)

\* A step that only drops messages or answers.
LEMMA Dropped ==
  ASSUME TypeOK, TypeOK', NEW c \in Conns, Local(c),
         vec'[c] \in {vec[c], <<>>}, chan'[c] \in {chan[c], <<>>}, IsPart(Line(c)', Line(c)),
         peer'[c] = peer[c], peer[c] = "gone" => out'[c] = out[c],
         next'[c] = next[c], dbc'[c] = dbc[c], machine' = machine, rows \subseteq rows',
         Taken' \subseteq Taken, Open' \subseteq Open
  PROVE  Local(c)'
  <1>1. Queues(c)
    BY QueueTypes
  <1>2. Pipe(c)' = vec'[c] \o chan'[c]
    BY DEF Pipe
  <1>3. IsPart(Pipe(c)', Pipe(c))
    <2>1. CASE vec'[c] = vec[c] /\ chan'[c] = chan[c]
      BY <1>1, <1>2, <2>1, PartTail DEF Pipe, Queues
    <2>2. CASE vec'[c] = <<>>
      <3>1. Pipe(c)' = chan'[c]
        <4>1. chan'[c] \in Seq(Requests)
          BY DEF TypeOK
        <4> QED BY <1>2, <2>2, <4>1, ConcatEmptySeq
      <3> QED BY <1>1, <3>1, PartTail, PartConcat DEF Pipe, Queues
    <2>3. CASE vec'[c] = vec[c] /\ chan'[c] = <<>>
      <3>1. Pipe(c)' = vec[c]
        BY <1>1, <1>2, <2>3, ConcatEmptySeq DEF Queues
      <3> QED BY <1>1, <3>1, PartConcat DEF Pipe, Queues
    <2> QED BY <2>1, <2>2, <2>3
  <1>4. peer'[c] = "gone" => out'[c] = <<>>
    BY DEF Local, Phase
  <1>5. ServerSide(c)
    BY <1>3, <1>4 DEF ServerSide
  <1> QED BY <1>5, ServerKeeps

\* Connections come and go; the queue is written out or dropped; signals.
LEMMA ConnectionKeeps ==
  ASSUME TypeOK, TypeOK', NEW c \in Conns, NEW d \in Conns, Local(d), ~Stops,
         Accept(c) \/ ReadError(c) \/ UvClose(c)
  PROVE  Local(d)'
  <1>1. /\ vec'[d] \in {vec[d], <<>>} /\ chan'[d] \in {chan[d], <<>>}
        /\ out' = out /\ sending' = sending /\ peer' = peer /\ next' = next /\ Elsewhere
    BY DEF Accept, ReadError, UvClose, TypeOK, Elsewhere, peerVars, poolVars, dbVars
  <1>2. Taken' = Taken /\ Open' = Open
    BY <1>1, ElsewhereTaken
  <1>3. IsPart(Line(d)', Line(d))
    <2>1. Line(d)' = Line(d) /\ Queues(d)
      BY <1>1, QueueTypes DEF Line, Delivered, Chosen
    <2> QED BY <2>1, PartTail DEF Queues
  <1> QED BY <1>1, <1>2, <1>3, Dropped DEF Elsewhere

\* The stop, the exit, SIGTERM and the loss of the database keep the facts of every connection.
LEMMA StopKeeps ==
  ASSUME TypeOK, TypeOK', NEW d \in Conns, Local(d), ~Stops,
         StopLoop \/ Exit \/ DropDatabase \/ SIGTERM
  PROVE  Local(d)'
  <1>1. /\ vec'[d] \in {vec[d], <<>>} /\ chan' = chan /\ sending' \in {sending, <<>>}
        /\ out' = out /\ peer' = peer /\ next' = next /\ Elsewhere
    BY DEF StopLoop, Exit, DropDatabase, SIGTERM, TypeOK, Elsewhere, peerVars, clientVars,
           poolVars, dbVars
  <1>2. Taken' = Taken /\ Open' = Open
    BY <1>1, ElsewhereTaken
  <1>3. IsPart(Line(d)', Line(d))
    <2>1. Queues(d) /\ Queues(d)'
      BY QueueTypes, NextTypes
    <2>2. CASE sending' = sending
      <3>1. Line(d)' = Line(d)
        BY <1>1, <2>2 DEF Line, Delivered, Chosen
      <3> QED BY <2>1, <3>1, PartTail DEF Queues
    <2>3. CASE sending' = <<>>
      <3>1. Line(d)' = out[d] \o <<>>
        BY <1>1, <2>1, <2>3 DEF Line, Queues
      <3>2. Line(d)' = out[d]
        BY <2>1, <3>1, ConcatEmptySeq DEF Queues
      <3> QED BY <2>1, <3>2, PartConcat DEF Line, Queues
    <2> QED BY <1>1, <2>2, <2>3
  <1> QED BY <1>1, <1>2, <1>3, Dropped DEF Elsewhere

\* Writing the answers keeps the facts of every connection.
LEMMA WriteKeeps ==
  ASSUME TypeOK, TypeOK', NEW d \in Conns, Local(d), ~Stops, WriteToNetwork
  PROVE  Local(d)'
  <1>1. /\ sending' = <<>> /\ vec' = vec /\ chan' = chan /\ peer' = peer /\ next' = next
        /\ out'[d] = IF peer[d] # "gone" /\ obj[d] \in {"open", "zombie"}
                     THEN out[d] \o Delivered(d) ELSE out[d]
        /\ Elsewhere
    BY DEF WriteToNetwork, Drained, Elsewhere, clientVars, poolVars
  <1>2. Taken' = Taken /\ Open' = Open
    BY <1>1, ElsewhereTaken
  <1>3. Queues(d) /\ Queues(d)'
    BY QueueTypes, NextTypes
  <1>4. Line(d)' = out'[d]
    <2>1. Line(d)' = out'[d] \o <<>>
      BY <1>1, <1>3 DEF Line, Queues
    <2> QED BY <1>3, <2>1, ConcatEmptySeq DEF Queues
  <1>5. IsPart(Line(d)', Line(d))
    BY <1>1, <1>3, <1>4, PartTail, PartConcat DEF Line, Queues
  <1> QED BY <1>1, <1>2, <1>5, Dropped DEF Elsewhere

\* A reply joins the line of its connection, and no other.
LEMMA ReplyJoins ==
  ASSUME TypeOK, TypeOK', NEW a \in Answers, IsAppend(sending', sending, a), NEW d \in Conns,
         out'[d] = out[d]
  PROVE  IF a.to = d THEN IsAppend(Line(d)', Line(d), a)
                     ELSE Line(d)' = Line(d) /\ Delivered(d)' = Delivered(d)
  <1>1. sending \in Seq(Answers) /\ sending' \in Seq(Answers)
    BY DEF TypeOK
  <1>3. /\ For(sending, d) \in Seq(Answers) /\ For(sending', d) \in Seq(Answers)
        /\ IF a.to = d THEN IsAppend(For(sending', d), For(sending, d), a)
                       ELSE For(sending', d) = For(sending, d)
    BY <1>1, DeliveredAppendIs
  <1>4. Delivered(d) = For(sending, d) /\ Delivered(d)' = For(sending', d)
    BY DEF Delivered, For, Chosen
  <1>5. out[d] \in Seq(Answers)
    BY DEF TypeOK
  <1>6. Line(d) = out[d] \o For(sending, d) /\ Line(d)' = out[d] \o For(sending', d)
    BY <1>4 DEF Line
  <1>7. CASE a.to = d
    <2>1. IsAppend(out[d] \o For(sending', d), out[d] \o For(sending, d), a)
      BY <1>3, <1>5, <1>7, AppendSecond
    <2> QED BY <1>6, <1>7, <2>1
  <1>8. CASE a.to # d
    BY <1>3, <1>4, <1>6, <1>8
  <1> QED BY <1>7, <1>8

\* The pipe, cut where a read ends.
LEMMA PipeCut ==
  ASSUME TypeOK, NEW c \in Conns, NEW k \in 0..Len(chan[c])
  PROVE  Pipe(c) = Decoded(c, k) \o SubSeq(chan[c], k + 1, Len(chan[c]))
  <1>1. chan[c] \in Seq(Requests) /\ vec[c] \in Seq(Requests)
    BY DEF TypeOK
  <1>2. vec[c] \o chan[c]
          = (vec[c] \o SubSeq(chan[c], 1, k)) \o SubSeq(chan[c], k + 1, Len(chan[c]))
    BY <1>1, ConcatSplit
  <1> QED BY <1>2 DEF Pipe, Decoded

\* What a read takes is the head of the pipe.
ReadTakes(c, m) ==
  /\ Pipe(c) # <<>> /\ m = Head(Pipe(c)) /\ Pipe(c)' = Tail(Pipe(c))
  /\ m \in ToSet(Pipe(c)) /\ ToSet(Pipe(c)) = {m} \cup ToSet(Pipe(c))'
  /\ IsPart(Pipe(c)', Pipe(c))

\* A read takes the first message decoded and leaves the others in order.
LEMMA ReadHead ==
  ASSUME TypeOK, NEW c \in Conns, NEW k \in 0..Len(chan[c]), Decoded(c, k) # <<>>,
         chan' = [chan EXCEPT ![c] = SubSeq(@, k + 1, Len(@))],
         vec' = [vec EXCEPT ![c] = Tail(Decoded(c, k))]
  PROVE  ReadTakes(c, Head(Decoded(c, k)))
  <1> DEFINE q == Decoded(c, k)
             r == SubSeq(chan[c], k + 1, Len(chan[c]))
  <1>1. q \in Seq(Requests) /\ r \in Seq(Requests) /\ q # <<>>
    BY ReadQueues
  <1>3. chan'[c] = r /\ vec'[c] = Tail(q)
    BY DEF TypeOK
  <1>5. Pipe(c) = q \o r
    BY PipeCut
  <1> HIDE DEF q, r
  <1>6. Pipe(c)' = Tail(q) \o r
    BY <1>3 DEF Pipe
  <1>7. Head(Pipe(c)) = Head(q) /\ Tail(Pipe(c)) = Pipe(c)'
    BY <1>1, <1>5, <1>6, HeadTailConcat
  <1>8. Pipe(c) \in Seq(Requests) /\ ToSet(Pipe(c)) = ToSet(q) \cup ToSet(r)
    BY <1>1, <1>5, ToSetConcat
  <1>9. Pipe(c) # <<>>
    BY <1>1, <1>8, ToSetEmpty
  <1>10. /\ Head(Pipe(c)) \in ToSet(Pipe(c))
         /\ ToSet(Pipe(c)) = {Head(Pipe(c))} \cup ToSet(Tail(Pipe(c)))
         /\ IsPart(Tail(Pipe(c)), Pipe(c))
    BY <1>8, <1>9, ToSetHeadTail, PartTail
  <1> QED BY <1>7, <1>9, <1>10 DEF ReadTakes, q

\* The message that a read takes is nowhere else.
LEMMA HeadIsAlone ==
  ASSUME TypeOK, TypeOK', NEW c \in Conns, Local(c), NEW m, ReadTakes(c, m)
  PROVE  /\ m \in Requests /\ m.c = c /\ m \notin Taken
         /\ \A n \in ToSet(Pipe(c))' : Rank(m) < Rank(n)
         /\ m \notin ToSet(Pipe(c))' /\ m \notin Replied(c)
  <1>1. Queues(c)
    BY QueueTypes
  <1>2. m \in Requests /\ m.c = c
    BY <1>1 DEF ReadTakes, Queues, Local, Named
  <1>3. Rank(m) \in Int
    BY <1>2, RequestTypes, BatchTypes DEF Rank, Rids
  <1>4. \A n \in ToSet(Pipe(c))' : Rank(m) < Rank(n)
    BY <1>1, HeadIsLeast DEF ReadTakes, Queues, Local, InOrder
  <1>5. m \notin Taken /\ m \notin Replied(c)
    BY <1>2, <1>3 DEF ReadTakes, Local, InOrder, Answered
  <1> QED BY <1>2, <1>3, <1>4, <1>5

\* What a read does: the message is refused, or passed on to the pool or to a
\* transaction of the loop.
ReadEffect(c, m) ==
  /\ ReadTakes(c, m)
  /\ UNCHANGED <<peer, next, machine, out, dbc, worker, finished, rows>>
  /\ \A d \in Conns \ {c} : vec'[d] = vec[d] /\ chan'[d] = chan[d]
  /\ \/ /\ sending' = Append(sending, Answer(m, "REFUSE", 0))
        /\ work' = work /\ op' = op
     \/ m.op = "LOG" /\ work' = Append(work, m) /\ op' = op /\ sending' = sending
     \/ m.op \in {"CONNECT", "QUERY"} /\ op = None /\ op' = m /\ work' = work /\ sending' = sending

\* A read that is not the end of the process hands one decoded message on.
LEMMA ReadDoes ==
  ASSUME TypeOK, NEW c \in Conns, Read(c), ~Stops
  PROVE  \E k \in 0..Len(chan[c]) :
           /\ Decoded(c, k) # <<>> /\ vec' = [vec EXCEPT ![c] = Tail(Decoded(c, k))]
           /\ chan' = [chan EXCEPT ![c] = SubSeq(@, k + 1, Len(@))]
           /\ ReadEffect(c, Head(Decoded(c, k)))
           /\ HandleMessage(c, Head(Decoded(c, k)), ToSet(Decoded(c, k)))
  <1>1. PICK k \in 0..Len(chan[c]) :
          /\ Decoded(c, k) # <<>>
          /\ chan' = [chan EXCEPT ![c] = SubSeq(@, k + 1, Len(@))]
          /\ vec' = [vec EXCEPT ![c] = Tail(Decoded(c, k))]
          /\ HandleMessage(c, Head(Decoded(c, k)), ToSet(Decoded(c, k)))
          /\ UNCHANGED <<peer, next, machine, out, obj, dbc, clientMap, stopAsync,
                         worker, finished, dbOpen, dbConnected, cached, registered, rows>>
    BY DEF Read
  <1>2. op = None
    BY DEF Read, LoopFree
  <1> DEFINE m == Head(Decoded(c, k))
  <1>3. ReadTakes(c, m)
    BY <1>1, ReadHead
  <1>4. \A d \in Conns \ {c} : vec'[d] = vec[d] /\ chan'[d] = chan[d]
    BY <1>1 DEF TypeOK
  <1> HIDE DEF m
  <1>5. \/ /\ sending' = Append(sending, Answer(m, "REFUSE", 0))
           /\ work' = work /\ op' = op
        \/ m.op = "LOG" /\ work' = Append(work, m) /\ op' = op /\ sending' = sending
        \/ m.op \in {"CONNECT", "QUERY"} /\ op' = m /\ work' = work /\ sending' = sending
    BY <1>1 DEF HandleMessage, Reply, m
  <1>6. ReadEffect(c, m)
    BY <1>1, <1>2, <1>3, <1>4, <1>5 DEF ReadEffect
  <1> QED BY <1>1, <1>6 DEF m

\* The message is then in the server's hands, or refused.
LEMMA ReadTaken ==
  ASSUME TypeOK, NEW c \in Conns, NEW m \in Requests, ReadEffect(c, m)
  PROVE  \/ /\ sending' = Append(sending, Answer(m, "REFUSE", 0))
            /\ Taken' = Taken /\ Open' = Open
         \/ sending' = sending /\ Taken' = Taken \cup {m} /\ Open' = Open \cup {m}
  <1>1. worker' = worker /\ finished' = finished /\ Jobs' = Jobs
    BY DEF ReadEffect, Jobs
  <1>2. CASE sending' = Append(sending, Answer(m, "REFUSE", 0)) /\ work' = work /\ op' = op
    BY <1>1, <1>2 DEF Taken, Open
  <1>3. CASE m.op = "LOG" /\ work' = Append(work, m) /\ op' = op /\ sending' = sending
    <2>1. m \in Batches /\ work \in Seq(Batches)
      BY <1>3, RequestTypes DEF TypeOK
    <2>2. ToSet(Append(work, m)) = ToSet(work) \cup {m}
      BY <2>1, ToSetAppend
    <2> QED BY <1>1, <1>3, <2>2 DEF Taken, Open
  <1>4. CASE op = None /\ op' = m /\ work' = work /\ sending' = sending
    BY <1>1, <1>4, NoneIsNoMessage DEF Taken, Open
  <1> QED BY <1>2, <1>3, <1>4 DEF ReadEffect

\* A read keeps the facts of every connection.
LEMMA ReadKeeps ==
  ASSUME TypeOK, TypeOK', NEW c \in Conns, NEW d \in Conns, Local(c), Local(d),
         NEW m, ReadEffect(c, m)
  PROVE  Local(d)'
  <1>1. ReadTakes(c, m) /\ UNCHANGED <<peer, next, machine, out, dbc, rows>>
        /\ \A e \in Conns \ {c} : vec'[e] = vec[e] /\ chan'[e] = chan[e]
    BY DEF ReadEffect
  <1>2. /\ m \in Requests /\ m.c = c /\ m \notin Taken /\ m \in ToSet(Pipe(c))
        /\ \A n \in ToSet(Pipe(c))' : Rank(m) < Rank(n)
        /\ m \notin ToSet(Pipe(c))' /\ m \notin Replied(c)
    BY <1>1, HeadIsAlone DEF ReadTakes
  <1>3. Queues(d) /\ Open \subseteq Taken /\ sending \in Seq(Answers)
    BY QueueTypes, TakenTypes DEF TakenMessages, TypeOK
  <1>4. ASSUME NEW a \in Answers, a.to = c, a.of = m, a.op = "REFUSE",
               IsAppend(sending', sending, a), Taken' = Taken, Open' = Open
        PROVE  Local(d)'
    <2>1. CASE d = c
      <3>1. IsAppend(Line(c)', Line(c), a)
        BY <1>1, <1>4, <2>1, ReplyJoins
      <3>2. NewAnswer(c, a)
        BY <1>2, <1>3, <1>4 DEF NewAnswer, Means
      <3>3. peer'[c] = "gone" => out'[c] = <<>>
        BY <1>1, <2>1 DEF Local, Phase
      <3>4. ServerSide(c)
        BY <1>1, <1>4, <3>1, <3>2, <3>3 DEF ServerSide, ReadTakes
      <3> QED BY <2>1, <3>4, ServerKeeps
    <2>2. CASE d # c
      <3>1. Delivered(d)' = Delivered(d)
        BY <1>1, <1>4, <2>2, ReplyJoins
      <3> QED BY <1>1, <1>4, <2>2, <3>1, Untouched
    <2> QED BY <2>1, <2>2
  <1>5. ASSUME sending' = sending, Taken' = Taken \cup {m}, Open' = Open \cup {m}
        PROVE  Local(d)'
    <2>0. Delivered(d)' = Delivered(d)
      BY <1>5 DEF Delivered, Chosen
    <2>1. CASE d = c
      <3>1. IsPart(Line(c)', Line(c))
        <4>1. Line(c)' = Line(c)
          BY <1>1, <2>0, <2>1 DEF Line
        <4> QED BY <1>3, <2>1, <4>1, PartTail DEF Queues
      <3>3. peer'[c] = "gone" => out'[c] = <<>>
        BY <1>1, <2>1 DEF Local, Phase
      <3>4. ServerSide(c)
        BY <1>1, <1>2, <1>5, <3>1, <3>3 DEF ServerSide, ReadTakes
      <3> QED BY <2>1, <3>4, ServerKeeps
    <2>2. CASE d # c
      BY <1>1, <1>2, <1>5, <2>0, <2>2, Untouched
    <2> QED BY <2>1, <2>2
  <1>6. CASE /\ sending' = Append(sending, Answer(m, "REFUSE", 0))
             /\ Taken' = Taken /\ Open' = Open
    <2> DEFINE a == Answer(m, "REFUSE", 0)
    <2>1. a \in Answers /\ a.to = c /\ a.of = m /\ a.op = "REFUSE"
      BY <1>2, AnswerTypes
    <2>2. sending' = Append(sending, a)
      BY <1>6
    <2> HIDE DEF a
    <2>3. IsAppend(sending', sending, a)
      BY <1>3, <2>1, <2>2, AppendIs
    <2> QED BY <1>4, <1>6, <2>1, <2>3
  <1> QED BY <1>2, <1>5, <1>6, ReadTaken

\* The loop answers the request of its transaction.
LoopAnswers(a) ==
  /\ op \in Requests /\ a \in Answers /\ a.of = op /\ a.to = op.c
  /\ Means(a)' /\ dbc'[op.c] = machine[op.c]
  /\ \A d \in Conns \ {op.c} : dbc'[d] = dbc[d]
  /\ IsAppend(sending', sending, a) /\ op' = None
  /\ UNCHANGED <<peer, next, machine, out, vec, chan, work, worker, finished, rows>>

\* An answer of the loop's keeps the facts of every connection.
LEMMA LoopAnswerKeeps ==
  ASSUME TypeOK, TypeOK', Handled, NEW d \in Conns, Local(d), NEW a, LoopAnswers(a)
  PROVE  Local(d)'
  <1>1. /\ Taken' \subseteq Taken /\ Open' \subseteq Open /\ op \in Open /\ op \notin Open'
    <2>1. op # None /\ op \notin Batches
      BY NoneIsNoMessage, BatchTypes DEF LoopAnswers, Handled
    <2>2. ToSet(work) \subseteq Batches
          /\ \A w \in Workers : worker[w].pc \in {"insert", "accept"} => worker[w].job \in Batches
      BY TakenTypes DEF TakenMessages, Jobs, Idle
    <2>3. Jobs' = Jobs
      BY DEF LoopAnswers, Jobs
    <2> QED BY <2>1, <2>2, <2>3 DEF LoopAnswers, Taken, Open
  <1>2. Queues(d) /\ Queues(d)'
    BY QueueTypes, NextTypes
  <1>3. Pipe(d)' = Pipe(d) /\ IsPart(Pipe(d)', Pipe(d))
    <2>1. Pipe(d)' = Pipe(d)
      BY DEF LoopAnswers, Pipe
    <2> QED BY <1>2, <2>1, PartTail DEF Queues
  <1>4. CASE d = op.c
    <2>1. IsAppend(Line(d)', Line(d), a)
      BY <1>4, ReplyJoins DEF LoopAnswers
    <2>2. op \notin ToSet(Pipe(d))
      <3>1. op \in Taken /\ Rank(op) \in Int
        BY <1>1, TakenTypes, RequestTypes, BatchTypes DEF TakenMessages, LoopAnswers, Rank, Rids
      <3> QED BY <1>4, <3>1 DEF Local, InOrder
    <2>3. NewAnswer(d, a)
      BY <1>1, <1>3, <1>4, <2>2 DEF NewAnswer, LoopAnswers
    <2>4. peer'[d] = "gone" => out'[d] = <<>>
      BY DEF Local, Phase, LoopAnswers
    <2>5. ServerSide(d)
      BY <1>1, <1>3, <1>4, <2>1, <2>3, <2>4 DEF ServerSide, LoopAnswers
    <2> QED BY <2>5, ServerKeeps
  <1>5. CASE d # op.c
    <2>1. Delivered(d)' = Delivered(d)
      BY <1>5, ReplyJoins DEF LoopAnswers
    <2> QED BY <1>1, <1>5, <2>1, Untouched DEF LoopAnswers
  <1> QED BY <1>4, <1>5

\* The end of a transaction of the loop answers its request and frees it.
LEMMA FinishAnswers ==
  ASSUME TypeOK, TypeOK', Handled, \A c \in Conns : Local(c), ~Stops, FinishConnect \/ FinishQuery
  PROVE  /\ \E a : LoopAnswers(a)
         /\ live' = live \ {op}
  <1>1. op \in Requests /\ op.c \in Conns /\ op.op \in {"CONNECT", "QUERY"}
    BY RequestTypes DEF FinishConnect, FinishQuery, TypeOK
  <1>2. live' = live \ {op}
    BY <1>1 DEF FinishConnect, FinishQuery, Disposed
  <1>3. sending \in Seq(Answers) /\ machine[op.c] \in Machines
    BY <1>1 DEF TypeOK
  <1>4. CASE FinishConnect
    <2> SUFFICES ASSUME NEW a, a = Answer(op, "CONNECT", 0)
                 PROVE  LoopAnswers(a)
      BY <1>2
    <2>1. /\ a \in Answers /\ a.of = op /\ a.to = op.c /\ a.op = "CONNECT"
      BY <1>1, AnswerTypes
    <2>2. /\ sending' = Append(sending, a) /\ op.op = "CONNECT"
          /\ dbc' = [dbc EXCEPT ![op.c] = machine[op.c]] /\ op' = None
          /\ UNCHANGED <<peer, next, machine, out, vec, chan, work, worker, finished, rows>>
      BY <1>4 DEF FinishConnect, GetClient, Reply, peerVars, poolVars
    <2>3. IsAppend(sending', sending, a)
      BY <1>3, <2>1, <2>2, AppendIs
    <2>4. dbc'[op.c] = machine[op.c] /\ \A d \in Conns \ {op.c} : dbc'[d] = dbc[d]
      BY <1>1, <2>2 DEF TypeOK
    <2>5. Means(a)'
      BY <2>1, <2>2 DEF Means
    <2> QED BY <1>1, <2>1, <2>2, <2>3, <2>4, <2>5 DEF LoopAnswers
  <1>5. CASE FinishQuery
    <2>1. op.op = "QUERY" /\ dbc[op.c] = machine[op.c]
      <3>1. op \in Taken /\ op.op = "QUERY"
        BY <1>1, <1>5, NoneIsNoMessage DEF FinishQuery, Taken
      <3>2. op \in Asked(op.c) /\ Known(op.c)
        BY <1>1, <3>1 DEF Asked, Local
      <3> QED BY <3>1, <3>2 DEF Known
    <2>2. LastEventRecordID(machine[op.c]) \in Nat
      BY <1>3, LastTypes DEF LastStored
    <2> SUFFICES ASSUME NEW m \in Machines, m = machine[op.c],
                        NEW i, i = LastEventRecordID(m) + 1,
                        NEW a, a = Answer(op, "RETURN", i)
                 PROVE  LoopAnswers(a)
      BY <1>2, <1>3
    <2>3. i \in Nat /\ i # 0
      BY <2>2
    <2>4. /\ sending' = Append(sending, a) /\ dbc' = dbc /\ op' = None
          /\ UNCHANGED <<peer, next, machine, out, vec, chan, work, worker, finished, rows>>
      BY <1>5, <2>1 DEF FinishQuery, NextEventID, Reply, peerVars, clientVars, poolVars
    <2>5. a \in Answers /\ a.of = op /\ a.to = op.c /\ a.op = "RETURN" /\ a.id = i
      BY <1>1, <2>3, AnswerTypes
    <2>6. IsAppend(sending', sending, a)
      BY <1>3, <2>4, <2>5, AppendIs
    <2>7. Means(a)'
      <3>0. machine' = machine /\ rows' = rows /\ machine'[a.to] = m
        BY <2>4, <2>5
      <3>1. LastEventRecordID(m)' = LastEventRecordID(m)
        BY <3>0 DEF LastEventRecordID
      <3>2. a.id \in 1..LastEventRecordID(machine[a.to])' + 1
        BY <2>2, <2>3, <2>5, <3>0, <3>1
      <3> QED BY <2>1, <2>5, <3>2 DEF Means
    <2> QED BY <1>1, <2>1, <2>4, <2>5, <2>6, <2>7 DEF LoopAnswers
  <1> QED BY <1>4, <1>5

-----------------------------------------------------------------------------
(* The pool's steps *)

\* A step of a thread on its batch.
Works(w, p) ==
  /\ worker[w].pc # "idle" /\ p \in WorkerSteps
  /\ worker' = [worker EXCEPT ![w].pc = p]
  /\ UNCHANGED <<peer, next, machine, out, dbc, vec, chan, op, work, finished, live>>

\* A pool thread that goes on keeps its job.
LEMMA WorksJobs ==
  ASSUME TypeOK, NEW w \in Workers, NEW p, Works(w, p)
  PROVE  /\ \A u \in Workers : /\ worker'[u].job = worker[u].job
                               /\ worker'[u] = Idle <=> worker[u] = Idle
                               /\ worker'[u].pc = IF u = w THEN p ELSE worker[u].pc
         /\ Jobs' = Jobs /\ Taken' = Taken
  <1>1. \A u \in Workers : /\ worker[u] = Idle \/ worker[u] \in [pc: WorkerSteps, job: Batches]
                           /\ worker[u] = Idle <=> worker[u].pc = "idle"
    BY WorkerTypes DEF TypeOK
  <1>2. worker[w] \in [pc: WorkerSteps, job: Batches] /\ worker \in [Workers -> [pc: WorkerSteps, job: Batches] \cup {Idle}]
    BY <1>1 DEF Works, TypeOK
  <1>3. \A u \in Workers : u # w => worker'[u] = worker[u]
    BY <1>2 DEF Works
  <1>4. worker'[w].job = worker[w].job /\ worker'[w].pc = p
    BY <1>2 DEF Works
  <1>5. worker'[w] # Idle /\ worker[w] # Idle
    BY <1>2, <1>4 DEF Works, Idle, WorkerSteps
  <1>6. Jobs' = Jobs
    BY <1>3, <1>4, <1>5 DEF Jobs
  <1> QED BY <1>3, <1>4, <1>5, <1>6 DEF Works, Taken

\* The places of the batches stay as they are.
LEMMA WorksPlaces ==
  ASSUME TypeOK, OnePlace, live = Held, NEW w \in Workers, NEW p, Works(w, p)
  PROVE  OnePlace' /\ live' = Held'
  <1>1. /\ \A u \in Workers : /\ worker'[u].job = worker[u].job
                              /\ worker'[u] = Idle <=> worker[u] = Idle
        /\ Jobs' = Jobs /\ Taken' = Taken
    BY WorksJobs
  <1>2. OnePlace'
    BY <1>1 DEF OnePlace, Works
  <1>3. live' = Held'
    BY <1>1 DEF Held, Works
  <1> QED BY <1>2, <1>3

\* What the batches' transactions leave in the tables lasts.
LEMMA HandledLasts ==
  ASSUME Handled, rows \subseteq rows', op' \in {op, None},
         \A w \in Workers : worker'[w].pc = "accept" =>
           worker[w].pc = "accept" /\ worker'[w].job = worker[w].job
  PROVE  Handled'
  BY DEF Handled

\* Starting a job keeps the inductive invariant.
LEMMA StartKeeps ==
  ASSUME Inv, TypeOK', NEW w \in Workers, StartWork(w), ~Stops
  PROVE  Inv'
  <1> DEFINE h == Head(work)
  <1>1. /\ worker[w] = Idle /\ work # <<>> /\ work' = Tail(work)
        /\ worker' = [worker EXCEPT ![w] = [pc |-> "insert", job |-> h]]
        /\ UNCHANGED <<peer, next, machine, out, dbc, vec, chan, op, sending, finished, rows, live>>
    BY DEF StartWork, peerVars, clientVars
  <1>2. /\ work \in Seq(Batches) /\ h \in Batches /\ h \in ToSet(work) /\ Tail(work) \in Seq(Batches)
        /\ ToSet(work) = {h} \cup ToSet(work')
    BY <1>1, ToSetHeadTail DEF Inv, TypeOK
  <1> HIDE DEF h
  <1>3. /\ \A u \in Workers \ {w} : worker'[u] = worker[u]
        /\ worker'[w].pc = "insert" /\ worker'[w].job = h
        /\ worker'[w] # Idle
    BY <1>1 DEF Inv, TypeOK, Idle
  <1>4. Jobs' = Jobs \cup {h}
    BY <1>1, <1>3 DEF Jobs
  <1>5. Taken' = Taken
    BY <1>1, <1>2, <1>4 DEF Taken
  <1>6. Open' \subseteq Open
    BY <1>1, <1>2, <1>3 DEF Open
  <1>7. Handled'
    <2>1. \A u \in Workers : worker'[u].pc = "accept" =>
            worker[u].pc = "accept" /\ worker'[u].job = worker[u].job
      BY <1>3
    <2> QED BY <1>1, <2>1, HandledLasts DEF Inv
  <1>8. OnePlace'
    <2>1. Distinct(work') /\ h \notin ToSet(work')
      <3>1. Distinct(work) /\ work # <<>> /\ work' = Tail(work)
        BY <1>1 DEF Inv, OnePlace
      <3>2. IsPart(Tail(work), work) /\ Head(work) \notin ToSet(Tail(work))
        BY <1>2, <3>1, HeadIsGone, PartTail
      <3>3. Distinct(Tail(work))
        BY <1>2, <3>1, <3>2, PartKeeps
      <3> QED BY <3>1, <3>2, <3>3 DEF h
    <2>2. h \notin Jobs /\ h \notin ToSet(finished)
      BY <1>2 DEF Inv, OnePlace
    <2>3. \A u \in Workers \ {w} : worker'[u] # Idle => worker'[u].job # h
      BY <1>3, <2>2 DEF Jobs
    <2>4. \A u, v \in Workers :
            worker'[u] # Idle /\ worker'[v] # Idle /\ worker'[u].job = worker'[v].job => u = v
      BY <1>3, <2>3 DEF Inv, OnePlace
    <2> QED BY <1>1, <1>2, <1>4, <2>1, <2>2, <2>4 DEF Inv, OnePlace
  <1>9. live' = Held'
    BY <1>1, <1>2, <1>4 DEF Inv, Held
  <1>10. ASSUME NEW d \in Conns PROVE Local(d)'
    <2>1. Delivered(d)' = Delivered(d)
      BY <1>1 DEF Delivered, Chosen
    <2> QED BY <1>1, <1>5, <1>6, <2>1, Untouched DEF Inv
  <1> QED BY <1>7, <1>8, <1>9, <1>10 DEF Inv

\* Inserting a batch keeps the inductive invariant.
LEMMA InsertKeeps ==
  ASSUME Inv, TypeOK', NEW w \in Workers, InsertWindowsEvents(w), ~Stops
  PROVE  Inv'
  <1> DEFINE b == worker[w].job
             p == AfterInsert(b)
  <1>1. /\ worker[w].pc = "insert" /\ rows' = Stored(b) /\ sending' = sending
        /\ Works(w, p)
    BY DEF InsertWindowsEvents, Works, AfterInsert, WorkerSteps, peerVars, clientVars
  <1>2. /\ \A u \in Workers : /\ worker'[u].job = worker[u].job
                              /\ worker'[u].pc = IF u = w THEN p ELSE worker[u].pc
        /\ Taken' = Taken
    <2>1. \A q : Works(w, q) =>
            /\ \A u \in Workers : /\ worker'[u].job = worker[u].job
                                  /\ worker'[u].pc = IF u = w THEN q ELSE worker[u].pc
            /\ Taken' = Taken
      BY WorksJobs DEF Inv
    <2> QED BY <1>1, <2>1
  <1>3. OnePlace' /\ live' = Held'
    <2>1. \A q : Works(w, q) => OnePlace' /\ live' = Held'
      BY WorksPlaces DEF Inv
    <2> QED BY <1>1, <2>1
  <1>4. Open' \subseteq Open
    BY <1>1, <1>2 DEF Open, Works
  <1>5. rows \subseteq rows' /\ (b.kind = "good" => b \in rows')
    BY <1>1 DEF Stored
  <1>6. p = "accept" => b.full
    BY DEF AfterInsert
  <1>7. Handled'
    <2>1. ASSUME NEW u \in Workers, worker'[u].pc = "accept"
          PROVE  worker'[u].job.full /\ (worker'[u].job.kind = "good" => worker'[u].job \in rows')
      BY <1>2, <1>5, <1>6, <2>1 DEF Inv, Handled
    <2>2. op' # None => op'.op \in {"CONNECT", "QUERY"}
      BY <1>1 DEF Inv, Handled, Works
    <2> QED BY <2>1, <2>2 DEF Handled
  <1>8. ASSUME NEW d \in Conns PROVE Local(d)'
    <2>1. Delivered(d)' = Delivered(d)
      BY <1>1 DEF Delivered, Chosen
    <2> QED BY <1>1, <1>2, <1>4, <1>5, <2>1, Untouched DEF Inv, Works
  <1> QED BY <1>3, <1>7, <1>8 DEF Inv

\* Waking the loop keeps the inductive invariant.
LEMMA WakeKeeps ==
  ASSUME Inv, TypeOK', NEW w \in Workers, WakeLoop(w)
  PROVE  Inv'
  <1>1. worker[w].pc = "wake" /\ sending' = sending /\ rows' = rows /\ Works(w, "return")
    BY DEF WakeLoop, Works, WorkerSteps, peerVars, clientVars, dbVars
  <1>2. /\ \A u \in Workers : /\ worker'[u].job = worker[u].job
                              /\ worker'[u].pc = IF u = w THEN "return" ELSE worker[u].pc
        /\ Taken' = Taken
    BY <1>1, WorksJobs DEF Inv
  <1>3. OnePlace' /\ live' = Held'
    BY <1>1, WorksPlaces DEF Inv
  <1>4. Open' \subseteq Open
    BY <1>1, <1>2 DEF Open, Works
  <1>5. Handled'
    BY <1>1, <1>2, HandledLasts DEF Inv, Works
  <1>6. ASSUME NEW d \in Conns PROVE Local(d)'
    <2>1. Delivered(d)' = Delivered(d)
      BY <1>1 DEF Delivered, Chosen
    <2> QED BY <1>1, <1>2, <1>4, <2>1, Untouched DEF Inv, Works
  <1> QED BY <1>3, <1>5, <1>6 DEF Inv

\* Answering ACCEPT keeps the inductive invariant.
LEMMA AcceptBatchKeeps ==
  ASSUME Inv, TypeOK', NEW w \in Workers, AcceptBatch(w), ~Stops
  PROVE  Inv'
  <1>1. /\ worker[w].pc = "accept" /\ rows' = rows /\ Works(w, "wake")
        /\ sending' = Append(sending, Answer(worker[w].job, "ACCEPT", 0))
    BY DEF AcceptBatch, Works, WorkerSteps, peerVars, clientVars, dbVars
  <1>2. /\ \A u \in Workers : /\ worker'[u].job = worker[u].job
                              /\ worker'[u].pc = IF u = w THEN "wake" ELSE worker[u].pc
        /\ Taken' = Taken
    BY <1>1, WorksJobs DEF Inv
  <1>3. OnePlace' /\ live' = Held'
    BY <1>1, WorksPlaces DEF Inv
  <1>5. Handled'
    BY <1>1, <1>2, HandledLasts DEF Inv, Works
  <1>6. \A u \in Workers : worker[u].pc # "idle" => worker[u] # Idle /\ worker[u].job \in Batches
    BY WorkerTypes DEF Inv, TypeOK, Idle
  <1>7. PICK b : b = worker[w].job
    OBVIOUS
  <1>8. b \in Batches /\ b \in Open /\ b \in Taken /\ b \in Requests
    BY <1>1, <1>6, <1>7, TakenTypes DEF Open, TakenMessages, Inv
  <1>9. Open' \subseteq Open /\ b \notin Open'
    <2>1. b \in Jobs
      BY <1>1, <1>6, <1>7 DEF Jobs
    <2>2. b \notin ToSet(work) /\ b # op
      <3>1. b \notin ToSet(work)
        BY <2>1 DEF Inv, OnePlace
      <3>2. b.op = "LOG"
        BY <1>8, BatchTypes
      <3> QED BY <1>8, <3>1, <3>2, NoneIsNoMessage DEF Inv, Handled
    <2>3. \A u \in Workers : worker[u].pc \in {"insert", "accept"} /\ worker[u].job = b => u = w
      BY <1>1, <1>6, <1>7 DEF Inv, OnePlace
    <2> QED BY <1>1, <1>2, <2>2, <2>3, NoneIsNoMessage DEF Open, Works
  <1>10. PICK a : a = Answer(b, "ACCEPT", 0)
    OBVIOUS
  <1>11. a \in Answers /\ a.of = b /\ a.to = b.c /\ a.op = "ACCEPT"
    BY <1>8, <1>10, AnswerTypes
  <1>12. IsAppend(sending', sending, a)
    <2>1. sending \in Seq(Answers) /\ sending' = Append(sending, a)
      BY <1>1, <1>7, <1>10 DEF Inv, TypeOK
    <2> QED BY <1>11, <2>1, AppendIs
  <1>13. b.full /\ (b.kind = "good" => b \in rows)
    BY <1>1, <1>7 DEF Inv, Handled
  <1>14. ASSUME NEW d \in Conns PROVE Local(d)'
    <2>1. Queues(d) /\ Local(d) /\ TypeOK /\ out'[d] = out[d]
      BY <1>1, QueueTypes DEF Inv, Works
    <2>2. CASE d = b.c
      <3>1. IsAppend(Line(d)', Line(d), a)
        BY <1>11, <1>12, <2>1, <2>2, ReplyJoins
      <3>2. Pipe(d)' = Pipe(d) /\ IsPart(Pipe(d), Pipe(d))
        BY <1>1, <2>1, PartTail DEF Pipe, Works, Queues
      <3>3. b \notin ToSet(Pipe(d))
        <4>1. Rank(b) \in Int
          BY <1>8, BatchTypes DEF Rank, Rids
        <4> QED BY <1>8, <2>1, <2>2, <4>1 DEF Local, InOrder
      <3>4. NewAnswer(d, a)
        BY <1>1, <1>8, <1>9, <1>11, <1>13, <2>2, <3>2, <3>3, BatchTypes DEF NewAnswer, Means
      <3>5. peer'[d] = "gone" => out'[d] = <<>>
        BY <1>1, <2>1 DEF Local, Phase, Works
      <3>6. ServerSide(d)
        BY <1>1, <1>2, <1>9, <1>11, <3>1, <3>2, <3>4, <3>5 DEF ServerSide, Works
      <3> QED BY <2>1, <3>6, ServerKeeps
    <2>3. CASE d # b.c
      <3>1. Delivered(d)' = Delivered(d)
        BY <1>11, <1>12, <2>1, <2>3, ReplyJoins
      <3> QED BY <1>1, <1>2, <1>9, <2>1, <3>1, Untouched DEF Works
    <2> QED BY <2>2, <2>3
  <1> QED BY <1>3, <1>5, <1>14 DEF Inv

\* Finishing a job keeps the inductive invariant.
LEMMA FinishWorkKeeps ==
  ASSUME Inv, TypeOK', NEW w \in Workers, FinishWork(w)
  PROVE  Inv'
  <1>1. /\ worker[w].pc = "return" /\ finished' = Append(finished, worker[w].job)
        /\ worker' = [worker EXCEPT ![w] = Idle]
        /\ UNCHANGED <<peer, next, machine, out, dbc, vec, chan, op, sending, work, rows, live>>
    BY DEF FinishWork, peerVars, clientVars, dbVars
  <1>2. PICK b : b = worker[w].job
    OBVIOUS
  <1>3. /\ worker[w] # Idle /\ b \in Batches /\ finished \in Seq(Batches)
        /\ \A u \in Workers \ {w} : worker'[u] = worker[u]
        /\ worker'[w] = Idle /\ worker'[w].pc = "idle"
    BY <1>1, <1>2, WorkerTypes DEF Inv, TypeOK, Idle
  <1>4. b \in Jobs /\ b \notin ToSet(work) /\ b \notin ToSet(finished)
        /\ \A u \in Workers \ {w} : worker[u] # Idle => worker[u].job # b
    BY <1>2, <1>3 DEF Inv, OnePlace, Jobs
  <1>5. Jobs' = Jobs \ {b}
    BY <1>2, <1>3, <1>4 DEF Jobs
  <1>6. finished' \in Seq(Batches) /\ IsAppend(finished', finished, b)
    BY <1>1, <1>2, <1>3, AppendIs
  <1>7. ToSet(finished') = ToSet(finished) \cup {b} /\ Distinct(finished')
    <2>1. Distinct(finished)
      BY DEF Inv, OnePlace
    <2> QED BY <1>3, <1>4, <1>6, <2>1, AppendKeeps
  <1>8. Taken' = Taken /\ Open' \subseteq Open
    <2>1. Taken' = Taken
      BY <1>1, <1>4, <1>5, <1>7 DEF Taken
    <2>2. Open' \subseteq Open
      BY <1>1, <1>3 DEF Open
    <2> QED BY <2>1, <2>2
  <1>9. Handled'
    <2>1. \A u \in Workers : worker'[u].pc = "accept" =>
            worker[u].pc = "accept" /\ worker'[u].job = worker[u].job
      BY <1>3
    <2> QED BY <1>1, <2>1, HandledLasts DEF Inv
  <1>10. OnePlace'
    <2>1. Distinct(work') /\ ToSet(work') \cap Jobs' = {} /\ ToSet(work') \cap ToSet(finished') = {}
          /\ Jobs' \cap ToSet(finished') = {}
      BY <1>1, <1>4, <1>5, <1>7 DEF Inv, OnePlace
    <2>2. \A u, v \in Workers :
            worker'[u] # Idle /\ worker'[v] # Idle /\ worker'[u].job = worker'[v].job => u = v
      BY <1>3 DEF Inv, OnePlace
    <2> QED BY <1>7, <2>1, <2>2 DEF OnePlace
  <1>11. live' = Held'
    BY <1>1, <1>4, <1>5, <1>7 DEF Inv, Held
  <1>12. ASSUME NEW d \in Conns PROVE Local(d)'
    <2>1. Delivered(d)' = Delivered(d)
      BY <1>1 DEF Delivered, Chosen
    <2> QED BY <1>1, <1>8, <2>1, Untouched DEF Inv
  <1> QED BY <1>9, <1>10, <1>11, <1>12 DEF Inv

\* A message that the pool or the loop is done with is in no decoder.
LEMMA TakenIsRead ==
  ASSUME Inv, NEW m \in Taken
  PROVE  \A c \in Conns : m \notin ToSet(Pipe(c)) /\ m \notin ToSet(vec[c])
  <1>1. m \in Requests /\ Rank(m) \in Int
    BY TakenTypes, RequestTypes, BatchTypes DEF Inv, TakenMessages, Rank, Rids
  <1>2. ASSUME NEW c \in Conns PROVE m \notin ToSet(Pipe(c))
    BY <1>1 DEF Inv, Local, Named, InOrder
  <1> QED BY <1>2, QueueTypes DEF Inv, Queues

\* The callback of the finished jobs keeps the inductive invariant.
LEMMA AfterWorkKeeps ==
  ASSUME Inv, TypeOK', AfterWork
  PROVE  Inv'
  <1>1. /\ finished # <<>> /\ finished' = Tail(finished) /\ live' = live \ {Head(finished)}
        /\ op = None
        /\ UNCHANGED <<peer, next, machine, out, dbc, vec, chan, op, sending, work, worker, rows>>
    BY DEF AfterWork, peerVars, clientVars, dbVars
  <1>2. PICK b : b = Head(finished)
    OBVIOUS
  <1>3. /\ finished \in Seq(Batches) /\ b \in Batches /\ Tail(finished) \in Seq(Batches)
        /\ ToSet(finished) = {b} \cup ToSet(Tail(finished))
    BY <1>1, <1>2, ToSetHeadTail DEF Inv, TypeOK
  <1>4. Distinct(Tail(finished)) /\ b \notin ToSet(Tail(finished))
    <2>1. Distinct(finished)
      BY DEF Inv, OnePlace
    <2>2. IsPart(Tail(finished), finished) /\ b \notin ToSet(Tail(finished))
      BY <1>1, <1>2, <1>3, <2>1, HeadIsGone, PartTail
    <2> QED BY <1>3, <2>1, <2>2, PartKeeps
  <1>5. Jobs' = Jobs /\ Taken' \subseteq Taken /\ Open' = Open
    BY <1>1, <1>3 DEF Jobs, Taken, Open
  <1>6. Handled'
    BY <1>1, HandledLasts DEF Inv
  <1>7. OnePlace'
    BY <1>1, <1>3, <1>4, <1>5 DEF Inv, OnePlace
  <1>8. live' = Held'
    <2>1. b \in Taken /\ b \notin ToSet(work) /\ b \notin Jobs
      BY <1>3 DEF Taken, Inv, OnePlace
    <2>2. \A c \in Conns : b \notin ToSet(vec[c])
      BY <2>1, TakenIsRead
    <2> QED BY <1>1, <1>2, <1>3, <1>4, <1>5, <2>1, <2>2 DEF Inv, Held
  <1>9. ASSUME NEW d \in Conns PROVE Local(d)'
    <2>1. Delivered(d)' = Delivered(d)
      BY <1>1 DEF Delivered, Chosen
    <2> QED BY <1>1, <1>5, <2>1, Untouched DEF Inv
  <1> QED BY <1>6, <1>7, <1>8, <1>9 DEF Inv

-----------------------------------------------------------------------------
(* The invariant *)

\* The initial state, and what an abnormal end leaves.
Nothing ==
  /\ chan = [c \in Conns |-> <<>>] /\ out = [c \in Conns |-> <<>>] /\ vec = [c \in Conns |-> <<>>]
  /\ op = None /\ sending = <<>> /\ work = <<>> /\ finished = <<>>
  /\ worker = [w \in Workers |-> Idle] /\ live = {}
  /\ \A c \in Conns : peer[c] \in {"off", "gone"}

\* A process that holds nothing satisfies the inductive invariant.
LEMMA NothingInv == TypeOK /\ Nothing => Inv
  <1> SUFFICES ASSUME TypeOK, Nothing PROVE Inv
    OBVIOUS
  <1>1. /\ ToSet(work) = {} /\ ToSet(finished) = {} /\ ToSet(sending) = {}
        /\ \A c \in Conns : ToSet(vec[c]) = {} /\ ToSet(chan[c]) = {} /\ ToSet(out[c]) = {}
    BY ToSetEmpty DEF TypeOK, Nothing
  <1>2. \A w \in Workers : worker[w] = Idle /\ worker[w].pc = "idle"
    BY DEF Nothing, Idle
  <1>3. Taken = {} /\ Open = {} /\ Jobs = {}
    BY <1>1, <1>2 DEF Taken, Open, Jobs, Nothing
  <1>4. Handled
    BY <1>2 DEF Handled, Nothing
  <1>5. OnePlace
    BY <1>1, <1>2, <1>3, EmptySeq DEF OnePlace, Distinct, Nothing
  <1>6. live = Held
    BY <1>1, <1>3 DEF Held, Nothing
  <1>7. ASSUME NEW c \in Conns PROVE Local(c)
    <2>1. ToSet(Pipe(c)) = {} /\ ToSet(Line(c)) = {} /\ Pipe(c) = <<>> /\ Line(c) = <<>>
      BY <1>1, QueueTypes, ToSetEmpty DEF Queues
    <2>2. Asked(c) = {} /\ Replied(c) = {}
      BY <1>3, <2>1 DEF Asked, Replied
    <2>3. Single(Line(c)) /\ Increasing(Pipe(c))
      BY <2>1, EmptySeq DEF Single, Increasing
    <2>4. peer[c] \in {"off", "gone"} /\ out[c] = <<>>
      BY DEF Nothing
    <2>5. Named(c) /\ InOrder(c) /\ Answered(c) /\ Meaning(c)
      BY <1>3, <2>1, <2>2, <2>3 DEF Named, InOrder, Answered, Meaning
    <2>6. Known(c) /\ Phase(c)
      BY <2>1, <2>2, <2>4 DEF Known, Phase
    <2> QED BY <2>5, <2>6 DEF Local
  <1> QED BY <1>4, <1>5, <1>6, <1>7 DEF Inv

\* An abnormal end keeps the inductive invariant.
LEMMA StopsKeeps ==
  ASSUME TypeOK', Stops
  PROVE  Inv'
  <1>1. (TypeOK /\ Nothing => Inv)'
    BY NothingInv, PTL
  <1>2. Nothing'
    BY DEF Stops, Nothing
  <1> QED BY <1>1, <1>2

\* The pool is left alone.
LEMMA PoolRests ==
  ASSUME Inv, UNCHANGED <<op, work, worker, finished, rows>>
  PROVE  Handled' /\ OnePlace' /\ Taken' = Taken /\ Open' = Open
         /\ Held' = (UNION {ToSet(vec'[c]) : c \in Conns}) \cup Taken
  <1>1. Jobs' = Jobs
    BY DEF Jobs
  <1>2. Handled'
    BY DEF Inv, Handled
  <1>3. OnePlace'
    BY <1>1 DEF Inv, OnePlace
  <1>4. Taken' = Taken /\ Open' = Open /\ Held' = (UNION {ToSet(vec'[c]) : c \in Conns}) \cup Taken
    BY <1>1 DEF Taken, Open, Held
  <1> QED BY <1>2, <1>3, <1>4

\* A message waits in one decoder, and is in nobody's hands then.
LEMMA WaitsOnce ==
  ASSUME Inv, NEW c \in Conns, NEW m \in ToSet(vec[c])
  PROVE  m \notin Taken /\ m.c = c /\ \A d \in Conns \ {c} : m \notin ToSet(vec[d])
  <1>1. \A d \in Conns : ToSet(vec[d]) \subseteq ToSet(Pipe(d))
    BY QueueTypes DEF Inv, Queues
  <1>2. m \notin Taken
    BY TakenIsRead
  <1>3. \A d \in Conns : \A n \in ToSet(vec[d]) : n.c = d
    BY <1>1 DEF Inv, Local, Named
  <1> QED BY <1>2, <1>3

\* Connections that are closed take the messages of their decoders with them.
LEMMA ClosedHeld ==
  ASSUME Inv, TypeOK', NEW C \in SUBSET Conns,
         \A d \in Conns : vec'[d] = IF d \in C THEN <<>> ELSE vec[d],
         live' = live \ (UNION {ToSet(vec[c]) : c \in C}),
         Held' = (UNION {ToSet(vec'[c]) : c \in Conns}) \cup Taken
  PROVE  live' = Held'
  <1>1. \A d \in Conns : ToSet(vec'[d]) = IF d \in C THEN {} ELSE ToSet(vec[d])
    BY ToSetEmpty DEF TypeOK
  <1>2. live = (UNION {ToSet(vec[c]) : c \in Conns}) \cup Taken
    BY TakenTypes DEF Inv, TakenMessages
  <1>3. \A c \in C : \A m \in ToSet(vec[c]) : m \notin Taken /\ \A d \in Conns \ {c} : m \notin ToSet(vec[d])
    BY WaitsOnce
  <1>4. \A m : m \in live' => m \in Held'
    BY <1>1, <1>2
  <1>5. \A m : m \in Held' => m \in live'
    BY <1>1, <1>2, <1>3
  <1> QED BY <1>4, <1>5

\* The steps that hand no message on keep the inductive invariant.
LEMMA QuietKeeps ==
  ASSUME Inv, TypeOK', ~Stops,
         \/ PeerStep \/ WriteToNetwork \/ StopLoop \/ Exit \/ DropDatabase \/ SIGTERM
         \/ \E c \in Conns : Accept(c) \/ ReadError(c) \/ UvClose(c)
  PROVE  Inv'
  <1>1. UNCHANGED <<op, work, worker, finished, rows>>
    BY DEF PeerStep, PeerConnect, PeerReceive, PeerSend, PeerClose, WriteToNetwork, StopLoop,
           Exit, DropDatabase, SIGTERM, Accept, ReadError, UvClose, poolVars, dbVars
  <1>2. Handled' /\ OnePlace' /\ Held' = (UNION {ToSet(vec'[c]) : c \in Conns}) \cup Taken
    BY <1>1, PoolRests
  <1>3. \A d \in Conns : Local(d)'
    BY PeerStepKeeps, WriteKeeps, StopKeeps, ConnectionKeeps DEF Inv
  <1>4. live' = Held'
    <2>1. CASE \E c \in Conns : UvClose(c)
      <3>1. PICK c \in Conns : UvClose(c)
        BY <2>1
      <3>2. /\ \A d \in Conns : vec'[d] = IF d \in {c} THEN <<>> ELSE vec[d]
            /\ live' = live \ (UNION {ToSet(vec[d]) : d \in {c}})
        BY <3>1 DEF UvClose, Inv, TypeOK
      <3>3. {c} \in SUBSET Conns
        OBVIOUS
      <3> QED BY <1>2, <3>2, <3>3, ClosedHeld
    <2>2. CASE StopLoop
      <3>1. PICK C : C = Walked
        OBVIOUS
      <3>2. /\ \A d \in Conns : vec'[d] = IF d \in C THEN <<>> ELSE vec[d]
            /\ live' = live \ (UNION {ToSet(vec[d]) : d \in C})
        BY <2>2, <3>1 DEF StopLoop
      <3>3. C \in SUBSET Conns
        BY <3>1 DEF Walked, Inv, TypeOK
      <3> QED BY <1>2, <3>2, <3>3, ClosedHeld
    <2>3. CASE vec' = vec /\ live' = live
      <3>1. live = (UNION {ToSet(vec[c]) : c \in Conns}) \cup Taken
        BY TakenTypes DEF Inv, TakenMessages
      <3> QED BY <1>2, <2>3, <3>1
    <2>4. \/ \E c \in Conns : UvClose(c)
          \/ StopLoop
          \/ vec' = vec /\ live' = live
      BY DEF PeerStep, PeerConnect, PeerReceive, PeerSend, PeerClose, WriteToNetwork,
             Exit, DropDatabase, SIGTERM, Accept, ReadError, clientVars
    <2> QED BY <2>1, <2>2, <2>3, <2>4
  <1> QED BY <1>2, <1>3, <1>4 DEF Inv

\* The end of a transaction of the loop keeps the inductive invariant.
LEMMA FinishKeeps ==
  ASSUME Inv, TypeOK', ~Stops, FinishConnect \/ FinishQuery
  PROVE  Inv'
  <1>1. PICK a : LoopAnswers(a)
    BY FinishAnswers DEF Inv
  <1>2. live' = live \ {op}
    BY FinishAnswers DEF Inv
  <1>3. \A d \in Conns : Local(d)'
    BY <1>1, LoopAnswerKeeps DEF Inv
  <1>4. /\ op \in Requests /\ op # None /\ op' = None
        /\ UNCHANGED <<vec, work, worker, finished, rows>>
    BY <1>1, NoneIsNoMessage DEF LoopAnswers
  <1>5. Jobs' = Jobs
    BY <1>4 DEF Jobs
  <1>6. Handled'
    BY <1>4, HandledLasts DEF Inv
  <1>7. OnePlace'
    BY <1>4, <1>5 DEF Inv, OnePlace
  <1>8. live' = Held'
    <2>1. op \in Taken
      BY <1>4 DEF Taken
    <2>2. \A c \in Conns : op \notin ToSet(vec[c])
      BY <2>1, TakenIsRead
    <2>3. op \notin Batches
      BY <1>4, BatchTypes DEF Inv, Handled
    <2>4. op \notin ToSet(work) \cup Jobs \cup ToSet(finished)
      BY <2>3, TakenTypes DEF Inv, TakenMessages
    <2> QED BY <1>2, <1>4, <1>5, <2>2, <2>4 DEF Inv, Held
  <1> QED BY <1>3, <1>6, <1>7, <1>8 DEF Inv

\* A read moves one message on, and the decoder keeps the rest.
LEMMA ReadMoves ==
  ASSUME Inv, TypeOK', NEW c \in Conns, NEW k \in 0..Len(chan[c]), NEW m, NEW Q,
         Decoded(c, k) # <<>>, m = Head(Decoded(c, k)), Q = ToSet(Decoded(c, k)),
         vec' = [vec EXCEPT ![c] = Tail(Decoded(c, k))], ReadEffect(c, m)
  PROVE  /\ m \in Requests /\ m.c = c /\ m \notin Taken
         /\ (UNION {ToSet(vec[d]) : d \in Conns}) \cup Q
              = (UNION {ToSet(vec'[d]) : d \in Conns}) \cup {m}
         /\ m \notin UNION {ToSet(vec'[d]) : d \in Conns}
  <1>1. m \in Requests /\ m.c = c /\ m \notin Taken /\ m \notin ToSet(Pipe(c))'
    BY HeadIsAlone DEF Inv, ReadEffect
  <1>2. Q = ToSet(vec[c]) \cup ToSet(SubSeq(chan[c], 1, k))
    <2>1. vec[c] \in Seq(Requests) /\ chan[c] \in Seq(Requests)
      BY DEF Inv, TypeOK
    <2>2. SubSeq(chan[c], 1, k) \in Seq(Requests)
      BY <2>1, ToSetSplit
    <2> QED BY <2>1, <2>2, ToSetConcat DEF Decoded
  <1>3. vec'[c] = Tail(Decoded(c, k)) /\ \A d \in Conns \ {c} : vec'[d] = vec[d]
    BY DEF Inv, TypeOK
  <1>4. Q = {m} \cup ToSet(vec'[c])
    <2>1. Decoded(c, k) \in Seq(Requests)
      BY ReadQueues DEF Inv
    <2> QED BY <1>3, <2>1, ToSetHeadTail
  <1>5. m \notin ToSet(vec'[c])
    <2>1. Queues(c)'
      BY NextTypes
    <2>2. ToSet(vec[c])' = ToSet(vec'[c])
      BY DEF ToSet
    <2> QED BY <1>1, <2>1 DEF Queues
  <1>6. \A d \in Conns \ {c} : m \notin ToSet(vec'[d])
    <2>1. \A d \in Conns : \A n \in ToSet(vec[d]) : n.c = d
      BY WaitsOnce
    <2> QED BY <1>1, <1>3, <2>1
  <1>7. \A n : n \in (UNION {ToSet(vec[d]) : d \in Conns}) \cup Q
              => n \in (UNION {ToSet(vec'[d]) : d \in Conns}) \cup {m}
    BY <1>2, <1>3, <1>4
  <1>8. \A n : n \in (UNION {ToSet(vec'[d]) : d \in Conns}) \cup {m}
              => n \in (UNION {ToSet(vec[d]) : d \in Conns}) \cup Q
    BY <1>3, <1>4
  <1> QED BY <1>1, <1>5, <1>6, <1>7, <1>8

\* A read keeps the inductive invariant.
LEMMA ReadInv ==
  ASSUME Inv, TypeOK', NEW c \in Conns, Read(c), ~Stops
  PROVE  Inv'
  <1>1. PICK k \in 0..Len(chan[c]) :
           /\ Decoded(c, k) # <<>> /\ vec' = [vec EXCEPT ![c] = Tail(Decoded(c, k))]
           /\ ReadEffect(c, Head(Decoded(c, k)))
           /\ HandleMessage(c, Head(Decoded(c, k)), ToSet(Decoded(c, k)))
    BY ReadDoes DEF Inv
  <1>2. PICK m : m = Head(Decoded(c, k))
    OBVIOUS
  <1>3. PICK Q : Q = ToSet(Decoded(c, k))
    OBVIOUS
  <1>4. ReadEffect(c, m) /\ HandleMessage(c, m, Q)
    BY <1>1, <1>2, <1>3
  <1>5. \A d \in Conns : Local(d)'
    BY <1>4, ReadKeeps DEF Inv
  <1>6. /\ m \in Requests /\ m.c = c /\ m \notin Taken
        /\ (UNION {ToSet(vec[d]) : d \in Conns}) \cup Q
             = (UNION {ToSet(vec'[d]) : d \in Conns}) \cup {m}
        /\ m \notin UNION {ToSet(vec'[d]) : d \in Conns}
    BY <1>1, <1>2, <1>3, <1>4, ReadMoves
  <1>7. worker' = worker /\ finished' = finished /\ rows' = rows /\ Jobs' = Jobs
    BY <1>4 DEF ReadEffect, Jobs
  <1>8. Handled'
    BY <1>4, <1>7 DEF Inv, Handled, ReadEffect
  <1>9. OnePlace'
    <2>1. CASE work' = work
      BY <1>7, <2>1 DEF Inv, OnePlace
    <2>2. CASE m.op = "LOG" /\ work' = Append(work, m)
      <3>1. m \in Batches /\ work \in Seq(Batches)
        BY <1>6, <2>2, RequestTypes DEF Inv, TypeOK
      <3>2. work' \in Seq(Batches) /\ IsAppend(work', work, m)
        BY <2>2, <3>1, AppendIs
      <3>3. m \notin ToSet(work) /\ m \notin Jobs /\ m \notin ToSet(finished)
        BY <1>6 DEF Taken
      <3>4. Distinct(work') /\ ToSet(work') = ToSet(work) \cup {m}
        BY <3>1, <3>2, <3>3, AppendKeeps DEF Inv, OnePlace
      <3> QED BY <1>7, <3>3, <3>4 DEF Inv, OnePlace
    <2> QED BY <1>4, <2>1, <2>2 DEF ReadEffect
  <1>10. live' = Held'
    <2>1. Held' = (UNION {ToSet(vec'[d]) : d \in Conns}) \cup Taken'
      BY NextTypes DEF TakenMessages
    <2>2. live = (UNION {ToSet(vec[d]) : d \in Conns}) \cup Taken
      BY TakenTypes DEF Inv, TakenMessages
    <2>3. CASE live' = (live \cup Q) \ {m} /\ work' = work /\ op' = op
      <3>1. Taken' = Taken
        BY <1>7, <2>3 DEF Taken
      <3> QED BY <1>6, <2>1, <2>2, <2>3, <3>1
    <2>4. CASE live' = live \cup Q /\ sending' = sending
      <3>1. Answer(m, "REFUSE", 0) \in Answers /\ sending \in Seq(Answers)
        BY <1>6, AnswerTypes DEF Inv, TypeOK
      <3>2. sending' # Append(sending, Answer(m, "REFUSE", 0))
        BY <2>4, <3>1, LenProperties
      <3>3. Taken' = Taken \cup {m}
        BY <1>4, <1>6, <3>2, ReadTaken DEF Inv
      <3> QED BY <1>6, <2>1, <2>2, <2>4, <3>3
    <2>5. \/ live' = (live \cup Q) \ {m} /\ work' = work /\ op' = op
          \/ live' = live \cup Q /\ sending' = sending
      BY <1>4 DEF HandleMessage, Disposed
    <2> QED BY <2>3, <2>4, <2>5
  <1> QED BY <1>5, <1>8, <1>9, <1>10 DEF Inv

-----------------------------------------------------------------------------
(* The invariant is inductive *)

\* A stuttering step keeps the inductive invariant.
LEMMA StutterInv ==
  ASSUME Inv, TypeOK', UNCHANGED vars
  PROVE  Inv'
  <1>1. UNCHANGED <<peer, next, machine, out, dbc, vec, chan, op, sending, work, worker,
                    finished, rows, live>>
    BY DEF vars, peerVars, clientVars, poolVars, dbVars
  <1>2. Handled' /\ OnePlace' /\ Taken' = Taken /\ Open' = Open
    BY <1>1, PoolRests
  <1>3. ASSUME NEW d \in Conns PROVE Local(d)'
    BY <1>1, <1>2, Untouched DEF Inv, Delivered, Chosen
  <1>4. live' = Held'
    BY <1>1 DEF Inv, Held, Jobs
  <1> QED BY <1>2, <1>3, <1>4 DEF Inv

\* The inductive invariant holds at the start.
LEMMA InitInv == Init => Inv
  <1> SUFFICES ASSUME Init PROVE Inv
    OBVIOUS
  <1>1. Nothing
    BY DEF Init, Nothing
  <1> QED BY <1>1, InitTypes, NothingInv

\* Every step keeps the inductive invariant.
LEMMA StepInv == Inv /\ [Next]_vars => Inv'
  <1> SUFFICES ASSUME Inv, [Next]_vars PROVE Inv'
    OBVIOUS
  <1>1. TypeOK'
    BY StepTypes DEF Inv
  <1>2. CASE Stops
    BY <1>1, <1>2, StopsKeeps
  <1>3. CASE UNCHANGED vars
    BY <1>1, <1>3, StutterInv
  <1>4. CASE PeerStep \/ DropDatabase \/ SIGTERM
    BY <1>1, <1>2, <1>4, QuietKeeps
  <1>5. CASE LoopStep
    BY <1>1, <1>2, <1>5, QuietKeeps, ReadInv, FinishKeeps, AfterWorkKeeps DEF LoopStep
  <1>6. CASE \E w \in Workers : WorkerStep(w)
    BY <1>1, <1>2, <1>6, StartKeeps, InsertKeeps, AcceptBatchKeeps, WakeKeeps, FinishWorkKeeps
    DEF WorkerStep
  <1> QED BY <1>3, <1>4, <1>5, <1>6 DEF Next

\* The invariant holds in every reachable state.
THEOREM Invariant == Spec => []Inv
  BY InitInv, StepInv, PTL DEF Spec
-----------------------------------------------------------------------------
(* What follows from it *)

\* The inductive invariant implies ClientKnownBeforeUse.
LEMMA KnownBeforeUse == Inv => ClientKnownBeforeUse
  <1> SUFFICES ASSUME Inv, NEW m \in Held, m.op # "CONNECT"
               PROVE  dbc[m.c] = machine[m.c]
    BY DEF ClientKnownBeforeUse
  <1>1. m.c \in Conns /\ m \in Asked(m.c)
    <2>1. CASE m \in Taken
      BY <2>1, TakenTypes, RequestTypes DEF Inv, TakenMessages, Asked
    <2>2. CASE \E c \in Conns : m \in ToSet(vec[c])
      <3>1. PICK c \in Conns : m \in ToSet(vec[c])
        BY <2>2
      <3>2. m \in ToSet(Pipe(c)) /\ m.c = c
        BY <3>1, QueueTypes DEF Inv, Queues, Local, Named
      <3> QED BY <3>2 DEF Asked
    <2> QED BY <2>1, <2>2, TakenTypes DEF Inv, TakenMessages
  <1> QED BY <1>1 DEF Inv, Local, Known

\* The inductive invariant implies ResumeWithoutGap.
LEMMA NoGap == Inv => ResumeWithoutGap
  <1> SUFFICES ASSUME Inv, NEW a \in ToSet(sending) \cup (UNION {ToSet(out[c]) : c \in Conns}),
                      a.op = "RETURN"
               PROVE  a.id <= LastEventRecordID(machine[a.to]) + 1
    BY DEF ResumeWithoutGap
  <1>1. PICK c \in Conns : a \in ToSet(Line(c))
    <2>1. CASE a \in ToSet(sending)
      <3>1. a.to \in Conns
        BY <2>1, ToSetByIndex, AnswerTypes DEF Inv, TypeOK
      <3> QED BY <2>1, <3>1, QueueTypes DEF Inv, Queues
    <2>2. CASE \E c \in Conns : a \in ToSet(out[c])
      BY <2>2, QueueTypes DEF Inv, Queues
    <2> QED BY <2>1, <2>2
  <1>2. a.to = c /\ machine[c] \in Machines
    BY <1>1 DEF Inv, Local, Named, TypeOK
  <1>3. a.id \in 1..LastEventRecordID(machine[c]) + 1
    BY <1>1, <1>2 DEF Inv, Local, Meaning, Means
  <1>4. LastEventRecordID(machine[c]) \in Nat
    BY <1>2, LastTypes DEF Inv, LastStored
  <1>5. PICK l : l = LastEventRecordID(machine[c])
    OBVIOUS
  <1> QED BY <1>2, <1>3, <1>4, <1>5

\* A set of at most one element.
LEMMA OneOrNone ==
  ASSUME NEW T, \A x, y \in T : x = y
  PROVE  /\ IsFiniteSet(T)
         /\ T = {} => Cardinality(T) = 0
         /\ T # {} => Cardinality(T) = 1
  <1>1. CASE T = {}
    BY <1>1, FS_EmptySet
  <1>2. CASE T # {}
    <2>1. PICK x : T = {x}
      BY <1>2
    <2> QED BY <2>1, FS_Singleton
  <1> QED BY <1>1, <1>2

\* The inductive invariant implies OneOwner.
LEMMA OneOwnerEach == Inv => OneOwner
  <1> SUFFICES ASSUME Inv, NEW m \in live PROVE Owners(m) = 1
    BY DEF OneOwner, Inv
  <1> DEFINE V == {c \in Conns : m \in ToSet(vec[c])}
             Q == {i \in DOMAIN work : work[i] = m}
             J == {w \in Workers : worker[w].job = m}
             F == {i \in DOMAIN finished : finished[i] = m}
  <1>1. m \in Requests /\ m # None /\ m \in Held
    BY NoneIsNoMessage DEF Inv, TypeOK
  <1>2. work \in Seq(Batches) /\ finished \in Seq(Batches)
        /\ DOMAIN work = 1..Len(work) /\ DOMAIN finished = 1..Len(finished)
    BY LenProperties DEF Inv, TypeOK
  <1>3. /\ \A c, d \in V : c = d
        /\ V # {} => m \notin Taken
    BY WaitsOnce
  <1>4. /\ \A i, j \in Q : i = j
        /\ Q # {} <=> m \in ToSet(work)
    BY <1>2, ToSetByIndex DEF Inv, OnePlace, Distinct
  <1>5. /\ \A i, j \in F : i = j
        /\ F # {} <=> m \in ToSet(finished)
    BY <1>2, ToSetByIndex DEF Inv, OnePlace, Distinct
  <1>6. /\ \A v, w \in J : v = w
        /\ J # {} <=> m \in Jobs
    <2>1. \A w \in Workers : worker[w].job = m => worker[w] # Idle
      BY <1>1 DEF Idle
    <2> QED BY <2>1 DEF Inv, OnePlace, Jobs
  <1>7. op = m => m \notin ToSet(work) \cup Jobs \cup ToSet(finished)
    BY <1>1, BatchTypes, TakenTypes DEF Inv, Handled, TakenMessages
  <1>8. /\ V # {} => op # m /\ Q = {} /\ J = {} /\ F = {}
        /\ op = m => Q = {} /\ J = {} /\ F = {}
        /\ Q # {} => J = {} /\ F = {}
        /\ J # {} => F = {}
        /\ V # {} \/ op = m \/ Q # {} \/ J # {} \/ F # {}
    BY <1>1, <1>3, <1>4, <1>5, <1>6, <1>7 DEF Taken, Held, Inv, OnePlace
  <1> HIDE DEF V, Q, J, F
  <1>9. /\ Cardinality(V) = IF V = {} THEN 0 ELSE 1
        /\ Cardinality(Q) = IF Q = {} THEN 0 ELSE 1
        /\ Cardinality(J) = IF J = {} THEN 0 ELSE 1
        /\ Cardinality(F) = IF F = {} THEN 0 ELSE 1
    BY <1>3, <1>4, <1>5, <1>6, OneOrNone
  <1>10. Owners(m) = Cardinality(V) + (IF op = m THEN 1 ELSE 0) + Cardinality(Q)
                     + Cardinality(J) + Cardinality(F)
    BY DEF Owners, V, Q, J, F
  <1> QED BY <1>8, <1>9, <1>10

\* Of the answers chosen from a queue, no two answer the same request.
LEMMA ChosenSingle ==
  ASSUME NEW S, NEW s \in Seq(S), NEW P \in SUBSET (1..Len(s)), Single(Chosen(s, P))
  PROVE  \A i, j \in P : s[i].of = s[j].of => i = j
  <1> DEFINE t == Chosen(s, P)
             r(i) == Cardinality(Below(P, i)) + 1
  <1>1. IsChosen(t, s, P)
    BY ChosenElements
  <1>2. IsFiniteSet(P) /\ Len(s) \in Nat
    <2>1. Len(s) \in Nat
      BY LenProperties
    <2>2. IsFiniteSet(1..Len(s))
      BY <2>1, FS_Interval
    <2> QED BY <2>1, <2>2, FS_Subset
  <1>3. \A i, j \in P : Cardinality(Below(P, i)) = Cardinality(Below(P, j)) => i = j
    BY <1>2, NthPosition
  <1> HIDE DEF t
  <1>4. \A i \in P : r(i) \in 1..Len(t) /\ t[r(i)] = s[i]
    BY <1>1 DEF IsChosen
  <1>5. \A i, j \in P : r(i) = r(j) => i = j
    <2>1. \A i \in P : IsFiniteSet(Below(P, i)) /\ Cardinality(Below(P, i)) \in Nat
      <3>1. P \subseteq Nat
        BY <1>2
      <3> QED BY <1>2, <3>1, BelowNext
    <2> QED BY <1>3, <2>1
  <1>6. Single(t)
    BY DEF t
  <1> HIDE DEF r
  <1> QED BY <1>4, <1>5, <1>6 DEF Single

\* The inductive invariant implies AcceptAfterTransaction.
LEMMA AcceptedAfter == Inv => AcceptAfterTransaction
  <1> SUFFICES ASSUME Inv, NEW b \in Batches, Acceptances(b) > 0
               PROVE  /\ b.full /\ Acceptances(b) = 1
                      /\ b.kind = "good" => b \in rows
                      /\ b \notin ToSet(work)
                      /\ \A w \in Workers : worker[w].job = b => worker[w].pc \in {"wake", "return"}
    BY DEF AcceptAfterTransaction
  <1> DEFINE c == b.c
             A == {i \in DOMAIN sending : sending[i].op = "ACCEPT" /\ sending[i].of = b}
             B == {i \in DOMAIN out[c] : out[c][i].op = "ACCEPT" /\ out[c][i].of = b}
             P == {i \in DOMAIN sending : sending[i].to = c}
  <1>1. c \in Conns /\ b \in Requests /\ b.op = "LOG"
    BY BatchTypes
  <1>2. /\ sending \in Seq(Answers) /\ out[c] \in Seq(Answers) /\ Delivered(c) \in Seq(Answers)
        /\ DOMAIN sending = 1..Len(sending) /\ DOMAIN out[c] = 1..Len(out[c])
        /\ Queues(c)
    BY <1>1, QueueTypes, LenProperties DEF Inv, TypeOK, Queues
  <1>3. \A i \in A : sending[i] \in ToSet(sending) /\ i \in P /\ sending[i] \in ToSet(Line(c))
    <2> SUFFICES ASSUME NEW i \in A
                 PROVE  sending[i] \in ToSet(sending) /\ sending[i].to = c
                        /\ sending[i] \in ToSet(Line(c))
      OBVIOUS
    <2>1. sending[i] \in ToSet(sending) /\ sending[i] \in Answers /\ sending[i].of = b
      BY <1>2, ToSetByIndex
    <2>2. sending[i].to \in Conns
      BY <2>1, AnswerTypes
    <2>3. sending[i] \in ToSet(Line(sending[i].to))
      BY <2>1, <2>2, QueueTypes DEF Inv, Queues
    <2>4. sending[i].to = c
      BY <2>1, <2>2, <2>3 DEF Inv, Local, Named
    <2> QED BY <2>1, <2>3, <2>4
  <1>4. \A i \in B : out[c][i] \in ToSet(out[c]) /\ out[c][i] \in ToSet(Line(c))
    <2>1. ToSet(out[c]) = {out[c][i] : i \in 1..Len(out[c])}
      BY <1>2, ToSetByIndex
    <2> QED BY <1>2, <2>1 DEF Queues
  <1>5. Single(Line(c)) /\ Single(out[c]) /\ Single(Delivered(c))
    <2>1. Single(Line(c))
      BY <1>1 DEF Inv, Local, Answered
    <2>2. /\ out[c] \o Delivered(c) \in Seq(Answers)
          /\ IsPart(out[c], out[c] \o Delivered(c)) /\ IsPart(Delivered(c), out[c] \o Delivered(c))
      BY <1>2, PartConcat, ToSetConcat
    <2> QED BY <1>2, <2>1, <2>2, PartKeeps DEF Line
  <1>6. \A i, j \in A : i = j
    <2>1. P \in SUBSET (1..Len(sending)) /\ Single(Chosen(sending, P))
      BY <1>2, <1>5 DEF Delivered
    <2>2. \A i, j \in P : sending[i].of = sending[j].of => i = j
      <3> HIDE DEF P
      <3> QED BY <1>2, <2>1, ChosenSingle
    <2> QED BY <1>3, <2>2
  <1>7. \A i, j \in B : i = j
    BY <1>2, <1>5 DEF Single
  <1>8. A = {} \/ B = {}
    <2> SUFFICES ASSUME NEW i \in A, NEW j \in B PROVE FALSE
      OBVIOUS
    <2>1. sending[i] \in ToSet(Delivered(c)) /\ sending[i].of = b /\ out[c][j].of = b
      BY <1>2, <1>3, DeliveredElements
    <2>2. PICK D : D = Delivered(c)
      OBVIOUS
    <2>3. PICK o : o = out[c]
      OBVIOUS
    <2>4. ToSet(D) = {D[n] : n \in 1..Len(D)}
      <3>1. D \in Seq(Answers)
        BY <1>2, <2>2
      <3> QED BY <3>1, ToSetByIndex
    <2>5. /\ D \in Seq(Answers) /\ o \in Seq(Answers) /\ j \in 1..Len(o) /\ o[j].of = b
          /\ Single(o \o D) /\ \E n \in 1..Len(D) : D[n].of = b
      BY <1>2, <1>5, <2>1, <2>2, <2>3, <2>4 DEF Line
    <2>7. PICK n \in 1..Len(D) : D[n].of = b
      BY <2>5
    <2>6. /\ Len(o) + n \in 1..Len(o \o D) /\ j \in 1..Len(o \o D) /\ Len(o) + n # j
          /\ (o \o D)[Len(o) + n] = D[n] /\ (o \o D)[j] = o[j]
      BY <2>5, ConcatProperties, LenProperties
    <2> QED BY <2>5, <2>6, <2>7 DEF Single
  <1>9. A # {} \/ B # {}
    <2> SUFFICES ASSUME A = {}, B = {} PROVE FALSE
      OBVIOUS
    <2>1. Cardinality({}) = 0
      BY FS_EmptySet
    <2>2. Acceptances(b) = 0 + 0
      BY <2>1 DEF Acceptances
    <2> QED BY <2>2
  <1>10. Acceptances(b) = 1
    <2> HIDE DEF A, B
    <2>1. /\ Cardinality(A) = IF A = {} THEN 0 ELSE 1
          /\ Cardinality(B) = IF B = {} THEN 0 ELSE 1
      BY <1>6, <1>7, OneOrNone
    <2>2. Acceptances(b) = Cardinality(A) + Cardinality(B)
      BY DEF Acceptances, A, B
    <2> QED BY <1>8, <1>9, <2>1, <2>2
  <1>11. PICK a \in ToSet(Line(c)) : a.op = "ACCEPT" /\ a.of = b
    BY <1>3, <1>4, <1>9
  <1>12. b.full /\ (b.kind = "good" => b \in rows)
    BY <1>1, <1>11 DEF Inv, Local, Meaning, Means
  <1>13. b \notin Open
    BY <1>1, <1>11 DEF Inv, Local, Answered, Replied
  <1>14. ASSUME NEW w \in Workers, worker[w].job = b
         PROVE  worker[w].pc \in {"wake", "return"}
    <2>1. b # None
      BY <1>1, NoneIsNoMessage
    <2>2. worker[w].pc \in WorkerSteps
      BY <1>14, <2>1, WorkerTypes DEF Inv, TypeOK
    <2> QED BY <1>13, <1>14, <2>2 DEF Open, WorkerSteps
  <1> QED BY <1>10, <1>12, <1>13, <1>14 DEF Open

\* Client::_client is set before a batch or a query uses it.
THEOREM ClientIsKnown == Spec => []ClientKnownBeforeUse
  BY Invariant, KnownBeforeUse, PTL

\* A client is never told to go on beyond what is stored for its machine.
THEOREM NoEventSkipped == Spec => []ResumeWithoutGap
  BY Invariant, NoGap, PTL

\* Every message allocated has one owner, and is deleted once.
THEOREM MessagesOwnedOnce == Spec => []OneOwner
  BY Invariant, OneOwnerEach, PTL

\* A batch is accepted once, after its transaction, and only if it is full; it is
\* then in the table, unless the database rejected it.
THEOREM AcceptedOnce == Spec => []AcceptAfterTransaction
  BY Invariant, AcceptedAfter, PTL
=============================================================================
