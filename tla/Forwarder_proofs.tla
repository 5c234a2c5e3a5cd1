--------------------------- MODULE Forwarder_proofs ---------------------------
(***************************************************************************)
(* The inductive invariant of Forwarder, and the safety properties that    *)
(* follow from it, for every batch size and every length of the log.       *)
(***************************************************************************)
EXTENDS Forwarder, SequenceLemmas

-----------------------------------------------------------------------------
(* Messages *)

\* The forms a request has.
LEMMA RequestForms ==
  /\ Plain("CONNECT") \in Requests /\ Plain("CONNECT").op = "CONNECT"
  /\ Plain("QUERY") \in Requests /\ Plain("QUERY").op = "QUERY"
  /\ Batches \subseteq Requests
  /\ \A m \in Batches : m.op = "LOG" /\ m.rids \in Seq(Nat) /\ m.full \in BOOLEAN
  /\ \A m \in Requests : m.op \in {"CONNECT", "QUERY"} \/ m \in Batches
  <1>1. Plain("CONNECT").op = "CONNECT" /\ Plain("QUERY").op = "QUERY"
    BY DEF Plain
  <1>2. /\ Plain("CONNECT") \in Requests /\ Plain("QUERY") \in Requests
        /\ Batches \subseteq Requests
        /\ \A m \in Requests : m = Plain("CONNECT") \/ m = Plain("QUERY") \/ m \in Batches
    BY DEF Requests
  <1>3. \A m \in Batches : m.op = "LOG" /\ m.rids \in Seq(Nat) /\ m.full \in BOOLEAN
    BY DEF Batches
  <1> QED BY <1>1, <1>2, <1>3

\* A batch carries the record IDs and the flag it is made of.
LEMMA BatchForms ==
  ASSUME NEW rids \in Seq(Nat), NEW full \in BOOLEAN
  PROVE  Log(rids, full) \in Batches /\ Log(rids, full).rids = rids /\ Log(rids, full).full = full
  BY DEF Log, Batches

\* The forms an answer has.
LEMMA AnswerForms ==
  /\ Plain("CONNECT") \in Answers /\ Plain("CONNECT").op = "CONNECT"
  /\ Plain("REFUSE") \in Answers /\ Plain("REFUSE").op = "REFUSE"
  /\ \A i \in IDs : Numbered("RETURN", i) \in Answers /\ Numbered("RETURN", i).op = "RETURN"
  /\ \A i \in AnyIDs : Numbered("ACCEPT", i) \in Answers /\ Numbered("ACCEPT", i).op = "ACCEPT"
  /\ \A m \in Answers : /\ m.op \in {"CONNECT", "REFUSE", "RETURN", "ACCEPT"}
                        /\ m.op = "RETURN" => m.id \in IDs
                        /\ m.op = "ACCEPT" => m.id \in AnyIDs
  <1> DEFINE R == [op: {"RETURN"}, id: IDs]
             A == [op: {"ACCEPT"}, id: AnyIDs]
  <1>1. /\ Plain("CONNECT").op = "CONNECT" /\ Plain("REFUSE").op = "REFUSE"
        /\ \A i : Numbered("RETURN", i).op = "RETURN" /\ Numbered("ACCEPT", i).op = "ACCEPT"
    BY DEF Plain, Numbered
  <1>2. /\ \A i \in IDs : Numbered("RETURN", i) \in R
        /\ \A i \in AnyIDs : Numbered("ACCEPT", i) \in A
    BY DEF Numbered
  <1>3. /\ \A m \in R : m.op = "RETURN" /\ m.id \in IDs
        /\ \A m \in A : m.op = "ACCEPT" /\ m.id \in AnyIDs
    OBVIOUS
  <1> HIDE DEF R, A
  <1>4. /\ Plain("CONNECT") \in Answers /\ Plain("REFUSE") \in Answers
        /\ R \subseteq Answers /\ A \subseteq Answers
        /\ \A m \in Answers : m = Plain("CONNECT") \/ m = Plain("REFUSE") \/ m \in R \/ m \in A
    BY DEF Answers, R, A
  <1> QED BY <1>1, <1>2, <1>3, <1>4

-----------------------------------------------------------------------------
(* The order of what is in flight *)

\* SentInOrder of any sequence of requests.
Ordered(s, c) ==
  \A i \in 1..Len(s) :
    s[i].op = "LOG" =>
      /\ Increasing(s[i].rids) /\ \A a \in 1..Len(s[i].rids) : s[i].rids[a] \in 1..c
      /\ \A j \in 1..Len(s) : i < j /\ s[j].op = "LOG" => AllBefore(s[i].rids, s[j].rids)

\* t is what is left of s when some of it is gone.
Thinned(t, s) ==
  \E f \in [1..Len(t) -> 1..Len(s)] :
    /\ \A i \in 1..Len(t) : t[i] = s[f[i]]
    /\ \A i, j \in 1..Len(t) : i < j => f[i] < f[j]

\* What is left of an ordered sequence of batches is ordered.
LEMMA OrderedThinned ==
  ASSUME NEW s, NEW t, NEW c, Ordered(s, c), Thinned(t, s)
  PROVE  Ordered(t, c)
  <1>1. PICK f \in [1..Len(t) -> 1..Len(s)] :
          /\ \A i \in 1..Len(t) : t[i] = s[f[i]]
          /\ \A i, j \in 1..Len(t) : i < j => f[i] < f[j]
    BY DEF Thinned
  <1> SUFFICES ASSUME NEW i \in 1..Len(t), t[i].op = "LOG"
               PROVE  /\ Increasing(t[i].rids) /\ \A a \in 1..Len(t[i].rids) : t[i].rids[a] \in 1..c
                      /\ \A j \in 1..Len(t) : i < j /\ t[j].op = "LOG" => AllBefore(t[i].rids, t[j].rids)
    BY DEF Ordered
  <1>2. f[i] \in 1..Len(s) /\ t[i] = s[f[i]]
    BY <1>1
  <1>3. Increasing(t[i].rids) /\ \A a \in 1..Len(t[i].rids) : t[i].rids[a] \in 1..c
    BY <1>2 DEF Ordered
  <1>4. ASSUME NEW j \in 1..Len(t), i < j, t[j].op = "LOG"
        PROVE  AllBefore(t[i].rids, t[j].rids)
    <2>1. f[j] \in 1..Len(s) /\ t[j] = s[f[j]] /\ f[i] < f[j]
      BY <1>1, <1>4
    <2> QED BY <1>2, <1>4, <2>1 DEF Ordered
  <1> QED BY <1>3, <1>4

\* The ways in which a step thins what is in flight.
LEMMA ThinnedForms ==
  ASSUME NEW S, NEW s \in Seq(S), NEW b \in S
  PROVE  /\ Thinned(<<>>, s)
         /\ Thinned(s, Append(s, b))
         /\ Thinned(Append(<<>>, b), Append(s, b))
         /\ \A n \in 1..Len(s) : /\ Thinned(RemoveAt(s, n), s)
                                 /\ Thinned(Append(RemoveAt(s, n), b), Append(s, b))
  <1>1. PICK l \in Nat : l = Len(s)
    BY LenProperties
  <1>u. PICK u : u = Append(s, b)
    OBVIOUS
  <1>2. u \in Seq(S) /\ Len(u) = l + 1 /\ u[l + 1] = b /\ \A i \in 1..l : u[i] = s[i]
    BY <1>1, <1>u, Appended
  <1>3. Thinned(<<>>, s)
    <2>1. [i \in 1..0 |-> 1] \in [1..Len(<<>>) -> 1..Len(s)] /\ \A i \in 1..Len(<<>>) : FALSE
      BY EmptySeq
    <2> QED BY <2>1 DEF Thinned
  <1>4. Thinned(s, u)
    <2> DEFINE f == [i \in 1..l |-> i]
    <2>1. /\ f \in [1..Len(s) -> 1..Len(u)]
          /\ \A i \in 1..Len(s) : s[i] = u[f[i]]
          /\ \A i, j \in 1..Len(s) : i < j => f[i] < f[j]
      BY <1>1, <1>2
    <2> QED BY <2>1 DEF Thinned
  <1>5. Thinned(Append(<<>>, b), u)
    <2>v. PICK v : v = Append(<<>>, b)
      OBVIOUS
    <2>1. Len(v) = 1 /\ v[1] = b
      <3>1. <<>> \in Seq(S) /\ 0 \in Nat /\ 0 = Len(<<>>)
        BY EmptySeq
      <3>2. Len(v) = 0 + 1 /\ v[0 + 1] = b
        BY <2>v, <3>1, Appended
      <3> QED BY <3>2
    <2> DEFINE f == [i \in 1..1 |-> l + 1]
    <2>2. /\ f \in [1..Len(v) -> 1..Len(u)]
          /\ \A i \in 1..Len(v) : v[i] = u[f[i]]
          /\ \A i, j \in 1..Len(v) : i < j => f[i] < f[j]
      BY <1>2, <2>1
    <2>3. Thinned(v, u)
      BY <2>2 DEF Thinned
    <2> QED BY <2>v, <2>3
  <1>6. ASSUME NEW n \in 1..Len(s)
        PROVE  /\ Thinned(RemoveAt(s, n), s)
               /\ Thinned(Append(RemoveAt(s, n), b), u)
    <2>1. PICK r \in Seq(S) : r = RemoveAt(s, n) /\ IsRemoved(r, s, n)
      BY RemoveAtIs
    <2>2. PICK m \in Nat : m = Len(r) /\ l = m + 1
      BY <1>1, <2>1, LenProperties DEF IsRemoved
    <2>3. \A i \in 1..m : r[i] = IF i < n THEN s[i] ELSE s[i + 1]
      BY <2>1, <2>2 DEF IsRemoved
    <2> DEFINE f == [i \in 1..m |-> IF i < n THEN i ELSE i + 1]
    <2>4. /\ f \in [1..Len(r) -> 1..Len(s)]
          /\ \A i \in 1..Len(r) : r[i] = s[f[i]]
          /\ \A i, j \in 1..Len(r) : i < j => f[i] < f[j]
      BY <1>1, <2>2, <2>3
    <2>5. Thinned(r, s)
      BY <2>4 DEF Thinned
    <2>v. PICK v : v = Append(r, b)
      OBVIOUS
    <2>6. v \in Seq(S) /\ Len(v) = m + 1 /\ v[m + 1] = b /\ \A i \in 1..m : v[i] = r[i]
      BY <2>2, <2>v, Appended
    <2> DEFINE g == [i \in 1..m + 1 |-> IF i = m + 1 THEN l + 1 ELSE IF i < n THEN i ELSE i + 1]
    <2>7. g \in [1..Len(v) -> 1..Len(u)]
      BY <1>2, <2>2, <2>6
    <2>8. ASSUME NEW i \in 1..Len(v) PROVE v[i] = u[g[i]]
      <3>1. CASE i = m + 1
        BY <1>2, <2>6, <3>1
      <3>2. CASE i # m + 1
        <4>1. i \in 1..m /\ i \in 1..l /\ i + 1 \in 1..l
          BY <2>2, <2>6, <3>2
        <4>2. v[i] = IF i < n THEN s[i] ELSE s[i + 1]
          BY <2>3, <2>6, <4>1
        <4> QED BY <1>2, <2>6, <4>1, <4>2
      <3> QED BY <3>1, <3>2
    <2>9. \A i, j \in 1..Len(v) : i < j => g[i] < g[j]
      BY <2>2, <2>6
    <2>10. Thinned(v, u)
      <3> HIDE DEF g
      <3> QED BY <2>7, <2>8, <2>9 DEF Thinned
    <2> QED BY <2>1, <2>5, <2>v, <2>10
  <1> QED BY <1>u, <1>3, <1>4, <1>5, <1>6

\* A message of the handshake, and a batch of new records.
LEMMA OrderedAppend ==
  ASSUME NEW s \in Seq(Requests), NEW b \in Requests, NEW c \in Nat, NEW d \in Nat, c <= d,
         Ordered(s, c),
         \/ b.op # "LOG"
         \/ Increasing(b.rids) /\ \A a \in 1..Len(b.rids) : b.rids[a] \in c + 1..d
  PROVE  Ordered(Append(s, b), d)
  <1>1. PICK l \in Nat : l = Len(s)
    BY LenProperties
  <1>u. PICK u : u = Append(s, b)
    OBVIOUS
  <1>2. Len(u) = l + 1 /\ u[l + 1] = b /\ \A i \in 1..l : u[i] = s[i]
    BY <1>1, <1>u, Appended
  <1>3. ASSUME NEW i \in 1..l + 1, u[i].op = "LOG"
        PROVE  /\ Increasing(u[i].rids) /\ \A a \in 1..Len(u[i].rids) : u[i].rids[a] \in 1..d
               /\ \A j \in 1..l + 1 : i < j /\ u[j].op = "LOG" => AllBefore(u[i].rids, u[j].rids)
    <2>1. CASE i = l + 1
      <3>1. \A j \in 1..l + 1 : ~(i < j)
        BY <2>1
      <3>2. u[i] = b /\ b.op = "LOG"
        BY <1>2, <1>3, <2>1
      <3> QED BY <3>1, <3>2
    <2>2. CASE i # l + 1
      <3>1. i \in 1..l /\ u[i] = s[i]
        BY <1>2, <2>2
      <3>2. Increasing(u[i].rids) /\ \A a \in 1..Len(u[i].rids) : u[i].rids[a] \in 1..c
        BY <1>1, <1>3, <3>1 DEF Ordered
      <3>3. \A a \in 1..Len(u[i].rids) : u[i].rids[a] \in 1..d
        BY <3>2
      <3>4. ASSUME NEW j \in 1..l + 1, i < j, u[j].op = "LOG"
            PROVE  AllBefore(u[i].rids, u[j].rids)
        <4>1. CASE j = l + 1
          BY <1>2, <3>2, <3>4, <4>1 DEF AllBefore
        <4>2. CASE j # l + 1
          <5>1. j \in 1..l /\ u[j] = s[j]
            BY <1>2, <4>2
          <5> QED BY <1>1, <1>3, <3>1, <3>4, <5>1 DEF Ordered
        <4> QED BY <4>1, <4>2
      <3> QED BY <3>2, <3>3, <3>4
    <2> QED BY <2>1, <2>2
  <1> QED BY <1>u, <1>2, <1>3 DEF Ordered

\* SentInOrder is Ordered of what is in flight.
LEMMA InOrder == SentInOrder <=> Ordered(InFlight, cursor)
  BY DEF SentInOrder, Ordered

-----------------------------------------------------------------------------
(* The log *)

\* The range of the cursor and the log, as arithmetic.
LEMMA LogRange ==
  ASSUME NEW l, NEW c
  PROVE  l \in 0..MaxEvents /\ c \in 0..l <=>
           l \in Nat /\ c \in Nat /\ c <= l /\ l <= MaxEvents
  BY EventsAssumption

\* The types of the counters, as arithmetic.
LEMMA Counters ==
  ASSUME TypeOK
  PROVE  /\ log \in Nat /\ cursor \in Nat /\ cursor <= log /\ log <= MaxEvents /\ log - cursor \in Nat
         /\ lastID \in Nat
  <1>1. log \in Nat /\ cursor \in Nat /\ cursor <= log /\ log <= MaxEvents
    <2>1. log \in 0..MaxEvents /\ cursor \in 0..log
      BY DEF TypeOK
    <2> QED BY <2>1, LogRange
  <1>2. log - cursor \in Nat
    BY <1>1
  <1>3. lastID \in Nat
    <2>1. lastID \in {0} \cup 1..MaxEvents + 1
      BY DEF TypeOK, AnyIDs, IDs
    <2> QED BY <2>1, EventsAssumption
  <1> QED BY <1>1, <1>2, <1>3

\* What EnumerateResults takes from the log: new records, in their order.
LEMMA FreshRecords ==
  ASSUME TypeOK, NEW n \in Nat
  PROVE  LET q == Kept \o Fresh(n) IN
         q \in Seq(Nat) /\ Increasing(q) /\ \A a \in 1..Len(q) : q[a] \in cursor + 1..cursor + n
  <1>1. PICK c \in Nat : c = cursor
    BY Counters
  <1>2. PICK k \in Nat \ {0} : k = IF lastID > cursor THEN lastID - cursor ELSE 1
    <2>1. PICK m \in Nat : m = lastID
      BY Counters
    <2>2. (IF m > c THEN m - c ELSE 1) \in Nat \ {0}
      OBVIOUS
    <2> QED BY <1>1, <2>1, <2>2
  <1>r. PICK r : r = Records(n)
    OBVIOUS
  <1>3. r = Records(n) /\ \A i \in 1..n : r[i] = c + i
    BY <1>1, <1>r DEF Records
  <1> DEFINE f == SubSeq(r, k, n)
  <1>4. f = Fresh(n)
    BY <1>2, <1>3 DEF Fresh
  <1>5. /\ f \in Seq(Nat) /\ Len(f) = IF k <= n THEN n - k + 1 ELSE 0
        /\ \A i \in 1..n - k + 1 : f[i] = r[k + i - 1]
    <2>1. k \in Int /\ n \in Int /\ \A i \in k..n : r[i] \in Nat
      BY <1>3
    <2> QED BY <2>1, SubSeqProperties
  <1> HIDE DEF f
  <1>6. \A i \in 1..Len(f) : f[i] = c + k + i - 1 /\ f[i] \in c + 1..c + n
    <2>1. ASSUME NEW i \in 1..Len(f) PROVE f[i] = c + k + i - 1 /\ f[i] \in c + 1..c + n
      <3>1. k <= n /\ i \in 1..n - k + 1
        BY <1>5
      <3>2. k + i - 1 \in 1..n
        BY <3>1
      <3>3. f[i] = c + (k + i - 1)
        BY <1>3, <1>5, <3>1, <3>2
      <3> QED BY <3>2, <3>3
    <2> QED BY <2>1
  <1>7. Increasing(f)
    <2>1. PICK l \in Nat : l = Len(f)
      BY <1>5, LenProperties
    <2> QED BY <1>6, <2>1 DEF Increasing
  <1>8. Kept \o f = f
    BY <1>5, ConcatEmptySeq DEF Kept
  <1> QED BY <1>1, <1>4, <1>5, <1>6, <1>7, <1>8

-----------------------------------------------------------------------------
(* The steps *)

\* A step that leaves the connection and the handshake as they are.
LEMMA Quiet ==
  ASSUME Inv, UNCHANGED <<lastID, link, wire, inbound, vec>>, pc' = "suspended" <=> pc = "suspended"
  PROVE  Connected' /\ Suspended' /\ Resumed'
  BY DEF Inv, Connected, Suspended, Resumed

\* A step that moves no batch keeps SentInOrder.
LEMMA OrderStays ==
  ASSUME Inv, UNCHANGED <<cursor, wire>>, pc # "send" => pc' # "send",
         pc = "send" => pc' = "send" /\ batch' = batch
  PROVE  SentInOrder'
  BY DEF Inv, SentInOrder, InFlight

\* A step that moves no message keeps AcceptDue.
LEMMA DueStays ==
  ASSUME UNCHANGED <<wire, inbound, vec>>
  PROVE  AcceptDue' <=> AcceptDue
  BY DEF AcceptDue

\* A new event keeps the inductive invariant.
LEMMA NewEventKeeps ==
  ASSUME Inv, NewEvent
  PROVE  Inv'
  <1>1. /\ log < MaxEvents /\ log' = log + 1 /\ subscribe' = TRUE /\ raised' = raised \cup {"subscribe"}
        /\ UNCHANGED <<cursor, pc, woken, batch, upload, lastID, link, wire, inbound, vec, causes>>
    BY DEF NewEvent, threadVars, netVars
  <1>2. TypeOK'
    <2>1. log' \in 0..MaxEvents /\ cursor' \in 0..log'
      <3>1. PICK l \in Nat, c \in Nat : l = log /\ c = cursor /\ c <= l /\ l < MaxEvents
        BY <1>1, Counters DEF Inv
      <3>2. l + 1 \in 0..MaxEvents /\ c \in 0..l + 1
        BY <3>1, EventsAssumption
      <3> QED BY <1>1, <3>1, <3>2
    <2>2. raised' \subseteq {"subscribe", "upload"}
      BY <1>1 DEF Inv, TypeOK
    <2> QED BY <1>1, <2>1, <2>2 DEF Inv, TypeOK
  <1>3. Wakes'
    <2>1. pc' \in {"send", "reset"} => raised' \subseteq Signalled'
      BY <1>1 DEF Inv, Wakes, Signalled
    <2>2. "subscribe" \in raised'
      BY <1>1
    <2> QED BY <1>1, <2>1, <2>2 DEF Wakes
  <1>4. Connected' /\ Suspended' /\ Resumed' /\ SentInOrder'
    BY <1>1, Quiet, OrderStays
  <1> QED BY <1>2, <1>3, <1>4 DEF Inv

\* Subscribing keeps the inductive invariant.
LEMMA SubscribeKeeps ==
  ASSUME Inv, Subscribe
  PROVE  Inv'
  <1>1. /\ pc = "resumed"
        /\ \/ pc' = "wait" /\ causes' = causes
           \/ pc' = "ended" /\ causes' = causes \cup {"EvtSubscribe"}
        /\ UNCHANGED <<log, cursor, woken, batch, subscribe, upload, lastID, link, wire, inbound, vec, raised>>
    BY DEF Subscribe, netVars
  <1>2. TypeOK'
    BY <1>1 DEF Inv, TypeOK, Causes
  <1>3. Wakes'
    BY <1>1 DEF Inv, Wakes
  <1>4. Connected' /\ Suspended' /\ Resumed' /\ SentInOrder'
    BY <1>1, Quiet, OrderStays
  <1> QED BY <1>2, <1>3, <1>4 DEF Inv

\* The forwarding thread's waking keeps the inductive invariant.
LEMMA WakeKeeps ==
  ASSUME Inv, Wake
  PROVE  Inv'
  <1>1. /\ pc = "wait" /\ pc' = "enumerate" /\ woken' \in {"subscribe", "upload"}
        /\ UNCHANGED <<log, cursor, batch, subscribe, upload, lastID, link, wire, inbound, vec, raised, causes>>
    BY DEF Wake, netVars
  <1>2. TypeOK'
    BY <1>1 DEF Inv, TypeOK
  <1>3. Wakes'
    BY <1>1 DEF Wakes
  <1>4. Connected' /\ Suspended' /\ Resumed' /\ SentInOrder'
    BY <1>1, Quiet, OrderStays
  <1> QED BY <1>2, <1>3, <1>4 DEF Inv

\* Enumerating the events keeps the inductive invariant.
LEMMA EnumerateResultsKeeps ==
  ASSUME Inv, EnumerateResults
  PROVE  Inv'
  <1>1. /\ pc = "enumerate" /\ pc' = "send" /\ raised' = {}
        /\ UNCHANGED <<log, woken, subscribe, upload, lastID, link, wire, inbound, vec>>
    BY DEF EnumerateResults, netVars
  <1>2. PICK c \in Nat, d \in Nat : c = cursor /\ d = log - cursor
    BY Counters DEF Inv
  <1>3. /\ Available \in Nat /\ Available <= d
        /\ Available = d \/ (Available = EventsPerSend /\ NeedAccept(Available))
    BY <1>2, BatchAssumption DEF Available, NeedAccept
  <1>4. PICK n \in Nat, e \in Nat :
          /\ n <= e /\ e <= d /\ cursor' = c + e
          /\ \E full \in BOOLEAN :
               /\ batch' = Log(Kept \o Fresh(n), full)
               /\ causes' = {} => causes = {} /\ (full \/ e = d)
          /\ causes' \subseteq Causes
    <2>1. CASE /\ cursor' = cursor + Available
               /\ batch' = Log(Kept \o Fresh(Available), NeedAccept(Available))
               /\ UNCHANGED causes
      <3>1. NeedAccept(Available) \in BOOLEAN
        BY DEF NeedAccept
      <3>2. causes' = {} => causes = {} /\ (NeedAccept(Available) \/ Available = d)
        BY <1>3, <2>1
      <3>3. \E full \in BOOLEAN :
               /\ batch' = Log(Kept \o Fresh(Available), full)
               /\ causes' = {} => causes = {} /\ (full \/ Available = d)
        BY <2>1, <3>1, <3>2
      <3>4. causes' \subseteq Causes /\ cursor' = c + Available
        BY <1>2, <2>1 DEF Inv, TypeOK
      <3>5. Available <= Available
        BY <1>3
      <3> QED BY <1>3, <3>3, <3>4, <3>5
    <2>2. ASSUME NEW n \in Rendered,
                 cursor' = cursor + Available, batch' = Log(Kept \o Fresh(n), FALSE),
                 causes' = causes \cup {"render"}
          PROVE  /\ n \in Nat /\ n <= Available /\ cursor' = c + Available
                 /\ causes' # {} /\ causes' \subseteq Causes
      <3>1. causes' # {} /\ causes' \subseteq Causes
        BY <2>2 DEF Inv, TypeOK, Causes
      <3>2. PICK a \in Nat : a = Available
        BY <1>3
      <3>3. n \in 0..a - 1
        BY <3>2 DEF Rendered
      <3>4. n \in Nat /\ n <= a
        BY <3>3
      <3> QED BY <1>2, <2>2, <3>1, <3>2, <3>4
    <2>3. ASSUME cursor' = cursor, batch' = Log(Kept, FALSE), causes' = causes \cup {"EvtNext"}
          PROVE  /\ cursor' = c + 0 /\ batch' = Log(Kept \o Fresh(0), FALSE)
                 /\ causes' # {} /\ causes' \subseteq Causes
      <3>1. Kept \o Fresh(0) = Kept
        <4>1. PICK q : q = Kept \o Fresh(0)
          OBVIOUS
        <4>2. q \in Seq(Nat) /\ \A a \in 1..Len(q) : q[a] \in c + 1..c + 0
          BY <1>2, <4>1, FreshRecords DEF Inv
        <4>3. PICK l \in Nat : l = Len(q)
          BY <4>2, LenProperties
        <4>4. l = 0
          <5>1. ASSUME l # 0 PROVE FALSE
            <6>1. 1 \in 1..Len(q)
              BY <4>3, <5>1
            <6>2. q[1] \in c + 1..c + 0
              BY <4>2, <6>1
            <6> QED BY <6>2
          <5> QED BY <5>1
        <4> QED BY <4>1, <4>2, <4>3, <4>4, EmptySeq DEF Kept
      <3>2. cursor' = c + 0
        BY <1>2, <2>3
      <3>3. causes' # {} /\ causes' \subseteq Causes
        BY <2>3 DEF Inv, TypeOK, Causes
      <3> QED BY <2>3, <3>1, <3>2, <3>3
    <2>4. \/ /\ cursor' = cursor + Available
             /\ batch' = Log(Kept \o Fresh(Available), NeedAccept(Available))
             /\ UNCHANGED causes
          \/ \E n \in Rendered :
               /\ cursor' = cursor + Available /\ batch' = Log(Kept \o Fresh(n), FALSE)
               /\ causes' = causes \cup {"render"}
          \/ cursor' = cursor /\ batch' = Log(Kept, FALSE) /\ causes' = causes \cup {"EvtNext"}
      BY DEF EnumerateResults
    <2>5. FALSE \in BOOLEAN /\ 0 \in Nat /\ 0 <= 0 /\ 0 <= d
      BY <1>2
    <2> QED BY <1>3, <2>1, <2>2, <2>3, <2>4, <2>5
  <1>5. PICK full \in BOOLEAN :
          /\ batch' = Log(Kept \o Fresh(n), full)
          /\ causes' = {} => causes = {} /\ (full \/ e = d)
    BY <1>4
  <1>6. PICK q : q = Kept \o Fresh(n)
    OBVIOUS
  <1>7. q \in Seq(Nat) /\ Increasing(q) /\ \A a \in 1..Len(q) : q[a] \in c + 1..c + n
    BY <1>2, <1>6, FreshRecords DEF Inv
  <1>8. batch' \in Batches /\ batch'.rids = q /\ batch'.full = full
    BY <1>5, <1>6, <1>7, BatchForms
  <1>9. cursor' \in 0..log' /\ (e = d => cursor' = log')
    <2>1. PICK l \in Nat : l = log /\ l <= MaxEvents /\ c <= l /\ d = l - c
      BY <1>2, Counters DEF Inv
    <2>2. c + e \in 0..l /\ (e = d => c + e = l)
      BY <1>4, <2>1
    <2> QED BY <1>1, <1>4, <2>1, <2>2
  <1>10. TypeOK'
    BY <1>1, <1>4, <1>8, <1>9 DEF Inv, TypeOK
  <1>11. Wakes'
    BY <1>1, <1>5, <1>8, <1>9 DEF Wakes
  <1>12. SentInOrder'
    <2>1. Ordered(wire, c)
      BY <1>1, <1>2, InOrder DEF Inv, InFlight
    <2>2. PICK b : b = batch'
      OBVIOUS
    <2>3. \A a \in 1..Len(b.rids) : b.rids[a] \in c + 1..c + e
      BY <1>4, <1>7, <1>8, <2>2
    <2>4. b \in Requests /\ Increasing(b.rids) /\ wire \in Seq(Requests)
      BY <1>7, <1>8, <2>2, RequestForms DEF Inv, TypeOK
    <2>5. Ordered(Append(wire, b), c + e)
      <3>1. c + e \in Nat /\ c <= c + e
        OBVIOUS
      <3> QED BY <2>1, <2>3, <2>4, <3>1, OrderedAppend
    <2>6. InFlight' = Append(wire, b) /\ cursor' = c + e
      BY <1>1, <1>4, <2>2 DEF InFlight
    <2>7. Ordered(InFlight', cursor')
      BY <2>5, <2>6
    <2> QED BY <2>7 DEF SentInOrder, Ordered
  <1> QED BY <1>1, <1>10, <1>11, <1>12, Quiet DEF Inv

\* The connection is lost, with what is on its way; what is decoded remains.
LEMMA Loses ==
  ASSUME Inv, link' = "lost", wire' = <<>>, inbound' = <<>>, UNCHANGED <<vec, lastID>>,
         pc' = "suspended" <=> pc = "suspended"
  PROVE  Connected' /\ Suspended' /\ Resumed'
  <1>1. ToSet(wire') = {} /\ ToSet(inbound') = {}
    <2>1. <<>> \in Seq(Requests)
      OBVIOUS
    <2> QED BY <2>1, ToSetEmpty
  <1>2. Connected'
    BY DEF Inv, Connected
  <1>3. Resumed'
    BY <1>1 DEF Inv, Resumed
  <1>4. Suspended'
    <2> SUFFICES ASSUME pc = "suspended" PROVE Suspended'
      BY DEF Suspended
    <2>1. Len(wire) \in Nat /\ Len(inbound) \in Nat /\ Len(vec) \in Nat
      BY LenProperties DEF Inv, TypeOK
    <2>2. Len(vec) <= 1
      BY <2>1 DEF Inv, Suspended
    <2>3. Len(wire') + Len(inbound') + Len(vec') <= 1
      <3>1. Len(wire') = 0 /\ Len(inbound') = 0
        BY EmptySeq
      <3> QED BY <2>1, <2>2, <3>1
    <2> QED BY <1>1, <2>3 DEF Inv, Suspended
  <1> QED BY <1>2, <1>3, <1>4

\* A step that thins what is in flight keeps SentInOrder.
LEMMA OrderOf ==
  ASSUME TypeOK, NEW s, Thinned(s, InFlight), SentInOrder, InFlight' = s, cursor' = cursor
  PROVE  SentInOrder'
  <1>1. Ordered(InFlight, cursor)
    BY InOrder
  <1>2. Ordered(s, cursor)
    BY <1>1, OrderedThinned
  <1>3. Ordered(InFlight', cursor')
    BY <1>2
  <1> QED BY <1>3 DEF SentInOrder, Ordered

\* Sending a batch keeps the inductive invariant.
LEMMA SendBatchKeeps ==
  ASSUME Inv, SendBatch
  PROVE  Inv'
  <1>1. /\ pc = "send" /\ pc' = "reset"
        /\ \/ /\ link = "up" /\ wire' = Append(wire, batch)
              /\ UNCHANGED <<link, inbound, vec, causes>>
           \/ /\ link' = "lost" /\ wire' = <<>> /\ inbound' = <<>>
              /\ causes' = causes \cup {"link"} /\ UNCHANGED vec
        /\ UNCHANGED <<log, cursor, woken, batch, subscribe, upload, lastID, raised>>
    BY DEF SendBatch
  <1>2. /\ batch \in Requests /\ batch.op = "LOG"
        /\ Append(wire, batch) \in Seq(Requests) /\ ToSet(Append(wire, batch)) = ToSet(wire) \cup {batch}
    <2>1. batch \in Requests /\ batch.op = "LOG" /\ wire \in Seq(Requests)
      BY RequestForms DEF Inv, TypeOK
    <2> QED BY <2>1, ToSetAppend
  <1>3. InFlight = Append(wire, batch) /\ InFlight' = wire'
    BY <1>1 DEF InFlight
  <1>4. CASE link = "up" /\ wire' = Append(wire, batch) /\ UNCHANGED <<link, inbound, vec, causes>>
    <2>1. TypeOK'
      BY <1>1, <1>2, <1>4 DEF Inv, TypeOK
    <2>2. Connected' /\ Suspended'
      BY <1>1, <1>4 DEF Inv, Connected, Suspended
    <2>3. Resumed'
      BY <1>1, <1>2, <1>4 DEF Inv, Resumed
    <2>4. Wakes'
      <3>1. raised' \subseteq Signalled'
        BY <1>1 DEF Inv, Wakes, Signalled
      <3>2. causes' = {} /\ cursor' < log' => AcceptDue' \/ raised' # {}
        BY <1>1, <1>2, <1>4 DEF Inv, Wakes, AcceptDue
      <3> QED BY <1>1, <3>1, <3>2 DEF Wakes
    <2>5. SentInOrder'
      BY <1>1, <1>3, <1>4 DEF Inv, SentInOrder
    <2> QED BY <2>1, <2>2, <2>3, <2>4, <2>5 DEF Inv
  <1>5. CASE /\ link' = "lost" /\ wire' = <<>> /\ inbound' = <<>>
             /\ causes' = causes \cup {"link"} /\ UNCHANGED vec
    <2>1. TypeOK'
      <3>1. <<>> \in Seq(Requests) /\ <<>> \in Seq(Answers)
        OBVIOUS
      <3> QED BY <1>1, <1>5, <3>1 DEF Inv, TypeOK, Causes
    <2>2. Connected' /\ Suspended' /\ Resumed'
      BY <1>1, <1>5, Loses
    <2>3. Wakes'
      BY <1>1, <1>5 DEF Inv, Wakes, Signalled
    <2>4. SentInOrder'
      <3>1. Append(wire, batch) \in Seq(Requests) /\ Thinned(<<>>, Append(wire, batch))
        BY <1>2, ThinnedForms
      <3> QED BY <1>1, <1>3, <1>5, <3>1, OrderOf DEF Inv
    <2> QED BY <2>1, <2>2, <2>3, <2>4 DEF Inv
  <1> QED BY <1>1, <1>4, <1>5

\* Resetting the signal keeps the inductive invariant.
LEMMA ResetSignalKeeps ==
  ASSUME Inv, ResetSignal
  PROVE  Inv'
  <1>1. /\ pc = "reset" /\ pc' = "wait" /\ woken' = "none"
        /\ subscribe' = (subscribe /\ woken # "subscribe") /\ upload' = (upload /\ woken # "upload")
        /\ causes' = causes \cup Forgotten
        /\ UNCHANGED <<log, cursor, batch, lastID, link, wire, inbound, vec, raised>>
    BY DEF ResetSignal, netVars
  <1>2. TypeOK'
    <2>1. Forgotten \subseteq Causes
      BY DEF Inv, TypeOK, Forgotten, Causes
    <2>2. subscribe' \in BOOLEAN /\ upload' \in BOOLEAN
      BY <1>1
    <2> QED BY <1>1, <2>1, <2>2 DEF Inv, TypeOK
  <1>3. Wakes'
    <2> SUFFICES ASSUME causes' = {}, cursor' < log' PROVE subscribe' \/ upload' \/ AcceptDue'
      BY <1>1 DEF Wakes
    <2>1. causes = {} /\ woken \notin raised
      BY <1>1 DEF Forgotten
    <2>2. AcceptDue \/ raised # {}
      BY <1>1, <2>1 DEF Inv, Wakes
    <2>3. CASE AcceptDue
      BY <1>1, <2>3, DueStays
    <2>4. ASSUME NEW e \in raised PROVE subscribe' \/ upload'
      <3>1. e \in Signalled /\ e # woken
        BY <1>1, <2>1 DEF Inv, Wakes
      <3>2. (e = "subscribe" /\ subscribe) \/ (e = "upload" /\ upload)
        BY <3>1 DEF Signalled
      <3>3. e = "subscribe" /\ subscribe => subscribe'
        BY <1>1, <3>1
      <3>4. e = "upload" /\ upload => upload'
        BY <1>1, <3>1
      <3> QED BY <3>2, <3>3, <3>4
    <2> QED BY <2>2, <2>3, <2>4
  <1>4. Connected' /\ Suspended' /\ Resumed' /\ SentInOrder'
    BY <1>1, Quiet, OrderStays
  <1> QED BY <1>2, <1>3, <1>4 DEF Inv

\* Connecting keeps the inductive invariant.
LEMMA ConnectToKeeps ==
  ASSUME Inv, ConnectTo
  PROVE  Inv'
  <1>1. /\ link = "off" /\ link' \in {"connecting", "no address"}
        /\ UNCHANGED <<log, cursor, pc, woken, batch, subscribe, upload, lastID, wire, inbound, vec, raised, causes>>
    BY DEF ConnectTo, threadVars
  <1>2. TypeOK'
    BY <1>1 DEF Inv, TypeOK
  <1>3. Connected' /\ Suspended' /\ Resumed'
    BY <1>1 DEF Inv, Connected, Suspended, Resumed
  <1>4. Wakes'
    BY <1>1, DueStays DEF Inv, Wakes, Signalled
  <1>5. SentInOrder'
    BY <1>1, OrderStays
  <1> QED BY <1>2, <1>3, <1>4, <1>5 DEF Inv

\* The connect callback keeps the inductive invariant.
LEMMA ConnectCBKeeps ==
  ASSUME Inv, ConnectCB
  PROVE  Inv'
  <1>1. /\ link \in {"connecting", "no address"}
        /\ \/ link' = "up" /\ wire' = <<Plain("CONNECT")>> /\ UNCHANGED causes
           \/ link' = "lost" /\ causes' = causes \cup {"link"} /\ UNCHANGED wire
        /\ UNCHANGED <<log, cursor, pc, woken, batch, subscribe, upload, lastID, inbound, vec, raised>>
    BY DEF ConnectCB, threadVars
  <1>2. pc = "suspended" /\ wire = <<>> /\ inbound = <<>> /\ vec = <<>> /\ subscribe /\ lastID = 0
    BY <1>1 DEF Inv, Connected, Suspended, Wakes
  <1>3. CASE link' = "up" /\ wire' = <<Plain("CONNECT")>> /\ UNCHANGED causes
    <2>1. PICK m : m = Plain("CONNECT") /\ m \in Requests /\ m.op = "CONNECT"
      BY RequestForms
    <2>2. /\ wire' \in Seq(Requests) /\ ToSet(wire') = {m} /\ Len(wire') = 1
          /\ wire' = Append(wire, m)
      <3>1. <<>> \in Seq(Requests) /\ ToSet(<<>>) = {}
        <4>1. <<>> \in Seq(Requests)
          OBVIOUS
        <4> QED BY <4>1, ToSetEmpty
      <3>2. <<m>> = Append(<<>>, m) /\ Len(<<m>>) = 1
        OBVIOUS
      <3>3. Append(wire, m) \in Seq(Requests) /\ ToSet(Append(wire, m)) = ToSet(wire) \cup {m}
        <4>1. wire \in Seq(Requests)
          BY DEF Inv, TypeOK
        <4> QED BY <2>1, <4>1, ToSetAppend
      <3>4. wire' = <<m>>
        BY <1>3, <2>1
      <3> QED BY <1>2, <3>1, <3>2, <3>3, <3>4
    <2>3. TypeOK'
      BY <1>1, <1>3, <2>2 DEF Inv, TypeOK
    <2>4. Connected' /\ Resumed'
      BY <1>1, <1>2, <1>3 DEF Connected, Resumed
    <2>5. Suspended'
      <3>1. Len(inbound') = 0 /\ Len(vec') = 0 /\ inbound' = inbound /\ vec' = vec
        BY <1>1, <1>2, EmptySeq
      <3>2. \A n \in ToSet(wire') : n.op \in {"CONNECT", "QUERY"}
        BY <2>1, <2>2
      <3>3. Len(wire') + Len(inbound') + Len(vec') <= 1
        BY <2>2, <3>1
      <3>4. \A n \in ToSet(inbound') \cup ToSet(vec') : n.op \in {"CONNECT", "RETURN", "REFUSE"}
        BY <1>2, <3>1 DEF Inv, Suspended
      <3> QED BY <1>1, <1>2, <3>2, <3>3, <3>4 DEF Suspended
    <2>6. Wakes'
      BY <1>1, <1>2 DEF Wakes
    <2>7. SentInOrder'
      <3>1. Ordered(wire, cursor) /\ wire \in Seq(Requests) /\ cursor \in Nat
        BY <1>2, InOrder, Counters DEF Inv, TypeOK, InFlight
      <3>2. Ordered(Append(wire, m), cursor)
        BY <2>1, <3>1, OrderedAppend
      <3>3. InFlight' = Append(wire, m) /\ cursor' = cursor
        BY <1>1, <1>2, <2>2 DEF InFlight
      <3>4. Ordered(InFlight', cursor')
        BY <3>2, <3>3
      <3> QED BY <3>4 DEF SentInOrder, Ordered
    <2> QED BY <2>3, <2>4, <2>5, <2>6, <2>7 DEF Inv
  <1>4. CASE link' = "lost" /\ causes' = causes \cup {"link"} /\ UNCHANGED wire
    <2>1. TypeOK'
      BY <1>1, <1>4 DEF Inv, TypeOK, Causes
    <2>2. Connected' /\ Suspended' /\ Resumed'
      BY <1>1, <1>2, <1>4, Loses
    <2>3. Wakes'
      BY <1>1, <1>2 DEF Wakes
    <2>4. SentInOrder'
      BY <1>1, <1>4, OrderStays
    <2> QED BY <2>1, <2>2, <2>3, <2>4 DEF Inv
  <1> QED BY <1>1, <1>3, <1>4

\* The loss of the link keeps the inductive invariant.
LEMMA LinkLostKeeps ==
  ASSUME Inv, LinkLost
  PROVE  Inv'
  <1>1. /\ link' = "lost" /\ wire' = <<>> /\ inbound' = <<>> /\ causes' = causes \cup {"link"}
        /\ UNCHANGED <<log, cursor, pc, woken, batch, subscribe, upload, lastID, vec, raised>>
    BY DEF LinkLost, threadVars
  <1>2. TypeOK'
    <2>1. <<>> \in Seq(Requests) /\ <<>> \in Seq(Answers)
      OBVIOUS
    <2> QED BY <1>1, <2>1 DEF Inv, TypeOK, Causes
  <1>3. Connected' /\ Suspended' /\ Resumed'
    BY <1>1, Loses
  <1>4. Wakes'
    BY <1>1 DEF Inv, Wakes, Signalled
  <1>5. SentInOrder'
    <2>1. wire \in Seq(Requests) /\ batch \in Requests
      BY RequestForms DEF Inv, TypeOK
    <2>2. CASE pc = "send"
      <3>1. Thinned(Append(<<>>, batch), Append(wire, batch))
        BY <2>1, ThinnedForms
      <3>2. InFlight = Append(wire, batch) /\ InFlight' = Append(<<>>, batch)
        BY <1>1, <2>2 DEF InFlight
      <3> QED BY <1>1, <3>1, <3>2, OrderOf DEF Inv
    <2>3. CASE pc # "send"
      <3>1. Thinned(<<>>, wire)
        BY <2>1, ThinnedForms
      <3>2. InFlight = wire /\ InFlight' = <<>>
        BY <1>1, <2>3 DEF InFlight
      <3> QED BY <1>1, <3>1, <3>2, OrderOf DEF Inv
    <2> QED BY <2>2, <2>3
  <1> QED BY <1>2, <1>3, <1>4, <1>5 DEF Inv

\* What the loop takes from the decoder, and what is left of the answers.
LEMMA ReadTakes ==
  ASSUME TypeOK, ReadCB
  PROVE  \E m \in Answers :
           /\ Handle(m) /\ link = "up"
           /\ UNCHANGED <<log, cursor, woken, batch, subscribe, link, causes>>
           /\ inbound' \in Seq(Answers) /\ vec' \in Seq(Answers)
           /\ ToSet(inbound) \cup ToSet(vec) = {m} \cup ToSet(inbound') \cup ToSet(vec')
           /\ Len(inbound) + Len(vec) = Len(inbound') + Len(vec') + 1
           /\ vec \o inbound # <<>> /\ Head(vec \o inbound) = m
           /\ Tail(vec \o inbound) = vec' \o inbound'
  <1>1. vec \in Seq(Answers) /\ inbound \in Seq(Answers)
    BY DEF TypeOK
  <1>2. PICK k \in 0..Len(inbound) :
          LET q == vec \o SubSeq(inbound, 1, k) IN
          /\ q # <<>> /\ inbound' = SubSeq(inbound, k + 1, Len(inbound))
          /\ vec' = Tail(q) /\ Handle(Head(q))
    BY DEF ReadCB
  <1> DEFINE a == SubSeq(inbound, 1, k)
             q == vec \o a
             r == SubSeq(inbound, k + 1, Len(inbound))
  <1>3. q # <<>> /\ inbound' = r /\ vec' = Tail(q) /\ Handle(Head(q))
    BY <1>2
  <1>4. /\ a \in Seq(Answers) /\ r \in Seq(Answers) /\ a \o r = inbound
        /\ ToSet(inbound) = ToSet(a) \cup ToSet(r)
    BY <1>1, ToSetSplit
  <1>5. vec \o inbound = q \o r
    BY <1>1, ConcatSplit
  <1> HIDE DEF a, r
  <1>6. q \in Seq(Answers) /\ ToSet(q) = ToSet(vec) \cup ToSet(a)
    BY <1>1, <1>4, ToSetConcat
  <1>7. Len(inbound) = Len(a) + Len(r) /\ Len(q) = Len(vec) + Len(a)
    BY <1>1, <1>4, ConcatProperties
  <1> HIDE DEF q
  <1>8. PICK m : m = Head(q)
    OBVIOUS
  <1>9. /\ m \in Answers /\ Tail(q) \in Seq(Answers) /\ ToSet(q) = {m} \cup ToSet(Tail(q))
        /\ Len(Tail(q)) + 1 = Len(q)
    <2>1. m \in Answers /\ Tail(q) \in Seq(Answers) /\ ToSet(q) = {m} \cup ToSet(Tail(q))
      BY <1>3, <1>6, <1>8, ToSetHeadTail
    <2>2. Len(Tail(q)) = Len(q) - 1 /\ Len(q) \in Nat
      BY <1>3, <1>6, HeadTailProperties, LenProperties
    <2> QED BY <2>1, <2>2
  <1>10. Head(q \o r) = m /\ Tail(q \o r) = Tail(q) \o r
    BY <1>3, <1>4, <1>6, <1>8, HeadTailConcat
  <1>11. vec \o inbound # <<>>
    <2>1. vec \o inbound \in Seq(Answers) /\ ToSet(vec \o inbound) = ToSet(q) \cup ToSet(r)
      BY <1>4, <1>6, <1>5, ToSetConcat
    <2>2. ToSet(vec \o inbound) # {}
      BY <1>9, <2>1
    <2> QED BY <2>1, <2>2, ToSetEmpty
  <1>12. Len(inbound) + Len(vec) = Len(inbound') + Len(vec') + 1
    <2>1. Len(vec) \in Nat /\ Len(a) \in Nat /\ Len(r) \in Nat /\ Len(Tail(q)) \in Nat
      BY <1>1, <1>4, <1>9, LenProperties
    <2> QED BY <1>3, <1>7, <1>9, <2>1
  <1>13. link = "up" /\ UNCHANGED <<log, cursor, woken, batch, subscribe, link, causes>>
    BY DEF ReadCB
  <1>14. ToSet(inbound) \cup ToSet(vec) = {m} \cup ToSet(inbound') \cup ToSet(vec')
    BY <1>3, <1>4, <1>6, <1>9
  <1> QED BY <1>3, <1>4, <1>5, <1>8, <1>9, <1>10, <1>11, <1>12, <1>13, <1>14

\* The read callback keeps the inductive invariant.
LEMMA ReadCBKeeps ==
  ASSUME Inv, ReadCB
  PROVE  Inv'
  <1>1. PICK m \in Answers :
          /\ Handle(m) /\ link = "up"
          /\ UNCHANGED <<log, cursor, woken, batch, subscribe, link, causes>>
          /\ inbound' \in Seq(Answers) /\ vec' \in Seq(Answers)
          /\ ToSet(inbound) \cup ToSet(vec) = {m} \cup ToSet(inbound') \cup ToSet(vec')
          /\ Len(inbound) + Len(vec) = Len(inbound') + Len(vec') + 1
    BY ReadTakes DEF Inv
  <1>2. PICK w \in Nat, i \in Nat, v \in Nat, j \in Nat, u \in Nat :
          /\ w = Len(wire) /\ i = Len(inbound) /\ v = Len(vec) /\ j = Len(inbound') /\ u = Len(vec')
          /\ i + v = j + u + 1
    <2>1. wire \in Seq(Requests) /\ inbound \in Seq(Answers) /\ vec \in Seq(Answers)
      BY DEF Inv, TypeOK
    <2> QED BY <1>1, <2>1, LenProperties
  <1>3. /\ m \in ToSet(inbound) \cup ToSet(vec)
        /\ m.op \in {"CONNECT", "REFUSE", "RETURN", "ACCEPT"}
        /\ m.op = "RETURN" => m.id \in IDs
        /\ m.op = "ACCEPT" => m.id \in AnyIDs
    BY <1>1, AnswerForms
  <1>4. Connected'
    BY <1>1 DEF Connected
  <1>5. CASE m.op = "CONNECT"
    <2>1. pc = "suspended" /\ lastID = 0 /\ w + i + v <= 1
      BY <1>2, <1>3, <1>5 DEF Inv, Resumed, Suspended
    <2>2. PICK b \in Requests : b = Plain("QUERY") /\ b.op = "QUERY"
      BY RequestForms
    <2>3. wire' = Append(wire, b) /\ UNCHANGED <<lastID, pc, upload, raised>>
      BY <1>1, <1>5, <2>2 DEF Handle
    <2>4. wire \in Seq(Requests)
      BY DEF Inv, TypeOK
    <2>5. wire' \in Seq(Requests) /\ ToSet(wire') = ToSet(wire) \cup {b} /\ Len(wire') = w + 1
      <3>1. Append(wire, b) \in Seq(Requests) /\ ToSet(Append(wire, b)) = ToSet(wire) \cup {b}
        BY <2>4, ToSetAppend
      <3>2. Len(Append(wire, b)) = w + 1
        BY <1>2, <2>4, Appended
      <3> QED BY <2>3, <3>1, <3>2
    <2>6. TypeOK'
      BY <1>1, <2>3, <2>5 DEF Inv, TypeOK
    <2>7. Suspended'
      <3>1. Len(wire') + Len(inbound') + Len(vec') <= 1
        BY <1>2, <2>1, <2>5
      <3> QED BY <1>1, <2>1, <2>2, <2>3, <2>5, <3>1 DEF Inv, Suspended
    <2>8. Resumed' /\ Wakes'
      BY <1>1, <2>1, <2>3 DEF Inv, Resumed, Wakes
    <2>9. SentInOrder'
      <3>1. Ordered(wire, cursor) /\ cursor \in Nat
        BY <2>1, InOrder, Counters DEF Inv, InFlight
      <3>2. Ordered(Append(wire, b), cursor)
        BY <2>2, <2>4, <3>1, OrderedAppend
      <3>3. InFlight' = Append(wire, b) /\ cursor' = cursor
        BY <1>1, <2>1, <2>3 DEF InFlight
      <3>4. Ordered(InFlight', cursor')
        BY <3>2, <3>3
      <3> QED BY <3>4 DEF SentInOrder, Ordered
    <2> QED BY <1>4, <2>6, <2>7, <2>8, <2>9 DEF Inv
  <1>6. CASE m.op = "RETURN" /\ pc = "suspended"
    <2>1. lastID = 0 /\ w + i + v <= 1
      BY <1>2, <1>6 DEF Inv, Suspended
    <2>2. w = 0 /\ j = 0 /\ u = 0
      BY <1>2, <2>1
    <2>3. lastID' = m.id /\ pc' = "resumed" /\ UNCHANGED <<wire, upload, raised>>
      BY <1>1, <1>6, <2>1 DEF Handle
    <2>4. TypeOK'
      BY <1>1, <1>3, <1>6, <2>3 DEF Inv, TypeOK, AnyIDs
    <2>5. ToSet(wire') = {} /\ ToSet(inbound') = {} /\ ToSet(vec') = {}
      <3>1. wire' \in Seq(Requests) /\ Len(wire') = 0 /\ Len(inbound') = 0 /\ Len(vec') = 0
        BY <1>2, <2>2, <2>3, <2>4 DEF TypeOK
      <3> QED BY <1>1, <3>1, EmptySeq, ToSetEmpty
    <2>6. Suspended' /\ Resumed'
      BY <2>3, <2>5 DEF Suspended, Resumed
    <2>7. Wakes'
      BY <1>1, <1>6, <2>3 DEF Inv, Wakes
    <2>8. SentInOrder'
      BY <1>1, <1>6, <2>3, OrderStays
    <2> QED BY <1>4, <2>4, <2>6, <2>7, <2>8 DEF Inv
  <1>7. CASE m.op = "ACCEPT"
    <2>1. pc # "suspended"
      BY <1>3, <1>7 DEF Inv, Suspended
    <2>2. lastID' = m.id /\ upload' = TRUE /\ raised' = raised \cup {"upload"} /\ UNCHANGED <<wire, pc>>
      BY <1>1, <1>7 DEF Handle, SetUpload
    <2>3. TypeOK'
      BY <1>1, <1>3, <1>7, <2>2 DEF Inv, TypeOK
    <2>4. Suspended' /\ Resumed'
      BY <1>1, <2>1, <2>2 DEF Inv, Suspended, Resumed
    <2>5. Wakes'
      <3>1. "upload" \in raised'
        BY <2>2
      <3>2. pc' \in {"send", "reset"} => raised' \subseteq Signalled'
        BY <1>1, <2>2 DEF Inv, Wakes, Signalled
      <3>3. pc' \in {"suspended", "resumed"} => subscribe'
        BY <1>1, <2>2 DEF Inv, Wakes
      <3> QED BY <2>2, <3>1, <3>2, <3>3 DEF Wakes
    <2>6. SentInOrder'
      BY <1>1, <2>2, OrderStays
    <2> QED BY <1>4, <2>3, <2>4, <2>5, <2>6 DEF Inv
  <1>8. CASE m.op = "REFUSE" \/ (m.op = "RETURN" /\ pc # "suspended")
    <2>1. m.op = "REFUSE"
      BY <1>3, <1>8 DEF Inv, Resumed
    <2>2. UNCHANGED <<wire, lastID, pc, upload, raised>>
      BY <1>1, <2>1 DEF Handle
    <2>3. TypeOK'
      BY <1>1, <2>2 DEF Inv, TypeOK
    <2>4. Suspended'
      <3>1. w + i + v <= 1 => Len(wire') + Len(inbound') + Len(vec') <= 1
        BY <1>2, <2>2
      <3> QED BY <1>1, <1>2, <2>2, <3>1 DEF Inv, Suspended
    <2>5. Resumed'
      BY <1>1, <2>2 DEF Inv, Resumed
    <2>6. Wakes'
      <3>1. AcceptDue' <=> AcceptDue
        BY <1>1, <2>1, <2>2 DEF AcceptDue
      <3> QED BY <1>1, <2>2, <3>1 DEF Inv, Wakes, Signalled
    <2>7. SentInOrder'
      BY <1>1, <2>2, OrderStays
    <2> QED BY <1>4, <2>3, <2>4, <2>5, <2>6, <2>7 DEF Inv
  <1> QED BY <1>3, <1>5, <1>6, <1>7, <1>8

\* What the server takes from the wire, and what it answers.
LEMMA ServerTakes ==
  ASSUME TypeOK, ServerAnswers
  PROVE  \E n \in 1..Len(wire) : \E m \in Requests :
           /\ m = wire[n] /\ wire' = RemoveAt(wire, n) /\ link = "up"
           /\ UNCHANGED <<log, cursor, pc, woken, batch, subscribe, upload, lastID, link, vec, raised>>
           /\ \/ inbound' = inbound /\ m.op = "LOG" /\ ~m.full /\ causes' = causes
              \/ \E a \in Answers :
                   /\ inbound' = Append(inbound, a)
                   /\ \/ a.op = "REFUSE" /\ causes' = causes \cup {"refused"}
                      \/ m.op = "CONNECT" /\ a.op = "CONNECT" /\ causes' = causes
                      \/ m.op = "QUERY" /\ a.op = "RETURN" /\ causes' = causes
                      \/ m.op = "LOG" /\ m.full /\ a.op = "ACCEPT" /\ causes' = causes
  <1>1. PICK n \in 1..Len(wire) : LET m == wire[n] IN
       /\ wire' = RemoveAt(wire, n)
       /\ \/ /\ inbound' = Append(inbound, Plain("REFUSE"))
             /\ causes' = causes \cup {"refused"}
          \/ /\ m.op = "CONNECT" /\ inbound' = Append(inbound, Plain("CONNECT"))
             /\ UNCHANGED causes
          \/ /\ m.op = "QUERY"
             /\ \E i \in IDs : inbound' = Append(inbound, Numbered("RETURN", i))
             /\ UNCHANGED causes
          \/ /\ m.op = "LOG" /\ m.full
             /\ \E i \in AnyIDs : inbound' = Append(inbound, Numbered("ACCEPT", i))
             /\ UNCHANGED causes
          \/ /\ m.op = "LOG" /\ ~m.full
             /\ UNCHANGED <<inbound, causes>>
    BY DEF ServerAnswers
  <1>2. PICK m \in Requests : m = wire[n]
    BY RemoveAtIs DEF TypeOK
  <1>3. link = "up"
        /\ UNCHANGED <<log, cursor, pc, woken, batch, subscribe, upload, lastID, link, vec, raised>>
    BY DEF ServerAnswers, threadVars
  <1>4. CASE m.op = "LOG" /\ ~m.full /\ UNCHANGED <<inbound, causes>>
    BY <1>1, <1>2, <1>3, <1>4
  <1>5. CASE inbound' = Append(inbound, Plain("REFUSE")) /\ causes' = causes \cup {"refused"}
    <2>1. PICK a \in Answers : a = Plain("REFUSE") /\ a.op = "REFUSE"
      BY AnswerForms
    <2> QED BY <1>1, <1>2, <1>3, <1>5, <2>1
  <1>6. CASE m.op = "CONNECT" /\ inbound' = Append(inbound, Plain("CONNECT")) /\ UNCHANGED causes
    <2>1. PICK a \in Answers : a = Plain("CONNECT") /\ a.op = "CONNECT"
      BY AnswerForms
    <2> QED BY <1>1, <1>2, <1>3, <1>6, <2>1
  <1>7. ASSUME NEW i \in IDs, m.op = "QUERY", inbound' = Append(inbound, Numbered("RETURN", i)),
               UNCHANGED causes
        PROVE  \E a \in Answers : inbound' = Append(inbound, a) /\ m.op = "QUERY" /\ a.op = "RETURN"
                                  /\ causes' = causes
    <2>1. PICK a \in Answers : a = Numbered("RETURN", i) /\ a.op = "RETURN"
      BY AnswerForms
    <2> QED BY <1>7, <2>1
  <1>8. ASSUME NEW i \in AnyIDs, m.op = "LOG", m.full,
               inbound' = Append(inbound, Numbered("ACCEPT", i)), UNCHANGED causes
        PROVE  \E a \in Answers : inbound' = Append(inbound, a) /\ m.op = "LOG" /\ m.full
                                  /\ a.op = "ACCEPT" /\ causes' = causes
    <2>1. PICK a \in Answers : a = Numbered("ACCEPT", i) /\ a.op = "ACCEPT"
      BY AnswerForms
    <2> QED BY <1>8, <2>1
  <1> QED BY <1>1, <1>2, <1>3, <1>4, <1>5, <1>6, <1>7, <1>8

\* The server's answering keeps the inductive invariant.
LEMMA ServerAnswersKeeps ==
  ASSUME Inv, ServerAnswers
  PROVE  Inv'
  <1>1. PICK n \in 1..Len(wire), m \in Requests :
          /\ m = wire[n] /\ wire' = RemoveAt(wire, n) /\ link = "up"
          /\ UNCHANGED <<log, cursor, pc, woken, batch, subscribe, upload, lastID, link, vec, raised>>
          /\ \/ inbound' = inbound /\ m.op = "LOG" /\ ~m.full /\ causes' = causes
             \/ \E a \in Answers :
                  /\ inbound' = Append(inbound, a)
                  /\ \/ a.op = "REFUSE" /\ causes' = causes \cup {"refused"}
                     \/ m.op = "CONNECT" /\ a.op = "CONNECT" /\ causes' = causes
                     \/ m.op = "QUERY" /\ a.op = "RETURN" /\ causes' = causes
                     \/ m.op = "LOG" /\ m.full /\ a.op = "ACCEPT" /\ causes' = causes
    BY ServerTakes DEF Inv
  <1>2. wire \in Seq(Requests) /\ inbound \in Seq(Answers) /\ vec \in Seq(Answers)
    BY DEF Inv, TypeOK
  <1>3. /\ wire' \in Seq(Requests) /\ IsRemoved(wire', wire, n)
        /\ ToSet(wire) = ToSet(wire') \cup {m}
    BY <1>1, <1>2, RemoveAtIs
  <1>4. PICK w \in Nat, i \in Nat, v \in Nat, u \in Nat :
          w = Len(wire) /\ i = Len(inbound) /\ v = Len(vec) /\ u = Len(wire') /\ w = u + 1
    BY <1>2, <1>3, LenProperties DEF IsRemoved
  <1>5. Connected'
    BY <1>1 DEF Inv, Connected
  <1>6. SentInOrder'
    <2>1. batch \in Requests
      BY RequestForms DEF Inv, TypeOK
    <2>2. CASE pc = "send"
      <3>1. Thinned(Append(RemoveAt(wire, n), batch), Append(wire, batch))
        BY <1>2, <2>1, ThinnedForms
      <3>2. InFlight = Append(wire, batch) /\ InFlight' = Append(RemoveAt(wire, n), batch)
        BY <1>1, <2>2 DEF InFlight
      <3> QED BY <1>1, <3>1, <3>2, OrderOf DEF Inv
    <2>3. CASE pc # "send"
      <3>1. Thinned(RemoveAt(wire, n), wire)
        BY <1>2, <2>1, ThinnedForms
      <3>2. InFlight = wire /\ InFlight' = RemoveAt(wire, n)
        BY <1>1, <2>3 DEF InFlight
      <3> QED BY <1>1, <3>1, <3>2, OrderOf DEF Inv
    <2> QED BY <2>2, <2>3
  <1>7. CASE inbound' = inbound /\ m.op = "LOG" /\ ~m.full /\ causes' = causes
    <2>1. TypeOK'
      BY <1>1, <1>3, <1>7 DEF Inv, TypeOK
    <2>2. Suspended'
      BY <1>1, <1>3, <1>7 DEF Inv, Suspended
    <2>3. Resumed'
      BY <1>1, <1>3, <1>7 DEF Inv, Resumed
    <2>4. Wakes'
      <3>1. AcceptDue' <=> AcceptDue
        BY <1>1, <1>3, <1>7 DEF AcceptDue
      <3> QED BY <1>1, <1>7, <3>1 DEF Inv, Wakes, Signalled
    <2> QED BY <1>5, <1>6, <2>1, <2>2, <2>3, <2>4 DEF Inv
  <1>8. ASSUME NEW a \in Answers, inbound' = Append(inbound, a),
               \/ a.op = "REFUSE" /\ causes' = causes \cup {"refused"}
               \/ m.op = "CONNECT" /\ a.op = "CONNECT" /\ causes' = causes
               \/ m.op = "QUERY" /\ a.op = "RETURN" /\ causes' = causes
               \/ m.op = "LOG" /\ m.full /\ a.op = "ACCEPT" /\ causes' = causes
        PROVE  Inv'
    <2>1. /\ inbound' \in Seq(Answers) /\ ToSet(inbound') = ToSet(inbound) \cup {a}
          /\ Len(inbound') = i + 1
      <3>1. Append(inbound, a) \in Seq(Answers) /\ ToSet(Append(inbound, a)) = ToSet(inbound) \cup {a}
        BY <1>2, ToSetAppend
      <3>2. Len(Append(inbound, a)) = i + 1
        BY <1>2, <1>4, Appended
      <3> QED BY <1>8, <3>1, <3>2
    <2>2. TypeOK'
      BY <1>1, <1>3, <1>8, <2>1 DEF Inv, TypeOK, Causes
    <2>3. Suspended'
      <3>1. w + i + v <= 1 => Len(wire') + Len(inbound') + Len(vec') <= 1
        BY <1>1, <1>4, <2>1
      <3> QED BY <1>1, <1>3, <1>4, <1>8, <2>1, <3>1 DEF Inv, Suspended
    <2>4. Resumed'
      BY <1>1, <1>3, <1>8, <2>1 DEF Inv, Resumed
    <2>5. Wakes'
      <3>1. AcceptDue /\ causes' = {} => AcceptDue'
        BY <1>1, <1>3, <1>8, <2>1 DEF AcceptDue
      <3>2. causes' = {} => causes = {}
        BY <1>8
      <3> QED BY <1>1, <3>1, <3>2 DEF Inv, Wakes, Signalled
    <2> QED BY <1>5, <1>6, <2>2, <2>3, <2>4, <2>5 DEF Inv
  <1> QED BY <1>1, <1>7, <1>8

\* Every step keeps the inductive invariant.
LEMMA StepKeeps == Inv /\ [Next]_vars => Inv'
  <1> SUFFICES ASSUME Inv, [Next]_vars PROVE Inv'
    OBVIOUS
  <1>1. CASE UNCHANGED vars
    <2>1. /\ UNCHANGED <<log, cursor, pc, woken, batch, subscribe, upload, lastID>>
          /\ UNCHANGED <<link, wire, inbound, vec, raised, causes>>
      BY <1>1 DEF vars, threadVars, netVars
    <2>2. TypeOK' /\ Wakes'
      BY <2>1, DueStays DEF Inv, TypeOK, Wakes, Signalled
    <2> QED BY <2>1, <2>2, Quiet, OrderStays DEF Inv
  <1>2. CASE ThreadStep
    BY <1>2, SubscribeKeeps, WakeKeeps, EnumerateResultsKeeps, SendBatchKeeps, ResetSignalKeeps
       DEF ThreadStep
  <1> QED BY <1>1, <1>2, NewEventKeeps, ConnectToKeeps, ConnectCBKeeps, ReadCBKeeps,
             ServerAnswersKeeps, LinkLostKeeps DEF Next

\* The inductive invariant holds at the start.
LEMMA InitKeeps == Init => Inv
  <1> SUFFICES ASSUME Init PROVE Inv
    OBVIOUS
  <1>1. /\ <<>> \in Seq(Requests) /\ <<>> \in Seq(Answers) /\ <<>> \in Seq(Nat)
        /\ \A i \in 1..Len(<<>>) : FALSE
    BY EmptySeq
  <1>2. NoBatch \in Batches
    BY <1>1, BatchForms DEF NoBatch
  <1>3. TypeOK
    <2>1. log \in Nat /\ log <= MaxEvents /\ 0 <= log
      BY EventsAssumption DEF Init
    <2>2. log \in 0..MaxEvents /\ cursor \in 0..log
      BY <2>1, LogRange DEF Init
    <2> QED BY <1>1, <1>2, <2>2 DEF Init, TypeOK, StartSuspended, AnyIDs
  <1>4. ToSet(wire) = {} /\ ToSet(inbound) = {} /\ ToSet(vec) = {}
    BY <1>3, ToSetEmpty DEF Init, TypeOK
  <1>5. Connected /\ Resumed
    BY DEF Init, Connected, Resumed, StartSuspended
  <1>6. Suspended
    <2>1. Len(wire) = 0 /\ Len(inbound) = 0 /\ Len(vec) = 0
      BY EmptySeq DEF Init
    <2>2. Len(wire) + Len(inbound) + Len(vec) <= 1
      BY <2>1
    <2> QED BY <1>4, <2>2 DEF Init, Suspended
  <1>7. Wakes
    BY DEF Init, Wakes, StartSuspended
  <1>8. SentInOrder
    <2>1. \A i \in 1..Len(InFlight) : FALSE
      BY <1>1 DEF Init, InFlight, StartSuspended
    <2> QED BY <2>1 DEF SentInOrder
  <1> QED BY <1>3, <1>5, <1>6, <1>7, <1>8 DEF Inv

-----------------------------------------------------------------------------
(* The theorems *)

\* The service, the log and the server keep the invariant, in every
\* interleaving and with any number of records.
THEOREM Invariant == Spec => []Inv
  <1> QED BY InitKeeps, StepKeeps, PTL DEF Spec

\* The forwarder's state has its declared types.
THEOREM TypeCorrect == Spec => []TypeOK
  <1>1. Inv => TypeOK
    BY DEF Inv
  <1> QED BY <1>1, Invariant, PTL

\* Batches leave in log order and repeat no record, although two events and two
\* threads drive the sending.
THEOREM BatchesInOrder == Spec => []SentInOrder
  <1>1. Inv => SentInOrder
    BY DEF Inv
  <1> QED BY <1>1, Invariant, PTL

\* The thread does not wait with records unread and nothing to wake it, unless
\* one of the causes that the model records has occurred.
THEOREM NoStall == Spec => []NoSilentStall
  <1>1. Inv => NoSilentStall
    BY DEF Inv, Wakes, NoSilentStall
  <1> QED BY <1>1, Invariant, PTL

\* No batch leaves before the server has said where to go on.
THEOREM HandshakeBeforeBatches == Spec => []HandshakeFirst
  <1>1. Inv => HandshakeFirst
    <2>1. ASSUME Inv,
                 \/ link \in {"off", "connecting", "no address"}
                 \/ \E m \in ToSet(wire) : m.op \in {"CONNECT", "QUERY"}
                 \/ \E m \in ToSet(inbound) \cup ToSet(vec) : m.op \in {"CONNECT", "RETURN"}
                 \/ pc = "suspended"
          PROVE  pc = "suspended"
      BY <2>1 DEF Inv, Connected, Resumed
    <2>2. Inv /\ pc = "suspended" => ~\E m \in ToSet(wire) : m.op = "LOG"
      BY DEF Inv, Suspended
    <2> QED BY <2>1, <2>2 DEF HandshakeFirst
  <1> QED BY <1>1, Invariant, PTL

-----------------------------------------------------------------------------
(* The service implements its side of Session *)

SKinds == {"CONNECT", "QUERY", "FULL", "PART"}
OfKind(s, k) == {i \in 1..Len(s) : Kind(s[i]) = k}
Counts(s) == [k \in SKinds |-> Cardinality(OfKind(s, k))]

\* Every request is of a kind of Session.
LEMMA KindsOf == \A m \in Requests : Kind(m) \in SKinds
  BY RequestForms DEF Kind, SKinds

\* The places of the requests of one kind are finitely many.
LEMMA OfKindFinite ==
  ASSUME NEW s \in Seq(Requests), NEW k
  PROVE  IsFiniteSet(OfKind(s, k)) /\ Cardinality(OfKind(s, k)) \in Nat
  <1>1. IsFiniteSet(1..Len(s)) /\ OfKind(s, k) \subseteq 1..Len(s)
    BY LenProperties, FS_Interval DEF OfKind
  <1> QED BY <1>1, FS_Subset, FS_CardinalityType

\* Of an empty wire there is none of any kind.
LEMMA CountsEmpty == Counts(<<>>) = [k \in SKinds |-> 0]
  <1>1. \A k \in SKinds : OfKind(<<>>, k) = {}
    BY EmptySeq DEF OfKind
  <1> QED BY <1>1, FS_EmptySet DEF Counts

\* A request sent is one more of its kind.
LEMMA CountsAppend ==
  ASSUME NEW s \in Seq(Requests), NEW m \in Requests
  PROVE  Counts(Append(s, m)) = [Counts(s) EXCEPT ![Kind(m)] = @ + 1]
  <1>1. PICK l \in Nat : l = Len(s)
    BY LenProperties
  <1>2. PICK u : u = Append(s, m)
    OBVIOUS
  <1>3. Len(u) = l + 1 /\ u[l + 1] = m /\ \A i \in 1..l : u[i] = s[i]
    BY <1>1, <1>2, Appended
  <1>4. ASSUME NEW k \in SKinds
        PROVE  Cardinality(OfKind(u, k)) = IF k = Kind(m) THEN Cardinality(OfKind(s, k)) + 1
                                                         ELSE Cardinality(OfKind(s, k))
    <2>1. OfKind(u, k) = IF k = Kind(m) THEN OfKind(s, k) \cup {l + 1} ELSE OfKind(s, k)
      <3>1. \A i \in 1..l + 1 : i = l + 1 \/ i \in 1..l
        BY <1>1
      <3>2. l + 1 \in 1..l + 1 /\ l + 1 \notin 1..l /\ 1..l \subseteq 1..l + 1
        BY <1>1
      <3> QED BY <1>1, <1>3, <3>1, <3>2 DEF OfKind
    <2>2. l + 1 \notin OfKind(s, k)
      BY <1>1 DEF OfKind
    <2> QED BY <2>1, <2>2, OfKindFinite, FS_AddElement
  <1>5. Kind(m) \in SKinds
    BY KindsOf
  <1> QED BY <1>2, <1>4, <1>5 DEF Counts

\* A request dealt with is one less of its kind.
LEMMA CountsRemoved ==
  ASSUME NEW s \in Seq(Requests), NEW n \in 1..Len(s)
  PROVE  /\ Counts(RemoveAt(s, n)) = [Counts(s) EXCEPT ![Kind(s[n])] = @ - 1]
         /\ Kind(s[n]) \in SKinds /\ Counts(s)[Kind(s[n])] > 0
  <1>1. PICK t \in Seq(Requests) : t = RemoveAt(s, n) /\ IsRemoved(t, s, n) /\ s[n] \in Requests
    BY RemoveAtIs
  <1>2. PICK l \in Nat : l = Len(t) /\ Len(s) = l + 1
    BY <1>1, LenProperties DEF IsRemoved
  <1>3. PICK x : x = Kind(s[n])
    OBVIOUS
  <1> DEFINE rest(k) == OfKind(s, k) \ {n}
             f == [i \in 1..l |-> IF i < n THEN i ELSE i + 1]
  <1>4. ASSUME NEW k \in SKinds
        PROVE  Cardinality(OfKind(t, k)) = Cardinality(rest(k)) /\ IsFiniteSet(rest(k))
    <2> DEFINE g == [i \in OfKind(t, k) |-> f[i]]
    <2>1. IsFiniteSet(OfKind(t, k)) /\ IsFiniteSet(OfKind(s, k)) /\ IsFiniteSet(rest(k))
      BY <1>1, OfKindFinite, FS_Subset
    <2>2. \A i \in 1..l : /\ f[i] \in 1..l + 1 /\ f[i] # n /\ t[i] = s[f[i]]
      BY <1>1, <1>2 DEF IsRemoved
    <2>3. \A i, j \in 1..l : f[i] = f[j] => i = j
      BY <1>2
    <2>4. \A j \in 1..l + 1 : j # n => \E i \in 1..l : f[i] = j
      <3>1. ASSUME NEW j \in 1..l + 1, j < n PROVE \E i \in 1..l : f[i] = j
        <4>1. j \in 1..l /\ f[j] = j
          BY <1>2, <3>1
        <4> QED BY <4>1
      <3>2. ASSUME NEW j \in 1..l + 1, j > n PROVE \E i \in 1..l : f[i] = j
        <4>1. j - 1 \in 1..l /\ f[j - 1] = j
          BY <1>2, <3>2
        <4> QED BY <4>1
      <3> QED BY <1>2, <3>1, <3>2
    <2> HIDE DEF f
    <2>5. g \in [OfKind(t, k) -> rest(k)]
      BY <1>2, <2>2 DEF OfKind
    <2>6. \A i, j \in OfKind(t, k) : g[i] = g[j] => i = j
      BY <1>2, <2>3 DEF OfKind
    <2>7. ASSUME NEW j \in rest(k) PROVE \E i \in OfKind(t, k) : g[i] = j
      <3>1. j \in 1..l + 1 /\ j # n /\ Kind(s[j]) = k
        BY <1>2 DEF OfKind
      <3>2. PICK i \in 1..l : f[i] = j
        BY <2>4, <3>1
      <3> QED BY <1>2, <2>2, <3>1, <3>2 DEF OfKind
    <2> HIDE DEF g
    <2>8. g \in Bijection(OfKind(t, k), rest(k))
      BY <2>5, <2>6, <2>7 DEF Bijection, Injection, Surjection, IsInjective
    <2> HIDE DEF rest
    <2> QED BY <2>1, <2>8, FS_Bijection DEF ExistsBijection
  <1>5. ASSUME NEW k \in SKinds
        PROVE  Cardinality(rest(k)) = IF k = x THEN Cardinality(OfKind(s, k)) - 1
                                               ELSE Cardinality(OfKind(s, k))
    <2>1. n \in OfKind(s, k) <=> k = x
      BY <1>3 DEF OfKind
    <2>2. CASE k = x
      BY <2>1, <2>2, OfKindFinite, FS_RemoveElement
    <2>3. CASE k # x
      <3>1. rest(k) = OfKind(s, k)
        BY <2>1, <2>3
      <3> QED BY <2>3, <3>1
    <2> QED BY <2>2, <2>3
  <1> HIDE DEF rest
  <1>6. x \in SKinds
    BY <1>1, <1>3, KindsOf
  <1>7. Cardinality(OfKind(s, x)) > 0
    <2>1. Cardinality(rest(x)) \in Nat
      BY <1>4, <1>6, FS_CardinalityType
    <2>2. Cardinality(OfKind(s, x)) \in Nat /\ Cardinality(rest(x)) = Cardinality(OfKind(s, x)) - 1
      BY <1>5, <1>6, OfKindFinite
    <2> QED BY <2>1, <2>2
  <1>8. Counts(t) = [Counts(s) EXCEPT ![x] = @ - 1]
    BY <1>4, <1>5, <1>6 DEF Counts
  <1> QED BY <1>1, <1>3, <1>6, <1>7, <1>8 DEF Counts

\* The connection as Session sees it, with the counts and kinds spelt out.
Resuming == link = "up" /\ pc # "suspended"

\* What Session sees of a state.
LEMMA Mapped ==
  TypeOK => /\ Pending = Counts(wire)
            /\ [i \in DOMAIN Taken |-> Taken[i].op] = Ops(Taken)
            /\ Taken \in Seq(Answers)
  <1> SUFFICES ASSUME TypeOK
               PROVE  /\ Pending = Counts(wire)
                      /\ [i \in DOMAIN Taken |-> Taken[i].op] = Ops(Taken)
                      /\ Taken \in Seq(Answers)
    OBVIOUS
  <1>1. wire \in Seq(Requests) /\ vec \in Seq(Answers) /\ inbound \in Seq(Answers)
    BY DEF TypeOK
  <1>2. Pending = Counts(wire)
    <2>1. DOMAIN wire = 1..Len(wire)
      BY <1>1, LenProperties
    <2> QED BY <2>1 DEF Pending, Counts, OfKind, SKinds
  <1>3. Taken \in Seq(Answers)
    BY <1>1, ConcatProperties, EmptySeq DEF Taken
  <1>4. DOMAIN Taken = 1..Len(Taken)
    BY <1>3, LenProperties
  <1> QED BY <1>2, <1>3, <1>4 DEF Ops

\* What it sees of the next one.
LEMMA MappedNext ==
  ASSUME TypeOK'
  PROVE  /\ Pending' = Counts(wire')
         /\ [i \in DOMAIN Taken |-> Taken[i].op]' = Ops(Taken')
         /\ Taken' \in Seq(Answers)
  <1>1. (TypeOK => /\ Pending = Counts(wire)
                   /\ [i \in DOMAIN Taken |-> Taken[i].op] = Ops(Taken)
                   /\ Taken \in Seq(Answers))'
    BY Mapped, PTL
  <1> QED BY <1>1 DEF Counts, OfKind, Kind, Ops

\* Session starts where the forwarder starts.
LEMMA SessionInit == Init /\ TypeOK => Contract!Init
  <1> SUFFICES ASSUME Init, TypeOK PROVE Contract!Init
    OBVIOUS
  <1>1. LinkState = "closed" /\ Resuming = FALSE
    BY DEF Init, LinkState, Resuming
  <1>2. Pending = [k \in SKinds |-> 0]
    BY Mapped, CountsEmpty DEF Init
  <1>3. Taken = <<>>
    BY DEF Init, Taken
  <1>4. [i \in DOMAIN Taken |-> Taken[i].op] = <<>>
    BY <1>3
  <1> QED BY <1>1, <1>2, <1>4 DEF Contract!Init, Contract!Nothing, Contract!Kinds, SKinds, Resuming

\* A step that moves neither message nor link is none of Session.
LEMMA SessionStays ==
  ASSUME UNCHANGED <<link, wire, inbound, vec>>, pc' = "suspended" <=> pc = "suspended"
  PROVE  UNCHANGED Contract!vars
  BY DEF Contract!vars, LinkState, Pending, Taken

\* The connection is lost: whatever was under way goes with it.
LEMMA SessionLost ==
  ASSUME Inv, Inv', link # "lost", link' = "lost"
  PROVE  Contract!Lose
  <1>1. LinkState # "lost" /\ LinkState' = "lost" /\ Resuming' = FALSE
    BY DEF LinkState, Resuming
  <1>2. TypeOK' /\ wire' = <<>>
    BY DEF Inv, Connected
  <1>4. Pending' = Counts(wire')
    BY <1>2, MappedNext
  <1>5. Pending' = [k \in SKinds |-> 0]
    BY <1>2, <1>4, CountsEmpty
  <1>6. Taken' = <<>>
    BY DEF Taken
  <1>7. [i \in DOMAIN Taken |-> Taken[i].op]' = <<>>
    BY <1>6
  <1> QED BY <1>1, <1>5, <1>7 DEF Contract!Lose, Contract!Nothing, Contract!Kinds, SKinds, Resuming

\* The connect callback opens the link, or loses it.
LEMMA ConnectCBSession ==
  ASSUME Inv, Inv', ConnectCB
  PROVE  Contract!Next
  <1>1. link \in {"connecting", "no address"} /\ link # "lost"
        /\ UNCHANGED <<log, threadVars, subscribe, upload, lastID, inbound, vec, raised>>
    BY DEF ConnectCB
  <1>2. CASE link' = "lost"
    BY <1>1, <1>2, SessionLost DEF Contract!Next
  <1>3. CASE link' = "up" /\ wire' = <<Plain("CONNECT")>>
    <2>1. pc = "suspended" /\ wire = <<>> /\ inbound = <<>> /\ vec = <<>> /\ pc' = "suspended"
      BY <1>1 DEF Inv, Connected, threadVars
    <2>2. LinkState = "closed" /\ LinkState' = "open" /\ Resuming = FALSE /\ Resuming' = FALSE
      BY <1>1, <1>3, <2>1 DEF LinkState, Resuming
    <2>3. PICK e \in Seq(Requests), m \in Requests :
            e = wire /\ m = Plain("CONNECT") /\ m.op = "CONNECT"
      BY RequestForms DEF Inv, TypeOK
    <2>4. wire' = Append(e, m)
      BY <1>3, <2>1, <2>3
    <2>5. Kind(m) = "CONNECT"
      BY <2>3 DEF Kind
    <2>6. Counts(Append(e, m)) = [Counts(e) EXCEPT !["CONNECT"] = @ + 1]
      BY <2>5, CountsAppend
    <2>7. Pending = Counts(e)
      BY <2>3, Mapped DEF Inv
    <2>8. Pending' = Counts(wire')
      BY MappedNext DEF Inv
    <2>9. Pending' = [Pending EXCEPT !["CONNECT"] = @ + 1]
      BY <2>4, <2>6, <2>7, <2>8
    <2>10. Taken = <<>> /\ Taken' = <<>>
      <3>1. <<>> \o <<>> = <<>>
        OBVIOUS
      <3> QED BY <1>1, <2>1, <3>1 DEF Taken
    <2>11. [i \in DOMAIN Taken |-> Taken[i].op]' = [i \in DOMAIN Taken |-> Taken[i].op]
      BY <2>10
    <2>12. Contract!Open
      BY <2>2, <2>9, <2>11 DEF Contract!Open, Contract!More, Resuming
    <2> QED BY <2>12 DEF Contract!Next
  <1> QED BY <1>2, <1>3 DEF ConnectCB

\* Sending a batch is a SendBatch of Session, or the loss of it.
LEMMA SendBatchSession ==
  ASSUME Inv, Inv', SendBatch
  PROVE  Contract!Next \/ UNCHANGED Contract!vars
  <1>1. pc = "send" /\ pc' = "reset" /\ batch \in Batches
    BY DEF SendBatch, Inv, TypeOK
  <1>2. CASE link' = "lost" /\ link # "lost"
    BY <1>2, SessionLost DEF Contract!Next
  <1>3. CASE link' = "lost" /\ link = "lost"
    <2>1. wire = <<>> /\ inbound = <<>> /\ wire' = <<>> /\ inbound' = <<>>
      BY <1>3 DEF Inv, Connected
    <2>2. vec' = vec
      BY DEF SendBatch
    <2> QED BY <1>1, <1>3, <2>1, <2>2, SessionStays
  <1>4. CASE link = "up" /\ wire' = Append(wire, batch) /\ UNCHANGED <<link, inbound, vec, causes>>
    <2>1. LinkState = "open" /\ LinkState' = "open" /\ Resuming = TRUE /\ Resuming' = TRUE
      BY <1>1, <1>4 DEF LinkState, Resuming
    <2>2. PICK e \in Seq(Requests), m \in Requests : e = wire /\ m = batch /\ m.op = "LOG"
      BY <1>1, RequestForms DEF Inv, TypeOK
    <2>3. PICK k \in {"FULL", "PART"} : k = Kind(m)
      BY <2>2 DEF Kind
    <2>4. Counts(Append(e, m)) = [Counts(e) EXCEPT ![k] = @ + 1]
      BY <2>3, CountsAppend
    <2>5. Pending = Counts(e) /\ Pending' = Counts(wire')
      BY <2>2, Mapped, MappedNext DEF Inv
    <2>6. Pending' = [Pending EXCEPT ![k] = @ + 1]
      BY <1>4, <2>2, <2>4, <2>5
    <2>7. [i \in DOMAIN Taken |-> Taken[i].op]' = [i \in DOMAIN Taken |-> Taken[i].op]
      BY <1>4 DEF Taken
    <2>8. Contract!SendBatch(k)
      BY <2>1, <2>6, <2>7 DEF Contract!SendBatch, Contract!More, Resuming
    <2> QED BY <2>8 DEF Contract!Next, Contract!Kinds
  <1> QED BY <1>2, <1>3, <1>4 DEF SendBatch

IsAnswerTo(m, a) ==
  \/ a.op = "REFUSE"
  \/ m.op = "CONNECT" /\ a.op = "CONNECT"
  \/ m.op = "QUERY" /\ a.op = "RETURN"
  \/ m.op = "LOG" /\ m.full /\ a.op = "ACCEPT"

\* The server's answering is an Answer or a Settle of Session.
LEMMA ServerAnswersSession ==
  ASSUME Inv, Inv', ServerAnswers
  PROVE  Contract!Next
  <1>1. PICK n \in 1..Len(wire), m \in Requests :
           /\ m = wire[n] /\ wire' = RemoveAt(wire, n) /\ link = "up"
           /\ UNCHANGED <<log, cursor, pc, woken, batch, subscribe, upload, lastID, link, vec, raised>>
           /\ \/ inbound' = inbound /\ m.op = "LOG" /\ ~m.full /\ causes' = causes
              \/ \E a \in Answers :
                   /\ inbound' = Append(inbound, a)
                   /\ \/ a.op = "REFUSE" /\ causes' = causes \cup {"refused"}
                      \/ m.op = "CONNECT" /\ a.op = "CONNECT" /\ causes' = causes
                      \/ m.op = "QUERY" /\ a.op = "RETURN" /\ causes' = causes
                      \/ m.op = "LOG" /\ m.full /\ a.op = "ACCEPT" /\ causes' = causes
    BY ServerTakes DEF Inv
  <1>2. LinkState = "open" /\ LinkState' = "open" /\ Resuming' = Resuming
    BY <1>1 DEF LinkState, Resuming
  <1>3. wire \in Seq(Requests) /\ vec \in Seq(Answers) /\ inbound \in Seq(Answers)
        /\ TypeOK /\ TypeOK'
    BY DEF Inv, TypeOK
  <1>4. PICK k \in SKinds : k = Kind(m) /\ Pending[k] > 0
                            /\ Pending' = [Pending EXCEPT ![k] = @ - 1]
    <2>1. /\ Counts(RemoveAt(wire, n)) = [Counts(wire) EXCEPT ![Kind(wire[n])] = @ - 1]
          /\ Kind(wire[n]) \in SKinds /\ Counts(wire)[Kind(wire[n])] > 0
      BY <1>3, CountsRemoved
    <2>2. Pending = Counts(wire) /\ Pending' = Counts(wire')
      BY <1>3, Mapped, MappedNext
    <2> QED BY <1>1, <2>1, <2>2
  <1>5. CASE inbound' = inbound /\ m.op = "LOG" /\ ~m.full
    <2>1. k = "PART"
      BY <1>4, <1>5 DEF Kind
    <2>2. [i \in DOMAIN Taken |-> Taken[i].op]' = [i \in DOMAIN Taken |-> Taken[i].op]
      BY <1>1, <1>5 DEF Taken
    <2>3. Contract!Settle
      BY <1>2, <1>4, <2>1, <2>2 DEF Contract!Settle, Contract!Less, Resuming
    <2> QED BY <2>3 DEF Contract!Next
  <1>6. ASSUME NEW a \in Answers, inbound' = Append(inbound, a),
               IsAnswerTo(m, a)
        PROVE  Contract!Next
    <2>1. PICK t \in Seq(Answers) : t = Taken /\ t = vec \o inbound
      BY <1>1, <1>3, Mapped DEF Taken
    <2>2. Taken' = Append(t, a)
      <3>1. Taken' = vec \o inbound'
        BY <1>1 DEF Taken
      <3> QED BY <1>3, <1>6, <2>1, <3>1, ConcatAppend
    <2>3. Ops(Taken') = Append(Ops(t), a.op)
      BY <2>2, OpsForms
    <2>4. [i \in DOMAIN Taken |-> Taken[i].op] = Ops(t)
          /\ [i \in DOMAIN Taken |-> Taken[i].op]' = Ops(Taken')
      BY <1>3, <2>1, Mapped, MappedNext
    <2>5. a.op \in {"REFUSE"} \cup {Contract!AnswerTo[o] : o \in DOMAIN Contract!AnswerTo \cap {k}}
      <3>1. \/ a.op = "REFUSE"
            \/ k = "CONNECT" /\ a.op = "CONNECT"
            \/ k = "QUERY" /\ a.op = "RETURN"
            \/ k = "FULL" /\ a.op = "ACCEPT"
        BY <1>4, <1>6 DEF Kind, IsAnswerTo
      <3>2. PICK f : f = Contract!AnswerTo
        OBVIOUS
      <3>3. f = [CONNECT |-> "CONNECT", QUERY |-> "RETURN", FULL |-> "ACCEPT"]
        BY <3>2 DEF Contract!AnswerTo
      <3>4. DOMAIN f = {"CONNECT", "QUERY", "FULL"}
        BY <3>3
      <3>5. f["CONNECT"] = "CONNECT" /\ f["QUERY"] = "RETURN" /\ f["FULL"] = "ACCEPT"
        BY <3>3
      <3>6. a.op = "REFUSE" \/ (k \in DOMAIN f /\ a.op = f[k])
        BY <3>1, <3>4, <3>5
      <3> QED BY <3>2, <3>6
    <2>6. Contract!Answer(k)
      BY <1>2, <1>4, <2>3, <2>4, <2>5 DEF Contract!Answer, Contract!Less, Resuming
    <2> QED BY <2>6 DEF Contract!Next, Contract!Kinds, SKinds
  <1>7. \/ inbound' = inbound /\ m.op = "LOG" /\ ~m.full
        \/ \E a \in Answers : inbound' = Append(inbound, a) /\ IsAnswerTo(m, a)
    BY <1>1 DEF IsAnswerTo
  <1>8. CASE \E a \in Answers : inbound' = Append(inbound, a) /\ IsAnswerTo(m, a)
    BY <1>6, <1>8
  <1> QED BY <1>5, <1>7, <1>8

\* The read callback is a Take of Session.
LEMMA ReadCBSession ==
  ASSUME Inv, Inv', ReadCB
  PROVE  Contract!Next
  <1>1. PICK m \in Answers :
           /\ Handle(m) /\ link = "up"
           /\ UNCHANGED <<log, cursor, woken, batch, subscribe, link, causes>>
           /\ inbound' \in Seq(Answers) /\ vec' \in Seq(Answers)
           /\ ToSet(inbound) \cup ToSet(vec) = {m} \cup ToSet(inbound') \cup ToSet(vec')
           /\ vec \o inbound # <<>> /\ Head(vec \o inbound) = m
           /\ Tail(vec \o inbound) = vec' \o inbound'
    BY ReadTakes DEF Inv
  <1>2. LinkState = "open" /\ LinkState' = "open"
    BY <1>1 DEF LinkState
  <1>3. wire \in Seq(Requests) /\ TypeOK /\ TypeOK'
    BY DEF Inv, TypeOK
  <1>4. PICK t \in Seq(Answers) : t = Taken /\ t # <<>> /\ Head(t) = m /\ Taken' = Tail(t)
    BY <1>1, <1>3, Mapped DEF Taken
  <1>5. PICK o : o = Ops(t) /\ o # <<>> /\ Head(o) = m.op /\ Ops(Taken') = Tail(o)
    BY <1>4, OpsForms
  <1>6. [i \in DOMAIN Taken |-> Taken[i].op] = o /\ [i \in DOMAIN Taken |-> Taken[i].op]' = Tail(o)
    BY <1>3, <1>4, <1>5, Mapped, MappedNext
  <1>7. Pending' = IF m.op = "CONNECT" THEN [Pending EXCEPT !["QUERY"] = @ + 1] ELSE Pending
    <2>1. CASE m.op = "CONNECT"
      <3>1. wire' = Append(wire, Plain("QUERY"))
        BY <1>1, <2>1 DEF Handle
      <3>2. PICK r \in Requests : r = Plain("QUERY") /\ Kind(r) = "QUERY"
        BY RequestForms DEF Kind
      <3>3. Counts(Append(wire, r)) = [Counts(wire) EXCEPT !["QUERY"] = @ + 1]
        BY <1>3, <3>2, CountsAppend
      <3> QED BY <1>3, <2>1, <3>1, <3>2, <3>3, Mapped, MappedNext
    <2>2. CASE m.op # "CONNECT"
      <3>1. wire' = wire
        BY <1>1, <2>2 DEF Handle
      <3> QED BY <1>3, <2>2, <3>1, Mapped, MappedNext
    <2> QED BY <2>1, <2>2
  <1>8. Resuming' = (Resuming \/ m.op = "RETURN")
    <2>1. CASE m.op = "RETURN"
      <3>1. pc = "suspended"
        BY <1>1, <2>1 DEF Inv, Resumed
      <3>2. lastID = 0
        BY <3>1 DEF Inv, Suspended
      <3>3. pc' = "resumed"
        BY <1>1, <2>1, <3>1, <3>2 DEF Handle
      <3> QED BY <1>1, <2>1, <3>3 DEF Resuming
    <2>2. CASE m.op # "RETURN"
      <3>1. pc' = pc
        BY <1>1, <2>2 DEF Handle
      <3> QED BY <1>1, <2>2, <3>1 DEF Resuming
    <2> QED BY <2>1, <2>2
  <1>9. Contract!Take
    BY <1>2, <1>5, <1>6, <1>7, <1>8 DEF Contract!Take, Contract!More, Resuming
  <1> QED BY <1>9 DEF Contract!Next

\* Every step of the forwarder is a step of Session or none.
LEMMA SessionStep == Inv /\ Inv' /\ [Next]_vars => [Contract!Next]_(Contract!vars)
  <1> SUFFICES ASSUME Inv, Inv', [Next]_vars
               PROVE  Contract!Next \/ UNCHANGED Contract!vars
    OBVIOUS
  <1>1. ASSUME UNCHANGED <<link, wire, inbound, vec>>, pc' = "suspended" <=> pc = "suspended"
        PROVE  UNCHANGED Contract!vars
    BY <1>1, SessionStays
  <1>2. CASE NewEvent
    BY <1>1, <1>2 DEF NewEvent, threadVars, netVars
  <1>3. CASE Subscribe
    BY <1>1, <1>3 DEF Subscribe, netVars
  <1>4. CASE Wake
    BY <1>1, <1>4 DEF Wake, netVars
  <1>5. CASE EnumerateResults
    BY <1>1, <1>5 DEF EnumerateResults, netVars
  <1>6. CASE SendBatch
    BY <1>6, SendBatchSession
  <1>7. CASE ResetSignal
    BY <1>1, <1>7 DEF ResetSignal, netVars
  <1>8. CASE ConnectTo
    <2>1. /\ link = "off" /\ link' \in {"connecting", "no address"}
          /\ UNCHANGED <<pc, wire, inbound, vec>>
      BY <1>8 DEF ConnectTo, threadVars
    <2> QED BY <2>1 DEF Contract!vars, LinkState, Pending, Taken
  <1>9. CASE ConnectCB
    BY <1>9, ConnectCBSession
  <1>10. CASE ReadCB
    BY <1>10, ReadCBSession
  <1>11. CASE ServerAnswers
    BY <1>11, ServerAnswersSession
  <1>12. CASE LinkLost
    BY <1>12, SessionLost DEF LinkLost, Contract!Next
  <1>13. CASE UNCHANGED vars
    BY <1>1, <1>13 DEF vars, threadVars, netVars
  <1> QED BY <1>2, <1>3, <1>4, <1>5, <1>6, <1>7, <1>8, <1>9, <1>10, <1>11, <1>12, <1>13
          DEF Next, ThreadStep

\* The service keeps its side of Session, with a server that behaves as Server
\* does: no batch before it is told where to go on, one request for each answer
\* that calls for one, answers taken in the order in which they came.
THEOREM ImplementsSession == Spec => KeepsSession
  <1>1. Init => Contract!Init
    BY InitKeeps, SessionInit DEF Inv
  <1>2. Inv /\ Inv' /\ [Next]_vars => [Contract!Next]_(Contract!vars)
    BY SessionStep
  <1> QED BY <1>1, <1>2, Invariant, PTL DEF Spec, KeepsSession, Contract!Spec
=============================================================================
