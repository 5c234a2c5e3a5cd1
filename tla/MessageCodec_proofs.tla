-------------------------- MODULE MessageCodec_proofs --------------------------
(***************************************************************************)
(* Proofs about the conversion and the rendering of messages, for batches  *)
(* of any length.                                                          *)
(***************************************************************************)
EXTENDS MessageCodec, SequenceLemmas

-----------------------------------------------------------------------------
(* Rendering is a recursion over the records of a batch *)

\* What a loop over the records has before its first turn and after its n-th.
IsTurns(acc, records, N, ignore, metadata, unset) ==
  acc = [n \in 0..N |-> IF n = 0 THEN [e |-> unset, sent |-> <<>>]
                                 ELSE Turn(acc[n - 1], records[n], n, ignore, metadata)]

\* The loop ends for every number of records.
LEMMA TurnsExist ==
  ASSUME NEW records, NEW ignore, NEW metadata, NEW unset, NEW N \in Nat
  PROVE  \E acc : IsTurns(acc, records, N, ignore, metadata, unset)
  <1> DEFINE Ends(n) == \E acc : IsTurns(acc, records, n, ignore, metadata, unset)
             T == {n \in Nat : ~ Ends(n)}
  <1>1. Ends(0)
    <2> DEFINE acc == [n \in 0..0 |-> [e |-> unset, sent |-> <<>>]]
    <2>1. \A n \in 0..0 : n = 0
      OBVIOUS
    <2>2. acc = [n \in 0..0 |-> IF n = 0 THEN [e |-> unset, sent |-> <<>>]
                                 ELSE Turn(acc[n - 1], records[n], n, ignore, metadata)]
      BY <2>1
    <2> HIDE DEF acc
    <2> QED BY <2>2 DEF IsTurns
  <1>2. ASSUME NEW m \in Nat, Ends(m)
        PROVE  Ends(m + 1)
    <2>1. PICK f : IsTurns(f, records, m, ignore, metadata, unset)
      BY <1>2
    <2> DEFINE g == [n \in 0..m + 1 |->
                       IF n = m + 1 THEN Turn(f[m], records[m + 1], m + 1, ignore, metadata)
                                    ELSE f[n]]
               body(n) == IF n = 0 THEN [e |-> unset, sent |-> <<>>]
                          ELSE Turn(g[n - 1], records[n], n, ignore, metadata)
    <2>2. \A n \in 0..m : g[n] = f[n]
      OBVIOUS
    <2>3. g[m + 1] = body(m + 1)
      <3>1. m + 1 # 0 /\ m + 1 \in 0..m + 1 /\ m + 1 - 1 = m /\ g[m] = f[m]
        BY <2>2
      <3>2. g[m + 1] = Turn(f[m], records[m + 1], m + 1, ignore, metadata)
        BY <3>1
      <3> HIDE DEF g
      <3> QED BY <3>1, <3>2
    <2>4. ASSUME NEW n \in 0..m
          PROVE  g[n] = body(n)
      <3>1. f[n] = IF n = 0 THEN [e |-> unset, sent |-> <<>>]
                   ELSE Turn(f[n - 1], records[n], n, ignore, metadata)
        BY <2>1 DEF IsTurns
      <3>2. n # 0 => n - 1 \in 0..m
        OBVIOUS
      <3>3. g[n] = f[n] /\ (n # 0 => g[n - 1] = f[n - 1])
        BY <2>2, <3>2
      <3> HIDE DEF g
      <3> QED BY <3>1, <3>3
    <2>5. \A n \in 0..m + 1 : g[n] = body(n)
      <3>1. \A n \in 0..m + 1 : n = m + 1 \/ n \in 0..m
        OBVIOUS
      <3> HIDE DEF g, body
      <3> QED BY <2>3, <2>4, <3>1
    <2>6. g = [n \in 0..m + 1 |-> g[n]]
      OBVIOUS
    <2>7. g = [n \in 0..m + 1 |-> body(n)]
      <3> HIDE DEF g, body
      <3> QED BY <2>5, <2>6
    <2> HIDE DEF g
    <2> QED BY <2>7 DEF IsTurns
  <1> HIDE DEF Ends
  <1>3. ASSUME T # {} PROVE FALSE
    <2>1. PICK n \in T : \A m \in T : n <= m
      BY <1>3, LeastNatural
    <2>2. n # 0 /\ n \in Nat /\ ~ Ends(n)
      BY <1>1, <2>1
    <2>3. n - 1 \in Nat /\ n - 1 + 1 = n /\ ~ (n <= n - 1)
      BY <2>2
    <2>4. ~ Ends(n - 1)
      BY <1>2, <2>2, <2>3
    <2>5. n - 1 \in T
      BY <2>3, <2>4
    <2> QED BY <2>1, <2>3, <2>5
  <1>4. Ends(N)
    BY <1>3
  <1> QED BY <1>4 DEF Ends

\* So Turns is what it is defined to be.
LEMMA TurnsAre ==
  ASSUME NEW records, NEW ignore, NEW metadata, NEW unset, Len(records) \in Nat
  PROVE  LET acc == Turns(records, ignore, metadata, unset)
         IN  /\ acc[0] = [e |-> unset, sent |-> <<>>]
             /\ \A n \in 1..Len(records) :
                  acc[n] = Turn(acc[n - 1], records[n], n, ignore, metadata)
  <1> DEFINE acc == Turns(records, ignore, metadata, unset)
  <1>1. IsTurns(acc, records, Len(records), ignore, metadata, unset)
    <2>1. \E f : IsTurns(f, records, Len(records), ignore, metadata, unset)
      BY TurnsExist
    <2> QED BY <2>1 DEF IsTurns, Turns
  <1>2. PICK N \in Nat : N = Len(records)
    OBVIOUS
  <1>3. 0 \in 0..N /\ \A n \in 1..N : n \in 0..N /\ n # 0
    OBVIOUS
  <1>4. acc = [n \in 0..N |-> IF n = 0 THEN [e |-> unset, sent |-> <<>>]
                              ELSE Turn(acc[n - 1], records[n], n, ignore, metadata)]
    BY <1>1, <1>2 DEF IsTurns
  <1> HIDE DEF acc
  <1>5. acc[0] = [e |-> unset, sent |-> <<>>]
    BY <1>3, <1>4
  <1>6. ASSUME NEW n \in 1..N
        PROVE  acc[n] = Turn(acc[n - 1], records[n], n, ignore, metadata)
    BY <1>3, <1>4
  <1>7. QED
    BY <1>2, <1>5, <1>6 DEF acc

-----------------------------------------------------------------------------
(* What a batch says of its records *)

Levels == ToSet(LogLevels)

\* The Event e, after the n-th record, bears that record's texts, and its
\* numbers where the record has them.
Bears(e, records, n) ==
  /\ e.xml = Text("xml", n) /\ e.provider = Text("provider", n) /\ e.timeStamp = Text("time", n)
  /\ records[n].rid # None => e.rid = records[n].rid
  /\ records[n].level \in 1..5 => e.llevel = LogLevels[records[n].level]

\* A batch made from the first n records: each Event is of one of them and
\* wanted, they are in order, and no wanted one is missing.
IsBatch(s, records, n, ignore) ==
  /\ s \in Seq(Events)
  /\ \A k \in 1..Len(s) :
       /\ s[k].xml[2] \in 1..n /\ Bears(s[k], records, s[k].xml[2])
       /\ s[k].format \in {Empty, s[k].xml} /\ s[k].rid >= ignore
  /\ \A j, k \in 1..Len(s) : j < k => s[j].xml[2] < s[k].xml[2]
  /\ \A i \in 1..n : records[i].rid # None /\ records[i].rid >= ignore =>
       \E k \in 1..Len(s) : s[k].xml[2] = i

\* The five levels, by number.
LEMMA LevelNames ==
  /\ \A n \in 1..5 : LogLevels[n] \in Levels
  /\ \A m, n \in 1..5 : LogLevels[m] = LogLevels[n] => m = n
  /\ \A l \in Levels : \E n \in 1..5 : l = LogLevels[n]
  /\ \A n : LogLevelOf(n) \in Levels
  <1>1. PICK f : f = LogLevels
    OBVIOUS
  <1>2. /\ f[1] = "fatal" /\ f[2] = "error" /\ f[3] = "warning" /\ f[4] = "info"
        /\ f[5] = "verbose"
    BY <1>1 DEF LogLevels
  <1>3. \A n \in 1..5 : n = 1 \/ n = 2 \/ n = 3 \/ n = 4 \/ n = 5
    OBVIOUS
  <1>4. Levels = {f[n] : n \in 1..5}
    <2>1. DOMAIN f = 1..5
      BY <1>1 DEF LogLevels
    <2> QED BY <1>1, <2>1 DEF Levels, ToSet
  <1>5. \A m, n \in 1..5 : f[m] = f[n] => m = n
    <2> TAKE m, n \in 1..5
    <2> QED BY <1>2, <1>3
  <1>6. \A n : LogLevelOf(n) \in Levels
    BY <1>1, <1>2, <1>4 DEF LogLevelOf
  <1> QED BY <1>1, <1>4, <1>5, <1>6

\* A level is told on the wire by its place.
LEMMA LevelOnWire ==
  /\ \A n \in 1..5 : WireLevel(LogLevels[n]) = n - 1
  /\ \A l \in Levels : WireLevel(l) \in 0..4
  <1>1. ASSUME NEW n \in 1..5
        PROVE  WireLevel(LogLevels[n]) = n - 1
    <2>1. n - 1 \in 0..4 /\ n - 1 + 1 = n
      OBVIOUS
    <2>2. \A m \in 0..4 : m + 1 \in 1..5
      OBVIOUS
    <2>3. \A m \in 0..4 : LogLevels[m + 1] = LogLevels[n] => m = n - 1
      <3> TAKE m \in 0..4
      <3>1. LogLevels[m + 1] = LogLevels[n] => m + 1 = n
        BY <2>2, LevelNames
      <3> QED BY <3>1
    <2>4. PICK l : l = LogLevels[n]
      OBVIOUS
    <2>5. LogLevels[n - 1 + 1] = l /\ \A m \in 0..4 : LogLevels[m + 1] = l => m = n - 1
      BY <2>1, <2>3, <2>4
    <2>6. (CHOOSE m \in 0..4 : LogLevels[m + 1] = l) = n - 1
      BY <2>1, <2>5
    <2> QED BY <2>4, <2>6 DEF WireLevel
  <1>2. \A n \in 1..5 : n - 1 \in 0..4
    OBVIOUS
  <1> QED BY <1>1, <1>2, LevelNames

\* One record into the Event.
LEMMA Parsed ==
  ASSUME NEW N \in Nat, NEW records \in [1..N -> Records], NEW n \in 1..N, NEW e \in Events
  PROVE  LET p == ParseEventXml(e, records[n], n)
         IN  p \in Events /\ Bears(p, records, n) /\ p.xml[2] = n
  <1>1. PICK r \in Records : r = records[n]
    OBVIOUS
  <1>2. r.level \in 0..5 \cup {None} /\ r.rid \in IDs \cup {None}
    BY DEF Records
  <1>3. PICK p : p = ParseEventXml(e, r, n)
    OBVIOUS
  <1>4. p = [xml |-> Text("xml", n), format |-> e.format, provider |-> Text("provider", n),
             timeStamp |-> Text("time", n),
             level  |-> IF r.level = None THEN e.level ELSE r.level,
             llevel |-> IF r.level = None THEN e.llevel ELSE LogLevelOf(r.level),
             rid    |-> IF r.rid = None THEN e.rid ELSE r.rid]
    BY <1>3 DEF ParseEventXml, Events
  <1>5. Text("xml", n) \in Texts /\ Text("provider", n) \in Texts /\ Text("time", n) \in Texts
        /\ Text("xml", n)[2] = n
    BY DEF Text, Texts
  <1>6. /\ e.format \in Texts /\ e.level \in 0..5 /\ e.llevel \in Levels /\ e.rid \in IDs
    BY DEF Events, Levels
  <1>7. /\ (IF r.level = None THEN e.level ELSE r.level) \in 0..5
        /\ (IF r.level = None THEN e.llevel ELSE LogLevelOf(r.level)) \in Levels
        /\ (IF r.rid = None THEN e.rid ELSE r.rid) \in IDs
    BY <1>2, <1>6, LevelNames
  <1>8. p \in Events
    BY <1>4, <1>5, <1>6, <1>7 DEF Events, Levels
  <1>9. r.level \in 1..5 => p.llevel = LogLevels[r.level]
    BY <1>4, NoneIsNoNumber DEF LogLevelOf
  <1>10. r.rid # None => p.rid = r.rid
    BY <1>4
  <1>11. /\ p.xml = Text("xml", n) /\ p.provider = Text("provider", n)
         /\ p.timeStamp = Text("time", n)
    BY <1>4
  <1> QED BY <1>1, <1>3, <1>5, <1>8, <1>9, <1>10, <1>11 DEF Bears

\* The message is the XML or nothing; no other field changes.
LEMMA Formatted ==
  ASSUME NEW e \in Events, NEW metadata
  PROVE  LET f == FormatEvent(e, metadata)
         IN  /\ f \in Events /\ f.format \in {Empty, f.xml}
             /\ f.xml = e.xml /\ f.provider = e.provider /\ f.timeStamp = e.timeStamp
             /\ f.level = e.level /\ f.llevel = e.llevel /\ f.rid = e.rid
  <1>1. Empty \in Texts
    BY DEF Empty, Texts
  <1>2. PICK x : x = IF metadata THEN e.xml ELSE Empty
    OBVIOUS
  <1>3. x \in Texts /\ x \in {Empty, e.xml}
    BY <1>1, <1>2 DEF Events
  <1>4. FormatEvent(e, metadata) = [e EXCEPT !.format = x]
    BY <1>2 DEF FormatEvent
  <1> QED BY <1>3, <1>4 DEF Events

\* A wanted record extends the batch.
LEMMA BatchGrows ==
  ASSUME NEW N \in Nat, NEW records \in [1..N -> Records], NEW n \in 1..N, NEW ignore,
         NEW s, IsBatch(s, records, n - 1, ignore), NEW f \in Events,
         Bears(f, records, n), f.xml[2] = n, f.format \in {Empty, f.xml}, f.rid >= ignore
  PROVE  IsBatch(Append(s, f), records, n, ignore)
  <1>1. PICK l \in Nat : l = Len(s) /\ s \in Seq(Events)
    BY LenProperties DEF IsBatch
  <1>2. PICK t : t = Append(s, f)
    OBVIOUS
  <1>3. t \in Seq(Events) /\ Len(t) = l + 1 /\ t[l + 1] = f /\ \A i \in 1..l : t[i] = s[i]
    BY <1>1, <1>2, Appended
  <1>4. \A k \in 1..l + 1 : k = l + 1 \/ k \in 1..l
    BY <1>1
  <1>5. \A k \in 1..l :
          /\ s[k].xml[2] \in 1..n - 1 /\ Bears(s[k], records, s[k].xml[2])
          /\ s[k].format \in {Empty, s[k].xml} /\ s[k].rid >= ignore
    BY <1>1 DEF IsBatch
  <1>6. ASSUME NEW k \in 1..l + 1
        PROVE  /\ t[k].xml[2] \in 1..n /\ Bears(t[k], records, t[k].xml[2])
               /\ t[k].format \in {Empty, t[k].xml} /\ t[k].rid >= ignore
    <2>1. CASE k = l + 1
      BY <1>3, <2>1
    <2>2. CASE k \in 1..l
      <3>1. t[k] = s[k]
        BY <1>3, <2>2
      <3>2. s[k].xml[2] \in 1..n
        <4>1. \A i \in 1..n - 1 : i \in 1..n
          OBVIOUS
        <4> QED BY <1>5, <2>2, <4>1
      <3> QED BY <1>5, <2>2, <3>1, <3>2
    <2> QED BY <1>4, <2>1, <2>2
  <1>7. ASSUME NEW j \in 1..l + 1, NEW k \in 1..l + 1, j < k
        PROVE  t[j].xml[2] < t[k].xml[2]
    <2>1. j \in 1..l
      BY <1>1, <1>7
    <2>2. t[j] = s[j] /\ s[j].xml[2] \in 1..n - 1
      BY <1>3, <1>5, <2>1
    <2>3. CASE k = l + 1
      <3>1. t[k].xml[2] = n
        BY <1>3, <2>3
      <3>2. PICK i \in 1..n - 1 : i = s[j].xml[2]
        BY <2>2
      <3> QED BY <2>2, <3>1, <3>2
    <2>4. CASE k \in 1..l
      BY <1>1, <1>3, <1>7, <2>1, <2>2, <2>4 DEF IsBatch
    <2> QED BY <1>4, <2>3, <2>4
  <1>8. ASSUME NEW i \in 1..n, records[i].rid # None, records[i].rid >= ignore
        PROVE  \E k \in 1..l + 1 : t[k].xml[2] = i
    <2>1. CASE i = n
      <3>1. l + 1 \in 1..l + 1
        BY <1>1
      <3> QED BY <1>3, <2>1, <3>1
    <2>2. CASE i \in 1..n - 1
      <3>1. PICK k \in 1..l : s[k].xml[2] = i
        BY <1>1, <1>8, <2>2 DEF IsBatch
      <3>2. k \in 1..l + 1 /\ t[k] = s[k]
        BY <1>1, <1>3
      <3> QED BY <3>1, <3>2
    <2>3. i = n \/ i \in 1..n - 1
      OBVIOUS
    <2> QED BY <2>1, <2>2, <2>3
  <1> QED BY <1>2, <1>3, <1>6, <1>7, <1>8 DEF IsBatch

\* One turn of the loop.
LEMMA TurnKeeps ==
  ASSUME NEW N \in Nat, NEW records \in [1..N -> Records], NEW n \in 1..N,
         NEW ignore, NEW metadata, NEW acc,
         acc.e \in Events, IsBatch(acc.sent, records, n - 1, ignore)
  PROVE  LET t == Turn(acc, records[n], n, ignore, metadata)
         IN  t.e \in Events /\ IsBatch(t.sent, records, n, ignore)
  <1>1. PICK p : p = ParseEventXml(acc.e, records[n], n)
    OBVIOUS
  <1>2. p \in Events /\ Bears(p, records, n) /\ p.xml[2] = n
    BY <1>1, Parsed
  <1>3. PICK f : f = FormatEvent(p, metadata)
    OBVIOUS
  <1>4. /\ f \in Events /\ f.format \in {Empty, f.xml}
        /\ f.xml = p.xml /\ f.provider = p.provider /\ f.timeStamp = p.timeStamp
        /\ f.llevel = p.llevel /\ f.rid = p.rid
    BY <1>2, <1>3, Formatted
  <1>5. Bears(f, records, n) /\ f.xml[2] = n
    BY <1>2, <1>4 DEF Bears
  <1>6. PICK t : t = Turn(acc, records[n], n, ignore, metadata)
    OBVIOUS
  <1>7. CASE Wanted(p, ignore)
    <2>1. t = [e |-> f, sent |-> Append(acc.sent, f)]
      BY <1>1, <1>3, <1>6, <1>7 DEF Turn
    <2>2. f.rid >= ignore
      BY <1>4, <1>7 DEF Wanted
    <2>3. IsBatch(Append(acc.sent, f), records, n, ignore)
      BY <1>4, <1>5, <2>2, BatchGrows
    <2> QED BY <1>4, <1>6, <2>1, <2>3
  <1>8. CASE ~ Wanted(p, ignore)
    <2>1. t = [e |-> p, sent |-> acc.sent]
      BY <1>1, <1>6, <1>8 DEF Turn
    <2>2. ~ (records[n].rid # None /\ records[n].rid >= ignore)
      BY <1>2, <1>8 DEF Bears, Wanted
    <2>3. IsBatch(acc.sent, records, n, ignore)
      <3>1. \A i \in 1..n : i = n \/ i \in 1..n - 1
        OBVIOUS
      <3>2. 1..n - 1 \subseteq 1..n
        OBVIOUS
      <3> QED BY <2>2, <3>1, <3>2 DEF IsBatch
    <2> QED BY <1>2, <1>6, <2>1, <2>3
  <1> QED BY <1>7, <1>8

\* EnumerateResults makes a batch, however many records there are.
LEMMA EnumerateResultsIs ==
  ASSUME NEW N \in Nat, NEW records \in [1..N -> Records], NEW ignore, NEW metadata,
         NEW unset \in Events
  PROVE  IsBatch(EnumerateResults(records, ignore, metadata, unset), records, N, ignore)
  <1>1. Len(records) = N
    <2>1. records \in Seq(Records)
      OBVIOUS
    <2>2. DOMAIN records = 1..N /\ DOMAIN records = 1..Len(records) /\ Len(records) \in Nat
      BY <2>1, LenProperties
    <2> QED BY <2>2
  <1>2. PICK acc : acc = Turns(records, ignore, metadata, unset)
    OBVIOUS
  <1>3. /\ acc[0] = [e |-> unset, sent |-> <<>>]
        /\ \A n \in 1..N : acc[n] = Turn(acc[n - 1], records[n], n, ignore, metadata)
    BY <1>1, <1>2, TurnsAre
  <1> DEFINE Good(n) == acc[n].e \in Events /\ IsBatch(acc[n].sent, records, n, ignore)
             T == {n \in 0..N : ~ Good(n)}
  <1>4. Good(0)
    <2>1. acc[0].e = unset /\ acc[0].sent = <<>>
      BY <1>3
    <2>2. PICK s : s = <<>> /\ s \in Seq(Events) /\ Len(s) = 0
      BY EmptySeq
    <2>3. IsBatch(s, records, 0, ignore)
      <3>1. \A k \in 1..0 : FALSE
        OBVIOUS
      <3> QED BY <2>2, <3>1 DEF IsBatch
    <2> QED BY <2>1, <2>2, <2>3
  <1>5. ASSUME NEW n \in 1..N, Good(n - 1) PROVE Good(n)
    BY <1>3, <1>5, TurnKeeps
  <1> HIDE DEF Good
  <1>6. ASSUME T # {} PROVE FALSE
    <2>0. T \subseteq Nat
      OBVIOUS
    <2>1. PICK n \in T : \A m \in T : n <= m
      BY <1>6, <2>0, LeastNatural
    <2>2. n # 0 /\ n \in 0..N /\ ~ Good(n)
      BY <1>4, <2>1
    <2>3. n \in 1..N /\ n - 1 \in 0..N /\ ~ (n <= n - 1)
      BY <2>2
    <2>4. n - 1 \in T
      BY <1>5, <2>2, <2>3
    <2> QED BY <2>1, <2>3, <2>4
  <1>7. N \in 0..N
    OBVIOUS
  <1>8. Good(N)
    BY <1>6, <1>7
  <1> QED BY <1>1, <1>2, <1>8 DEF EnumerateResults, Good

-----------------------------------------------------------------------------
(* The inductive invariant *)

\* An object the sender has built: of which kind, with which ID, and for a batch,
\* what its events say of the records.
IsBuilt(m, src) ==
  /\ m \in Objects /\ m.op \in Built \cup {"REFUSE"}
  /\ m.id = -1 <=> m.op = "REFUSE"
  /\ IF m.op = "UPDATE_LOG"
     THEN src.records \in RecordLists /\ IsBatch(m.events, src.records, Len(src.records), src.ignore)
     ELSE m.events = <<>>

\* What is on the wire and what the receiver has is made from the sender's object.
Inv ==
  /\ pc \in {"idle", "built", "sent", "received"}
  /\ senderID \in Nat /\ receiverID \in Nat
  /\ pc # "idle" => IsBuilt(msg, source)
  /\ pc = "sent" => wire = ToWire(msg)
  /\ pc = "received" => \E n \in Nat : got = BuildObj(ToWire(msg), n)

\* The fields of the objects the constructors build.
LEMMA Constructs ==
  ASSUME NEW i \in Nat, NEW m \in Constructed(i), NEW src
  PROVE  IsBuilt(m, src)
  <1>1. i # -1
    OBVIOUS
  <1>2. <<>> \in Seq(Events)
    BY EmptySeq
  <1>3. ASSUME NEW op \in Operations, NEW j \in Int, NEW l \in IDs \cup {0}, NEW r \in IDs \cup {0},
               op \in (Built \ {"UPDATE_LOG"}) \cup {"REFUSE"}, j = -1 <=> op = "REFUSE",
               m = [op |-> op, id |-> j, last |-> l, refused |-> r, events |-> <<>>, accept |-> FALSE]
        PROVE  IsBuilt(m, src)
    <2>1. PICK e \in Seq(Events) : e = <<>>
      BY <1>2
    <2>2. m = [op |-> op, id |-> j, last |-> l, refused |-> r, events |-> e, accept |-> FALSE]
      BY <1>3, <2>1
    <2>3. m \in Objects
      BY <2>2 DEF Objects
    <2>4. m.op = op /\ m.id = j /\ m.events = e
      BY <2>2
    <2> QED BY <1>3, <2>1, <2>3, <2>4 DEF IsBuilt
  <1>4. /\ i \in Int /\ -1 \in Int /\ 0 \in IDs \cup {0} /\ \A n \in IDs : n \in IDs \cup {0}
        /\ {"CONNECT", "QUERY_LAST_EVENT", "RETURN_LAST_EVENT", "ACCEPT_LAST_EVENT", "REFUSE"}
             \subseteq Operations \cap ((Built \ {"UPDATE_LOG"}) \cup {"REFUSE"})
    BY DEF Operations, Built
  <1>5. CASE m = Message("CONNECT", i)
    <2>1. m = [op |-> "CONNECT", id |-> i, last |-> 0, refused |-> 0, events |-> <<>>, accept |-> FALSE]
      BY <1>5 DEF Message
    <2> QED BY <1>1, <1>3, <1>4, <2>1
  <1>6. CASE m = Message("QUERY_LAST_EVENT", i)
    <2>1. m = [op |-> "QUERY_LAST_EVENT", id |-> i, last |-> 0, refused |-> 0, events |-> <<>>,
               accept |-> FALSE]
      BY <1>6 DEF Message
    <2> QED BY <1>1, <1>3, <1>4, <2>1
  <1>7. ASSUME NEW n \in IDs, m = [Message("RETURN_LAST_EVENT", i) EXCEPT !.last = n]
        PROVE  IsBuilt(m, src)
    <2>1. m = [op |-> "RETURN_LAST_EVENT", id |-> i, last |-> n, refused |-> 0, events |-> <<>>,
               accept |-> FALSE]
      BY <1>7 DEF Message
    <2> QED BY <1>1, <1>3, <1>4, <2>1
  <1>8. ASSUME NEW n \in IDs, m = [Message("ACCEPT_LAST_EVENT", i) EXCEPT !.last = n]
        PROVE  IsBuilt(m, src)
    <2>1. m = [op |-> "ACCEPT_LAST_EVENT", id |-> i, last |-> n, refused |-> 0, events |-> <<>>,
               accept |-> FALSE]
      BY <1>8 DEF Message
    <2> QED BY <1>1, <1>3, <1>4, <2>1
  <1>9. ASSUME NEW n \in IDs, m = [Message("REFUSE", -1) EXCEPT !.refused = n]
        PROVE  IsBuilt(m, src)
    <2>1. m = [op |-> "REFUSE", id |-> -1, last |-> 0, refused |-> n, events |-> <<>>,
               accept |-> FALSE]
      BY <1>9 DEF Message
    <2> QED BY <1>3, <1>4, <2>1
  <1> QED BY <1>5, <1>6, <1>7, <1>8, <1>9 DEF Constructed

\* And of a batch.
LEMMA BatchConstructs ==
  ASSUME NEW i \in Nat, NEW records \in RecordLists, NEW ignore \in IDs, NEW metadata,
         NEW unset \in Uninitialised, NEW accept \in BOOLEAN, NEW src,
         src = [records |-> records, ignore |-> ignore]
  PROVE  IsBuilt(LogPackage(i, EnumerateResults(records, ignore, metadata, unset), accept), src)
  <1>1. PICK N \in 0..MaxEvents : records \in [1..N -> Records]
    BY DEF RecordLists
  <1>2. N \in Nat /\ Len(records) = N
    <2>1. N \in Nat
      BY CodecBounds
    <2>2. records \in Seq(Records)
      BY <1>1, <2>1
    <2>3. DOMAIN records = 1..N /\ DOMAIN records = 1..Len(records) /\ Len(records) \in Nat
      BY <1>1, <2>2, LenProperties
    <2> QED BY <2>1, <2>3
  <1>3. unset \in Events
    <2>1. PICK l \in {0, 1}, r \in IDs :
            unset = [xml |-> Empty, format |-> Empty, provider |-> Empty, timeStamp |-> Empty,
                     level |-> l, llevel |-> "verbose", rid |-> r]
      BY DEF Uninitialised
    <2>2. Empty \in Texts
      BY DEF Empty, Texts
    <2>3. "verbose" \in ToSet(LogLevels)
      <3>1. 5 \in 1..5 /\ LogLevels[5] = "verbose"
        BY DEF LogLevels
      <3> QED BY <3>1, LevelNames DEF Levels
    <2> QED BY <2>1, <2>2, <2>3 DEF Events
  <1>4. PICK s : s = EnumerateResults(records, ignore, metadata, unset)
    OBVIOUS
  <1>5. IsBatch(s, records, N, ignore)
    BY <1>1, <1>2, <1>3, <1>4, EnumerateResultsIs
  <1>6. s \in Seq(Events)
    BY <1>5 DEF IsBatch
  <1>7. PICK m : m = LogPackage(i, s, accept)
    OBVIOUS
  <1>8. m = [op |-> "UPDATE_LOG", id |-> i, last |-> 0, refused |-> 0, events |-> s, accept |-> accept]
    BY <1>7 DEF LogPackage, Message
  <1>9. m \in Objects /\ m.op = "UPDATE_LOG" /\ m.id = i /\ m.events = s
    BY <1>6, <1>8 DEF Objects, Operations
  <1>10. src.records = records /\ src.ignore = ignore
    OBVIOUS
  <1>11. i # -1 /\ "UPDATE_LOG" \in Built /\ "UPDATE_LOG" # "REFUSE"
    BY DEF Built
  <1>12. IsBuilt(m, src)
    BY <1>2, <1>5, <1>9, <1>10, <1>11 DEF IsBuilt
  <1> QED BY <1>4, <1>7, <1>12

\* The inductive invariant holds at the start.
LEMMA InitInv == Init => Inv
  BY DEF Init, Inv

\* Every step keeps it.
LEMMA StepInv == Inv /\ [Next]_vars => Inv'
  <1> SUFFICES ASSUME Inv, [Next]_vars PROVE Inv'
    OBVIOUS
  <1>1. CASE Build
    <2>1. PICK m \in Constructed(senderID) : Construct(m)
      BY <1>1 DEF Build
    <2>2. pc' = "built" /\ msg' = m /\ senderID' \in Nat /\ receiverID' = receiverID
      BY <1>1, <2>1 DEF Build, Construct, Inv
    <2>3. IsBuilt(m, source')
      BY <2>1, Constructs DEF Inv
    <2> QED BY <2>2, <2>3 DEF Inv
  <1>2. CASE BuildBatch
    <2>1. PICK records \in RecordLists, ignore \in IDs, metadata \in BOOLEAN,
               unset \in Uninitialised, accept \in BOOLEAN :
            /\ Construct(LogPackage(senderID, EnumerateResults(records, ignore, metadata, unset),
                                    accept))
            /\ source' = [records |-> records, ignore |-> ignore]
      BY <1>2 DEF BuildBatch
    <2>2. PICK m : m = LogPackage(senderID, EnumerateResults(records, ignore, metadata, unset), accept)
      OBVIOUS
    <2>3. Construct(m)
      BY <2>1, <2>2
    <2>4. pc' = "built" /\ msg' = m /\ senderID' \in Nat /\ receiverID' = receiverID
      BY <1>2, <2>3 DEF BuildBatch, Construct, Inv
    <2>5. IsBuilt(m, source')
      BY <2>1, <2>2, BatchConstructs DEF Inv
    <2> QED BY <2>4, <2>5 DEF Inv
  <1>3. CASE ToBytes
    <2>1. /\ pc = "built" /\ pc' = "sent" /\ wire' = ToWire(msg)
          /\ UNCHANGED <<source, msg, senderID, receiverID>>
      BY <1>3 DEF ToBytes
    <2>2. ToWire(msg)' = ToWire(msg)
      BY <2>1
    <2> QED BY <2>1, <2>2 DEF Inv
  <1>4. CASE ParseFromArray
    <2>1. /\ pc = "sent" /\ pc' = "received" /\ got' = BuildObj(wire, receiverID + 1)
          /\ receiverID' = receiverID + TakesID(wire) /\ UNCHANGED <<source, msg, senderID>>
      BY <1>4 DEF ParseFromArray
    <2>2. wire = ToWire(msg)
      BY <2>1 DEF Inv
    <2>3. PICK n \in Nat : n = receiverID + 1 /\ got' = BuildObj(ToWire(msg), n)
      BY <2>1, <2>2 DEF Inv
    <2>4. ToWire(msg)' = ToWire(msg)
      BY <2>1
    <2>5. receiverID' \in Nat
      BY <2>1 DEF TakesID, Inv
    <2> QED BY <2>1, <2>3, <2>4, <2>5 DEF Inv
  <1>5. CASE Delete
    BY <1>5 DEF Delete, Inv
  <1>6. CASE UNCHANGED vars
    BY <1>6 DEF vars, Inv
  <1> QED BY <1>1, <1>2, <1>3, <1>4, <1>5, <1>6 DEF Next

\* What arrives is made from what was sent, however long the batches are.
THEOREM Invariant == Spec => []Inv
  <1> QED BY InitInv, StepInv, PTL DEF Spec

-----------------------------------------------------------------------------
(* What the receiver has *)

\* A message the receiver can build is the sender's: its kind, its ID and its
\* numbers, and the events one by one.
Conveys(m, g) ==
  /\ g.op = m.op /\ g.id = m.id /\ g.last = m.last /\ g.accept = m.accept
  /\ m.op \in Built
  /\ Len(m.events) \in Nat /\ DOMAIN m.events = 1..Len(m.events)
  /\ Len(g.events) = Len(m.events) /\ DOMAIN g.events = DOMAIN m.events
  /\ \A k \in DOMAIN m.events :
       LET e == m.events[k]
           h == g.events[k]
       IN  /\ h.xml = e.xml /\ h.format = e.format /\ h.provider = e.provider
           /\ h.timeStamp = e.timeStamp /\ h.rid = e.rid /\ h.level = WireLevel(e.llevel)

\* BuildObj after toBytes.
LEMMA ThereAndBack ==
  ASSUME NEW m, NEW src, IsBuilt(m, src), NEW n
  PROVE  LET g == BuildObj(ToWire(m), n)
         IN  /\ g = None <=> m.op = "REFUSE"
             /\ g # None => Conveys(m, g)
  <1>1. PICK w : w = ToWire(m)
    OBVIOUS
  <1>2. PICK L \in Nat : L = Len(m.events) /\ DOMAIN m.events = 1..L
                         /\ \A k \in 1..L : m.events[k] \in Events
    <2>1. m.events \in Seq(Events)
      BY DEF IsBuilt, Objects
    <2> QED BY <2>1, LenProperties, ElementOfSeq
  <1>3. PICK log : log = [k \in 1..L |-> WireEvent(m.events[k])]
    OBVIOUS
  <1>4. w = [op |-> WireOp(m.op), id |-> m.id, lastEvent |-> m.last, refuseID |-> m.refused,
             log |-> log, logNeedAccept |-> m.accept]
    BY <1>1, <1>2, <1>3 DEF ToWire
  <1>5. /\ w.op = WireOp(m.op) /\ w.id = m.id /\ w.lastEvent = m.last /\ w.log = log
        /\ w.logNeedAccept = m.accept
    BY <1>4
  <1>6. Len(log) = L
    <2>1. PICK S : S = {WireEvent(m.events[k]) : k \in 1..L}
      OBVIOUS
    <2>2. log \in [1..L -> S]
      BY <1>3, <2>1
    <2>3. log \in Seq(S)
      BY <2>2
    <2>4. DOMAIN log = 1..L /\ DOMAIN log = 1..Len(log) /\ Len(log) \in Nat
      BY <2>2, <2>3, LenProperties
    <2> QED BY <2>4
  <1>7. CASE m.op = "REFUSE"
    <2>1. w.op = "INT_MIN" /\ "INT_MIN" \notin Built
      BY <1>5, <1>7 DEF WireOp, Built
    <2>2. BuildObj(w, n) = None
      BY <2>1 DEF BuildObj
    <2> QED BY <1>1, <1>7, <2>2
  <1>8. CASE m.op # "REFUSE"
    <2>1. m.op \in Built /\ w.op = m.op /\ m.id # -1
      BY <1>5, <1>8 DEF IsBuilt, WireOp
    <2>2. PICK es : es = [k \in 1..L |-> ReceivedEvent(log[k])]
      OBVIOUS
    <2>3. PICK g : g = BuildObj(w, n)
      OBVIOUS
    <2>4. ReceivedID(w, n) = m.id
      BY <1>5, <2>1 DEF ReceivedID
    <2>5. g = [op |-> w.op, id |-> m.id, last |-> m.last, refused |-> 0, events |-> es,
               accept |-> m.accept]
      BY <1>5, <1>6, <2>1, <2>2, <2>3, <2>4 DEF BuildObj
    <2>6. /\ g.op = m.op /\ g.id = m.id /\ g.last = m.last /\ g.accept = m.accept
          /\ g.events = es
      BY <2>1, <2>5
    <2>7. ASSUME NEW k \in 1..L
          PROVE  LET e == m.events[k]
                     h == es[k]
                 IN  /\ h.xml = e.xml /\ h.format = e.format /\ h.provider = e.provider
                     /\ h.timeStamp = e.timeStamp /\ h.rid = e.rid
                     /\ h.level = WireLevel(e.llevel) /\ h \in Events
      <3>1. PICK e \in Events : e = m.events[k]
        BY <1>2
      <3>2. PICK v : v = WireEvent(e)
        OBVIOUS
      <3>3. v = [scope |-> e.provider, level |-> WireLevel(e.llevel), rawEventMessage |-> e.format,
                 timeStamp |-> e.timeStamp, xmlEventMessage |-> e.xml, recordID |-> e.rid]
        BY <3>2 DEF WireEvent
      <3>4. es[k] = ReceivedEvent(v)
        BY <1>3, <2>2, <3>1, <3>2
      <3>5. es[k] = [xml |-> e.xml, format |-> e.format, provider |-> e.provider,
                     timeStamp |-> e.timeStamp, level |-> WireLevel(e.llevel),
                     llevel |-> LogLevelOf(WireLevel(e.llevel)), rid |-> e.rid]
        BY <3>3, <3>4 DEF ReceivedEvent, Event
      <3>6. e.llevel \in Levels
        BY DEF Events, Levels
      <3>7. WireLevel(e.llevel) \in 0..5 /\ LogLevelOf(WireLevel(e.llevel)) \in Levels
        <4>1. WireLevel(e.llevel) \in 0..4
          BY <3>6, LevelOnWire
        <4> QED BY <4>1, LevelNames
      <3>8. es[k] \in Events
        BY <3>5, <3>7 DEF Events, Levels
      <3> QED BY <3>1, <3>5, <3>8
    <2>8. es \in Seq(Events) /\ Len(es) = L /\ DOMAIN es = 1..L
      <3>1. es \in [1..L -> Events]
        BY <2>2, <2>7
      <3>2. es \in Seq(Events)
        BY <3>1
      <3>3. DOMAIN es = 1..Len(es) /\ Len(es) \in Nat
        BY <3>2, LenProperties
      <3> QED BY <3>1, <3>2, <3>3
    <2>9. g # None
      <3>1. m.op \in Operations /\ m.id \in Int /\ m.last \in IDs \cup {0} /\ m.accept \in BOOLEAN
        BY DEF IsBuilt, Objects
      <3>2. g \in Objects
        BY <2>1, <2>5, <2>8, <3>1 DEF Objects
      <3> QED BY <3>2, NoneIsNoObject
    <2>10. Conveys(m, g)
      BY <1>2, <2>1, <2>6, <2>7, <2>8 DEF Conveys
    <2> QED BY <1>1, <1>8, <2>3, <2>9, <2>10
  <1> QED BY <1>7, <1>8

\* What has arrived was built and is conveyed.
LEMMA ArrivedIs ==
  ASSUME Inv, Arrived
  PROVE  IsBuilt(msg, source) /\ Conveys(msg, got)
  <1>1. IsBuilt(msg, source)
    BY DEF Inv, Arrived
  <1>2. PICK n \in Nat : got = BuildObj(ToWire(msg), n)
    BY DEF Inv, Arrived
  <1> QED BY <1>1, <1>2, ThereAndBack DEF Arrived

\* What a batch that arrived says of each record, as the invariant has it.
LEMMA ArrivedBatch ==
  ASSUME Inv, Arrived
  PROVE  LET N == Len(source.records) IN
         /\ DOMAIN got.events # {} => got.op = "UPDATE_LOG"
         /\ got.op = "UPDATE_LOG" =>
              /\ IsBatch(msg.events, source.records, N, source.ignore)
              /\ N \in Nat /\ DOMAIN source.records = 1..N
              /\ source.records \in [1..N -> Records]
  <1>1. IsBuilt(msg, source) /\ Conveys(msg, got)
    BY ArrivedIs
  <1>2. msg.op # "UPDATE_LOG" => DOMAIN got.events = {}
    <2>1. ASSUME msg.op # "UPDATE_LOG" PROVE DOMAIN got.events = {}
      <3>1. PICK s : s = msg.events /\ s = <<>>
        BY <1>1, <2>1 DEF IsBuilt
      <3>2. Len(s) = 0
        BY <3>1, EmptySeq
      <3>3. DOMAIN s = 1..0
        BY <1>1, <3>1, <3>2 DEF Conveys
      <3> QED BY <1>1, <3>1, <3>3 DEF Conveys
    <2> QED BY <2>1
  <1>3. ASSUME msg.op = "UPDATE_LOG"
        PROVE  LET N == Len(source.records) IN
               /\ N \in Nat /\ DOMAIN source.records = 1..N
               /\ source.records \in [1..N -> Records]
    <2>1. PICK N \in 0..MaxEvents : source.records \in [1..N -> Records]
      BY <1>1, <1>3 DEF IsBuilt, RecordLists
    <2>2. N \in Nat
      BY CodecBounds
    <2>3. source.records \in Seq(Records)
      BY <2>1, <2>2
    <2>4. DOMAIN source.records = 1..N /\ DOMAIN source.records = 1..Len(source.records)
          /\ Len(source.records) \in Nat
      BY <2>1, <2>3, LenProperties
    <2>5. Len(source.records) = N
      BY <2>2, <2>4
    <2> QED BY <2>1, <2>4, <2>5
  <1> QED BY <1>1, <1>2, <1>3 DEF IsBuilt, Conveys

-----------------------------------------------------------------------------
(* Theorems *)

\* Every message that arrives says what was sent: operation, ID, last event, the
\* wish for an acceptance, and the record IDs in order, in a batch of any length.
THEOREM SaysTheSame == Spec => []RoundTrip
  <1>1. Inv => RoundTrip
    <2> SUFFICES ASSUME Inv, Arrived
                 PROVE  /\ got.op = msg.op /\ got.id = msg.id /\ got.last = msg.last
                        /\ got.accept = msg.accept
                        /\ Len(got.events) = Len(msg.events)
                        /\ \A i \in 1..Len(msg.events) : got.events[i].rid = msg.events[i].rid
      BY DEF RoundTrip
    <2> QED BY ArrivedIs DEF Conveys
  <1> QED BY <1>1, Invariant, PTL

\* A refusal is the one message that the receiver cannot build.
THEOREM RefusalLost == Spec => []OnlyRefusalLost
  <1>1. Inv => OnlyRefusalLost
    <2> SUFFICES ASSUME Inv, pc = "received"
                 PROVE  got = None <=> msg.op = "REFUSE"
      BY DEF OnlyRefusalLost
    <2>1. IsBuilt(msg, source)
      BY DEF Inv
    <2>2. PICK n \in Nat : got = BuildObj(ToWire(msg), n)
      BY DEF Inv
    <2> QED BY <2>1, <2>2, ThereAndBack
  <1> QED BY <1>1, Invariant, PTL

\* Although one Event object serves for all records, what arrives of a record is its
\* own, whatever the length of the batch and whatever its XML lacks.
THEOREM RecordsWhole == Spec => []RecordsArriveWhole
  <1>1. Inv => RecordsArriveWhole
    <2> SUFFICES ASSUME Inv, Arrived, got.op = "UPDATE_LOG"
                 PROVE  LET Of(i) == got.events[i].xml[2]
                            Came  == {Of(i) : i \in DOMAIN got.events}
                        IN  /\ \A i, j \in DOMAIN got.events : i < j => Of(i) < Of(j)
                            /\ \A n \in DOMAIN source.records :
                                 source.records[n].rid # None =>
                                   (n \in Came <=> source.records[n].rid >= source.ignore)
                            /\ \A i \in DOMAIN got.events :
                                 LET e == got.events[i] IN
                                 /\ e.xml = Text("xml", Of(i)) /\ e.provider = Text("provider", Of(i))
                                 /\ e.timeStamp = Text("time", Of(i)) /\ e.format \in {Empty, e.xml}
                                 /\ source.records[Of(i)].rid \in {None, e.rid}
      BY DEF RecordsArriveWhole
    <2>0. PICK R, E, G : R = source.records /\ E = msg.events /\ G = got.events
      OBVIOUS
    <2>1. PICK N \in Nat : N = Len(R) /\ DOMAIN R = 1..N /\ IsBatch(E, R, N, source.ignore)
      BY <2>0, ArrivedBatch
    <2>2. PICK L \in Nat :
            /\ L = Len(E) /\ DOMAIN E = 1..L /\ DOMAIN G = 1..L
            /\ \A k \in 1..L : /\ G[k].xml = E[k].xml /\ G[k].format = E[k].format
                               /\ G[k].provider = E[k].provider /\ G[k].timeStamp = E[k].timeStamp
                               /\ G[k].rid = E[k].rid
      BY <2>0, ArrivedIs DEF Conveys
    <2>3. /\ \A k \in 1..L : /\ E[k].xml[2] \in 1..N /\ Bears(E[k], R, E[k].xml[2])
                             /\ E[k].format \in {Empty, E[k].xml} /\ E[k].rid >= source.ignore
          /\ \A j, k \in 1..L : j < k => E[j].xml[2] < E[k].xml[2]
          /\ \A i \in 1..N : R[i].rid # None /\ R[i].rid >= source.ignore =>
               \E k \in 1..L : E[k].xml[2] = i
      BY <2>1, <2>2 DEF IsBatch
    <2>4. \A i, j \in 1..L : i < j => G[i].xml[2] < G[j].xml[2]
      BY <2>2, <2>3
    <2>5. ASSUME NEW n \in 1..N, R[n].rid # None
          PROVE  (\E k \in 1..L : n = G[k].xml[2]) <=> R[n].rid >= source.ignore
      <3>1. ASSUME NEW k \in 1..L, n = G[k].xml[2]
            PROVE  R[n].rid >= source.ignore
        <4>1. E[k].xml[2] = n /\ E[k].rid = R[n].rid
          BY <2>2, <2>3, <2>5, <3>1 DEF Bears
        <4> QED BY <2>3, <4>1
      <3>2. ASSUME R[n].rid >= source.ignore
            PROVE  \E k \in 1..L : n = G[k].xml[2]
        <4>1. PICK k \in 1..L : E[k].xml[2] = n
          BY <2>3, <2>5, <3>2
        <4> QED BY <2>2, <4>1
      <3> QED BY <3>1, <3>2
    <2>6. ASSUME NEW i \in 1..L
          PROVE  /\ G[i].xml = Text("xml", G[i].xml[2])
                 /\ G[i].provider = Text("provider", G[i].xml[2])
                 /\ G[i].timeStamp = Text("time", G[i].xml[2])
                 /\ G[i].format \in {Empty, G[i].xml}
                 /\ R[G[i].xml[2]].rid \in {None, G[i].rid}
      BY <2>2, <2>3 DEF Bears
    <2>7. \A i, j \in DOMAIN got.events : i < j => got.events[i].xml[2] < got.events[j].xml[2]
      BY <2>0, <2>2, <2>4
    <2>8. \A n \in DOMAIN source.records : source.records[n].rid # None =>
            (n \in {got.events[i].xml[2] : i \in DOMAIN got.events}
               <=> source.records[n].rid >= source.ignore)
      <3>1. \A n : n \in {G[k].xml[2] : k \in 1..L} <=> \E k \in 1..L : n = G[k].xml[2]
        OBVIOUS
      <3>2. \A n \in 1..N : R[n].rid # None =>
              (n \in {G[k].xml[2] : k \in 1..L} <=> R[n].rid >= source.ignore)
        BY <2>5, <3>1
      <3> QED BY <2>0, <2>1, <2>2, <3>2
    <2>9. \A i \in DOMAIN got.events :
            LET e == got.events[i] IN
            /\ e.xml = Text("xml", e.xml[2]) /\ e.provider = Text("provider", e.xml[2])
            /\ e.timeStamp = Text("time", e.xml[2]) /\ e.format \in {Empty, e.xml}
            /\ source.records[e.xml[2]].rid \in {None, e.rid}
      BY <2>0, <2>2, <2>6
    <2> QED BY <2>7, <2>8, <2>9
  <1> QED BY <1>1, Invariant, PTL

\* The wire's severities are off by one, but in the order of the log's.
THEOREM SeverityInOrder == Spec => []SeverityOrderKept
  <1>1. Inv => SeverityOrderKept
    <2> SUFFICES ASSUME Inv, Arrived, NEW i \in DOMAIN got.events, NEW j \in DOMAIN got.events,
                        source.records[got.events[i].xml[2]].level \in 1..5,
                        source.records[got.events[j].xml[2]].level \in 1..5,
                        source.records[got.events[i].xml[2]].level
                          < source.records[got.events[j].xml[2]].level
                 PROVE  got.events[i].level < got.events[j].level
      BY DEF SeverityOrderKept
    <2>1. got.op = "UPDATE_LOG"
      BY ArrivedBatch
    <2>2. IsBatch(msg.events, source.records, Len(source.records), source.ignore)
      BY <2>1, ArrivedBatch
    <2>3. ASSUME NEW k \in DOMAIN got.events,
                 source.records[got.events[k].xml[2]].level \in 1..5
          PROVE  got.events[k].level = source.records[got.events[k].xml[2]].level - 1
      <3>1. k \in 1..Len(msg.events) /\ got.events[k].xml = msg.events[k].xml
            /\ got.events[k].level = WireLevel(msg.events[k].llevel)
        BY ArrivedIs DEF Conveys
      <3>2. Bears(msg.events[k], source.records, msg.events[k].xml[2])
        BY <2>2, <3>1 DEF IsBatch
      <3>3. PICK l \in 1..5 : l = source.records[got.events[k].xml[2]].level
        BY <2>3
      <3>4. msg.events[k].llevel = LogLevels[l]
        BY <3>1, <3>2, <3>3 DEF Bears
      <3> QED BY <3>1, <3>3, <3>4, LevelOnWire
    <2> QED BY <2>3
  <1> QED BY <1>1, Invariant, PTL
================================================================================
