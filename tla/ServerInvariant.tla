---------------------------- MODULE ServerInvariant ----------------------------
(***************************************************************************)
(* The inductive invariant behind the properties of Server: where each     *)
(* message of a connection can be, and what that says of the connection.   *)
(***************************************************************************)
EXTENDS Server

\* The requests of c that the loop has not taken, and the answers c has not.
Pipe(c) == vec[c] \o chan[c]
Line(c) == out[c] \o Delivered(c)

\* The messages in the hands of the loop and the pool, and those among them
\* that have not been answered.
Taken == ({op} \ {None}) \cup ToSet(work) \cup Jobs \cup ToSet(finished)
Open  == ({op} \ {None}) \cup ToSet(work)
         \cup {worker[w].job : w \in {v \in Workers : worker[v].pc \in {"insert", "accept"}}}

\* The requests of c that the server has, and those it has answered.
Asked(c)   == ToSet(Pipe(c)) \cup {m \in Taken : m.c = c}
Replied(c) == {a.of : a \in ToSet(Line(c))}

\* A client's requests have an order.
Rank(m) == IF m.op = "LOG" THEN m.rid + 1 ELSE IF m.op = "QUERY" THEN 1 ELSE 0
Increasing(s) == \A i, j \in 1..Len(s) : i < j => Rank(s[i]) < Rank(s[j])

\* Messages go to and come from the connection they are about.
Named(c) ==
  /\ \A m \in ToSet(Pipe(c)) : m.c = c
  /\ \A a \in ToSet(Line(c)) : a.to = c /\ a.of.c = c

\* The requests are taken in the order in which they were sent.
InOrder(c) ==
  /\ Increasing(Pipe(c))
  /\ \A m \in Taken, n \in ToSet(Pipe(c)) : m.c = c => Rank(m) < Rank(n)

\* A request has one answer, and that after it was dealt with.
Single(s) == \A i, j \in 1..Len(s) : s[i].of = s[j].of => i = j

Answered(c) ==
  /\ Single(Line(c))
  /\ Replied(c) \cap (ToSet(Pipe(c)) \cup Open) = {}

\* What an answer says of its request.
Means(a) ==
  /\ a.op = "CONNECT" => a.of.op = "CONNECT"
  /\ a.op = "RETURN"  => /\ a.of.op = "QUERY"
                         /\ a.id \in 1..LastEventRecordID(machine[a.to]) + 1
  /\ a.op = "ACCEPT"  => /\ a.of.op = "LOG" /\ a.of.full
                         /\ a.of.kind = "good" => a.of \in rows

Meaning(c) == \A a \in ToSet(Line(c)) : Means(a)

\* Client::_client is set once the first request has been answered.
Known(c) ==
  \/ peer[c] \in {"querying", "sending"}
  \/ \E m \in Asked(c) : m.op # "CONNECT"
  \/ \E a \in ToSet(Line(c)) : a.op \in {"CONNECT", "RETURN"}
  => dbc[c] = machine[c]

\* Where a client is in the protocol is what it has sent.
Phase(c) ==
  LET sent == Asked(c) \cup Replied(c) IN
  /\ peer[c] = "off"        => sent = {}
  /\ peer[c] = "connecting" => sent \subseteq {Connect(c)}
  /\ peer[c] = "querying"   => sent \subseteq {Query(c)}
  /\ peer[c] = "sending"    => \A m \in sent : m.op = "LOG" /\ m.rid < next[c]
  /\ peer[c] = "gone"       => out[c] = <<>>

Local(c) ==
  Named(c) /\ InOrder(c) /\ Answered(c) /\ Meaning(c) /\ Known(c) /\ Phase(c)

\* The loop's transaction is for a request of the handshake; a worker accepts
\* a full batch that is stored, unless the database rejected it.
Handled ==
  /\ op # None => op.op \in {"CONNECT", "QUERY"}
  /\ \A w \in Workers : worker[w].pc = "accept" =>
       worker[w].job.full /\ (worker[w].job.kind = "good" => worker[w].job \in rows)

\* A batch is in one place of the pool.
Distinct(s) == \A i, j \in 1..Len(s) : s[i] = s[j] => i = j

OnePlace ==
  /\ Distinct(work) /\ Distinct(finished)
  /\ \A v, w \in Workers :
       worker[v] # Idle /\ worker[w] # Idle /\ worker[v].job = worker[w].job => v = w
  /\ ToSet(work) \cap Jobs = {}
  /\ ToSet(work) \cap ToSet(finished) = {}
  /\ Jobs \cap ToSet(finished) = {}

Inv ==
  /\ TypeOK /\ Handled /\ OnePlace /\ live = Held
  /\ \A c \in Conns : Local(c)

\* While the client is there and the server runs, whatever the server holds of the
\* connection it has read from an open handle, and writes to one.
Served(c) ==
  Running /\ peer[c] # "gone" =>
    \/ obj[c] = "open"
    \/ /\ obj[c] \in {"none", "leaked"}
       /\ \A m \in Taken : m.c # c
       /\ \A a \in ToSet(sending) : a.to # c

SessionInv == Inv /\ \A c \in Conns : Served(c)

=============================================================================
