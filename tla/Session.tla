------------------------------ MODULE Session ------------------------------
(***************************************************************************)
(* What the Windows service and the server promise each other on one       *)
(* connection, whatever threads, pool and database are behind it: the      *)
(* handshake, who may send what when, and that an answer answers something.*)
(* Server implements it on each of its connections, with clients that      *)
(* behave as Forwarder does; Forwarder implements it with a server that    *)
(* behaves as Server does.  Each is thus the environment of the other.     *)
(***************************************************************************)
EXTENDS Naturals, Sequences

VARIABLES
  link,      \* "closed", "open" or "lost"
  resumed,   \* has the service been told where to go on?
  pending,   \* how many requests of each kind have not been dealt with
  answers    \* answers the service has not taken

vars == <<link, resumed, pending, answers>>

\* A full batch asks for an acceptance, a partial one for nothing.
Kinds == {"CONNECT", "QUERY", "FULL", "PART"}

AnswerTo == [CONNECT |-> "CONNECT", QUERY |-> "RETURN", FULL |-> "ACCEPT"]

Nothing == [k \in Kinds |-> 0]
More(k) == [pending EXCEPT ![k] = @ + 1]
Less(k) == [pending EXCEPT ![k] = @ - 1]

Init == link = "closed" /\ resumed = FALSE /\ pending = Nothing /\ answers = <<>>

Open ==
  /\ link = "closed" /\ link' = "open"
  /\ pending' = More("CONNECT")
  /\ UNCHANGED <<resumed, answers>>

SendBatch(k) ==
  /\ link = "open" /\ resumed /\ k \in {"FULL", "PART"}
  /\ pending' = More(k)
  /\ UNCHANGED <<link, resumed, answers>>

\* Any request may be refused; the pool may answer batches out of order.
Answer(k) ==
  /\ link = "open" /\ pending[k] > 0
  /\ \E a \in {"REFUSE"} \cup {AnswerTo[o] : o \in DOMAIN AnswerTo \cap {k}} :
       answers' = Append(answers, a)
  /\ pending' = Less(k)
  /\ UNCHANGED <<link, resumed>>

\* A partial batch is stored in silence.
Settle ==
  /\ link = "open" /\ pending["PART"] > 0
  /\ pending' = Less("PART")
  /\ UNCHANGED <<link, resumed, answers>>

Take ==
  /\ link = "open" /\ answers # <<>>
  /\ answers' = Tail(answers)
  /\ pending' = IF Head(answers) = "CONNECT" THEN More("QUERY") ELSE pending
  /\ resumed' = (resumed \/ Head(answers) = "RETURN")
  /\ UNCHANGED link

\* Either process ends, or the connection breaks; what was under way is lost.
Lose ==
  /\ link # "lost" /\ link' = "lost"
  /\ resumed' = FALSE /\ pending' = Nothing /\ answers' = <<>>

Next == \/ Open \/ Settle \/ Take \/ Lose
        \/ \E k \in Kinds : SendBatch(k) \/ Answer(k)

Spec == Init /\ [][Next]_vars
=============================================================================
