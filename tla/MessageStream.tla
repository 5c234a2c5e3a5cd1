---------------------------- MODULE MessageStream ----------------------------
(***************************************************************************)
(* What ProtobufPacketDecoder promises the rest of the program: a byte     *)
(* stream cut into arbitrary reads comes out as whole messages, each once, *)
(* in the order they were sent, and waits in the decoder's deque until it  *)
(* is taken.  A restart of the stream drops what was not taken.            *)
(* Messages are named by their position in the sending order.              *)
(***************************************************************************)
EXTENDS Naturals, Sequences

VARIABLES posted,     \* how many messages the sender has encoded
          delivered,  \* how many of them the decoder has put into its deque
          inbox       \* messages decoded and not yet taken

vars == <<posted, delivered, inbox>>

Init == posted = 0 /\ delivered = 0 /\ inbox = <<>>

Post ==
  /\ posted' = posted + 1
  /\ UNCHANGED <<delivered, inbox>>

Deliver ==
  /\ delivered < posted
  /\ delivered' = delivered + 1
  /\ inbox' = Append(inbox, delivered + 1)
  /\ UNCHANGED posted

Take ==
  /\ inbox # <<>>
  /\ inbox' = Tail(inbox)
  /\ UNCHANGED <<posted, delivered>>

Restart ==
  /\ delivered' = posted
  /\ inbox' = <<>>
  /\ UNCHANGED posted

Next == Post \/ Deliver \/ Take \/ Restart

Spec == Init /\ [][Next]_vars

FairSpec == Spec /\ WF_vars(Deliver) /\ WF_vars(Take)
=============================================================================
