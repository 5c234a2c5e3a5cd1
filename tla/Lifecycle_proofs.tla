--------------------------- MODULE Lifecycle_proofs ---------------------------
(***************************************************************************)
(* The inductive invariant of Lifecycle, and the safety properties that    *)
(* follow from it, for every number of pool threads and of signals.        *)
(***************************************************************************)
EXTENDS Lifecycle, SequenceLemmas

-----------------------------------------------------------------------------
(* Stacks *)

\* q is s with another frame f at the top, without the one it has, or with
\* one more.
Replaced(q, s, f) ==
  Len(q) = Len(s) /\ q[Len(s)] = f /\ \A i \in 1..Len(s) - 1 : q[i] = s[i]
Popped(q, s) ==
  Len(q) = Len(s) - 1 /\ \A i \in 1..Len(s) - 1 : q[i] = s[i]
Pushed(q, s, f) ==
  Len(q) = Len(s) + 1 /\ q[Len(s) + 1] = f /\ \A i \in 1..Len(s) : q[i] = s[i]

\* What Append, Front and Last do to a stack.
LEMMA StackOps ==
  ASSUME NEW S, NEW s \in Seq(S), s # <<>>, NEW f \in S
  PROVE  /\ Append(Front(s), f) \in Seq(S) /\ Replaced(Append(Front(s), f), s, f)
         /\ Front(s) \in Seq(S) /\ Popped(Front(s), s)
         /\ Append(s, f) \in Seq(S) /\ Pushed(Append(s, f), s, f)
         /\ Last(s) = s[Len(s)] /\ Last(s) \in S /\ Head(s) = s[1] /\ s[1] \in S
         /\ Len(s) \in Nat /\ Len(s) >= 1
  <1>1. Len(s) \in Nat /\ Len(s) >= 1 /\ \A i \in 1..Len(s) : s[i] \in S
    BY EmptySeq, LenProperties, ElementOfSeq
  <1>2. Last(s) = s[Len(s)] /\ Head(s) = s[1] /\ Last(s) \in S /\ s[1] \in S
    BY <1>1 DEF Last
  <1>3. Front(s) \in Seq(S) /\ Popped(Front(s), s)
    <2>1. \A i \in 1..Len(s) - 1 : s[i] \in S
      BY <1>1
    <2>2. /\ Front(s) \in Seq(S)
          /\ Len(Front(s)) = IF 1 <= Len(s) - 1 THEN Len(s) - 1 ELSE 0
          /\ \A i \in 1..Len(s) - 1 : Front(s)[i] = s[i]
      BY <1>1, <2>1, SubSeqProperties DEF Front
    <2>3. Len(Front(s)) = Len(s) - 1
      <3>1. PICK n \in Nat : n = Len(s) /\ n >= 1
        BY <1>1
      <3> QED BY <2>2, <3>1
    <2> QED BY <2>2, <2>3 DEF Popped
  <1>4. Append(s, f) \in Seq(S) /\ Pushed(Append(s, f), s, f)
    BY <1>1, AppendIs DEF IsAppend, Pushed
  <1> DEFINE r == Front(s)
  <1>5. r \in Seq(S) /\ Len(r) = Len(s) - 1 /\ \A i \in 1..Len(s) - 1 : r[i] = s[i]
    BY <1>3 DEF Popped
  <1> HIDE DEF r
  <1>6. Append(r, f) \in Seq(S) /\ IsAppend(Append(r, f), r, f)
    BY <1>5, AppendIs
  <1>7. Replaced(Append(r, f), s, f)
    BY <1>1, <1>5, <1>6 DEF IsAppend, Replaced
  <1> QED BY <1>1, <1>2, <1>3, <1>4, <1>6, <1>7 DEF r

\* A stack stays layered when its top frame moves within its function.
LEMMA LayeredReplaced ==
  ASSUME NEW s \in Seq(Frames), NEW q \in Seq(Frames), NEW f \in Frames, NEW own,
         s # <<>>, Layered(s, own), Replaced(q, s, f), f.fn = s[Len(s)].fn, Placed(f)
  PROVE  Layered(q, own)
  <1>1. Len(s) \in Nat /\ Len(s) >= 1
    BY EmptySeq, LenProperties
  <1>2. \A i \in 1..Len(q) : i \in 1..Len(s) /\ q[i].fn = s[i].fn /\ Placed(q[i])
    BY <1>1 DEF Replaced, Layered
  <1>3. Len(q) > 1 => q[1] = s[1] /\ Len(s) > 1
    BY <1>1 DEF Replaced
  <1> QED BY <1>1, <1>2, <1>3 DEF Layered

\* A stack stays layered when a frame returns.
LEMMA LayeredPopped ==
  ASSUME NEW s \in Seq(Frames), NEW q \in Seq(Frames), NEW own,
         s # <<>>, Layered(s, own), Popped(q, s)
  PROVE  Layered(q, own)
  <1>1. Len(s) \in Nat /\ Len(s) >= 1
    BY EmptySeq, LenProperties
  <1>2. \A i \in 1..Len(q) : i \in 1..Len(s) /\ q[i] = s[i]
    BY <1>1 DEF Popped
  <1>3. Len(q) > 1 => q[1] = s[1] /\ q[2] = s[2] /\ Len(s) > 1
    BY <1>1 DEF Popped
  <1> QED BY <1>1, <1>2, <1>3 DEF Layered

\* A stack stays layered when a handler starts on it that was not there.
LEMMA LayeredPushed ==
  ASSUME NEW s \in Seq(Frames), NEW q \in Seq(Frames), NEW f \in Frames, NEW own,
         s # <<>>, Layered(s, own), Pushed(q, s, f), f.fn \in {"SIGPIPE", "SIGTERM"}, Placed(f),
         \A i \in 1..Len(s) : s[i].fn # f.fn,
         f.fn = "SIGPIPE" => Len(s) = 1 /\ s[1].pc \in {"callback", "insert"} /\ s[1].lock = "no"
  PROVE  Layered(q, own)
  <1>1. Len(s) \in Nat /\ Len(s) >= 1
    BY EmptySeq, LenProperties
  <1>2. \A i \in 1..Len(q) : \/ i \in 1..Len(s) /\ q[i] = s[i]
                             \/ i = Len(s) + 1 /\ q[i] = f
    BY <1>1 DEF Pushed
  <1>3. q[1] = s[1]
    BY <1>1 DEF Pushed
  <1>4. \A i \in 1..Len(q) :
          /\ Placed(q[i])
          /\ IF i = 1 THEN q[i].fn = own ELSE q[i].fn \in {"SIGPIPE", "SIGTERM"}
          /\ q[i].fn = "SIGPIPE" => i = 2
    BY <1>1, <1>2, <1>3 DEF Layered
  <1>5. \A i, j \in 1..Len(q) : q[i].fn = q[j].fn => i = j
    BY <1>1, <1>2 DEF Layered
  <1>6. Len(q) > 1 /\ q[2].fn = "SIGPIPE" => q[1].pc \in {"callback", "insert"} /\ q[1].lock = "no"
    <2>1. CASE Len(s) = 1
      BY <1>3, <2>1 DEF Pushed
    <2>2. CASE Len(s) # 1
      <3>1. Len(s) > 1 /\ 2 \in 1..Len(s)
        <4>1. PICK n \in Nat : n = Len(s) /\ n >= 1
          BY <1>1
        <4> QED BY <2>2, <4>1
      <3>2. q[2] = s[2]
        BY <3>1 DEF Pushed
      <3> QED BY <1>3, <3>1, <3>2 DEF Layered
    <2> QED BY <2>1, <2>2
  <1> QED BY <1>4, <1>5, <1>6 DEF Layered

\* The two handlers are all that runs on top of a thread's own frame.
LEMMA LayeredDepth ==
  ASSUME NEW s \in Seq(Frames), NEW own, Layered(s, own), s # <<>>
  PROVE  Len(s) \in 1..3
  <1>1. Len(s) \in Nat /\ Len(s) >= 1
    BY EmptySeq, LenProperties
  <1>2. ASSUME Len(s) > 3 PROVE FALSE
    <2>1. 2 \in 1..Len(s) /\ 3 \in 1..Len(s) /\ 4 \in 1..Len(s)
      BY <1>1, <1>2
    <2>2. /\ s[2].fn \in {"SIGPIPE", "SIGTERM"} /\ s[3].fn \in {"SIGPIPE", "SIGTERM"}
          /\ s[4].fn \in {"SIGPIPE", "SIGTERM"}
          /\ s[2].fn # s[3].fn /\ s[2].fn # s[4].fn /\ s[3].fn # s[4].fn
      BY <2>1 DEF Layered
    <2> QED BY <2>2
  <1>3. PICK n \in Nat : n = Len(s) /\ n >= 1
    BY <1>1
  <1> QED BY <1>2, <1>3

-----------------------------------------------------------------------------
(* What a step of a thread does to its stack *)

Others(t) == stack' \in [Threads -> Seq(Frames)] /\ \A u \in Threads \ {t} : stack'[u] = stack[u]

\* Thread t goes on to frame f, returns from its top frame, or is interrupted.
Sets(t, f) == Others(t) /\ Replaced(stack'[t], stack[t], f)
Drops(t)   == Others(t) /\ Popped(stack'[t], stack[t])
Adds(t, f) == Others(t) /\ Pushed(stack'[t], stack[t], f)

\* The types of a stack, its top and its base.
LEMMA StackTypes ==
  ASSUME TypeOK, NEW t \in Threads
  PROVE  /\ stack[t] \in Seq(Frames) /\ stack[t] # <<>> /\ Len(stack[t]) \in 1..3
         /\ Top(t) = stack[t][Len(stack[t])] /\ Top(t) \in Frames
         /\ Base(t) = stack[t][1] /\ stack[t][1] \in Frames
  <1>1. stack[t] \in Seq(Frames) /\ Len(stack[t]) \in 1..3
    BY DEF TypeOK
  <1>2. stack[t] # <<>>
    BY <1>1, EmptySeq
  <1>3. \A i \in 1..Len(stack[t]) : stack[t][i] \in Frames
    BY <1>1, ElementOfSeq
  <1> QED BY <1>1, <1>2, <1>3, StackOps DEF Top, Base, Last

\* The three ways in which a step changes its thread's stack.
LEMMA StepForms ==
  ASSUME TypeOK, NEW t \in Threads, NEW f \in Frames
  PROVE  /\ SetTop(t, f) => Sets(t, f)
         /\ Pop(t) => Drops(t)
         /\ stack' = [stack EXCEPT ![t] = Append(@, f)] => Adds(t, f)
  <1>1. stack[t] \in Seq(Frames) /\ stack[t] # <<>>
    BY StackTypes
  <1> DEFINE a == Append(Front(stack[t]), f)
             b == Front(stack[t])
             d == Append(stack[t], f)
  <1>2. /\ a \in Seq(Frames) /\ Replaced(a, stack[t], f)
        /\ b \in Seq(Frames) /\ Popped(b, stack[t])
        /\ d \in Seq(Frames) /\ Pushed(d, stack[t], f)
    BY <1>1, StackOps
  <1> HIDE DEF a, b, d
  <1>3. \A q \in Seq(Frames) : stack' = [stack EXCEPT ![t] = q] => Others(t) /\ stack'[t] = q
    BY DEF TypeOK, Others
  <1>4. SetTop(t, f) => stack' = [stack EXCEPT ![t] = a]
    BY DEF SetTop, a
  <1>5. Pop(t) => stack' = [stack EXCEPT ![t] = b]
    BY DEF Pop, b
  <1>6. stack' = [stack EXCEPT ![t] = Append(@, f)] => stack' = [stack EXCEPT ![t] = d]
    BY DEF d
  <1> QED BY <1>2, <1>3, <1>4, <1>5, <1>6 DEF Sets, Drops, Adds


\* What thread t does without taking or releasing _uvMutex.
GoesOn(t, f) ==
  /\ Top(t).lock = "no" /\ Sets(t, f)
  /\ f.fn = Top(t).fn /\ Placed(f) /\ f.uv \in {"none", Top(t).uv}

ReturnsFrom(t) == Top(t).lock = "no" /\ Len(stack[t]) > 1 /\ Drops(t)

Interrupted(t, f) ==
  /\ Adds(t, f) /\ f.fn \in {"SIGPIPE", "SIGTERM"} /\ Placed(f) /\ f.uv = "none"
  /\ \A i \in 1..Len(stack[t]) : stack[t][i].fn # f.fn
  /\ f.fn = "SIGPIPE" => /\ Len(stack[t]) = 1 /\ stack[t][1].lock = "no"
                         /\ stack[t][1].pc \in {"callback", "insert"}

Ordinary(t) ==
  \/ stack' = stack
  \/ \E f \in Frames : GoesOn(t, f)
  \/ ReturnsFrom(t)
  \/ \E f \in Frames : Interrupted(t, f)

\* A frame of the new stack is the old one at its place, or the new top.
LEMMA FramesAfter ==
  ASSUME Inv, NEW t \in Threads, Ordinary(t), NEW u \in Threads, NEW i \in 1..Len(stack'[u])
  PROVE  \/ i \in 1..Len(stack[u]) /\ stack'[u][i] = stack[u][i]
         \/ u = t /\ \E f \in Frames :
              stack'[u][i] = f /\ (f.uv = "none" \/ (f.fn = Top(t).fn /\ f.uv = Top(t).uv))
  <1>1. stack[t] \in Seq(Frames) /\ Len(stack[t]) \in 1..3
    BY StackTypes DEF Inv
  <1>2. CASE stack' = stack
    BY <1>2
  <1>3. CASE u # t
    <2>1. ASSUME NEW f \in Frames PROVE GoesOn(t, f) \/ Interrupted(t, f) => stack'[u] = stack[u]
      BY <1>3 DEF GoesOn, Interrupted, Sets, Adds, Others
    <2>2. ReturnsFrom(t) => stack'[u] = stack[u]
      BY <1>3 DEF ReturnsFrom, Drops, Others
    <2> QED BY <1>2, <2>1, <2>2 DEF Ordinary
  <1>4. CASE u = t
    <2>1. ASSUME NEW f \in Frames, GoesOn(t, f)
          PROVE  \/ i \in 1..Len(stack[u]) /\ stack'[u][i] = stack[u][i]
                 \/ stack'[u][i] = f /\ (f.uv = "none" \/ (f.fn = Top(t).fn /\ f.uv = Top(t).uv))
      BY <1>1, <1>4, <2>1 DEF GoesOn, Sets, Replaced
    <2>2. ReturnsFrom(t) => i \in 1..Len(stack[u]) /\ stack'[u][i] = stack[u][i]
      BY <1>1, <1>4 DEF ReturnsFrom, Drops, Popped
    <2>3. ASSUME NEW f \in Frames, Interrupted(t, f)
          PROVE  \/ i \in 1..Len(stack[u]) /\ stack'[u][i] = stack[u][i]
                 \/ stack'[u][i] = f /\ f.uv = "none"
      BY <1>1, <1>4, <2>3 DEF Interrupted, Adds, Pushed
    <2> QED BY <1>2, <1>4, <2>1, <2>2, <2>3 DEF Ordinary
  <1> QED BY <1>3, <1>4

\* An ordinary step keeps every stack layered.
LEMMA StackKept ==
  ASSUME Inv, NEW t \in Threads, Ordinary(t)
  PROVE  /\ stack' \in [Threads -> Seq(Frames)]
         /\ \A u \in Threads : Len(stack'[u]) \in 1..3 /\ Layered(stack'[u], Own(u))
  <1>1. /\ stack \in [Threads -> Seq(Frames)] /\ stack[t] # <<>> /\ Len(stack[t]) \in 1..3
        /\ Top(t) = stack[t][Len(stack[t])] /\ Layered(stack[t], Own(t))
    BY StackTypes DEF Inv, TypeOK
  <1>2. stack' \in [Threads -> Seq(Frames)] /\ \A u \in Threads \ {t} : stack'[u] = stack[u]
    BY <1>1 DEF Ordinary, GoesOn, ReturnsFrom, Interrupted, Sets, Drops, Adds, Others
  <1>3. Layered(stack'[t], Own(t)) /\ stack'[t] # <<>>
    <2>1. CASE stack' = stack
      BY <1>1, <2>1
    <2>2. ASSUME NEW f \in Frames, GoesOn(t, f)
          PROVE  Layered(stack'[t], Own(t)) /\ Len(stack'[t]) = Len(stack[t])
      <3>1. Replaced(stack'[t], stack[t], f) /\ f.fn = stack[t][Len(stack[t])].fn /\ Placed(f)
        BY <1>1, <2>2 DEF GoesOn, Sets
      <3> QED BY <1>1, <1>2, <3>1, LayeredReplaced DEF Replaced
    <2>3. ASSUME ReturnsFrom(t)
          PROVE  Layered(stack'[t], Own(t)) /\ Len(stack'[t]) = Len(stack[t]) - 1 /\ Len(stack[t]) > 1
      <3>1. Popped(stack'[t], stack[t]) /\ Len(stack[t]) > 1
        BY <2>3 DEF ReturnsFrom, Drops
      <3> QED BY <1>1, <1>2, <3>1, LayeredPopped DEF Popped
    <2>4. ASSUME NEW f \in Frames, Interrupted(t, f)
          PROVE  Layered(stack'[t], Own(t)) /\ Len(stack'[t]) = Len(stack[t]) + 1
      <3>1. Pushed(stack'[t], stack[t], f)
        BY <2>4 DEF Interrupted, Adds
      <3>2. Layered(stack'[t], Own(t))
        BY <1>1, <1>2, <2>4, <3>1, LayeredPushed DEF Interrupted
      <3> QED BY <3>1, <3>2 DEF Pushed
    <2>5. Len(stack'[t]) # 0 => stack'[t] # <<>>
      BY <1>2, EmptySeq
    <2> QED BY <1>1, <2>1, <2>2, <2>3, <2>4, <2>5 DEF Ordinary
  <1>4. Len(stack'[t]) \in 1..3
    BY <1>2, <1>3, LayeredDepth
  <1> QED BY <1>1, <1>2, <1>3, <1>4 DEF Inv, TypeOK

\* An ordinary step keeps OneHandler.
LEMMA OneHandlerKept ==
  ASSUME Inv, NEW t \in Threads, Ordinary(t), server' = server
  PROVE  OneHandler'
  <1>1. /\ Top(t) = stack[t][Len(stack[t])] /\ Len(stack[t]) \in 1..Len(stack[t])
        /\ Top(t).fn # "SIGTERM" /\ Top(t).uv # "none" => Top(t).uv = server
    <2>1. Top(t) = stack[t][Len(stack[t])] /\ Len(stack[t]) \in 1..3
      BY StackTypes DEF Inv
    <2>2. PICK n \in 1..3 : n = Len(stack[t])
      BY <2>1
    <2>3. n \in 1..n
      OBVIOUS
    <2> QED BY <2>1, <2>2, <2>3 DEF Inv, OneHandler
  <1>2. ASSUME NEW u \in Threads, NEW i \in 1..Len(stack'[u]),
               stack'[u][i].fn # "SIGTERM", stack'[u][i].uv # "none"
        PROVE  stack'[u][i].uv = server
    <2>1. CASE i \in 1..Len(stack[u]) /\ stack'[u][i] = stack[u][i]
      BY <1>2, <2>1 DEF Inv, OneHandler
    <2>2. ASSUME NEW f \in Frames, stack'[u][i] = f,
                 f.uv = "none" \/ (f.fn = Top(t).fn /\ f.uv = Top(t).uv)
          PROVE  stack'[u][i].uv = server
      BY <1>1, <1>2, <2>2
    <2> QED BY <2>1, <2>2, FramesAfter
  <1> QED BY <1>2 DEF OneHandler

\* An ordinary step that leaves the mutex alone keeps Held.
LEMMA HeldKept ==
  ASSUME Inv, NEW t \in Threads, Ordinary(t), mutex' = mutex
  PROVE  Held'
  <1> SUFFICES ASSUME mutex # None
               PROVE  \E i \in 1..Len(stack'[mutex]) : stack'[mutex][i].lock = "holds"
    BY DEF Held
  <1>1. mutex \in Threads
    BY DEF Inv, TypeOK
  <1>2. PICK k \in 1..Len(stack[mutex]) : stack[mutex][k].lock = "holds"
    BY DEF Inv, Held
  <1>3. Len(stack[t]) \in 1..3 /\ Top(t) = stack[t][Len(stack[t])]
    BY StackTypes DEF Inv
  <1>4. k \in 1..Len(stack'[mutex]) /\ stack'[mutex][k] = stack[mutex][k]
    <2>1. CASE stack' = stack
      BY <2>1
    <2>2. CASE mutex # t
      BY <1>1, <2>1, <2>2 DEF Ordinary, GoesOn, ReturnsFrom, Interrupted, Sets, Drops, Adds, Others
    <2>3. CASE mutex = t
      <3>1. Top(t).lock = "no" => k \in 1..Len(stack[t]) - 1
        BY <1>2, <1>3, <2>3
      <3>2. ASSUME NEW f \in Frames, GoesOn(t, f)
            PROVE  k \in 1..Len(stack'[t]) /\ stack'[t][k] = stack[t][k]
        BY <1>3, <3>1, <3>2 DEF GoesOn, Sets, Replaced
      <3>3. ASSUME ReturnsFrom(t)
            PROVE  k \in 1..Len(stack'[t]) /\ stack'[t][k] = stack[t][k]
        BY <1>3, <3>1, <3>3 DEF ReturnsFrom, Drops, Popped
      <3>4. ASSUME NEW f \in Frames, Interrupted(t, f)
            PROVE  k \in 1..Len(stack'[t]) /\ stack'[t][k] = stack[t][k]
        BY <1>3, <2>3, <3>4 DEF Interrupted, Adds, Pushed
      <3> QED BY <2>1, <2>3, <3>2, <3>3, <3>4 DEF Ordinary
    <2> QED BY <2>2, <2>3
  <1> QED BY <1>2, <1>4

\* Main's own frame, and the pool's, change only when nothing runs on top.
LEMMA BaseKept ==
  ASSUME Inv, NEW t \in Threads, Ordinary(t), NEW u \in Threads
  PROVE  \/ stack'[u][1] = stack[u][1]
         \/ /\ u = t /\ Len(stack[t]) = 1 /\ Top(t) = stack[t][1]
            /\ \E f \in Frames : GoesOn(t, f) /\ stack'[u][1] = f
  <1>1. Len(stack[t]) \in 1..3 /\ Top(t) = stack[t][Len(stack[t])]
    BY StackTypes DEF Inv
  <1>2. CASE stack' = stack
    BY <1>2
  <1>3. CASE u # t
    BY <1>2, <1>3 DEF Ordinary, GoesOn, ReturnsFrom, Interrupted, Sets, Drops, Adds, Others
  <1>4. CASE u = t
    <2>1. ASSUME NEW f \in Frames, GoesOn(t, f)
          PROVE  IF Len(stack[t]) = 1 THEN stack'[t][1] = f ELSE stack'[t][1] = stack[t][1]
      <3>1. PICK n \in 1..3 : n = Len(stack[t])
        BY <1>1
      <3>2. Replaced(stack'[t], stack[t], f)
        BY <2>1 DEF GoesOn, Sets
      <3>3. CASE n = 1
        BY <3>1, <3>2, <3>3 DEF Replaced
      <3>4. CASE n > 1
        <4>1. 1 \in 1..n - 1
          BY <3>4
        <4> QED BY <3>1, <3>2, <3>4, <4>1 DEF Replaced
      <3> QED BY <3>3, <3>4
    <2>2. ReturnsFrom(t) => stack'[t][1] = stack[t][1]
      BY <1>1 DEF ReturnsFrom, Drops, Popped
    <2>3. ASSUME NEW f \in Frames, Interrupted(t, f) PROVE stack'[t][1] = stack[t][1]
      BY <1>1, <2>3 DEF Interrupted, Adds, Pushed
    <2> QED BY <1>1, <1>2, <1>4, <2>1, <2>2, <2>3 DEF Ordinary
  <1> QED BY <1>3, <1>4

-----------------------------------------------------------------------------
(* Who can be where *)

Looping == {"loop", "callback", "stop callback", "closing"}

\* The places of each function.
LEMMA PlacesOf ==
  /\ Places("main") = StartUp \cup Serving
  /\ Places("pool") = {"idle", "insert", "answer"}
  /\ Places("SIGPIPE") = {"check", "attempt", "opened", "prepare", "give up"}
  /\ Places("SIGTERM") = {"stop"}
  BY DEF Places

\* The top frame is at a place of its function, on a stack of its thread.
LEMMA TopPlaced ==
  ASSUME Inv, NEW t \in Threads
  PROVE  /\ Top(t) \in Frames /\ Placed(Top(t)) /\ Len(stack[t]) \in 1..3
         /\ Len(stack[t]) = 1 => Top(t) = stack[t][1] /\ Top(t).fn = Own(t)
         /\ Len(stack[t]) # 1 => Top(t).fn \in {"SIGPIPE", "SIGTERM"}
         /\ Top(t).fn = "SIGPIPE" => Len(stack[t]) = 2 /\ stack[t][1].pc \in {"callback", "insert"}
         /\ stack[t][1].fn = Own(t) /\ Placed(stack[t][1])
  <1>1. Len(stack[t]) \in 1..3 /\ Top(t) = stack[t][Len(stack[t])] /\ Top(t) \in Frames
    BY StackTypes DEF Inv
  <1>2. PICK n \in 1..3 : n = Len(stack[t])
    BY <1>1
  <1>3. n \in 1..n /\ 1 \in 1..n
    BY <1>2
  <1>4. Layered(stack[t], Own(t))
    BY DEF Inv
  <1>5. /\ Placed(stack[t][n]) /\ Placed(stack[t][1]) /\ stack[t][1].fn = Own(t)
        /\ n # 1 => stack[t][n].fn \in {"SIGPIPE", "SIGTERM"}
        /\ stack[t][n].fn = "SIGPIPE" => n = 2
        /\ n > 1 /\ stack[t][2].fn = "SIGPIPE" => stack[t][1].pc \in {"callback", "insert"}
    BY <1>2, <1>3, <1>4 DEF Layered
  <1> QED BY <1>1, <1>2, <1>5

\* Which thread and which function a place belongs to.
LEMMA WhoIsWhere ==
  ASSUME Inv, NEW t \in Threads
  PROVE  LET p == Top(t).pc IN
         /\ p \in {"config", "SIGPIPE", "SIGTERM", "network", "run"} \cup Serving =>
              t = Main /\ Top(t).fn = "main"
         /\ p \in {"idle", "insert", "answer"} => t \in PoolThreads /\ Top(t).fn = "pool"
         /\ p \in {"check", "give up"} => Top(t).fn = "SIGPIPE"
         /\ p = "stop" => Top(t).fn = "SIGTERM"
         /\ p \in {"attempt", "opened", "prepare"} =>
              Top(t).fn = "SIGPIPE" \/ (t = Main /\ Top(t).fn = "main")
  <1>1. Top(t).pc \in Places(Top(t).fn) /\ Top(t).fn \in {"main", "pool", "SIGPIPE", "SIGTERM"}
        /\ Top(t).fn \in {"SIGPIPE", "SIGTERM", Own(t)}
    BY TopPlaced DEF Placed, Frames
  <1>2. Top(t).fn = "main" => t = Main
    BY <1>1 DEF Own
  <1>3. Top(t).fn = "pool" => t \in PoolThreads
    BY <1>1 DEF Own, Threads
  <1> QED BY <1>1, <1>2, <1>3, PlacesOf DEF StartUp, Serving

\* SIGPIPEHandler runs only while the loop does.
LEMMA PipeHandlerLate ==
  ASSUME Inv, NEW t \in Threads, Top(t).fn = "SIGPIPE"
  PROVE  stack[Main][1].pc \in Looping
  <1>1. stack[t][1].pc \in {"callback", "insert"} /\ stack[t][1].fn = Own(t) /\ Placed(stack[t][1])
    BY TopPlaced
  <1>2. CASE t = Main
    BY <1>1, <1>2, PlacesOf DEF Own, Placed, Looping, StartUp, Serving
  <1>3. CASE t \in PoolThreads
    <2>1. stack[t][1].pc # "idle"
      BY <1>1, <1>3, ThreadsDistinct, PlacesOf DEF Own, Placed, StartUp, Serving
    <2> QED BY <1>3, <2>1 DEF Inv, PoolRests, Looping
  <1> QED BY <1>2, <1>3 DEF Threads

Pcs == StartUp \cup Serving \cup {"idle", "insert", "answer", "check", "give up", "stop"}
Fns == {"main", "pool", "SIGPIPE", "SIGTERM"}

Locks == {"no", "wants", "holds"}
Uvs == {"none", "first", "second"}

\* The places of a function are places.
LEMMA PlacesIn == \A fn \in Fns : Places(fn) \subseteq Pcs
  <1>1. Places("main") \subseteq Pcs
    BY PlacesOf DEF Pcs
  <1>2. Places("pool") \subseteq Pcs
    BY PlacesOf DEF Pcs
  <1>3. Places("SIGPIPE") \subseteq Pcs
    BY PlacesOf DEF Pcs, StartUp
  <1>4. Places("SIGTERM") \subseteq Pcs
    BY PlacesOf DEF Pcs
  <1> QED BY <1>1, <1>2, <1>3, <1>4 DEF Fns

\* The set of frames, spelt out.
LEMMA FramesAre == Frames = [fn: Fns, pc: Pcs, lock: Locks, time: 0..5, uv: Uvs]
  BY DEF Frames, Fns, Pcs, Locks, Uvs, Attempts

\* A new frame, field by field.
LEMMA FrameTypes ==
  ASSUME NEW fn \in Fns, NEW pc \in Pcs
  PROVE  /\ Frame(fn, pc) \in Frames /\ Frame(fn, pc).fn = fn /\ Frame(fn, pc).pc = pc
         /\ Frame(fn, pc).uv = "none" /\ Frame(fn, pc).time = 0
         /\ Frame(fn, pc).lock = IF pc \in Locking THEN "wants" ELSE "no"
  <1>1. PICK l : l = IF pc \in Locking THEN "wants" ELSE "no"
    OBVIOUS
  <1>2. Frame(fn, pc) = [fn |-> fn, pc |-> pc, lock |-> l, time |-> 0, uv |-> "none"]
    BY <1>1 DEF Frame
  <1>3. l \in Locks /\ "none" \in Uvs /\ 0 \in 0..5
    BY <1>1 DEF Locks, Uvs
  <1>4. Frame(fn, pc) \in Frames
    BY <1>2, <1>3, FramesAre
  <1> QED BY <1>1, <1>2, <1>4

\* The types of the fields of a frame.
LEMMA FrameFields ==
  ASSUME NEW g \in Frames
  PROVE  g.fn \in Fns /\ g.pc \in Pcs /\ g.lock \in Locks /\ g.time \in 0..5 /\ g.uv \in Uvs
  BY FramesAre

\* A frame with another uv, lock or time.
LEMMA FrameExcept ==
  ASSUME NEW g \in Frames, NEW f
  PROVE  /\ \A u \in Uvs : f = [g EXCEPT !.uv = u] =>
              f \in Frames /\ f.fn = g.fn /\ f.pc = g.pc /\ f.lock = g.lock /\ f.uv = u
         /\ \A l \in Locks : f = [g EXCEPT !.lock = l] =>
              f \in Frames /\ f.fn = g.fn /\ f.pc = g.pc /\ f.lock = l /\ f.uv = g.uv
         /\ \A n \in 0..5 : f = [g EXCEPT !.time = n] =>
              f \in Frames /\ f.fn = g.fn /\ f.pc = g.pc /\ f.lock = g.lock /\ f.uv = g.uv
  BY FramesAre

\* Goto lets the top frame go on.
LEMMA GotoGoesOn ==
  ASSUME Inv, NEW t \in Threads, NEW p, p \in Places(Top(t).fn), Goto(t, p), Top(t).lock = "no"
  PROVE  \E f \in Frames : GoesOn(t, f) /\ f.pc = p
  <1>1. PICK g : g = Top(t)
    OBVIOUS
  <1>2. g \in Frames /\ Placed(g) /\ g.lock = "no"
    BY <1>1, TopPlaced
  <1> DEFINE f == IF g.fn = "SIGPIPE" THEN [Frame(g.fn, p) EXCEPT !.uv = g.uv] ELSE Frame(g.fn, p)
  <1>3. p \in Pcs /\ g.fn \in Fns /\ g.uv \in Uvs
    BY <1>1, <1>2, PlacesIn, FrameFields
  <1>4. /\ f \in Frames /\ f.pc = p /\ f.fn = g.fn /\ f.uv \in {"none", g.uv}
        /\ f.uv # "none" => f.fn = "SIGPIPE"
        /\ f.lock # "no" => p \in Locking
    <2>1. PICK h : h = Frame(g.fn, p)
      OBVIOUS
    <2>2. /\ h \in Frames /\ h.fn = g.fn /\ h.pc = p /\ h.uv = "none"
          /\ h.lock = IF p \in Locking THEN "wants" ELSE "no"
      BY <1>3, <2>1, FrameTypes
    <2>3. f = IF g.fn = "SIGPIPE" THEN [h EXCEPT !.uv = g.uv] ELSE h
      BY <2>1
    <2> HIDE DEF f
    <2>4. CASE g.fn = "SIGPIPE"
      <3>1. f = [h EXCEPT !.uv = g.uv]
        BY <2>3, <2>4
      <3>2. f \in Frames /\ f.fn = h.fn /\ f.pc = h.pc /\ f.lock = h.lock /\ f.uv = g.uv
        BY <1>3, <2>2, <3>1, FrameExcept
      <3> QED BY <2>2, <2>4, <3>2
    <2>5. CASE g.fn # "SIGPIPE"
      BY <2>2, <2>3, <2>5
    <2> QED BY <2>4, <2>5
  <1>5. SetTop(t, f)
    BY <1>1 DEF Goto
  <1> HIDE DEF f
  <1>6. Placed(f)
    BY <1>1, <1>4 DEF Placed
  <1>7. GoesOn(t, f)
    BY <1>1, <1>2, <1>4, <1>5, <1>6, StepForms DEF GoesOn, Inv
  <1> QED BY <1>4, <1>7

\* Pop returns from a handler.
LEMMA PopReturns ==
  ASSUME Inv, NEW t \in Threads, Pop(t), Top(t).lock = "no", Top(t).fn \in {"SIGPIPE", "SIGTERM"}
  PROVE  ReturnsFrom(t)
  <1>1. Len(stack[t]) \in 1..3 /\ Len(stack[t]) # 1
    BY TopPlaced DEF Own
  <1>2. PICK n \in 1..3 : n = Len(stack[t])
    BY <1>1
  <1>3. Len(stack[t]) > 1
    <2>1. n # 1
      BY <1>1, <1>2
    <2>2. n > 1
      BY <2>1
    <2> QED BY <1>2, <2>2
  <1>4. Drops(t)
    BY TopPlaced, StepForms DEF Inv
  <1> QED BY <1>3, <1>4 DEF ReturnsFrom

\* Retry lets the top frame go on, one attempt later.
LEMMA RetryGoesOn ==
  ASSUME Inv, NEW t \in Threads, Retry(t), Top(t).lock = "no", Top(t).time < Attempts
  PROVE  \E f \in Frames : GoesOn(t, f) /\ f.pc = Top(t).pc
  <1>1. PICK g : g = Top(t)
    OBVIOUS
  <1>2. g \in Frames /\ Placed(g) /\ g.lock = "no" /\ g.time < Attempts
    BY <1>1, TopPlaced
  <1> DEFINE f == [g EXCEPT !.time = @ + 1]
  <1>3. /\ f \in Frames /\ f.pc = g.pc /\ f.fn = g.fn /\ f.uv = g.uv /\ f.lock = g.lock
    <2>1. PICK n : n = g.time
      OBVIOUS
    <2>2. n \in 0..5 /\ n < 5
      BY <1>2, <2>1, FrameFields DEF Attempts
    <2>3. n + 1 \in 0..5 /\ f = [g EXCEPT !.time = n + 1]
      BY <2>1, <2>2
    <2> HIDE DEF f
    <2> QED BY <1>2, <2>3, FrameExcept
  <1>4. SetTop(t, f)
    BY <1>1 DEF Retry
  <1> HIDE DEF f
  <1>5. Placed(f)
    BY <1>2, <1>3 DEF Placed
  <1>6. GoesOn(t, f)
    BY <1>1, <1>2, <1>3, <1>4, <1>5, StepForms DEF GoesOn, Inv
  <1> QED BY <1>1, <1>3, <1>6

-----------------------------------------------------------------------------
(* What a step has to show, beyond what it does to a stack *)

Rest ==
  /\ over \in {"no", "exit 0", "exit 1", "killed", "crashed"}
  /\ handlers \subseteq {"SIGPIPE", "SIGTERM"}
  /\ conn \in {"null", "open", "closed", "deleted"}
  /\ {stopAsync, dbConnected, unopened, misused} \subseteq BOOLEAN
  /\ signals \in 0..MaxSignals

\* What an ordinary step has to show for the inductive invariant.
LEMMA Conclude ==
  ASSUME Inv, NEW t \in Threads, Ordinary(t), mutex' = mutex, server' = server,
         Rest', PoolRests', FirstConn'
  PROVE  Inv'
  <1>1. Held' /\ OneHandler'
    BY HeldKept, OneHandlerKept
  <1>2. /\ stack' \in [Threads -> Seq(Frames)]
        /\ \A u \in Threads : Len(stack'[u]) \in 1..3 /\ Layered(stack'[u], Own(u))
    BY StackKept
  <1>3. TypeOK'
    BY <1>2 DEF Inv, TypeOK, Rest
  <1> QED BY <1>1, <1>2, <1>3 DEF Inv

\* A step on top of a thread's own frame leaves it alone.
LEMMA BaseStays ==
  ASSUME Inv, NEW t \in Threads, Ordinary(t),
         \/ stack' = stack
         \/ Top(t).fn \in {"SIGPIPE", "SIGTERM"}
         \/ \E f \in Frames : Interrupted(t, f)
  PROVE  /\ \A u \in Threads : stack'[u][1] = stack[u][1]
         /\ PoolRests'
  <1>1. \A u \in Threads : stack'[u][1] = stack[u][1]
    <2>1. CASE stack' = stack
      BY <2>1
    <2>2. CASE Top(t).fn \in {"SIGPIPE", "SIGTERM"}
      <3>1. Len(stack[t]) # 1
        BY <2>2, TopPlaced DEF Own
      <3> QED BY <3>1, BaseKept
    <2>3. ASSUME NEW f \in Frames, Interrupted(t, f)
          PROVE  \A u \in Threads : stack'[u][1] = stack[u][1]
      <3>1. Len(stack[t]) \in 1..3
        BY StackTypes DEF Inv
      <3> QED BY <2>3, <3>1 DEF Interrupted, Adds, Others, Pushed
    <2> QED BY <2>1, <2>2, <2>3
  <1>2. PoolRests'
    BY <1>1 DEF Inv, PoolRests, Threads
  <1> QED BY <1>1, <1>2

\* FirstConn stays when main stays, or when main is past its first connection.
LEMMA ConnStays ==
  ASSUME Inv, stack'[Main][1] = stack[Main][1], over' = "no" => over = "no",
         UNCHANGED <<conn, unopened, misused>> \/ stack[Main][1].pc \in Looping
  PROVE  FirstConn'
  BY DEF Inv, FirstConn, Over, Looping, StartUp

\* A step of a handler.
LEMMA OnTop ==
  ASSUME Inv, NEW t \in Threads, Ordinary(t), mutex' = mutex, server' = server, Rest',
         \/ stack' = stack
         \/ Top(t).fn \in {"SIGPIPE", "SIGTERM"}
         \/ \E f \in Frames : Interrupted(t, f),
         over' = "no" => over = "no",
         UNCHANGED <<conn, unopened, misused>> \/ Top(t).fn = "SIGPIPE"
  PROVE  Inv'
  <1>1. PoolRests' /\ \A u \in Threads : stack'[u][1] = stack[u][1]
    BY BaseStays
  <1>2. FirstConn'
    BY <1>1, ConnStays, PipeHandlerLate DEF Threads
  <1> QED BY <1>1, <1>2, Conclude

\* A step of main from one place to another.
LEMMA MainMoves ==
  ASSUME Inv, NEW to \in StartUp \cup Serving,
         Top(Main).fn = "main", Top(Main).lock = "no", Goto(Main, to),
         mutex' = mutex, server' = server, Rest',
         \/ to \in Looping \/ Top(Main).pc \notin Looping
         \/ \A t \in PoolThreads : stack[t][1].pc = "idle",
         \/ over' # "no" \/ to \notin StartUp
         \/ /\ Top(Main).pc \in StartUp /\ over = "no"
            /\ ~unopened' => /\ ~unopened /\ (~misused => ~misused')
                             /\ conn' \in IF to \in {"config", "attempt"} THEN {"null"}
                                                                     ELSE {"open", "closed"}
  PROVE  Inv'
  <1>1. Main \in Threads
    BY DEF Threads
  <1>2. PICK f \in Frames : GoesOn(Main, f) /\ f.pc = to
    BY <1>1, PlacesOf, GotoGoesOn
  <1>3. Ordinary(Main)
    BY <1>2 DEF Ordinary
  <1>4. Len(stack[Main]) = 1 /\ Top(Main) = stack[Main][1]
    BY <1>1, TopPlaced
  <1>5. stack'[Main][1] = f /\ \A u \in PoolThreads : stack'[u] = stack[u]
    <2>1. stack'[Main][1] = f
      BY <1>2, <1>4 DEF GoesOn, Sets, Replaced
    <2>2. \A u \in Threads \ {Main} : stack'[u] = stack[u]
      BY <1>2 DEF GoesOn, Sets, Others
    <2> QED BY <2>1, <2>2, ThreadsDistinct DEF Threads
  <1>6. PoolRests'
    BY <1>2, <1>4, <1>5 DEF Inv, PoolRests, Looping
  <1>7. FirstConn'
    BY <1>2, <1>4, <1>5 DEF Inv, FirstConn, Over
  <1> QED BY <1>1, <1>3, <1>6, <1>7, Conclude

-----------------------------------------------------------------------------
(* The steps *)

\* Rest stays when only the end of the process changes.
LEMMA RestStays ==
  ASSUME Inv, UNCHANGED <<handlers, conn, unopened, misused, stopAsync, dbConnected, signals>>,
         over' \in {over, "exit 0", "exit 1", "killed", "crashed"}
  PROVE  Rest'
  BY DEF Inv, TypeOK, Rest

\* A move of main keeps the inductive invariant.
LEMMA MainGoesKeeps ==
  ASSUME Inv, NEW from, NEW to, MainGoes(from, to),
         <<from, to>> \in {<<"config", "attempt">>, <<"network", "run">>, <<"run", "loop">>,
                          <<"loop", "callback">>, <<"callback", "loop">>,
                          <<"stop callback", "closing">>, <<"destroy", "database">>}
         \/ (from = "closing" /\ to = "destroy" /\ LoopMayEnd)
  PROVE  Inv'
  <1>1. Main \in Threads /\ Top(Main).pc = from /\ Top(Main).lock = "no" /\ Goto(Main, to)
        /\ over = "no" /\ over' = over /\ mutex' = mutex /\ server' = server
        /\ UNCHANGED <<handlers, conn, unopened, misused, stopAsync, dbConnected, signals>>
    BY DEF MainGoes, At, Threads, dbVars
  <1>2. Top(Main).fn = "main" /\ Top(Main) = stack[Main][1]
    <2>1. Top(Main).fn = "main"
      BY <1>1, WhoIsWhere DEF Serving
    <2> QED BY <1>1, <2>1, TopPlaced
  <1>3. Rest'
    BY <1>1, RestStays
  <1>4. to \in StartUp \cup Serving
    BY DEF StartUp, Serving
  <1>5. \/ to \in Looping \/ from \notin Looping
        \/ \A t \in PoolThreads : stack[t][1].pc = "idle"
    <2>1. LoopMayEnd => \A t \in PoolThreads : stack[t][1].pc = "idle"
      BY StackTypes DEF LoopMayEnd, Threads, Inv
    <2> QED BY <2>1 DEF Looping
  <1>6. \/ to \notin StartUp
        \/ /\ from \in StartUp
           /\ ~unopened => /\ ~misused
                           /\ conn \in IF to \in {"config", "attempt"} THEN {"null"} ELSE {"open", "closed"}
    BY <1>1, <1>2 DEF Inv, FirstConn, Over, StartUp
  <1> QED BY <1>1, <1>2, <1>3, <1>4, <1>5, <1>6, MainMoves

\* The process ends.
LEMMA EndsKeeps ==
  ASSUME Inv, NEW how \in {"exit 0", "exit 1", "killed", "crashed"}, Ends(how)
  PROVE  Inv'
  <1>1. Main \in Threads /\ Ordinary(Main) /\ stack' = stack /\ mutex' = mutex /\ server' = server
        /\ over' # "no" /\ UNCHANGED <<conn, unopened, misused>>
    BY DEF Ends, Threads, Ordinary
  <1>2. Rest'
    BY RestStays DEF Ends
  <1> QED BY <1>1, <1>2, OnTop

\* Installing the handlers keeps the inductive invariant.
LEMMA SetupSignalsKeeps ==
  ASSUME Inv, SetupSignals
  PROVE  Inv'
  <1>1. /\ Main \in Threads /\ Top(Main).lock = "no" /\ over = "no" /\ over' = over
        /\ handlers' = handlers \cup {Top(Main).pc} /\ mutex' = mutex /\ server' = server
        /\ UNCHANGED <<conn, unopened, misused, stopAsync, dbConnected, signals>>
        /\ \/ Top(Main).pc = "SIGPIPE" /\ Goto(Main, "SIGTERM")
           \/ Top(Main).pc = "SIGTERM" /\ Goto(Main, "network")
    BY DEF SetupSignals, At, Threads, dbVars
  <1>2. PICK to : /\ Goto(Main, to) /\ to \in {"SIGTERM", "network"}
    BY <1>1
  <1>3. Top(Main).fn = "main" /\ Top(Main) = stack[Main][1]
    <2>1. Top(Main).fn = "main"
      BY <1>1, WhoIsWhere
    <2> QED BY <1>1, <2>1, TopPlaced
  <1>4. Rest'
    BY <1>1 DEF Inv, TypeOK, Rest
  <1>5. to \in StartUp \cup Serving /\ Top(Main).pc \notin Looping /\ Top(Main).pc \in StartUp
    BY <1>1, <1>2 DEF StartUp, Looping
  <1>6. ~unopened => ~misused /\ conn \in {"open", "closed"}
    BY <1>1, <1>3, <1>5 DEF Inv, FirstConn, Over
  <1> QED BY <1>1, <1>2, <1>3, <1>4, <1>5, <1>6, MainMoves

\* The stop callback keeps the inductive invariant.
LEMMA StopCallbackKeeps ==
  ASSUME Inv, StopCallback
  PROVE  Inv'
  <1>1. /\ Main \in Threads /\ Top(Main).lock = "no" /\ Top(Main).pc = "loop"
        /\ Goto(Main, "stop callback") /\ mutex' = mutex /\ server' = server
        /\ stopAsync' = FALSE
        /\ UNCHANGED <<over, handlers, conn, unopened, misused, dbConnected, signals>>
    BY DEF StopCallback, At, Threads, dbVars
  <1>2. Top(Main).fn = "main"
    BY <1>1, WhoIsWhere DEF Serving
  <1>3. Rest'
    BY <1>1 DEF Inv, TypeOK, Rest
  <1>4. "stop callback" \in Looping /\ "stop callback" \in Serving /\ "stop callback" \notin StartUp
    BY DEF Serving, StartUp, Looping
  <1> QED BY <1>1, <1>2, <1>3, <1>4, MainMoves

\* Destroying the database keeps the inductive invariant.
LEMMA DestroyDatabaseKeeps ==
  ASSUME Inv, DestroyDatabase
  PROVE  Inv'
  <1>1. /\ Main \in Threads /\ Top(Main).lock = "no" /\ Top(Main).pc = "database"
        /\ mutex' = mutex /\ server' = server
        /\ UNCHANGED <<handlers, unopened, stopAsync, dbConnected, signals>>
        /\ conn' \in {"null", "deleted"} /\ misused' \in BOOLEAN
        /\ \/ Goto(Main, "return") /\ over' = over
           \/ over' = "crashed" /\ stack' = stack
    BY DEF DestroyDatabase, DeleteConn, At, Threads, Inv, TypeOK
  <1>2. Top(Main).fn = "main" /\ Top(Main) = stack[Main][1]
    <2>1. Top(Main).fn = "main"
      BY <1>1, WhoIsWhere DEF Serving
    <2> QED BY <1>1, <2>1, TopPlaced
  <1>3. Rest'
    BY <1>1 DEF Inv, TypeOK, Rest
  <1>4. CASE Goto(Main, "return") /\ over' = over
    <2>1. "return" \in Serving /\ "return" \notin StartUp /\ Top(Main).pc \notin Looping
      BY <1>1 DEF Serving, StartUp, Looping
    <2> QED BY <1>1, <1>2, <1>3, <1>4, <2>1, MainMoves
  <1>5. CASE over' = "crashed" /\ stack' = stack
    <2>1. Ordinary(Main)
      BY <1>5 DEF Ordinary
    <2>2. PoolRests' /\ FirstConn'
      BY <1>5 DEF Inv, PoolRests, FirstConn, Over
    <2> QED BY <1>1, <1>3, <2>1, <2>2, Conclude
  <1> QED BY <1>1, <1>4, <1>5

\* Every step of main keeps the inductive invariant.
LEMMA MainKeeps ==
  ASSUME Inv, MainStep
  PROVE  Inv'
  <1>1. CASE ReadConfig
    BY <1>1, MainGoesKeeps, EndsKeeps DEF ReadConfig
  <1>2. CASE SetupNetwork
    BY <1>2, MainGoesKeeps, EndsKeeps DEF SetupNetwork
  <1>3. CASE UvLoopRun \/ Callback \/ DestroyUvHandler
    BY <1>3, MainGoesKeeps DEF UvLoopRun, Callback, DestroyUvHandler
  <1>4. CASE CloseHandles
    BY <1>4, MainGoesKeeps, EndsKeeps DEF CloseHandles
  <1>5. CASE LoopEnds
    BY <1>5, MainGoesKeeps DEF LoopEnds
  <1>6. CASE Return
    BY <1>6, EndsKeeps DEF Return
  <1> QED BY <1>1, <1>2, <1>3, <1>4, <1>5, <1>6, SetupSignalsKeeps, StopCallbackKeeps,
             DestroyDatabaseKeeps DEF MainStep

\* A crash keeps the inductive invariant.
LEMMA CrashKeeps ==
  ASSUME Inv, stack' = stack, mutex' = mutex, server' = server, over' # "no", Rest'
  PROVE  Inv'
  <1>1. Main \in Threads /\ Ordinary(Main)
    BY DEF Threads, Ordinary
  <1>2. PoolRests' /\ FirstConn'
    BY DEF Inv, PoolRests, FirstConn, Over
  <1> QED BY <1>1, <1>2, Conclude

\* Another pass of the first Connect's loop.
LEMMA MainRetries ==
  ASSUME Inv, Retry(Main), Top(Main).fn = "main", Top(Main).lock = "no", Top(Main).time < Attempts
  PROVE  Ordinary(Main) /\ PoolRests' /\ stack'[Main][1].pc = stack[Main][1].pc
  <1>1. Main \in Threads
    BY DEF Threads
  <1>2. PICK f \in Frames : GoesOn(Main, f) /\ f.pc = Top(Main).pc
    BY <1>1, RetryGoesOn
  <1>3. Len(stack[Main]) = 1 /\ Top(Main) = stack[Main][1]
    BY <1>1, TopPlaced
  <1>4. stack'[Main][1] = f /\ \A u \in Threads \ {Main} : stack'[u] = stack[u]
    BY <1>2, <1>3 DEF GoesOn, Sets, Replaced, Others
  <1>5. PoolRests'
    BY <1>2, <1>3, <1>4, ThreadsDistinct DEF Inv, PoolRests, Threads
  <1> QED BY <1>2, <1>3, <1>4, <1>5 DEF Ordinary

\* An attempt to connect keeps the inductive invariant.
LEMMA AttemptKeeps ==
  ASSUME Inv, NEW t \in Threads, Attempt(t)
  PROVE  Inv'
  <1>1. /\ Top(t).pc = "attempt" /\ Top(t).lock = "no" /\ Top(t).time < Attempts /\ over = "no"
        /\ mutex' = mutex /\ server' = server
        /\ UNCHANGED <<handlers, stopAsync, dbConnected, signals>>
    BY DEF Attempt, At
  <1>2. \/ conn' = "open" /\ Goto(t, "opened") /\ UNCHANGED <<over, unopened, misused>>
        \/ conn' = "closed" /\ unopened' = TRUE /\ Retry(t) /\ UNCHANGED <<over, misused>>
        \/ DeleteConn /\ Retry(t) /\ UNCHANGED <<over, unopened>>
        \/ over' = "crashed" /\ stack' = stack /\ UNCHANGED <<conn, unopened, misused>>
    BY DEF Attempt, AfterOpen, dbVars
  <1>3. Rest'
    BY <1>1, <1>2 DEF Inv, TypeOK, Rest, DeleteConn
  <1>4. Top(t).fn = "SIGPIPE" \/ (t = Main /\ Top(t).fn = "main" /\ Top(t) = stack[t][1])
    BY <1>1, WhoIsWhere, TopPlaced
  <1>5. CASE over' = "crashed" /\ stack' = stack
    BY <1>1, <1>3, <1>5, CrashKeeps
  <1>6. CASE Top(t).fn = "SIGPIPE" /\ (Goto(t, "opened") \/ Retry(t)) /\ over' = over
    <2>1. "opened" \in Places(Top(t).fn)
      BY <1>6, PlacesOf
    <2>2. Ordinary(t)
      BY <1>1, <1>6, <2>1, GotoGoesOn, RetryGoesOn DEF Ordinary
    <2> QED BY <1>1, <1>3, <1>6, <2>2, OnTop
  <1>7. CASE t = Main /\ Top(t).fn = "main" /\ Top(t) = stack[t][1] /\ over' = over
    <2>1. ~unopened => ~misused /\ conn = "null"
      BY <1>1, <1>7 DEF Inv, FirstConn, Over, StartUp
    <2>2. CASE conn' = "open" /\ Goto(t, "opened") /\ UNCHANGED <<unopened, misused>>
      <3>1. "opened" \in StartUp /\ "attempt" \in StartUp /\ "attempt" \notin Looping
        BY DEF StartUp, Looping
      <3> QED BY <1>1, <1>3, <1>7, <2>1, <2>2, <3>1, MainMoves
    <2>3. CASE Retry(t) /\ (unopened' \/ (DeleteConn /\ UNCHANGED unopened))
      <3>1. Ordinary(t) /\ PoolRests' /\ stack'[Main][1].pc = stack[Main][1].pc
        BY <1>1, <1>7, <2>3, MainRetries
      <3>2. stack'[Main][1].pc = "attempt"
        BY <1>1, <1>7, <3>1
      <3>3. unopened' => FirstConn'
        BY DEF FirstConn
      <3>4. ASSUME DeleteConn, UNCHANGED unopened PROVE FirstConn'
        <4>1. ~unopened => conn' = "null" /\ ~misused'
          BY <2>1, <3>4 DEF DeleteConn
        <4> QED BY <3>2, <3>4, <4>1 DEF FirstConn
      <3>5. FirstConn'
        BY <2>3, <3>3, <3>4
      <3> QED BY <1>1, <1>3, <1>7, <3>1, <3>5, Conclude
    <2> QED BY <1>1, <1>2, <1>3, <1>5, <2>2, <2>3
  <1> QED BY <1>2, <1>4, <1>5, <1>6, <1>7

\* The question whether the connection is open keeps the inductive invariant.
LEMMA IsOpenKeeps ==
  ASSUME Inv, NEW t \in Threads, IsOpen(t)
  PROVE  Inv'
  <1>1. /\ Top(t).pc \in {"attempt", "opened"} /\ Top(t).lock = "no" /\ over = "no"
        /\ mutex' = mutex /\ server' = server
        /\ misused' = (misused \/ conn \in {"null", "deleted"})
        /\ UNCHANGED <<handlers, conn, unopened, stopAsync, dbConnected, signals>>
    BY DEF IsOpen, At
  <1>2. \/ conn \in {"open", "deleted"} /\ Goto(t, "prepare") /\ over' = over
        \/ Returns(t, FALSE) /\ over' = over
        \/ over' = "crashed" /\ stack' = stack
    BY DEF IsOpen
  <1>3. Rest'
    BY <1>1, <1>2 DEF Inv, TypeOK, Rest
  <1>4. Top(t).fn = "SIGPIPE" \/ (t = Main /\ Top(t).fn = "main" /\ Top(t) = stack[t][1])
    BY <1>1, WhoIsWhere, TopPlaced
  <1>5. CASE over' = "crashed" /\ stack' = stack
    BY <1>1, <1>3, <1>5, CrashKeeps
  <1>6. CASE Top(t).fn = "SIGPIPE" /\ (Goto(t, "prepare") \/ Returns(t, FALSE)) /\ over' = over
    <2>1. "prepare" \in Places(Top(t).fn) /\ "give up" \in Places(Top(t).fn)
      BY <1>6, PlacesOf
    <2>2. Goto(t, "prepare") \/ Goto(t, "give up")
      BY <1>6 DEF Returns
    <2>3. Ordinary(t)
      BY <1>1, <2>1, <2>2, GotoGoesOn DEF Ordinary
    <2> QED BY <1>1, <1>3, <1>6, <2>3, OnTop
  <1>7. CASE t = Main /\ Top(t).fn = "main" /\ Top(t) = stack[t][1] /\ over' = over
    <2>1. ~unopened => ~misused /\ conn \in IF Top(t).pc = "attempt" THEN {"null"} ELSE {"open", "closed"}
      BY <1>1, <1>7 DEF Inv, FirstConn, Over, StartUp
    <2>2. /\ "prepare" \in StartUp /\ "return" \in Serving /\ "return" \notin StartUp
          /\ Top(t).pc \in StartUp /\ Top(t).pc \notin Looping
      BY <1>1 DEF StartUp, Serving, Looping
    <2>3. CASE conn \in {"open", "deleted"} /\ Goto(t, "prepare")
      BY <1>1, <1>3, <1>7, <2>1, <2>2, <2>3, MainMoves
    <2>4. CASE Goto(t, "return")
      BY <1>1, <1>3, <1>7, <2>2, <2>4, MainMoves
    <2> QED BY <1>1, <1>2, <1>5, <1>7, <2>3, <2>4 DEF Returns
  <1> QED BY <1>2, <1>4, <1>5, <1>6, <1>7

\* Preparing the statements keeps the inductive invariant.
LEMMA PrepareKeeps ==
  ASSUME Inv, NEW t \in Threads, Prepare(t)
  PROVE  Inv'
  <1>1. /\ Top(t).pc = "prepare" /\ Top(t).lock = "no" /\ over = "no"
        /\ mutex' = mutex /\ server' = server
        /\ misused' = (misused \/ conn = "deleted")
        /\ UNCHANGED <<handlers, conn, unopened, stopAsync, dbConnected, signals>>
    BY DEF Prepare, At
  <1>2. \/ Returns(t, TRUE) /\ over' = over
        \/ over' = "crashed" /\ stack' = stack
    BY DEF Prepare
  <1>3. Rest'
    BY <1>1, <1>2 DEF Inv, TypeOK, Rest
  <1>4. Top(t).fn = "SIGPIPE" \/ (t = Main /\ Top(t).fn = "main" /\ Top(t) = stack[t][1])
    BY <1>1, WhoIsWhere, TopPlaced
  <1>5. CASE over' = "crashed" /\ stack' = stack
    BY <1>1, <1>3, <1>5, CrashKeeps
  <1>6. CASE Top(t).fn = "SIGPIPE" /\ Returns(t, TRUE) /\ over' = over
    <2>1. Pop(t)
      BY <1>6 DEF Returns
    <2>2. Ordinary(t)
      BY <1>1, <1>6, <2>1, PopReturns DEF Ordinary
    <2> QED BY <1>1, <1>3, <1>6, <2>2, OnTop
  <1>7. CASE t = Main /\ Top(t).fn = "main" /\ Top(t) = stack[t][1] /\ Returns(t, TRUE) /\ over' = over
    <2>1. ~unopened => ~misused /\ conn \in {"open", "closed"}
      BY <1>1, <1>7 DEF Inv, FirstConn, Over, StartUp
    <2>2. "SIGPIPE" \in StartUp /\ Top(t).pc \in StartUp /\ Top(t).pc \notin Looping
      BY <1>1 DEF StartUp, Looping
    <2>3. Goto(t, "SIGPIPE")
      BY <1>7 DEF Returns
    <2> QED BY <1>1, <1>3, <1>7, <2>1, <2>2, <2>3, MainMoves
  <1> QED BY <1>2, <1>4, <1>5, <1>6, <1>7

\* The handler's check of the connection keeps the inductive invariant.
LEMMA CheckConnectStatusKeeps ==
  ASSUME Inv, NEW t \in Threads, CheckConnectStatus(t)
  PROVE  Inv'
  <1>1. /\ Top(t).pc = "check" /\ Top(t).lock = "no" /\ over = "no"
        /\ mutex' = mutex /\ server' = server /\ misused' \in BOOLEAN
        /\ UNCHANGED <<handlers, conn, unopened, stopAsync, signals>>
    BY DEF CheckConnectStatus, At, Inv, TypeOK
  <1>2. \/ (Pop(t) \/ Goto(t, "attempt")) /\ over' = over /\ dbConnected' \in BOOLEAN
        \/ over' = "crashed" /\ stack' = stack /\ dbConnected' = dbConnected
    BY DEF CheckConnectStatus
  <1>3. Rest'
    BY <1>1, <1>2 DEF Inv, TypeOK, Rest
  <1>4. Top(t).fn = "SIGPIPE" /\ "attempt" \in Places(Top(t).fn)
    BY <1>1, WhoIsWhere, PlacesOf
  <1>5. Ordinary(t)
    BY <1>1, <1>2, <1>4, PopReturns, GotoGoesOn DEF Ordinary
  <1> QED BY <1>1, <1>2, <1>3, <1>4, <1>5, OnTop

\* The handler's giving up keeps the inductive invariant.
LEMMA GiveUpKeeps ==
  ASSUME Inv, NEW t \in Threads, GiveUp(t)
  PROVE  Inv'
  <1>1. /\ Top(t).pc = "give up" /\ Top(t).lock = "no" /\ over = "no" /\ Pop(t)
        /\ mutex' = mutex /\ server' = server /\ stopAsync' = TRUE
        /\ UNCHANGED <<over, handlers, conn, unopened, misused, dbConnected, signals>>
    BY DEF GiveUp, At, dbVars
  <1>2. Rest'
    BY <1>1 DEF Inv, TypeOK, Rest
  <1>3. Top(t).fn = "SIGPIPE"
    BY <1>1, WhoIsWhere
  <1>4. Ordinary(t)
    BY <1>1, <1>3, PopReturns DEF Ordinary
  <1> QED BY <1>1, <1>2, <1>3, <1>4, OnTop

\* The SIGTERM handler's stop keeps the inductive invariant.
LEMMA StopLoopKeeps ==
  ASSUME Inv, NEW t \in Threads, StopLoop(t)
  PROVE  Inv'
  <1>1. /\ Top(t).pc = "stop" /\ Top(t).lock = "no" /\ over = "no"
        /\ mutex' = mutex /\ server' = server
        /\ UNCHANGED <<handlers, conn, unopened, misused, dbConnected, signals>>
        /\ \/ Pop(t) /\ over' = over /\ stopAsync' \in BOOLEAN
           \/ over' = "crashed" /\ stack' = stack /\ stopAsync' = stopAsync
    BY DEF StopLoop, At, dbVars, Inv, TypeOK
  <1>2. Rest'
    BY <1>1 DEF Inv, TypeOK, Rest
  <1>3. Top(t).fn = "SIGTERM"
    BY <1>1, WhoIsWhere
  <1>4. Ordinary(t)
    BY <1>1, <1>3, PopReturns DEF Ordinary
  <1> QED BY <1>1, <1>2, <1>3, <1>4, OnTop

\* A move of a pool thread keeps the inductive invariant.
LEMMA PoolGoesKeeps ==
  ASSUME Inv, NEW t \in PoolThreads, NEW from, NEW to, PoolGoes(t, from, to),
         from \in {"idle", "insert", "answer"}, to \in {"idle", "insert", "answer"},
         from = "idle" => stack[Main][1].pc \in {"loop", "callback"}
  PROVE  Inv'
  <1>1. /\ Top(t).pc = from /\ Top(t).lock = "no" /\ over = "no" /\ Goto(t, to)
        /\ mutex' = mutex /\ server' = server
        /\ UNCHANGED <<over, handlers, conn, unopened, misused, stopAsync, dbConnected, signals>>
    BY DEF PoolGoes, At, dbVars
  <1>2. t \in Threads /\ Main \in Threads /\ t # Main
    BY ThreadsDistinct DEF Threads
  <1>3. Top(t).fn = "pool" /\ Top(t) = stack[t][1] /\ to \in Places(Top(t).fn)
    BY <1>1, <1>2, WhoIsWhere, TopPlaced, PlacesOf
  <1>4. Rest'
    BY <1>1, RestStays
  <1>5. PICK f \in Frames : GoesOn(t, f)
    BY <1>1, <1>2, <1>3, GotoGoesOn
  <1>6. Ordinary(t)
    BY <1>5 DEF Ordinary
  <1>7. stack'[Main] = stack[Main] /\ \A u \in PoolThreads \ {t} : stack'[u] = stack[u]
    BY <1>2, <1>5 DEF GoesOn, Sets, Others, Threads
  <1>8. stack[Main][1].pc \in {"loop", "callback", "stop callback", "closing"}
    BY <1>1, <1>3 DEF Inv, PoolRests
  <1>9. PoolRests' /\ FirstConn'
    BY <1>1, <1>2, <1>7, <1>8, ConnStays DEF PoolRests
  <1> QED BY <1>1, <1>2, <1>4, <1>6, <1>9, Conclude

\* The first and the last place of a stack, as arithmetic.
LEMMA Ends3 ==
  ASSUME NEW n \in 1..3
  PROVE  n \in 1..n /\ 1 \in 1..n /\ \A i \in 1..n : i = n \/ i \in 1..n - 1
  OBVIOUS

\* A thread takes or releases _uvMutex where it is.
LEMMA InPlace ==
  ASSUME Inv, NEW t \in Threads, NEW f \in Frames, Sets(t, f), Placed(f),
         f.fn = Top(t).fn, f.pc = Top(t).pc,
         UNCHANGED <<over, conn, unopened, misused>>
  PROVE  /\ stack' \in [Threads -> Seq(Frames)]
         /\ \A u \in Threads : Len(stack'[u]) \in 1..3 /\ Layered(stack'[u], Own(u))
         /\ PoolRests' /\ FirstConn'
         /\ \A u \in Threads : \A i \in 1..Len(stack'[u]) :
              \/ u = t /\ i = Len(stack[t]) /\ stack'[u][i] = f
              \/ i \in 1..Len(stack[u]) /\ stack'[u][i] = stack[u][i]
         /\ Len(stack[t]) \in 1..Len(stack'[t]) /\ stack'[t][Len(stack[t])] = f
  <1>1. /\ stack[t] \in Seq(Frames) /\ stack[t] # <<>> /\ Len(stack[t]) \in 1..3
        /\ Top(t) = stack[t][Len(stack[t])] /\ Layered(stack[t], Own(t))
    BY StackTypes DEF Inv
  <1>2. /\ stack' \in [Threads -> Seq(Frames)] /\ stack'[t] \in Seq(Frames)
        /\ \A u \in Threads \ {t} : stack'[u] = stack[u]
        /\ Replaced(stack'[t], stack[t], f)
    BY DEF Sets, Others
  <1>3. Layered(stack'[t], Own(t)) /\ Len(stack'[t]) = Len(stack[t])
    <2>1. Layered(stack'[t], Own(t))
      BY <1>1, <1>2, LayeredReplaced
    <2> QED BY <1>2, <2>1 DEF Replaced
  <1>4. \A u \in Threads : Len(stack'[u]) \in 1..3 /\ Layered(stack'[u], Own(u))
    BY <1>1, <1>2, <1>3 DEF Inv, TypeOK
  <1>5. PICK n \in 1..3 : n = Len(stack[t])
    BY <1>1
  <1>6. n \in 1..n /\ \A i \in 1..n : i = n \/ i \in 1..n - 1
    BY Ends3
  <1>7. /\ Len(stack[t]) \in 1..Len(stack'[t]) /\ stack'[t][Len(stack[t])] = f
        /\ \A i \in 1..Len(stack'[t]) :
              \/ i = Len(stack[t]) /\ stack'[t][i] = f
              \/ i \in 1..Len(stack[t]) /\ stack'[t][i] = stack[t][i]
    BY <1>2, <1>3, <1>5, <1>6 DEF Replaced
  <1>8. \A u \in Threads : stack'[u][1].pc = stack[u][1].pc
    <2>1. stack'[t][1].pc = stack[t][1].pc
      <3>1. 1 \in 1..Len(stack'[t])
        <4>1. 1 \in 1..n
          BY Ends3
        <4> QED BY <1>3, <1>5, <4>1
      <3> QED BY <1>1, <1>7, <3>1
    <2> QED BY <1>2, <2>1
  <1>9. PoolRests' /\ FirstConn'
    BY <1>8 DEF Inv, PoolRests, FirstConn, Over, Threads
  <1>10. \A u \in Threads : \A i \in 1..Len(stack'[u]) :
              \/ u = t /\ i = Len(stack[t]) /\ stack'[u][i] = f
              \/ i \in 1..Len(stack[u]) /\ stack'[u][i] = stack[u][i]
    BY <1>2, <1>7
  <1> QED BY <1>2, <1>4, <1>7, <1>9, <1>10

\* When main destroys the UvHandler, nobody but SIGTERMHandlers has one.
LEMMA NobodyElse ==
  ASSUME Inv, NEW t \in Threads, Destroying(t)
  PROVE  /\ t = Main /\ Len(stack[t]) = 1
         /\ \A u \in Threads : \A i \in 1..Len(stack[u]) :
              u = Main \/ stack[u][i].fn = "SIGTERM" \/ stack[u][i].uv = "none"
  <1>1. t = Main /\ Top(t).fn = "main" /\ Top(t).pc = "destroy"
    BY WhoIsWhere DEF Destroying, Serving
  <1>2. Len(stack[t]) = 1 /\ stack[t][1].pc = "destroy"
    BY <1>1, TopPlaced
  <1>3. \A u \in PoolThreads : stack[u][1].pc = "idle"
    BY <1>1, <1>2 DEF Inv, PoolRests
  <1>4. ASSUME NEW u \in Threads, NEW i \in 1..Len(stack[u]), u # Main
        PROVE  stack[u][i].fn = "SIGTERM" \/ stack[u][i].uv = "none"
    <2>1. Layered(stack[u], Own(u)) /\ Own(u) = "pool" /\ stack[u][1].pc = "idle"
      BY <1>3, <1>4 DEF Inv, Own, Threads
    <2>2. Len(stack[u]) \in 1..3
      BY StackTypes DEF Inv
    <2>3. CASE i = 1
      BY <2>1, <2>3 DEF Layered, Placed, Locking
    <2>4. CASE i # 1
      <3>1. stack[u][i].fn \in {"SIGPIPE", "SIGTERM"} /\ (stack[u][i].fn = "SIGPIPE" => i = 2)
        BY <2>1, <2>4 DEF Layered
      <3>2. i = 2 => Len(stack[u]) > 1
        BY <2>2
      <3>3. stack[u][i].fn # "SIGPIPE"
        BY <2>1, <3>1, <3>2 DEF Layered
      <3> QED BY <3>1, <3>3
    <2> QED BY <2>3, <2>4
  <1> QED BY <1>1, <1>2, <1>4

\* Locking _uvMutex keeps the inductive invariant.
LEMMA LockKeeps ==
  ASSUME Inv, NEW t \in Threads, Lock(t)
  PROVE  Inv'
  <1>1. /\ Top(t).lock = "wants" /\ mutex' = t
        /\ server' = IF Destroying(t) THEN "none" ELSE GetUVHandler
        /\ UNCHANGED <<over, handlers, conn, unopened, misused, stopAsync, dbConnected, signals>>
    BY DEF Lock, dbVars
  <1>2. server' \in Uvs
    BY <1>1 DEF Inv, TypeOK, GetUVHandler, Uvs
  <1>3. PICK g \in Frames : g = Top(t) /\ Placed(g)
    BY TopPlaced
  <1>4. PICK f : f = [g EXCEPT !.lock = "holds", !.uv = server']
    OBVIOUS
  <1>5. f \in Frames /\ f.fn = g.fn /\ f.pc = g.pc /\ f.lock = "holds" /\ f.uv = server'
    <2>1. PICK u \in Uvs : u = server'
      BY <1>2
    <2>2. PICK l \in Locks : l = "holds"
      BY DEF Locks
    <2>3. f = [g EXCEPT !.lock = l, !.uv = u]
      BY <1>4, <2>1, <2>2
    <2>4. f \in Frames /\ f.fn = g.fn /\ f.pc = g.pc /\ f.lock = l /\ f.uv = u
      BY <2>3, FramesAre
    <2> QED BY <2>1, <2>2, <2>4
  <1>6. Placed(f)
    BY <1>1, <1>3, <1>5 DEF Placed
  <1>7. Sets(t, f)
    <2>1. SetTop(t, f)
      BY <1>3, <1>4 DEF Lock
    <2> QED BY <1>5, <2>1, StepForms DEF Inv
  <1>8. /\ stack' \in [Threads -> Seq(Frames)]
        /\ \A u \in Threads : Len(stack'[u]) \in 1..3 /\ Layered(stack'[u], Own(u))
        /\ PoolRests' /\ FirstConn'
        /\ \A u \in Threads : \A i \in 1..Len(stack'[u]) :
             \/ u = t /\ i = Len(stack[t]) /\ stack'[u][i] = f
             \/ i \in 1..Len(stack[u]) /\ stack'[u][i] = stack[u][i]
        /\ Len(stack[t]) \in 1..Len(stack'[t]) /\ stack'[t][Len(stack[t])] = f
    BY <1>1, <1>3, <1>5, <1>6, <1>7, InPlace
  <1>9. Held'
    BY <1>1, <1>5, <1>8 DEF Held
  <1>10. OneHandler'
    <2>1. ASSUME NEW u \in Threads, NEW i \in 1..Len(stack'[u]),
                 stack'[u][i].fn # "SIGTERM", stack'[u][i].uv # "none"
          PROVE  stack'[u][i].uv = server'
      <3>1. CASE u = t /\ i = Len(stack[t]) /\ stack'[u][i] = f
        BY <1>5, <3>1
      <3>2. ASSUME i \in 1..Len(stack[u]), stack'[u][i] = stack[u][i],
                   ~(u = t /\ i = Len(stack[t]))
            PROVE  server' = server /\ stack[u][i].uv = server
        <4>1. stack[u][i].uv = server /\ server # "none"
          BY <2>1, <3>2 DEF Inv, OneHandler
        <4>2. ~Destroying(t)
          <5>1. ASSUME Destroying(t) PROVE FALSE
            <6>1. t = Main /\ Len(stack[t]) = 1 /\ u = Main
              BY <2>1, <3>2, <5>1, NobodyElse
            <6> QED BY <3>2, <6>1
          <5> QED BY <5>1
        <4> QED BY <1>1, <4>1, <4>2 DEF GetUVHandler
      <3> QED BY <1>8, <3>1, <3>2
    <2> QED BY <2>1 DEF OneHandler
  <1>11. TypeOK'
    BY <1>1, <1>2, <1>8 DEF Inv, TypeOK, Uvs
  <1> QED BY <1>8, <1>9, <1>10, <1>11 DEF Inv

\* Unlocking it keeps the inductive invariant.
LEMMA UnlockKeeps ==
  ASSUME Inv, NEW t \in Threads, Unlock(t)
  PROVE  Inv'
  <1>1. /\ Top(t).lock = "holds" /\ mutex' = None /\ server' = server
        /\ UNCHANGED <<over, handlers, conn, unopened, misused, stopAsync, dbConnected, signals>>
    BY DEF Unlock, dbVars
  <1>2. PICK g \in Frames : g = Top(t) /\ Placed(g)
    BY TopPlaced
  <1>3. PICK f : f = [g EXCEPT !.lock = "no"]
    OBVIOUS
  <1>4. f \in Frames /\ f.fn = g.fn /\ f.pc = g.pc /\ f.lock = "no" /\ f.uv = g.uv
    BY <1>3, FrameExcept DEF Locks
  <1>5. Placed(f)
    BY <1>2, <1>4 DEF Placed
  <1>6. Sets(t, f)
    <2>1. SetTop(t, f)
      BY <1>2, <1>3 DEF Unlock
    <2> QED BY <1>4, <2>1, StepForms DEF Inv
  <1>7. /\ stack' \in [Threads -> Seq(Frames)]
        /\ \A u \in Threads : Len(stack'[u]) \in 1..3 /\ Layered(stack'[u], Own(u))
        /\ PoolRests' /\ FirstConn'
        /\ \A u \in Threads : \A i \in 1..Len(stack'[u]) :
             \/ u = t /\ i = Len(stack[t]) /\ stack'[u][i] = f
             \/ i \in 1..Len(stack[u]) /\ stack'[u][i] = stack[u][i]
        /\ Len(stack[t]) \in 1..Len(stack'[t]) /\ stack'[t][Len(stack[t])] = f
    BY <1>1, <1>2, <1>4, <1>5, <1>6, InPlace
  <1>8. Held'
    BY <1>1 DEF Held
  <1>9. OneHandler'
    <2>1. /\ g = stack[t][Len(stack[t])] /\ Len(stack[t]) \in 1..Len(stack[t])
      <3>1. g = stack[t][Len(stack[t])] /\ Len(stack[t]) \in 1..3
        BY <1>2, StackTypes DEF Inv
      <3>2. PICK n \in 1..3 : n = Len(stack[t])
        BY <3>1
      <3>3. n \in 1..n
        OBVIOUS
      <3> QED BY <3>1, <3>2, <3>3
    <2>2. g.fn # "SIGTERM" /\ g.uv # "none" => g.uv = server
      BY <2>1 DEF Inv, OneHandler
    <2> QED BY <1>1, <1>4, <1>7, <2>2 DEF Inv, OneHandler
  <1>10. TypeOK'
    BY <1>1, <1>7 DEF Inv, TypeOK
  <1> QED BY <1>7, <1>8, <1>9, <1>10 DEF Inv

\* The delivery of a signal keeps the inductive invariant.
LEMMA DeliverKeeps ==
  ASSUME Inv, NEW t \in Threads, NEW s, NEW entry, Deliver(t, s, entry),
         \/ s = "SIGPIPE" /\ entry = "check" /\ Writing(t)
         \/ s = "SIGTERM" /\ entry = "stop"
  PROVE  Inv'
  <1>1. /\ over = "no" /\ signals < MaxSignals /\ signals' = signals + 1 /\ ~Blocked(t, s)
        /\ mutex' = mutex /\ server' = server
        /\ UNCHANGED <<handlers, conn, unopened, misused, stopAsync, dbConnected>>
        /\ \/ stack' = [stack EXCEPT ![t] = Append(@, Frame(s, entry))] /\ over' = over
           \/ over' = "killed" /\ stack' = stack
    BY DEF Deliver, dbVars
  <1>2. Rest'
    <2>1. PICK n \in 0..MaxSignals : n = signals
      BY DEF Inv, TypeOK
    <2>2. n < MaxSignals => n + 1 \in 0..MaxSignals
      BY SignalBound
    <2> QED BY <1>1, <2>1, <2>2 DEF Inv, TypeOK, Rest
  <1>3. ASSUME stack' = [stack EXCEPT ![t] = Append(@, Frame(s, entry))]
        PROVE  \E f \in Frames : Interrupted(t, f)
    <2>1. PICK f : f = Frame(s, entry)
      OBVIOUS
    <2>2. s \in Fns /\ entry \in Pcs /\ entry \in Locking /\ entry \in Places(s)
      BY PlacesOf DEF Fns, Pcs, Locking
    <2>3. f \in Frames /\ f.fn = s /\ f.pc = entry /\ f.uv = "none"
      BY <2>1, <2>2, FrameTypes
    <2>4. Adds(t, f)
      BY <1>3, <2>1, <2>3, StepForms DEF Inv
    <2>5. \A i \in 1..Len(stack[t]) : stack[t][i].fn # f.fn
      <3>1. DOMAIN stack[t] = 1..Len(stack[t])
        BY StackTypes, LenProperties DEF Inv
      <3> QED BY <1>1, <2>3, <3>1 DEF Blocked
    <2>6. Placed(f)
      BY <2>2, <2>3 DEF Placed
    <2>7. Writing(t) => /\ Len(stack[t]) = 1 /\ stack[t][1].lock = "no"
                        /\ stack[t][1].pc \in {"callback", "insert"}
      <3>1. Writing(t) => Top(t).pc \in {"callback", "insert"} /\ Top(t).lock = "no"
        BY DEF Writing, At
      <3>2. Top(t).pc \in {"callback", "insert"} => Top(t).fn \in {"main", "pool"}
        BY WhoIsWhere DEF Serving
      <3> QED BY <3>1, <3>2, TopPlaced
    <2> QED BY <2>3, <2>4, <2>5, <2>6, <2>7 DEF Interrupted
  <1>4. Ordinary(t)
    BY <1>1, <1>3 DEF Ordinary
  <1> QED BY <1>1, <1>2, <1>3, <1>4, OnTop

\* The loss of the database keeps the inductive invariant.
LEMMA DropDatabaseKeeps ==
  ASSUME Inv, DropDatabase
  PROVE  Inv'
  <1>1. /\ over = "no" /\ conn = "open" /\ conn' = "closed"
        /\ stack' = stack /\ mutex' = mutex /\ server' = server
        /\ UNCHANGED <<over, handlers, stopAsync, dbConnected, signals, unopened, misused>>
    BY DEF DropDatabase
  <1>2. Main \in Threads /\ Ordinary(Main)
    BY <1>1 DEF Threads, Ordinary
  <1>3. Rest'
    BY <1>1 DEF Inv, TypeOK, Rest
  <1>4. PoolRests' /\ FirstConn'
    BY <1>1 DEF Inv, PoolRests, FirstConn, Over
  <1> QED BY <1>1, <1>2, <1>3, <1>4, Conclude

\* Every step of a pool thread keeps the inductive invariant.
LEMMA PoolKeeps ==
  ASSUME Inv, NEW t \in PoolThreads, Work(t) \/ Insert(t) \/ AnswerBatch(t)
  PROVE  Inv'
  <1>1. CASE Work(t)
    <2>1. stack[Main][1].pc \in {"loop", "callback"}
      BY <1>1, StackTypes DEF Work, Inv, Threads
    <2> QED BY <1>1, <2>1, PoolGoesKeeps DEF Work
  <1>2. CASE Insert(t)
    BY <1>2, PoolGoesKeeps, EndsKeeps DEF Insert
  <1>3. CASE AnswerBatch(t)
    BY <1>3, PoolGoesKeeps DEF AnswerBatch
  <1> QED BY <1>1, <1>2, <1>3

\* Every step keeps the inductive invariant.
LEMMA StepKeeps == Inv /\ [Next]_vars => Inv'
  <1> SUFFICES ASSUME Inv, [Next]_vars PROVE Inv'
    OBVIOUS
  <1>1. CASE UNCHANGED vars
    <2>1. /\ Main \in Threads /\ stack' = stack /\ mutex' = mutex /\ server' = server
          /\ UNCHANGED <<over, handlers, conn, unopened, misused, stopAsync, dbConnected, signals>>
      BY <1>1 DEF vars, Threads
    <2>2. Ordinary(Main)
      BY <2>1 DEF Ordinary
    <2>3. Rest'
      BY <2>1, RestStays
    <2> QED BY <2>1, <2>2, <2>3, OnTop
  <1>2. ASSUME NEW t \in Threads, ThreadStep(t) PROVE Inv'
    <2>1. t # Main => t \in PoolThreads
      BY DEF Threads
    <2> QED BY <1>2, <2>1, MainKeeps, PoolKeeps, AttemptKeeps, IsOpenKeeps, PrepareKeeps,
               CheckConnectStatusKeeps, GiveUpKeeps, StopLoopKeeps, LockKeeps, UnlockKeeps
            DEF ThreadStep
  <1>3. ASSUME NEW t \in Threads, SIGPIPE(t) \/ SIGTERM(t) PROVE Inv'
    BY <1>3, DeliverKeeps DEF SIGPIPE, SIGTERM
  <1>4. ASSUME NEW t \in PoolThreads, Work(t) PROVE Inv'
    BY <1>4, PoolKeeps
  <1> QED BY <1>1, <1>2, <1>3, <1>4, DropDatabaseKeeps DEF Next

\* The inductive invariant holds at the start.
LEMMA InitKeeps == Init => Inv
  <1> SUFFICES ASSUME Init PROVE Inv
    OBVIOUS
  <1>1. /\ over = "no" /\ mutex = None /\ server = "none" /\ handlers = {} /\ conn = "null"
        /\ stopAsync = FALSE /\ dbConnected \in BOOLEAN /\ signals = 0
        /\ unopened = FALSE /\ misused = FALSE
    BY DEF Init
  <1>2. PICK m \in Frames : /\ m = Frame("main", "config") /\ m.fn = "main" /\ m.pc = "config"
                            /\ m.uv = "none" /\ m.lock = "no"
    <2>1. "main" \in Fns /\ "config" \in Pcs /\ "config" \notin Locking
      BY DEF Fns, Pcs, StartUp, Locking
    <2> QED BY <2>1, FrameTypes
  <1>3. PICK p \in Frames : /\ p = Frame("pool", "idle") /\ p.fn = "pool" /\ p.pc = "idle"
                            /\ p.uv = "none" /\ p.lock = "no"
    <2>1. "pool" \in Fns /\ "idle" \in Pcs /\ "idle" \notin Locking
      BY DEF Fns, Pcs, Locking
    <2> QED BY <2>1, FrameTypes
  <1>4. Placed(m) /\ Placed(p)
    BY <1>2, <1>3, PlacesOf DEF Placed, StartUp
  <1>5. stack = [t \in Threads |-> <<IF t = Main THEN m ELSE p>>]
    BY <1>2, <1>3 DEF Init
  <1>6. ASSUME NEW t \in Threads
        PROVE  /\ stack[t] \in Seq(Frames) /\ Len(stack[t]) = 1
               /\ stack[t][1] = IF t = Main THEN m ELSE p
    <2>1. PICK f \in Frames : f = IF t = Main THEN m ELSE p
      OBVIOUS
    <2>2. stack[t] = <<f>>
      BY <1>5, <2>1
    <2> QED BY <2>1, <2>2
  <1>7. stack \in [Threads -> Seq(Frames)]
    BY <1>5, <1>6
  <1>8. \A t \in Threads : Layered(stack[t], Own(t))
    BY <1>2, <1>3, <1>4, <1>6 DEF Layered, Own
  <1>9. TypeOK
    <2>1. \A t \in Threads : Len(stack[t]) \in 1..3
      BY <1>6
    <2>2. signals \in 0..MaxSignals
      BY <1>1, SignalBound
    <2> QED BY <1>1, <1>7, <2>1, <2>2 DEF TypeOK
  <1>10. Held /\ OneHandler /\ PoolRests
    <2>1. Held
      BY <1>1 DEF Held
    <2>2. OneHandler
      BY <1>2, <1>3, <1>6 DEF OneHandler
    <2>3. PoolRests
      BY <1>3, <1>6, ThreadsDistinct DEF PoolRests, Threads
    <2> QED BY <2>1, <2>2, <2>3
  <1>11. FirstConn
    BY <1>1, <1>2, <1>6 DEF FirstConn, Threads
  <1> QED BY <1>8, <1>9, <1>10, <1>11 DEF Inv

-----------------------------------------------------------------------------
(* The theorems *)

\* main, the pool and the signal handlers keep the invariant, whatever the
\* number of pool threads and however many signals arrive.
THEOREM Invariant == Spec => []Inv
  <1>1. Init => Inv
    BY InitKeeps
  <1>2. Inv /\ [Next]_vars => Inv'
    BY StepKeeps
  <1> QED BY <1>1, <1>2, PTL DEF Spec

\* The variables of the server's process have their declared types.
THEOREM TypeCorrect == Spec => []TypeOK
  <1>1. Inv => TypeOK
    BY DEF Inv
  <1> QED BY <1>1, Invariant, PTL

\* The inductive invariant implies OnlySIGTERMBlocksItself.
LEMMA BlockedHandler == Inv => OnlySIGTERMBlocksItself
  <1> SUFFICES ASSUME Inv, mutex # None, Top(mutex).lock = "wants"
               PROVE  Top(mutex).fn = "SIGTERM"
    BY DEF OnlySIGTERMBlocksItself, SelfBlocked
  <1>1. mutex \in Threads
    BY DEF Inv, TypeOK
  <1>2. PICK k \in 1..Len(stack[mutex]) : stack[mutex][k].lock = "holds"
    BY DEF Inv, Held
  <1>3. Layered(stack[mutex], Own(mutex)) /\ Len(stack[mutex]) \in 1..3
        /\ Top(mutex) = stack[mutex][Len(stack[mutex])]
    BY <1>1, StackTypes DEF Inv
  <1>4. PICK n \in 1..3 : n = Len(stack[mutex])
    BY <1>3
  <1>5. k # n /\ k < n /\ n > 1
    <2>1. k # n
      BY <1>2, <1>3, <1>4
    <2> QED BY <1>2, <1>4, <2>1
  <1>6. Top(mutex).fn \in {"SIGPIPE", "SIGTERM"}
    <2>1. n # 1
      BY <1>5
    <2> QED BY <1>1, <1>4, <2>1, TopPlaced
  <1>7. Top(mutex).fn # "SIGPIPE"
    <2>1. ASSUME Top(mutex).fn = "SIGPIPE" PROVE FALSE
      <3>1. n = 2 /\ k = 1
        <4>1. Len(stack[mutex]) = 2
          BY <1>1, <2>1, TopPlaced
        <4>2. n = 2
          BY <1>4, <4>1
        <4>3. k \in 1..2
          BY <4>1
        <4> QED BY <1>5, <4>2, <4>3
      <3>2. stack[mutex][2].fn = "SIGPIPE" /\ Len(stack[mutex]) > 1
        BY <1>3, <1>4, <2>1, <3>1
      <3>3. stack[mutex][1].lock = "no"
        BY <1>3, <3>2 DEF Layered
      <3> QED BY <1>2, <3>1, <3>3
    <2> QED BY <2>1
  <1> QED BY <1>6, <1>7

\* A thread that waits for the _uvMutex it holds runs SIGTERMHandler: neither
\* SIGPIPEHandler, nor main, nor a worker can block itself.
THEOREM OnlyTerminationBlocks == Spec => []OnlySIGTERMBlocksItself
  <1> QED BY Invariant, BlockedHandler, PTL

\* Start-up misuses no connection, unless pqxx makes one that is not open.
THEOREM StartUpConnection == Spec => []FirstConnectSafe
  <1>1. Inv => FirstConnectSafe
    <2> SUFFICES ASSUME Inv, Base(Main).pc \in StartUp, ~Over, ~unopened
                 PROVE  conn # "deleted" /\ ~misused
      BY DEF FirstConnectSafe
    <2>1. Base(Main) = stack[Main][1]
      BY StackTypes DEF Inv, Threads
    <2> QED BY <2>1 DEF Inv, FirstConn
  <1> QED BY <1>1, Invariant, PTL

\* The loop, the workers and SIGPIPEHandler never work with a UvHandler that
\* main has destroyed.
THEOREM HandlerStays == Spec => []HandlerOutlivesUsers
  <1>1. Inv => HandlerOutlivesUsers
    <2> SUFFICES ASSUME Inv, NEW t \in Threads, NEW i \in DOMAIN stack[t],
                        stack[t][i].fn # "SIGTERM", stack[t][i].uv # "none"
                 PROVE  stack[t][i].uv = server
      BY DEF HandlerOutlivesUsers
    <2>1. DOMAIN stack[t] = 1..Len(stack[t])
      BY StackTypes, LenProperties DEF Inv
    <2> QED BY <2>1 DEF Inv, OneHandler
  <1> QED BY <1>1, Invariant, PTL
=============================================================================
