------------------------------ MODULE Lifecycle ------------------------------
(***************************************************************************)
(* ClientServiceServer from main to its end: the configuration, the        *)
(* database connection with its retries, the signal handlers, the network, *)
(* the loop and the shutdown.  A signal handler runs on top of whatever    *)
(* its thread was doing, so a thread is a stack of frames, and _uvMutex is *)
(* taken and released in two steps with room for a signal between them.    *)
(*                                                                         *)
(* What the loop's callbacks do is Server's subject: here they take the    *)
(* mutex, write to sockets and give work to the pool.  Undefined behaviour *)
(* ends the process ("crashed") or lets it go on.                          *)
(***************************************************************************)
EXTENDS Integers, Sequences, SequencesExt

CONSTANTS Main,         \* the thread of main and of the loop
          PoolThreads,  \* threads of the libuv pool
          None,
          MaxSignals    \* bound: signals that reach the process

ASSUME ThreadsDistinct == Main \notin PoolThreads /\ None \notin PoolThreads \cup {Main}
ASSUME SignalBound == MaxSignals \in Nat

VARIABLES
  over,         \* how the process ended, "no" while it has not
  stack,        \* the frames of each thread, the running one last
  mutex,        \* who holds _uvMutex
  server,       \* UvHandler::server: "none", the "first" one or a "second"
  handlers,     \* signals with a handler installed
  conn,         \* Database::conn: "null", "open", "closed" or "deleted"
  stopAsync,    \* is stopAsync signalled?
  dbConnected,  \* UvHandler::dbConnected
  signals,      \* signals delivered
  unopened,     \* history: has pqxx made a connection that was not open?
  misused       \* history: has conn been deleted twice, or used null or deleted?

dbVars == <<conn, unopened, misused>>
vars == <<over, stack, mutex, server, handlers, conn, stopAsync, dbConnected,
          signals, unopened, misused>>

Threads == {Main} \cup PoolThreads

\* The places of the code that call GetUVHandler, or DestroyUvHandler, first.
Locking == {"network", "run", "callback", "stop callback", "destroy", "answer",
            "check", "stop"}

\* A frame of main, of a pool thread, or of a signal handler; time is Connect's
\* loop counter and uv the UvHandler that GetUVHandler returned.
Frame(fn, pc) ==
  [fn |-> fn, pc |-> pc, lock |-> IF pc \in Locking THEN "wants" ELSE "no",
   time |-> 0, uv |-> "none"]

Init ==
  /\ over = "no" /\ mutex = None /\ server = "none" /\ handlers = {}
  /\ stack = [t \in Threads |->
                <<IF t = Main THEN Frame("main", "config") ELSE Frame("pool", "idle")>>]
  /\ conn = "null" /\ stopAsync = FALSE /\ dbConnected \in BOOLEAN
  /\ signals = 0 /\ unopened = FALSE /\ misused = FALSE

Top(t)   == Last(stack[t])
Base(t)  == Head(stack[t])
At(t, p) == over = "no" /\ Top(t).pc = p /\ Top(t).lock = "no"

SetTop(t, f) == stack' = [stack EXCEPT ![t] = Append(Front(@), f)]
Pop(t)       == stack' = [stack EXCEPT ![t] = Front(@)]

\* SIGPIPEHandler keeps its UvHandler; the others ask for it each time.
Goto(t, p) ==
  LET f == Top(t) IN
  SetTop(t, IF f.fn = "SIGPIPE" THEN [Frame(f.fn, p) EXCEPT !.uv = f.uv] ELSE Frame(f.fn, p))

Ends(how) ==
  /\ over' = how
  /\ UNCHANGED <<stack, mutex, server, handlers, conn, stopAsync, dbConnected,
                 signals, unopened, misused>>

-----------------------------------------------------------------------------
(* _uvMutex *)

Destroying(t) == Top(t).pc = "destroy"

\* The UvHandler is made by the first who asks, and made anew by a signal
\* handler that asks after DestroyUvHandler.
GetUVHandler ==
  IF server # "none" THEN server
  ELSE IF Base(Main).pc \in {"destroy", "database", "return"} THEN "second" ELSE "first"

Lock(t) ==
  /\ over = "no" /\ Top(t).lock = "wants" /\ mutex = None
  /\ mutex' = t
  /\ server' = IF Destroying(t) THEN "none" ELSE GetUVHandler
  /\ SetTop(t, [Top(t) EXCEPT !.lock = "holds", !.uv = server'])
  /\ UNCHANGED <<over, handlers, dbVars, stopAsync, dbConnected, signals>>

Unlock(t) ==
  /\ over = "no" /\ Top(t).lock = "holds"
  /\ mutex' = None
  /\ SetTop(t, [Top(t) EXCEPT !.lock = "no"])
  /\ UNCHANGED <<over, server, handlers, dbVars, stopAsync, dbConnected, signals>>

-----------------------------------------------------------------------------
(* Database::Connect, called by main and by SIGPIPEHandler *)

Attempts == 5

Returns(t, ok) ==
  CASE Top(t).fn = "main"     -> Goto(t, IF ok THEN "SIGPIPE" ELSE "return")
    [] Top(t).fn = "SIGPIPE"  -> IF ok THEN Pop(t) ELSE Goto(t, "give up")

RetryForEver(t) == SetTop(t, Top(t))
Retry(t) == SetTop(t, [Top(t) EXCEPT !.time = @ + 1])

DeleteConn ==
  /\ conn' = IF conn = "null" THEN "null" ELSE "deleted"
  /\ misused' = (misused \/ conn = "deleted")

\* break, once the connection is open.
AfterOpenNoBreak(t) == Retry(t)
AfterOpen(t) == Goto(t, "opened")

\* One pass of the retry loop.  A broken_connection deletes conn, which still
\* points to the previous connection, and sleeps; a connection that is not open
\* is abandoned; no other exception is caught.
Attempt(t) ==
  /\ At(t, "attempt") /\ Top(t).time < Attempts
  /\ \/ conn' = "open" /\ AfterOpen(t) /\ UNCHANGED <<over, unopened, misused>>
     \/ conn' = "closed" /\ unopened' = TRUE /\ Retry(t) /\ UNCHANGED <<over, misused>>
     \/ DeleteConn /\ Retry(t) /\ UNCHANGED <<over, unopened>>
     \/ over' = "crashed" /\ UNCHANGED <<stack, dbVars>>
  /\ UNCHANGED <<mutex, server, handlers, stopAsync, dbConnected, signals>>

\* conn->is_open() after the loop, whatever conn points to.
IsOpen(t) ==
  /\ At(t, "opened") \/ (At(t, "attempt") /\ Top(t).time = Attempts)
  /\ misused' = (misused \/ conn \in {"null", "deleted"})
  /\ \/ conn \in {"open", "deleted"} /\ Goto(t, "prepare") /\ UNCHANGED over
     \/ conn \in {"closed", "deleted"} /\ Returns(t, FALSE) /\ UNCHANGED over
     \/ conn \in {"null", "deleted"} /\ over' = "crashed" /\ UNCHANGED stack
  /\ UNCHANGED <<mutex, server, handlers, conn, unopened, stopAsync, dbConnected, signals>>

\* The clients are read and the statements prepared, or an exception ends it all.
Prepare(t) ==
  /\ At(t, "prepare")
  /\ \/ conn \in {"open", "deleted"} /\ Returns(t, TRUE) /\ UNCHANGED over
     \/ over' = "crashed" /\ UNCHANGED stack
  /\ misused' = (misused \/ conn = "deleted")
  /\ UNCHANGED <<mutex, server, handlers, conn, unopened, stopAsync, dbConnected, signals>>

-----------------------------------------------------------------------------
(* main *)

MainGoes(from, to) ==
  /\ At(Main, from) /\ Goto(Main, to)
  /\ UNCHANGED <<over, mutex, server, handlers, dbVars, stopAsync, dbConnected, signals>>

\* A file that cannot be read or parsed ends the process, a member that is
\* missing is undefined behaviour; a port out of range becomes the default.
ReadConfig ==
  \/ MainGoes("config", "attempt")
  \/ At(Main, "config") /\ (Ends("exit 1") \/ Ends("crashed"))

SetupSignals ==
  /\ \/ At(Main, "SIGPIPE") /\ Goto(Main, "SIGTERM")
     \/ At(Main, "SIGTERM") /\ Goto(Main, "network")
  /\ handlers' = handlers \cup {Top(Main).pc}
  /\ UNCHANGED <<over, mutex, server, dbVars, stopAsync, dbConnected, signals>>

\* Only a failed listen ends the process: an address that cannot be translated
\* or bound is logged and uv_listen decides.
SetupNetwork ==
  \/ MainGoes("network", "run")
  \/ At(Main, "network") /\ Ends("exit 1")

UvLoopRun == MainGoes("run", "loop")

\* Any callback but the stop callback.
Callback == MainGoes("loop", "callback") \/ MainGoes("callback", "loop")

StopCallback ==
  /\ At(Main, "loop") /\ stopAsync
  /\ stopAsync' = FALSE /\ Goto(Main, "stop callback")
  /\ UNCHANGED <<over, mutex, server, handlers, dbVars, dbConnected, signals>>

\* The walk over the handles, which may be undefined.
CloseHandles ==
  \/ MainGoes("stop callback", "closing")
  \/ At(Main, "stop callback") /\ Ends("crashed")

\* uv_run returns when no handle is open and no request is pending.
LoopMayEndAtOnce == TRUE
LoopMayEnd == \A t \in PoolThreads : Base(t).pc = "idle"

LoopEnds == LoopMayEnd /\ MainGoes("closing", "destroy")

DestroyUvHandler == MainGoes("destroy", "database")

DestroyDatabase ==
  /\ At(Main, "database")
  /\ DeleteConn
  /\ \/ Goto(Main, "return") /\ UNCHANGED over
     \/ conn = "deleted" /\ over' = "crashed" /\ UNCHANGED stack
  /\ UNCHANGED <<mutex, server, handlers, unopened, stopAsync, dbConnected, signals>>

Return == At(Main, "return") /\ Ends("exit 0")

-----------------------------------------------------------------------------
(* The pool: a worker stores a batch, then answers through the UvHandler *)

PoolGoes(t, from, to) ==
  /\ At(t, from) /\ Goto(t, to)
  /\ UNCHANGED <<over, mutex, server, handlers, dbVars, stopAsync, dbConnected, signals>>

Work(t) == Base(Main).pc \in {"loop", "callback"} /\ PoolGoes(t, "idle", "insert")

Insert(t) ==
  \/ PoolGoes(t, "insert", "answer")
  \/ At(t, "insert") /\ conn # "open" /\ Ends("crashed")

AnswerBatch(t) == PoolGoes(t, "answer", "idle")

-----------------------------------------------------------------------------
(* Signals *)

\* Without SA_NODEFER a signal is blocked while its handler runs; sa_mask is
\* empty, so the other one is not.
BlockedNever(t, s) == FALSE
Blocked(t, s) == \E i \in DOMAIN stack[t] : stack[t][i].fn = s

\* A signal without a handler kills the process.
Deliver(t, s, entry) ==
  /\ over = "no" /\ signals < MaxSignals
  /\ ~Blocked(t, s)
  /\ signals' = signals + 1
  /\ \/ s \in handlers /\ stack' = [stack EXCEPT ![t] = Append(@, Frame(s, entry))]
        /\ UNCHANGED over
     \/ s \notin handlers /\ over' = "killed" /\ UNCHANGED stack
  /\ UNCHANGED <<mutex, server, handlers, dbVars, stopAsync, dbConnected>>

\* A thread that writes to a socket: to a client's, in a callback, or to the
\* database's ("if the connection to postgres broken, a SIGPIPE will be received").
WritingUnderLock(t) == over = "no" /\ Top(t).pc \in {"callback", "insert"}
Writing(t) == At(t, "callback") \/ At(t, "insert")

SIGPIPE(t) == Writing(t) /\ Deliver(t, "SIGPIPE", "check")

\* SIGTERM is for the process: any thread may be interrupted, at any point.
SIGTERM(t) == Deliver(t, "SIGTERM", "stop")

\* SIGPIPEHandler after GetUVHandler: CheckConnectStatus and its answer.
CheckConnectStatus(t) ==
  /\ At(t, "check")
  /\ misused' = (misused \/ conn = "deleted")
  /\ \/ conn \in {"open", "deleted"} /\ dbConnected' = TRUE /\ Pop(t) /\ UNCHANGED over
     \/ conn \in {"closed", "deleted"} /\ dbConnected' = FALSE /\ Goto(t, "attempt")
        /\ UNCHANGED over
     \/ conn = "deleted" /\ over' = "crashed" /\ UNCHANGED <<stack, dbConnected>>
  /\ UNCHANGED <<mutex, server, handlers, conn, unopened, stopAsync, signals>>

\* "reconnecting to database failed. exiting..."
GiveUp(t) ==
  /\ At(t, "give up")
  /\ stopAsync' = TRUE /\ Pop(t)
  /\ UNCHANGED <<over, mutex, server, handlers, dbVars, dbConnected, signals>>

\* SIGTERMHandler after GetUVHandler: StopLoop.  A UvHandler that main has
\* destroyed since, or one made after that, is no longer the loop's.
StopLoop(t) ==
  /\ At(t, "stop")
  /\ \/ /\ stopAsync' = (stopAsync \/ (Top(t).uv = server /\ server = "first"))
        /\ Pop(t) /\ UNCHANGED over
     \/ /\ Top(t).uv # server \/ server = "second"
        /\ over' = "crashed" /\ UNCHANGED <<stack, stopAsync>>
  /\ UNCHANGED <<mutex, server, handlers, dbVars, dbConnected, signals>>

DropDatabase ==
  /\ over = "no" /\ conn = "open" /\ conn' = "closed"
  /\ UNCHANGED <<over, stack, mutex, server, handlers, stopAsync, dbConnected,
                 signals, unopened, misused>>

MainStep == \/ ReadConfig \/ SetupSignals \/ SetupNetwork \/ UvLoopRun \/ Callback
            \/ StopCallback \/ CloseHandles \/ LoopEnds \/ DestroyUvHandler
            \/ DestroyDatabase \/ Return

ThreadStep(t) == \/ t = Main /\ MainStep
                 \/ t # Main /\ (Insert(t) \/ AnswerBatch(t))
                 \/ Attempt(t) \/ IsOpen(t) \/ Prepare(t)
                 \/ CheckConnectStatus(t) \/ GiveUp(t) \/ StopLoop(t)
                 \/ Lock(t) \/ Unlock(t)

Next == \/ \E t \in Threads : ThreadStep(t) \/ SIGPIPE(t) \/ SIGTERM(t)
        \/ \E t \in PoolThreads : Work(t)
        \/ DropDatabase

Spec == Init /\ [][Next]_vars

\* Every thread goes on; one that waits for the mutex gets it if it is free
\* again and again, and the loop comes to every handle that is signalled.
Fairness ==
  /\ \A t \in Threads : WF_vars(ThreadStep(t)) /\ SF_vars(Lock(t))
  /\ SF_vars(StopCallback)

FairSpec == Spec /\ Fairness

-----------------------------------------------------------------------------
(* Properties *)

Over == over # "no"

StartUp == {"config", "attempt", "opened", "prepare", "SIGPIPE", "SIGTERM", "network", "run"}
Serving == {"loop", "callback", "stop callback", "closing", "destroy", "database", "return"}
Frames == [fn: {"main", "pool", "SIGPIPE", "SIGTERM"},
           pc: StartUp \cup Serving \cup {"idle", "insert", "answer", "check", "give up", "stop"},
           lock: {"no", "wants", "holds"}, time: 0..Attempts,
           uv: {"none", "first", "second"}]

\* The server's state has the types its declarations give it; a thread has at
\* most the frames of both handlers on top of its own.
TypeOK ==
  /\ over \in {"no", "exit 0", "exit 1", "killed", "crashed"}
  /\ stack \in [Threads -> Seq(Frames)] /\ \A t \in Threads : Len(stack[t]) \in 1..3
  /\ mutex \in Threads \cup {None} /\ server \in {"none", "first", "second"}
  /\ handlers \subseteq {"SIGPIPE", "SIGTERM"}
  /\ conn \in {"null", "open", "closed", "deleted"}
  /\ {stopAsync, dbConnected, unopened, misused} \subseteq BOOLEAN
  /\ signals \in 0..MaxSignals

\* A thread that waits for itself: GetUVHandler in a signal handler on top of a
\* frame that holds _uvMutex.
SelfBlocked == mutex # None /\ Top(mutex).lock = "wants"

\* Only SIGTERMHandler can block itself, on main, on a worker or on
\* SIGPIPEHandler: no socket is written to while _uvMutex is held.
OnlySIGTERMBlocksItself ==
  ~Over /\ SelfBlocked => Top(mutex).fn = "SIGTERM"

\* The retries of the first Connect delete nothing twice, because conn starts as
\* null: unless pqxx makes a connection that is not open, conn is misused at
\* start-up only by is_open() on the null pointer, which ends the process.
FirstConnectSafe ==
  Base(Main).pc \in StartUp /\ ~Over /\ ~unopened => conn # "deleted" /\ ~misused

\* The UvHandler that the loop, a worker or SIGPIPEHandler works with exists as
\* long as they do: uv_run waits for the pool before DestroyUvHandler.
HandlerOutlivesUsers ==
  ~Over => \A t \in Threads : \A i \in DOMAIN stack[t] :
    LET f == stack[t][i] IN
    f.fn # "SIGTERM" /\ f.lock = "no" /\ f.uv # "none" => f.uv = server

\* Start-up comes to an end, retries included.
StartUpEnds == <>(Over \/ SelfBlocked \/ Base(Main).pc \in Serving)

\* A SIGTERM ends the process, unless its handler, or another's, blocks itself.
SIGTERMEnds ==
  (\E t \in Threads : Top(t).fn = "SIGTERM") ~> (Over \/ SelfBlocked)

-----------------------------------------------------------------------------
(* The inductive invariant behind the safety properties *)

\* Where each function is; it asks for the UvHandler only at the places of
\* Locking, and only SIGPIPEHandler takes it on to the next.
Places(fn) ==
  CASE fn = "main"    -> StartUp \cup Serving
    [] fn = "pool"    -> {"idle", "insert", "answer"}
    [] fn = "SIGPIPE" -> {"check", "attempt", "opened", "prepare", "give up"}
    [] fn = "SIGTERM" -> {"stop"}

Placed(f) ==
  /\ f.pc \in Places(f.fn)
  /\ f.lock # "no" => f.pc \in Locking
  /\ f.uv # "none" => f.pc \in Locking \/ f.fn = "SIGPIPE"

Own(t) == IF t = Main THEN "main" ELSE "pool"

\* A handler runs at most once on a thread; SIGPIPEHandler interrupts a write
\* to a socket, which is made without _uvMutex.
Layered(s, own) ==
  /\ \A i \in 1..Len(s) :
       /\ Placed(s[i])
       /\ IF i = 1 THEN s[i].fn = own ELSE s[i].fn \in {"SIGPIPE", "SIGTERM"}
       /\ s[i].fn = "SIGPIPE" => i = 2
  /\ \A i, j \in 1..Len(s) : s[i].fn = s[j].fn => i = j
  /\ Len(s) > 1 /\ s[2].fn = "SIGPIPE" => s[1].pc \in {"callback", "insert"} /\ s[1].lock = "no"

\* Whoever has _uvMutex has a frame that took it.
Held == mutex # None => \E i \in 1..Len(stack[mutex]) : stack[mutex][i].lock = "holds"

\* There is one UvHandler at a time for all but SIGTERMHandler.
OneHandler ==
  \A t \in Threads : \A i \in 1..Len(stack[t]) :
    stack[t][i].fn # "SIGTERM" /\ stack[t][i].uv # "none" => stack[t][i].uv = server

\* The pool works only while the loop runs.
PoolRests ==
  stack[Main][1].pc \notin {"loop", "callback", "stop callback", "closing"} =>
    \A t \in PoolThreads : stack[t][1].pc = "idle"

\* What conn is during start-up.
FirstConn ==
  ~Over /\ ~unopened /\ stack[Main][1].pc \in StartUp =>
    /\ ~misused
    /\ conn \in IF stack[Main][1].pc \in {"config", "attempt"} THEN {"null"} ELSE {"open", "closed"}

Inv ==
  /\ TypeOK /\ Held /\ OneHandler /\ PoolRests /\ FirstConn
  /\ \A t \in Threads : Layered(stack[t], Own(t))
=============================================================================
