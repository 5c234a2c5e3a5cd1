------------------------------- MODULE Notify -------------------------------
(***************************************************************************)
(* ProtobufSendingTest: a console program that connects to the server,     *)
(* seeks to the end of the System log, and from then on sends one package  *)
(* for every new record.  It waits on two handles, the keyboard and a      *)
(* manual-reset event that the event service signals.                      *)
(*                                                                         *)
(* A record is its number.  Undefined behaviour ends the process or lets   *)
(* it go on.                                                               *)
(***************************************************************************)
EXTENDS Naturals, Sequences, SequencesExt

CONSTANT MaxRecords   \* bound: records ever written to the log

ASSUME RecordsAssumption == MaxRecords \in Nat

VARIABLES
  pc,          \* where the program is
  oldest,      \* GetOldestEventLogRecord
  written,     \* number of the newest record; the log is empty below oldest
  cleared,     \* has the log been cleared since it was opened?
  handles,     \* are both of aWaitHandles valid?
  target,      \* *pdwRecordNumber of GetLastRecordNumber
  pos,         \* the record the log's handle was read at last
  registered,  \* has NotifyChangeEventLog succeeded?
  due,         \* will the event service signal within its five seconds?
  signal,      \* aWaitHandles[NOTIFICATION_EVENT] is signalled
  keyboard,    \* aWaitHandles[KEYBOARD_EVENT] is signalled: input is unread
  template,    \* the message of the record under way
  sent,        \* records handed to the socket, in order
  dropped,     \* history: records that were read and not sent
  seen,        \* history: the newest record when the program asked for it
  raised,      \* history: was the event signalled since the last read?
  causes       \* history: why records may stay unread

logVars     == <<oldest, written, cleared>>
eventVars   == <<registered, due, signal, keyboard>>
historyVars == <<dropped, seen, raised, causes>>
vars == <<pc, logVars, handles, target, pos, eventVars, template, sent, historyVars>>

-----------------------------------------------------------------------------
(* Message texts *)

\* A text is plain, or holds insertions: a '%' with the number of a parameter
\* string that exists ("known") or does not, or a '%' followed by something else.
Pieces    == {"known", "unknown", "percent"}
Templates == {<<>>} \cup {<<p>> : p \in Pieces} \cup {<<p, q>> : p, q \in Pieces}

\* The scan for insertions does not move past a '%' without a digit.  When a
\* parameter is not found the final message is the message itself.
ApplyParameterStringsToMessage(t) ==
  LET pieces == ToSet(t)
  IN  CASE pieces = {}          -> "unchanged"
        [] "percent" \in pieces -> "endless"
        [] "percent" \notin pieces /\ "unknown" \in pieces -> "aliased"
        [] pieces = {"known"}   -> "replaced"

-----------------------------------------------------------------------------
Init ==
  /\ written \in 0..MaxRecords /\ oldest \in 1..written + 1 /\ cleared = FALSE
  /\ pc = "main" /\ handles = FALSE /\ target = 0 /\ pos = 0
  /\ registered = FALSE /\ due = FALSE /\ signal = FALSE /\ keyboard = FALSE
  /\ template = <<>> /\ sent = <<>>
  /\ dropped = {} /\ seen = 0 /\ raised = FALSE /\ causes = {}

\* main: WSAStartup or connect fails and the process exits.  A failed socket()
\* is not noticed, the value is unsigned; connect then fails.
Main ==
  /\ pc = "main"
  /\ pc' \in {"open", "ended"}
  /\ UNCHANGED <<logVars, handles, target, pos, eventVars, template, sent, historyVars>>

\* init: the message library, the keyboard handle, the event, the log.  Whatever
\* fails, begin is called; a process without a console has no keyboard handle,
\* which init does not notice.
OpenLog ==
  /\ pc = "open"
  /\ handles' \in BOOLEAN
  /\ \/ pc' = "last" /\ UNCHANGED causes
     \/ pc' = "wait" /\ causes' = causes \cup {"open"}
  /\ UNCHANGED <<logVars, target, pos, eventVars, template, sent, dropped, seen, raised>>

LastRecordBefore == written - 1
LastRecord == written

\* GetLastRecordNumber: oldest + count - 1.
GetLastRecordNumber ==
  /\ pc = "last"
  /\ seen' = written
  /\ \/ target' = LastRecord /\ pc' = "seek" /\ UNCHANGED causes
     \/ pc' = "wait" /\ causes' = causes \cup {"seek"} /\ UNCHANGED target
  /\ UNCHANGED <<logVars, handles, pos, eventVars, template, sent, dropped, raised>>

\* Reading the last record positions the handle.  The record may not be there;
\* without memory for it ReadRecord reports success and the handle stays before
\* the oldest record, so that every record in the log is new.
SeekToLastRecord ==
  /\ pc = "seek"
  /\ \/ /\ ~cleared /\ target >= oldest
        /\ \/ pos' = target /\ UNCHANGED seen
           \/ pos' = oldest - 1 /\ seen' = pos'
        /\ pc' = "notify" /\ UNCHANGED causes
     \/ pc' = "wait" /\ causes' = causes \cup {"seek"} /\ UNCHANGED <<pos, seen>>
  /\ UNCHANGED <<logVars, handles, target, eventVars, template, sent, dropped, raised>>

\* A record written between the seek and the request is not announced.
NotifyChangeEventLog ==
  /\ pc = "notify"
  /\ \/ registered' = TRUE
        /\ causes' = IF pos < written THEN causes \cup {"unannounced"} ELSE causes
     \/ registered' = FALSE /\ causes' = causes \cup {"unregistered"}
  /\ pc' = "wait"
  /\ UNCHANGED <<logVars, handles, target, pos, due, signal, keyboard, template, sent,
                 dropped, seen, raised>>

-----------------------------------------------------------------------------
(* begin *)

\* WaitForMultipleObjects reports the lowest index.  Keyboard input is never
\* taken, so its handle stays signalled and the loop does nothing but wait again.
Wait ==
  /\ pc = "wait"
  /\ \/ ~handles /\ pc' = "quit"
     \/ handles /\ signal /\ ~keyboard /\ pc' = "read"
  /\ UNCHANGED <<logVars, handles, target, pos, eventVars, template, sent, historyVars>>

NextRecordSkipping == IF pos + 1 < written THEN pos + 2 ELSE pos + 1
NextRecord == pos + 1

\* DumpNewRecords goes on until there is no record left.
AfterRecordOnce == "reset"
AfterRecord == "read"

\* Causes that a read up to the end of the log makes good.
Passing == {"unannounced", "reset"}

\* ReadRecord, sequentially: the size is asked for, the buffer grown, and the
\* record read; or there is none; or the read fails, as it does after the log
\* was cleared, which ends the program.  Without memory for the larger buffer
\* nothing is read, and the small one is printed as it is.
ReadRecord ==
  /\ pc = "read"
  /\ raised' = FALSE
  /\ \/ /\ ~cleared /\ pos < written
        /\ pos' = NextRecord /\ pc' = "render" /\ UNCHANGED causes
     \/ /\ ~cleared /\ pos = written
        /\ pc' = "reset" /\ causes' = causes \ Passing /\ UNCHANGED pos
     \/ pc' = "quit" /\ UNCHANGED <<pos, causes>>
     \/ /\ ~cleared /\ pos < written
        /\ pc' = "garbage" /\ causes' = causes \cup {"memory"} /\ UNCHANGED pos
  /\ UNCHANGED <<logVars, handles, target, eventVars, template, sent, dropped, seen>>

\* The buffer was never filled: the process crashes, or it prints and sends what
\* is there and reads again.
PrintGarbage ==
  /\ pc = "garbage"
  /\ pc' \in {"crashed", AfterRecord}
  /\ UNCHANGED <<logVars, handles, target, pos, eventVars, template, sent, historyVars>>

\* DumpNewRecords, the texts of one record.  A category without a text is a null
\* pointer made into a string.  A record without a message is not sent.
Render ==
  /\ pc = "render"
  /\ \/ /\ pc' = "crashed"
        /\ UNCHANGED <<template, dropped>>
     \/ /\ dropped' = dropped \cup {pos}
        /\ pc' = AfterRecord /\ UNCHANGED template
     \/ /\ \E t \in Templates :
             /\ template' = t
             /\ pc' = IF ApplyParameterStringsToMessage(t) = "endless" THEN "endless" ELSE "send"
        /\ UNCHANGED dropped
  /\ UNCHANGED <<logVars, handles, target, pos, eventVars, sent, seen, raised, causes>>

\* sendPackage, which ignores an error, and the release of the texts: a message
\* that is its own final message is freed twice.
SendPackage ==
  /\ pc = "send"
  /\ \/ sent' = Append(sent, pos) /\ UNCHANGED dropped
     \/ dropped' = dropped \cup {pos} /\ UNCHANGED sent
  /\ \/ pc' = AfterRecord
     \/ ApplyParameterStringsToMessage(template) = "aliased" /\ pc' = "crashed"
  /\ template' = <<>>
  /\ UNCHANGED <<logVars, handles, target, pos, eventVars, seen, raised, causes>>

\* ResetEvent, after the end of the log was seen: a signal that came since is
\* forgotten.
ResetSignal ==
  /\ pc = "reset"
  /\ signal' = FALSE /\ pc' = "wait"
  /\ causes' = IF raised /\ pos < written THEN causes \cup {"reset"} ELSE causes
  /\ UNCHANGED <<logVars, handles, target, pos, registered, due, keyboard, template, sent,
                 dropped, seen, raised>>

\* main sends one empty package more and closes the socket.
Quit ==
  /\ pc = "quit" /\ pc' = "ended"
  /\ UNCHANGED <<logVars, handles, target, pos, eventVars, template, sent, historyVars>>

-----------------------------------------------------------------------------
(* The event service and the console *)

WriteRecord ==
  /\ written < MaxRecords
  /\ written' = written + 1
  /\ due' = registered
  /\ UNCHANGED <<pc, oldest, cleared, handles, target, pos, registered, signal, keyboard,
                 template, sent, historyVars>>

\* "The service signals the event object every five seconds" if a record has
\* been written.
Signal ==
  /\ due /\ due' = FALSE /\ signal' = TRUE
  /\ raised' = TRUE
  /\ UNCHANGED <<pc, logVars, handles, target, pos, registered, keyboard, template, sent,
                 dropped, seen, causes>>

ClearLog ==
  /\ oldest <= written /\ pc \notin {"main", "open"}
  /\ oldest' = written + 1 /\ cleared' = TRUE
  /\ UNCHANGED <<pc, written, handles, target, pos, eventVars, template, sent, historyVars>>

KeyPress ==
  /\ ~keyboard
  /\ keyboard' = TRUE /\ causes' = causes \cup {"keyboard"}
  /\ UNCHANGED <<pc, logVars, handles, target, pos, registered, due, signal, template, sent,
                 dropped, seen, raised>>

Program == \/ Main \/ OpenLog \/ GetLastRecordNumber \/ SeekToLastRecord
           \/ NotifyChangeEventLog \/ Wait \/ ReadRecord \/ PrintGarbage \/ Render
           \/ SendPackage \/ ResetSignal \/ Quit

Next == Program \/ WriteRecord \/ Signal \/ ClearLog \/ KeyPress

Spec == Init /\ [][Next]_vars

FairSpec == Spec /\ WF_vars(Program) /\ WF_vars(Signal)

-----------------------------------------------------------------------------
(* Properties *)

Over == pc \in {"ended", "crashed", "endless"}

\* The program's state has the types its declarations give it.
TypeOK ==
  /\ pc \in {"main", "open", "last", "seek", "notify", "wait", "read", "garbage",
            "render", "send", "reset", "quit", "ended", "crashed", "endless"}
  /\ written \in 0..MaxRecords /\ oldest \in 1..written + 1
  /\ target \in 0..written /\ pos \in 0..written /\ seen \in 0..written
  /\ cleared \in BOOLEAN /\ handles \in BOOLEAN /\ registered \in BOOLEAN
  /\ due \in BOOLEAN /\ signal \in BOOLEAN /\ keyboard \in BOOLEAN /\ raised \in BOOLEAN
  /\ template \in Templates
  /\ sent \in Seq(1..written) /\ dropped \subseteq 1..written
  /\ causes \subseteq {"open", "seek", "unannounced", "unregistered", "reset",
                     "memory", "keyboard"}

\* The record under way is neither sent nor given up yet.
UnderWay == IF pc \in {"render", "send", "endless", "crashed"} THEN {pos} ELSE {}

\* "Read all the records that have been written since the last notification":
\* what was in the log before the seek is not sent, and what is read after it
\* is sent in log order and once, or was given up for want of a message or by a
\* failed send.
EachNewRecordOnce ==
  /\ \A i, j \in 1..Len(sent) : i < j => sent[i] < sent[j]
  /\ ToSet(sent) \cap dropped = {}
  /\ ToSet(sent) \cup dropped \subseteq seen + 1..pos
  /\ (seen + 1..pos) \ UnderWay \subseteq ToSet(sent) \cup dropped

\* The program never waits with records unread and no signal due, unless one was
\* forgotten, never asked for, or can no longer be served.
NoSilentStall ==
  pc = "wait" /\ handles /\ pos < written => signal \/ due \/ causes # {}

\* It reads up to the end of the log again and again, unless it ended or one of
\* the causes occurred: a key pressed starves the event for ever.
CatchesUp == <>[](pos = written \/ causes # {} \/ Over)
=============================================================================
