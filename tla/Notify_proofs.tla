---------------------------- MODULE Notify_proofs ----------------------------
(***************************************************************************)
(* Proofs about the event-log tailer for any number of records.            *)
(***************************************************************************)
EXTENDS Notify, TLAPS

\* The places where the program serves its subscription.
Working == {"wait", "read", "garbage", "render", "send", "reset"}

\* Nothing is read before the handle is positioned, at the record seen last; the
\* record under way is a new one and not sent yet.
Positioned ==
  /\ pc \in {"main", "open", "last", "seek"} => pos = 0 /\ sent = <<>> /\ dropped = {}
  /\ pc = "seek" => target = seen
  /\ pc \in {"render", "send"} =>
       pos > seen /\ pos \notin ToSet(sent) /\ pos \notin dropped

\* The log is subscribed to or will never be, and a record that came after its
\* end was read is announced or about to be.
Announced ==
  /\ pc \in Working => registered \/ \E x \in causes : x \notin Passing
  /\ pc = "wait" /\ pos < written => signal \/ due \/ \E x \in causes : TRUE
  /\ pc = "reset" /\ pos < written => raised \/ due \/ \E x \in causes : x \notin Passing

\* The event is signalled only for a subscriber, and the program subscribes and
\* reads only with its handle at the newest record it saw.
Subscribed ==
  /\ pc \in {"main", "open", "last", "seek", "notify"} => ~registered
  /\ due \/ signal => registered
  /\ registered \/ pc \in {"notify", "read", "garbage", "render", "send", "reset"} => pos >= seen

Inv == TypeOK /\ Positioned /\ Subscribed /\ EachNewRecordOnce /\ Announced

-----------------------------------------------------------------------------
(* Sequences *)

\* The elements of a sequence with one more.
LEMMA ToSetAppend ==
  ASSUME NEW S, NEW s \in Seq(S), NEW x \in S
  PROVE  ToSet(Append(s, x)) = ToSet(s) \cup {x}
  <1>1. DOMAIN Append(s, x) = 1..Len(s) + 1 /\ DOMAIN s = 1..Len(s) /\ Len(s) \in Nat
    OBVIOUS
  <1>2. \A i \in 1..Len(s) : Append(s, x)[i] = s[i]
    OBVIOUS
  <1>3. Append(s, x)[Len(s) + 1] = x
    OBVIOUS
  <1>4. 1..Len(s) + 1 = 1..Len(s) \cup {Len(s) + 1}
    BY <1>1
  <1>5. QED
    BY <1>1, <1>2, <1>3, <1>4 DEF ToSet

\* A sequence over a set is one over a larger set.
LEMMA SeqWider ==
  ASSUME NEW m \in Nat, NEW n \in Nat, m <= n, NEW s \in Seq(1..m)
  PROVE  s \in Seq(1..n)
  OBVIOUS

-----------------------------------------------------------------------------
(* The invariant is inductive *)

\* The inductive invariant holds at the start.
LEMMA InitInv == Init => Inv
  <1> SUFFICES ASSUME Init
               PROVE  Inv
    OBVIOUS
  <1> USE RecordsAssumption
  <1>1. TypeOK
    <2>1. template \in Templates
      <3>1. <<>> \in {<<>>}
        OBVIOUS
      <3>2. QED
        BY <3>1 DEF Init, Templates
    <2>2. sent \in Seq(1..written)
      BY DEF Init
    <2>3. written \in 0..MaxRecords /\ oldest \in 1..written + 1
          /\ target \in 0..written /\ pos \in 0..written /\ seen \in 0..written
      BY DEF Init
    <2>4. /\ cleared = FALSE /\ handles = FALSE /\ registered = FALSE
          /\ due = FALSE /\ signal = FALSE /\ keyboard = FALSE /\ raised = FALSE
          /\ pc = "main" /\ dropped = {} /\ causes = {}
      BY DEF Init
    <2>5. QED
      BY <2>1, <2>2, <2>3, <2>4 DEF TypeOK
  <1>2. ToSet(sent) = {} /\ Len(sent) = 0 /\ seen = 0 /\ pos = 0
    BY DEF Init, ToSet
  <1>3. Positioned
    BY DEF Init, Positioned
  <1>4. EachNewRecordOnce
    BY <1>2 DEF Init, EachNewRecordOnce
  <1>5. Announced
    BY DEF Init, Announced, Working
  <1>6. Subscribed
    BY DEF Init, Subscribed
  <1>7. QED
    BY <1>1, <1>3, <1>4, <1>5, <1>6 DEF Inv

\* Before the handle is positioned.
LEMMA SetUpInv ==
  ASSUME Inv, Main \/ OpenLog \/ GetLastRecordNumber \/ SeekToLastRecord
              \/ NotifyChangeEventLog
  PROVE  Inv'
  <1> USE DEF Inv
  <1>1. UNCHANGED <<logVars, sent, dropped, template, keyboard, due, signal, raised>>
    BY DEF Main, OpenLog, GetLastRecordNumber, SeekToLastRecord, NotifyChangeEventLog,
           eventVars, historyVars
  <1>2. ToSet(sent') = ToSet(sent)
    BY <1>1
  <1>3. TypeOK'
    <2>1. UNCHANGED <<written, oldest, cleared, sent, dropped, template>>
      BY <1>1 DEF logVars
    <2>2. /\ pc' \in {"open", "ended", "last", "wait", "seek", "notify"}
          /\ handles' \in BOOLEAN /\ registered' \in BOOLEAN
      BY DEF TypeOK, Main, OpenLog, GetLastRecordNumber, SeekToLastRecord,
             NotifyChangeEventLog, eventVars
    <2>3. target' \in 0..written /\ pos' \in 0..written /\ seen' \in 0..written
      BY DEF TypeOK, Main, OpenLog, GetLastRecordNumber, SeekToLastRecord,
             NotifyChangeEventLog, LastRecord, historyVars
    <2>4. causes' \subseteq causes \cup {"open", "seek", "unannounced", "unregistered"}
      BY DEF Main, OpenLog, GetLastRecordNumber, SeekToLastRecord, NotifyChangeEventLog,
             historyVars
    <2>5. QED
      BY <1>1, <2>1, <2>2, <2>3, <2>4 DEF TypeOK
  <1>4. Positioned'
    <2>1. pc' \notin {"render", "send"} /\ pc # "reset"
      BY DEF Main, OpenLog, GetLastRecordNumber, SeekToLastRecord, NotifyChangeEventLog
    <2>2. pc' = "seek" => target' = seen'
      BY DEF Main, OpenLog, GetLastRecordNumber, SeekToLastRecord, NotifyChangeEventLog,
             LastRecord
    <2>3. pc' \in {"main", "open", "last", "seek"} =>
            pc \in {"main", "open", "last", "seek"} /\ pos' = pos
      BY DEF Main, OpenLog, GetLastRecordNumber, SeekToLastRecord, NotifyChangeEventLog
    <2>4. QED
      BY <1>1, <2>1, <2>2, <2>3 DEF Positioned
  <1>5. EachNewRecordOnce'
    <2>1. CASE pc \in {"main", "open", "last", "seek"}
      <3>1. ToSet(sent) = {} /\ Len(sent) = 0 /\ dropped = {} /\ pos = 0
        BY <2>1 DEF Positioned, ToSet
      <3>2. seen' \in Nat /\ (pos' = 0 \/ pos' = seen')
        BY <2>1, <3>1, <1>3 DEF Positioned, TypeOK, Main, OpenLog, GetLastRecordNumber,
           SeekToLastRecord, NotifyChangeEventLog, logVars, historyVars
      <3>3. seen' + 1..pos' = {}
        BY <3>2
      <3>4. QED
        BY <1>1, <3>1, <3>3 DEF EachNewRecordOnce, ToSet
    <2>2. CASE NotifyChangeEventLog
      BY <2>2, <1>1, <1>2 DEF EachNewRecordOnce, NotifyChangeEventLog, UnderWay
    <2>3. QED
      BY <2>1, <2>2 DEF Main, OpenLog, GetLastRecordNumber, SeekToLastRecord
  <1>6. Announced'
    <2>1. CASE pc' \in {"open", "ended", "last", "seek", "notify"}
      BY <2>1 DEF Announced, Working
    <2>2. CASE pc' = "wait" /\ pc # "notify"
      <3>1. "open" \in causes' \/ "seek" \in causes'
        BY <2>2 DEF Main, OpenLog, GetLastRecordNumber, SeekToLastRecord, NotifyChangeEventLog
      <3>2. QED
        BY <2>2, <3>1 DEF Announced, Passing
    <2>3. CASE NotifyChangeEventLog
      <3>1. pc' = "wait" /\ pos' = pos /\ written' = written
        BY <2>3, <1>1 DEF NotifyChangeEventLog, logVars
      <3>2. \/ registered' /\ (pos < written => "unannounced" \in causes')
            \/ "unregistered" \in causes'
        BY <2>3 DEF NotifyChangeEventLog
      <3>3. QED
        BY <3>1, <3>2 DEF Announced, Passing
    <2>4. QED
      BY <2>1, <2>2, <2>3
         DEF Main, OpenLog, GetLastRecordNumber, SeekToLastRecord, NotifyChangeEventLog
  <1>7. Subscribed'
    <2>1. CASE SeekToLastRecord
      BY <2>1, <1>1 DEF Subscribed, Positioned, TypeOK, SeekToLastRecord, eventVars, historyVars
    <2>2. CASE NotifyChangeEventLog
      BY <2>2, <1>1 DEF Subscribed, NotifyChangeEventLog
    <2>3. CASE Main \/ OpenLog \/ GetLastRecordNumber
      BY <2>3, <1>1 DEF Subscribed, Main, OpenLog, GetLastRecordNumber, eventVars
    <2>4. QED
      BY <2>1, <2>2, <2>3
  <1>8. QED
    BY <1>3, <1>4, <1>5, <1>6, <1>7

\* Steps of the loop that neither read nor send.
LEMMA LoopInv ==
  ASSUME Inv, Wait \/ PrintGarbage \/ ResetSignal \/ Quit
  PROVE  Inv'
  <1> USE DEF Inv
  <1>1. UNCHANGED <<logVars, sent, dropped, template, pos, seen, target, handles>>
    BY DEF Wait, PrintGarbage, ResetSignal, Quit, eventVars, historyVars
  <1>2. ToSet(sent') = ToSet(sent)
    BY <1>1
  <1>3. TypeOK'
    BY <1>1 DEF TypeOK, Wait, PrintGarbage, ResetSignal, Quit, AfterRecord, logVars,
           eventVars, historyVars
  <1>4. Positioned'
    BY <1>1, <1>2 DEF Positioned, Wait, PrintGarbage, ResetSignal, Quit, AfterRecord
  <1>5. EachNewRecordOnce'
    BY <1>1, <1>2 DEF EachNewRecordOnce, UnderWay, Wait, PrintGarbage, ResetSignal, Quit,
           AfterRecord
  <1>6. Announced'
    BY <1>1 DEF Announced, Working, Passing, Wait, PrintGarbage, ResetSignal, Quit,
           AfterRecord, logVars, eventVars, historyVars, TypeOK
  <1>7. Subscribed'
    BY <1>1 DEF Subscribed, Wait, PrintGarbage, ResetSignal, Quit, AfterRecord, eventVars
  <1>8. QED
    BY <1>3, <1>4, <1>5, <1>6, <1>7

\* A record is read, or the end of the log, or nothing.
LEMMA ReadRecordInv ==
  ASSUME Inv, ReadRecord
  PROVE  Inv'
  <1> USE DEF Inv
  <1>1. /\ pc = "read" /\ raised' = FALSE
        /\ UNCHANGED <<written, oldest, cleared, handles, target, registered, due, signal,
                       keyboard, template, sent, dropped, seen>>
    BY DEF ReadRecord, logVars, eventVars
  <1>2. ToSet(sent') = ToSet(sent)
    BY <1>1
  <1>range. pos \in 0..written /\ written \in 0..MaxRecords /\ seen \in 0..written /\ pos >= seen
        /\ pos \in Nat /\ seen \in Nat /\ written \in Nat
    BY <1>1, RecordsAssumption DEF TypeOK, Subscribed
  <1>subscribed. Subscribed'
    BY <1>1, <1>range DEF Subscribed, ReadRecord, NextRecord
  <1>3. CASE pos < written /\ pos' = pos + 1 /\ pc' = "render" /\ causes' = causes
    <2>1. pos + 1 \notin ToSet(sent) \cup dropped /\ pos + 1 > seen
      <3>1. pos + 1 \notin seen + 1..pos
        BY <1>range
      <3>2. QED
        BY <3>1, <1>range DEF EachNewRecordOnce
    <2>2. TypeOK'
      <3>1. pos' \in 0..written
        BY <1>3, <1>range
      <3>2. QED
        BY <1>1, <1>3, <3>1 DEF TypeOK
    <2>3. Positioned'
      BY <1>1, <1>2, <1>3, <2>1 DEF Positioned
    <2>4. EachNewRecordOnce'
      <3>1. (seen + 1..pos') \ UnderWay' = seen + 1..pos /\ UnderWay = {}
        BY <1>1, <1>3, <1>range DEF UnderWay
      <3>2. QED
        BY <1>1, <1>2, <1>3, <1>range, <3>1 DEF EachNewRecordOnce
    <2>5. Announced'
      BY <1>1, <1>3 DEF Announced, Working
    <2>6. QED
      BY <1>subscribed, <2>2, <2>3, <2>4, <2>5
  <1>4. CASE pos = written /\ pos' = pos /\ pc' = "reset" /\ causes' = causes \ Passing
    <2>1. TypeOK'
      BY <1>1, <1>4 DEF TypeOK
    <2>2. Positioned' /\ EachNewRecordOnce'
      BY <1>1, <1>2, <1>4 DEF Positioned, EachNewRecordOnce, UnderWay
    <2>3. Announced'
      BY <1>1, <1>4 DEF Announced, Working, TypeOK
    <2>4. QED
      BY <1>subscribed, <2>1, <2>2, <2>3
  <1>5. CASE /\ pos' = pos
             /\ \/ pc' = "quit" /\ causes' = causes
                \/ pc' = "garbage" /\ causes' = causes \cup {"memory"}
    <2>1. TypeOK'
      BY <1>1, <1>5 DEF TypeOK
    <2>2. Positioned' /\ EachNewRecordOnce'
      BY <1>1, <1>2, <1>5 DEF Positioned, EachNewRecordOnce, UnderWay
    <2>3. Announced'
      BY <1>1, <1>5 DEF Announced, Working, Passing
    <2>4. QED
      BY <1>subscribed, <2>1, <2>2, <2>3
  <1>6. QED
    BY <1>3, <1>4, <1>5 DEF ReadRecord, NextRecord

\* The record read is given up, or its message is sent or lost.
LEMMA RenderInv ==
  ASSUME Inv, Render
  PROVE  Inv'
  <1> USE DEF Inv
  <1>1. /\ pc = "render"
        /\ UNCHANGED <<written, oldest, cleared, handles, target, pos, registered, due,
                       signal, keyboard, sent, seen, raised, causes>>
    BY DEF Render, logVars, eventVars
  <1>2. /\ template' \in Templates
        /\ \/ pc' \in {"crashed", "endless", "send"} /\ dropped' = dropped
           \/ pc' = "read" /\ dropped' = dropped \cup {pos}
    BY DEF Render, AfterRecord, TypeOK
  <1>3. ToSet(sent') = ToSet(sent)
    BY <1>1
  <1>4. pos > seen /\ pos \notin ToSet(sent) /\ pos \notin dropped
    BY <1>1 DEF Positioned
  <1>5. TypeOK'
    <2>1. pos \in 1..written
      BY <1>4, RecordsAssumption DEF TypeOK
    <2>2. dropped' \subseteq 1..written
      BY <1>2, <2>1 DEF TypeOK
    <2>3. pc' \in {"crashed", "endless", "send", "read"}
      BY <1>2
    <2>4. QED
      BY <1>1, <1>2, <2>2, <2>3 DEF TypeOK
  <1>6. Positioned'
    BY <1>1, <1>2, <1>3 DEF Positioned
  <1>7. EachNewRecordOnce'
    BY <1>1, <1>2, <1>3, <1>4 DEF EachNewRecordOnce, UnderWay, TypeOK
  <1>8. Announced'
    BY <1>1, <1>2 DEF Announced, Working
  <1>9. Subscribed'
    BY <1>1, <1>2 DEF Subscribed
  <1>10. QED
    BY <1>5, <1>6, <1>7, <1>8, <1>9

\* Sending a package keeps the inductive invariant.
LEMMA SendPackageInv ==
  ASSUME Inv, SendPackage
  PROVE  Inv'
  <1> USE DEF Inv
  <1>1. /\ pc = "send" /\ pc' \in {"read", "crashed"} /\ template' = <<>>
        /\ UNCHANGED <<written, oldest, cleared, handles, target, pos, registered, due,
                       signal, keyboard, seen, raised, causes>>
    BY DEF SendPackage, AfterRecord, logVars, eventVars
  <1>2. \/ sent' = Append(sent, pos) /\ dropped' = dropped
        \/ sent' = sent /\ dropped' = dropped \cup {pos}
    BY DEF SendPackage
  <1>3. /\ sent \in Seq(1..written) /\ pos \in 1..written /\ pos > seen
        /\ pos \notin ToSet(sent) /\ pos \notin dropped
    BY <1>1, RecordsAssumption DEF TypeOK, Positioned
  <1>4. \/ ToSet(sent') = ToSet(sent) \cup {pos} /\ dropped' = dropped
        \/ ToSet(sent') = ToSet(sent) /\ dropped' = dropped \cup {pos}
    <2>1. ToSet(Append(sent, pos)) = ToSet(sent) \cup {pos}
      BY <1>3, ToSetAppend
    <2>2. QED
      BY <1>2, <2>1
  <1>5. TypeOK'
    <2>1. <<>> \in {<<>>}
      OBVIOUS
    <2>2. template' \in Templates
      BY <1>1, <2>1 DEF Templates
    <2>3. sent' \in Seq(1..written) /\ dropped' \subseteq 1..written
      <3>1. dropped \subseteq 1..written
        BY DEF TypeOK
      <3>2. Append(sent, pos) \in Seq(1..written)
        BY <1>3
      <3>3. QED
        BY <1>2, <1>3, <3>1, <3>2
    <2>4. QED
      BY <1>1, <2>2, <2>3 DEF TypeOK
  <1>6. Positioned' /\ Announced'
    BY <1>1 DEF Positioned, Announced, Working
  <1>7. \A i, j \in 1..Len(sent') : i < j => sent'[i] < sent'[j]
    <2>1. CASE sent' = sent
      BY <2>1 DEF EachNewRecordOnce
    <2>2. CASE sent' = Append(sent, pos)
      <3>1. \A i \in 1..Len(sent) : sent[i] < pos
        <4>1. TAKE i \in 1..Len(sent)
        <4>2. sent[i] \in ToSet(sent)
          BY <1>3 DEF ToSet
        <4>3. sent[i] \in seen + 1..pos /\ sent[i] # pos
          BY <4>2, <1>3 DEF EachNewRecordOnce
        <4>4. QED
          BY <4>3, <1>3, RecordsAssumption DEF TypeOK
      <3>2. QED
        BY <1>3, <2>2, <3>1 DEF EachNewRecordOnce
    <2>3. QED
      BY <1>2, <2>1, <2>2
  <1>8. EachNewRecordOnce'
    <2>1. UnderWay' \subseteq {pos}
      BY <1>1 DEF UnderWay
    <2>2. UnderWay = {pos}
      BY <1>1 DEF UnderWay
    <2>3. QED
      BY <1>1, <1>3, <1>4, <1>7, <2>1, <2>2 DEF EachNewRecordOnce, TypeOK
  <1>9. Subscribed'
    BY <1>1 DEF Subscribed
  <1>10. QED
    BY <1>5, <1>6, <1>8, <1>9

\* The event service and the console.
LEMMA EnvironmentInv ==
  ASSUME Inv, WriteRecord \/ Signal \/ ClearLog \/ KeyPress
  PROVE  Inv'
  <1> USE DEF Inv
  <1>1. UNCHANGED <<pc, handles, target, pos, registered, template, sent, dropped, seen>>
    BY DEF WriteRecord, Signal, ClearLog, KeyPress, eventVars, logVars, historyVars
  <1>2. ToSet(sent') = ToSet(sent) /\ UnderWay' = UnderWay
    BY <1>1 DEF UnderWay
  <1>3. written' \in 0..MaxRecords /\ written' >= written /\ oldest' \in 1..written' + 1
    <2>1. written \in 0..MaxRecords /\ oldest \in 1..written + 1
      BY DEF TypeOK
    <2>2. \/ written' = written + 1 /\ oldest' = oldest /\ written < MaxRecords
          \/ written' = written /\ oldest' = oldest
          \/ written' = written /\ oldest' = written + 1
      BY DEF WriteRecord, Signal, ClearLog, KeyPress, logVars
    <2>3. QED
      BY <2>1, <2>2, RecordsAssumption
  <1>4. TypeOK'
    <2>1. sent' \in Seq(1..written')
      BY <1>1, <1>3, SeqWider, RecordsAssumption DEF TypeOK
    <2>2. causes' \subseteq causes \cup {"keyboard"}
      BY DEF WriteRecord, Signal, ClearLog, KeyPress, historyVars
    <2>3. /\ cleared' \in BOOLEAN /\ due' \in BOOLEAN /\ signal' \in BOOLEAN
          /\ keyboard' \in BOOLEAN /\ raised' \in BOOLEAN
      BY DEF TypeOK, WriteRecord, Signal, ClearLog, KeyPress, eventVars, historyVars, logVars
    <2>4. /\ target' \in 0..written' /\ pos' \in 0..written' /\ seen' \in 0..written'
          /\ dropped' \subseteq 1..written'
      <3>1. /\ target \in 0..written /\ pos \in 0..written /\ seen \in 0..written
            /\ dropped \subseteq 1..written
        BY DEF TypeOK
      <3>2. 0..written \subseteq 0..written' /\ 1..written \subseteq 1..written'
        BY <1>3, RecordsAssumption DEF TypeOK
      <3>3. QED
        BY <1>1, <3>1, <3>2
    <2>5. handles' \in BOOLEAN /\ registered' \in BOOLEAN /\ template' \in Templates
          /\ pc' = pc
      BY <1>1 DEF TypeOK
    <2>6. QED
      BY <1>3, <2>1, <2>2, <2>3, <2>4, <2>5 DEF TypeOK
  <1>5. Positioned' /\ EachNewRecordOnce'
    BY <1>1, <1>2 DEF Positioned, EachNewRecordOnce
  <1>6. Announced'
    <2>1. CASE WriteRecord
      BY <1>1, <2>1 DEF Announced, Working, Passing, WriteRecord, historyVars
    <2>2. CASE Signal \/ ClearLog \/ KeyPress
      <3>1. written' = written /\ causes \subseteq causes'
        BY <2>2 DEF Signal, ClearLog, KeyPress, logVars, historyVars
      <3>2. /\ due => due' \/ (signal' /\ raised')
            /\ signal => signal'
            /\ raised => raised'
        BY <2>2 DEF Signal, ClearLog, KeyPress, eventVars, historyVars
      <3>3. QED
        BY <1>1, <3>1, <3>2 DEF Announced, Working
    <2>3. QED
      BY <2>1, <2>2
  <1>7. Subscribed'
    BY <1>1 DEF Subscribed, WriteRecord, Signal, ClearLog, KeyPress, eventVars
  <1>8. QED
    BY <1>4, <1>5, <1>6, <1>7

\* Every step keeps the inductive invariant.
LEMMA NextInv ==
  ASSUME Inv, [Next]_vars
  PROVE  Inv'
  <1>1. CASE Next
    BY <1>1, SetUpInv, LoopInv, ReadRecordInv, RenderInv, SendPackageInv, EnvironmentInv
       DEF Next, Program
  <1>2. CASE UNCHANGED vars
    BY <1>2 DEF Inv, TypeOK, Positioned, Subscribed, EachNewRecordOnce, UnderWay,
                Announced, vars,
                logVars, eventVars, historyVars
  <1>3. QED
    BY <1>1, <1>2

\* The inductive invariant holds in every reachable state.
LEMMA Invariant == Spec => []Inv
  BY InitInv, NextInv, PTL DEF Spec

\* The program's state keeps its types, however many records are written.
THEOREM TypeCorrect == Spec => []TypeOK
  BY Invariant, PTL DEF Inv

\* DumpNewRecords sends every record after the one the handle was positioned at,
\* in log order and once, or gives it up.
THEOREM NewRecordsOnce == Spec => []EachNewRecordOnce
  BY Invariant, PTL DEF Inv

\* The program never waits with records unread and no signal due, unless one of
\* the causes occurred.
THEOREM NeverStalls == Spec => []NoSilentStall
  <1>1. Inv => NoSilentStall
    BY DEF Inv, Announced, NoSilentStall
  <1>2. QED
    BY <1>1, Invariant, PTL
=============================================================================
