----------------------------- MODULE AlarmProofs -----------------------------
(***************************************************************************)
(* Proofs about Alarms, for any logs, devices, thresholds and retentions,  *)
(* and any number of actions; and about AlertDelivery, for any number of   *)
(* checks, retries and rows.                                               *)
(*                                                                         *)
(* The properties about lost and given-up alerts are not inductive: what a *)
(* check carries from one step to the next matters.  A check that marks a  *)
(* row has delivered it (MarksAreDelivered), and every check about to      *)
(* record a refusal stands for one that is not written down yet, so that a *)
(* row was refused as often as its attempts say and once more for each of  *)
(* them (RefusalsCoverAttempts).                                           *)
(***************************************************************************)
EXTENDS Alarms, AlertDelivery, FiniteSetTheorems, TLAPS

----------------------------------------------------------------------------
(* Types *)

\* What the proofs need of the constants.
LEMMA Bounds ==
  /\ MaxLag \in Nat /\ MaxNow \in Nat /\ MaxActions \in Nat
  /\ PastSilences \subseteq Nat /\ SilenceMinutes \subseteq Nat \ {0}
  /\ \A past \in Pasts : past \subseteq LoggedRow
BY AlarmAssumption DEF AlarmAssumption, LoggedRow

\* Whatever runs on the event loop is an idle desk, a bare one, or a write.
Bare == [step : {"idle", "refresh", "cleanup"}]
Busy == [step : {"write", "event"}, op : Ops, key : Keys, until : Nat]
Run == [step : {"idle", "records", "silences", "events"}, start : 0..MaxNow]
SpanOf == [open : SUBSET Keys, acked : SUBSET Keys, quiet : SUBSET Keys]

\* A desk in the middle of a write is a record with a key.
LEMMA DeskBusy ==
  ASSUME AlarmTypeOK, desk.step \in {"write", "event"}
  PROVE  desk \in Busy
<1>1. CASE desk \in Bare
  BY <1>1 DEF Bare
<1>2. CASE desk \in Busy
  BY <1>2
<1> QED BY <1>1, <1>2 DEF AlarmTypeOK, Bare, Busy

\* All of AlarmTypeOK but span.
Typed ==
  /\ now \in 0..MaxNow
  /\ rows \in [Kinds -> SUBSET LoggedRow]
  /\ acks \subseteq Keys /\ silences \in [Keys -> Nat] /\ events \subseteq Event
  /\ actions \in 0..MaxActions
  /\ desk \in Bare \cup Busy
  /\ view \in [Readers -> View]
  /\ runs \in [Runners -> Run]
  /\ report \in BOOLEAN
  /\ torn \subseteq Keys \X {"ack", "silence"}

\* The two halves of AlarmTypeOK.
LEMMA TypeSplit == AlarmTypeOK <=> Typed /\ span \in [Readers -> SpanOf]
BY DEF AlarmTypeOK, Typed, Bare, Busy, Run, SpanOf

\* The initial states are well typed.
LEMMA InitTypeOK == AlarmInit => AlarmTypeOK
<1> SUFFICES ASSUME AlarmInit PROVE AlarmTypeOK
  OBVIOUS
<1>1. rows \in [Kinds -> SUBSET LoggedRow]
  BY Bounds DEF AlarmInit
<1>2. silences \in [Keys -> Nat]
  BY Bounds DEF AlarmInit
<1>3. view \in [Readers -> View]
  BY DEF AlarmInit, NoView, View
<1>4. runs \in [Runners -> Run] /\ span \in [Readers -> SpanOf]
  BY Bounds DEF AlarmInit, NoRun, Run, NoSpan, SpanOf
<1>5. desk \in Bare
  BY DEF AlarmInit, Desk, Bare
<1>6. now \in 0..MaxNow /\ actions \in 0..MaxActions
  BY Bounds DEF AlarmInit
<1>7. acks \subseteq Keys /\ events \subseteq Event /\ report \in BOOLEAN
        /\ torn \subseteq Keys \X {"ack", "silence"}
  BY DEF AlarmInit
<1>8. Typed
  BY <1>1, <1>2, <1>3, <1>4, <1>5, <1>6, <1>7 DEF Typed
<1> QED BY <1>4, <1>8, TypeSplit

\* What the readings remember is made of keys.
LEMMA WatchTyped ==
  ASSUME AlarmTypeOK, Watch, view' \in [Readers -> View], acks' \subseteq Keys
  PROVE  span' \in [Readers -> SpanOf]
<1> SUFFICES ASSUME NEW r \in Readers PROVE span'[r] \in SpanOf
  BY DEF Watch
<1>1. Open' \subseteq Keys /\ Quiet' \subseteq Keys
  BY DEF Open, Quiet
<1>2. span[r] \in SpanOf
  BY DEF AlarmTypeOK, SpanOf
<1>3. CASE view'[r].step = "idle"
  BY <1>3 DEF Watch, NoSpan, SpanOf
<1>4. CASE view'[r].step # "idle" /\ view[r].step = "idle"
  BY <1>1, <1>4 DEF Watch, SpanOf
<1>5. CASE view'[r].step # "idle" /\ view[r].step # "idle"
  <2>1. span'[r] = [open |-> span[r].open \cap Open', acked |-> span[r].acked \cap acks',
                    quiet |-> span[r].quiet \cap Quiet']
    BY <1>5 DEF Watch
  <2> QED BY <1>1, <1>2, <2>1 DEF SpanOf
<1> QED BY <1>3, <1>4, <1>5

\* Every step of the code is well typed.
LEMMA StepTyped ==
  ASSUME AlarmTypeOK, AlarmStep
  PROVE  Typed'
<1> USE DEF Bare, Busy, Desk, store
<1>0. Typed
  BY TypeSplit
<1>1. CASE Tick
  BY <1>0, <1>1, Bounds DEF Tick, Typed
<1>2. CASE WriteState
  <2>1. desk \in Busy
    BY <1>2, DeskBusy DEF WriteState
  <2>2. acks' \subseteq Keys /\ desk' \in Busy
    BY <1>0, <1>2, <2>1 DEF WriteState, Typed, Ops, AckOps, SilenceOps
  <2>3. silences' \in [Keys -> Nat]
    BY <1>0, <1>2, <2>1 DEF WriteState, Typed
  <2> QED BY <1>0, <1>2, <2>2, <2>3 DEF WriteState, Typed
<1>3. CASE WriteFails
  BY <1>0, <1>3 DEF WriteFails, Typed
<1>4. CASE LogEvent \/ LogFails
  <2>1. desk \in Busy
    BY <1>4, DeskBusy DEF LogEvent, LogFails
  <2>2. <<desk.key, Subject(desk.op)>> \in Keys \X {"ack", "silence"}
    BY <2>1 DEF Subject
  <2>3. CASE LogFails
    BY <1>0, <2>2, <2>3 DEF LogFails, Typed
  <2>4. CASE LogEvent
    <3>1. events' \subseteq Event
      BY <1>0, <2>1, <2>4 DEF LogEvent, Typed, Event
    <3> QED BY <1>0, <2>2, <2>4, <3>1 DEF LogEvent, Typed
  <2> QED BY <1>4, <2>3, <2>4
<1>5. ASSUME NEW kind \in Kinds, NEW device \in Devices, NEW good \in BOOLEAN,
             NEW lag \in 0..MaxLag, LogRow(kind, device, good, lag)
      PROVE  Typed'
  <2>1. [id |-> actions + 1, device |-> device, good |-> good, at |-> now - lag] \in LoggedRow
    BY <1>0, <1>5, Bounds DEF Typed, LoggedRow
  <2>2. rows' \in [Kinds -> SUBSET LoggedRow]
    BY <1>0, <1>5, <2>1 DEF LogRow, Typed
  <2> QED BY <1>0, <1>5, <2>2, Bounds DEF LogRow, Typed
<1>6. ASSUME NEW op \in Ops, NEW key \in Keys, NEW minutes \in SilenceMinutes,
             Press(op, key, minutes)
      PROVE  Typed'
  <2>1. desk' \in Busy
    BY <1>0, <1>6, Bounds DEF Press, Typed
  <2> QED BY <1>0, <1>6, <2>1, Bounds DEF Press, Typed
<1>7. ASSUME NEW r \in Readers, NEW window \in Windows, BeginReading(r, window)
      PROVE  Typed'
  <2>1. Raised(window) \subseteq Keys
    BY DEF Raised
  <2>2. view' \in [Readers -> View]
    <3>1. view[r] \in View
      BY <1>0 DEF Typed
    <3>2. [view[r] EXCEPT !.step = "acks", !.raised = Raised(window)] \in View
      BY <2>1, <3>1 DEF View
    <3>3. view' = [view EXCEPT ![r] = [view[r] EXCEPT !.step = "acks", !.raised = Raised(window)]]
      BY <1>0, <1>7 DEF BeginReading, Typed
    <3> QED BY <1>0, <3>2, <3>3 DEF Typed
  <2>3. actions' \in 0..MaxActions
    BY <1>0, <1>7, Bounds DEF BeginReading, Typed
  <2> QED BY <1>0, <1>7, <2>2, <2>3 DEF BeginReading, Typed
<1>8. ASSUME NEW r \in Readers, ReadAcks(r) \/ ReadSilences(r)
      PROVE  Typed'
  <2>1. view' \in [Readers -> View]
    <3>1. view[r] \in View
      BY <1>0 DEF Typed
    <3>2. CASE ReadAcks(r)
      <4>1. [view[r] EXCEPT !.step = "silences", !.known = acks] \in View
        BY <1>0, <3>1 DEF Typed, View
      <4>2. view' = [view EXCEPT ![r] = [view[r] EXCEPT !.step = "silences", !.known = acks]]
        BY <1>0, <3>2 DEF ReadAcks, Typed
      <4> QED BY <1>0, <4>1, <4>2 DEF Typed
    <3>3. CASE ReadSilences(r)
      <4> DEFINE rest == view[r].raised \ Quiet
                 new == [view[r] EXCEPT !.step = "answered",
                           !.silenced = view[r].raised \cap Quiet,
                           !.acknowledged = rest \cap view[r].known,
                           !.active = rest \ view[r].known]
      <4>1. new \in View
        BY <3>1 DEF View
      <4>2. view' = [view EXCEPT ![r] = new]
        BY <1>0, <3>3 DEF ReadSilences, Typed
      <4> QED BY <1>0, <4>1, <4>2 DEF Typed
    <3> QED BY <1>8, <3>2, <3>3
  <2> QED BY <1>0, <1>8, <2>1 DEF ReadAcks, ReadSilences, Typed
<1>9. ASSUME NEW r \in Readers, EndReading(r) \/ ReadFails(r)
      PROVE  Typed'
  <2>1. view' \in [Readers -> View]
    BY <1>0, <1>9 DEF EndReading, ReadFails, Typed, View, NoView
  <2> QED BY <1>0, <1>9, <2>1 DEF EndReading, ReadFails, Typed
<1>10. ASSUME NEW t \in Runners, BeginCleanup(t)
       PROVE  Typed'
  <2>1. runs' \in [Runners -> Run]
    BY <1>0, <1>10 DEF BeginCleanup, Typed, Run
  <2> QED BY <1>0, <1>10, <2>1, Bounds DEF BeginCleanup, Typed
<1>11. ASSUME NEW t \in Runners, NEW asOf \in 0..now,
              PurgeRecords(t, asOf) \/ PurgeSilences(t, asOf)
       PROVE  Typed'
  <2>1. runs' \in [Runners -> Run]
    BY <1>0, <1>11 DEF PurgeRecords, PurgeSilences, Advance, Typed, Run
  <2>2. rows' \in [Kinds -> SUBSET LoggedRow]
    BY <1>0, <1>11 DEF PurgeRecords, PurgeSilences, Typed
  <2>3. silences' \in [Keys -> Nat]
    BY <1>0, <1>11 DEF PurgeRecords, PurgeSilences, Typed
  <2> QED BY <1>0, <1>11, <2>1, <2>2, <2>3 DEF PurgeRecords, PurgeSilences, Typed
<1>12. ASSUME NEW t \in Runners,
              CleanupFails(t) \/ \E asOf \in 0..now : PurgeEvents(t, asOf)
       PROVE  Typed'
  <2>1. runs' \in [Runners -> Run]
    BY <1>0, <1>12, Bounds DEF CleanupFails, PurgeEvents, EndCleanup, Typed, Run, NoRun
  <2>2. events' \subseteq Event
    BY <1>0, <1>12 DEF CleanupFails, PurgeEvents, Typed
  <2>3. desk' \in Bare \cup Busy
    BY <1>0, <1>12 DEF CleanupFails, PurgeEvents, EndCleanup, Typed
  <2> QED BY <1>0, <1>12, <2>1, <2>2, <2>3 DEF CleanupFails, PurgeEvents, EndCleanup, Typed
<1> QED BY <1>1, <1>2, <1>3, <1>4, <1>5, <1>6, <1>7, <1>8, <1>9, <1>10, <1>11, <1>12 DEF AlarmStep

\* Type correctness is inductive.
LEMMA NextAlarmTypeOK == ASSUME AlarmTypeOK, [AlarmNext]_alarmVars PROVE AlarmTypeOK'
<1>1. CASE AlarmNext
  <2>1. Typed'
    BY <1>1, StepTyped DEF AlarmNext
  <2>2. span' \in [Readers -> SpanOf]
    BY <1>1, <2>1, WatchTyped DEF AlarmNext, Typed
  <2> QED BY <2>1, <2>2 DEF AlarmTypeOK, Typed, Bare, Busy, Run, SpanOf
<1>2. CASE UNCHANGED alarmVars
  BY <1>2 DEF alarmVars, store, AlarmTypeOK, Busy
<1> QED BY <1>1, <1>2

\* Types, for every number of minutes, rows, keys and actions.
THEOREM AlarmTypes == AlarmSpec => []AlarmTypeOK
BY InitTypeOK, NextAlarmTypeOK, PTL DEF AlarmSpec

----------------------------------------------------------------------------
(* The silences and the retention runs *)

\* A silence that waits for its write ends later than now, and no run began
\* after now.
Ahead ==
  /\ desk.step = "write" /\ desk.op = "silence" => desk.until > now
  /\ \A t \in Runners : runs[t].start <= now

\* Only a handler's write and the second purge touch the silences.
LEMMA SilenceWriters ==
  ASSUME AlarmTypeOK, AlarmStep
  PROVE  \/ silences' = silences
         \/ WriteState
         \/ \E t \in Runners, asOf \in 0..now : PurgeSilences(t, asOf)
<1> USE DEF store
<1>1. CASE Tick \/ WriteFails \/ LogEvent \/ LogFails
  BY <1>1 DEF Tick, WriteFails, LogEvent, LogFails
<1>2. CASE \E kind \in Kinds, device \in Devices, good \in BOOLEAN, lag \in 0..MaxLag :
             LogRow(kind, device, good, lag)
  BY <1>2 DEF LogRow
<1>3. CASE \E op \in Ops, key \in Keys, minutes \in SilenceMinutes : Press(op, key, minutes)
  BY <1>3 DEF Press
<1>4. CASE \E r \in Readers :
             \/ (\E window \in Windows : BeginReading(r, window))
             \/ ReadAcks(r) \/ ReadSilences(r) \/ EndReading(r) \/ ReadFails(r)
  BY <1>4 DEF BeginReading, ReadAcks, ReadSilences, EndReading, ReadFails
<1>5. CASE \E t \in Runners :
             \/ BeginCleanup(t) \/ CleanupFails(t)
             \/ \E asOf \in 0..now : PurgeRecords(t, asOf) \/ PurgeEvents(t, asOf)
  BY <1>5 DEF BeginCleanup, CleanupFails, PurgeRecords, PurgeEvents
<1> QED BY <1>1, <1>2, <1>3, <1>4, <1>5 DEF AlarmStep

\* A silence in force ends or moves only by its operator's own write.
THEOREM SilencesEndOnTime == AlarmSpec => SilencesLast
<1>1. ASSUME AlarmTypeOK, AlarmNext, NEW k \in Keys, InForce(k), silences'[k] # silences[k]
      PROVE  desk.step = "write" /\ desk.key = k /\ desk.op \in SilenceOps
  <2>1. CASE WriteState
    <3>1. desk \in Busy
      BY <1>1, <2>1, DeskBusy DEF WriteState
    <3> QED BY <1>1, <2>1, <3>1 DEF WriteState, AlarmTypeOK, SilenceOps, Busy
  <2>2. ASSUME NEW t \in Runners, NEW asOf \in 0..now, PurgeSilences(t, asOf)
        PROVE  silences'[k] = silences[k]
    BY <1>1, <2>2 DEF PurgeSilences, AlarmTypeOK, InForce
  <2> QED BY <1>1, <2>1, <2>2, SilenceWriters DEF AlarmNext
<1>2. ASSUME AlarmTypeOK, [AlarmNext]_alarmVars
      PROVE  [\A k \in Keys : InForce(k) /\ silences'[k] # silences[k] =>
                desk.step = "write" /\ desk.key = k /\ desk.op \in SilenceOps]_alarmVars
  BY <1>1, <1>2
<1> QED BY <1>2, AlarmTypes, PTL DEF AlarmSpec, SilencesLast

\* The deadline of a pending silence and the starts of the runs, step by step.
LEMMA AheadKept == ASSUME AlarmTypeOK, Ahead, AlarmNext PROVE Ahead'
<1> USE DEF Desk, store
<1>0. now \in Nat /\ AlarmStep /\ runs \in [Runners -> Run]
  BY Bounds DEF AlarmTypeOK, AlarmNext, Run
<1>1. CASE Tick
  BY <1>0, <1>1 DEF Tick, Ahead, Run
<1>2. CASE WriteState \/ WriteFails \/ LogEvent \/ LogFails
  <2>1. desk'.step # "write" /\ now' = now /\ runs' = runs
    <3>1. desk \in Busy
      BY <1>2, DeskBusy DEF WriteState, WriteFails, LogEvent, LogFails
    <3> QED BY <1>2, <3>1 DEF WriteState, WriteFails, LogEvent, LogFails, Busy
  <2> QED BY <2>1 DEF Ahead
<1>3. CASE \E kind \in Kinds, device \in Devices, good \in BOOLEAN, lag \in 0..MaxLag :
             LogRow(kind, device, good, lag)
  BY <1>3 DEF LogRow, Ahead
<1>4. ASSUME NEW op \in Ops, NEW key \in Keys, NEW minutes \in SilenceMinutes,
             Press(op, key, minutes)
      PROVE  Ahead'
  <2>1. minutes \in Nat \ {0}
    BY Bounds
  <2> QED BY <1>0, <1>4, <2>1 DEF Press, Ahead
<1>5. CASE \E r \in Readers :
             \/ (\E window \in Windows : BeginReading(r, window))
             \/ ReadAcks(r) \/ ReadSilences(r) \/ EndReading(r) \/ ReadFails(r)
  BY <1>5 DEF BeginReading, ReadAcks, ReadSilences, EndReading, ReadFails, Ahead
<1>6. ASSUME NEW t \in Runners,
             \/ BeginCleanup(t) \/ CleanupFails(t)
             \/ \E asOf \in 0..now :
                  PurgeRecords(t, asOf) \/ PurgeSilences(t, asOf) \/ PurgeEvents(t, asOf)
      PROVE  Ahead'
  <2>1. now' = now /\ (desk' = desk \/ desk'.step # "write")
    BY <1>6 DEF BeginCleanup, CleanupFails, PurgeRecords, PurgeSilences, PurgeEvents, EndCleanup
  <2>2. \A u \in Runners : runs'[u].start \in {runs[u].start, now, 0}
    BY <1>0, <1>6 DEF BeginCleanup, CleanupFails, PurgeRecords, PurgeSilences, PurgeEvents,
                     EndCleanup, Advance, NoRun, Run
  <2> QED BY <1>0, <2>1, <2>2 DEF Ahead
<1> QED BY <1>0, <1>1, <1>2, <1>3, <1>4, <1>5, <1>6 DEF AlarmStep

\* What the second purge achieves is kept until its run ends.
LEMMA NothingExpiredKept ==
  ASSUME AlarmTypeOK, Ahead, NothingExpiredIsLeft, AlarmNext
  PROVE  NothingExpiredIsLeft'
<1>0. AlarmStep /\ runs \in [Runners -> Run] /\ silences \in [Keys -> Nat] /\ now \in Nat
  BY Bounds DEF AlarmTypeOK, AlarmNext, Run
<1> SUFFICES ASSUME NEW t \in Runners, runs'[t].step = "events", NEW k \in Keys
             PROVE  silences'[k] = 0 \/ silences'[k] > runs'[t].start
  BY DEF NothingExpiredIsLeft
<1>1. CASE \E u \in Runners, asOf \in 0..now : PurgeSilences(u, asOf)
  <2>1. PICK u \in Runners, asOf \in 0..now : PurgeSilences(u, asOf)
    BY <1>1
  <2>2. runs'[t].start = runs[t].start /\ runs[t].start \in Nat
    BY <1>0, <2>1, Bounds DEF PurgeSilences, Advance, Run
  <2>3. CASE t = u
    BY <1>0, <2>1, <2>2, <2>3 DEF PurgeSilences
  <2>4. CASE t # u
    BY <1>0, <2>1, <2>2, <2>4 DEF PurgeSilences, Advance, NothingExpiredIsLeft
  <2> QED BY <2>3, <2>4
<1>2. ASSUME ~ \E u \in Runners, asOf \in 0..now : PurgeSilences(u, asOf)
      PROVE  runs'[t] = runs[t]
  <2>1. CASE \E u \in Runners :
               \/ BeginCleanup(u) \/ CleanupFails(u)
               \/ \E asOf \in 0..now : PurgeRecords(u, asOf) \/ PurgeEvents(u, asOf)
    BY <1>0, <2>1 DEF BeginCleanup, CleanupFails, PurgeRecords, PurgeEvents, EndCleanup,
                     Advance, NoRun, Run
  <2>2. CASE ~ \E u \in Runners :
               \/ BeginCleanup(u) \/ CleanupFails(u)
               \/ \E asOf \in 0..now : PurgeRecords(u, asOf) \/ PurgeEvents(u, asOf)
    BY <1>0, <1>2, <2>2 DEF AlarmStep, Tick, WriteState, WriteFails, LogEvent, LogFails, LogRow, Press,
        BeginReading, ReadAcks, ReadSilences, EndReading, ReadFails
  <2> QED BY <2>1, <2>2
<1>3. CASE WriteState /\ ~ \E u \in Runners, asOf \in 0..now : PurgeSilences(u, asOf)
  <2>1. desk \in Busy
    BY <1>3, DeskBusy DEF WriteState
  <2>2. silences'[k] \in {silences[k], 0} \/ silences'[k] > now
    BY <1>0, <1>3, <2>1 DEF WriteState, Busy, Ahead
  <2>3. runs[t].start <= now /\ runs[t].start \in Nat
    BY <1>0, Bounds DEF Ahead, Run
  <2>4. silences'[k] \in Nat
    BY <1>0, <1>3, <2>1 DEF WriteState, Busy
  <2> QED BY <1>0, <1>2, <1>3, <2>2, <2>3, <2>4 DEF NothingExpiredIsLeft
<1>4. CASE silences' = silences
  BY <1>0, <1>1, <1>2, <1>4 DEF NothingExpiredIsLeft
<1> QED BY <1>0, <1>1, <1>3, <1>4, SilenceWriters

\* A retention run leaves no silence that had expired when it began.
THEOREM CleanupIsThorough == AlarmSpec => []NothingExpiredIsLeft
<1> DEFINE Inv == Ahead /\ NothingExpiredIsLeft
<1>1. AlarmInit => Inv
  BY DEF AlarmInit, Ahead, NothingExpiredIsLeft, Desk, NoRun
<1>2. ASSUME AlarmTypeOK, Inv, [AlarmNext]_alarmVars PROVE Inv'
  <2>1. CASE UNCHANGED alarmVars
    BY <1>2, <2>1 DEF alarmVars, store, Ahead, NothingExpiredIsLeft
  <2> QED BY <1>2, <2>1, AheadKept, NothingExpiredKept
<1> QED BY <1>1, <1>2, AlarmTypes, PTL DEF AlarmSpec

----------------------------------------------------------------------------
(* The history *)

\* Events are numbered in the order they are written, by one handler at a time.
InOrder ==
  /\ \A e \in events : e.id <= actions /\ e.at <= now
  /\ desk.step \in {"write", "event"} => \A e \in events : e.id < actions
  /\ \A e, f \in events : e.id <= f.id => e.at <= f.at

\* No two events have one number.
Numbered == \A e, f \in events : e.id = f.id => e = f

\* While an event is due, the tables are as its handler left them.
Written ==
  desk.step = "event" =>
    /\ desk.op = "acknowledge" => desk.key \in acks
    /\ desk.op = "clear_acknowledgement" => desk.key \notin acks
    /\ desk.op = "clear_silence" => silences[desk.key] = 0

History == InOrder /\ Numbered /\ Written /\ HistoryExplains

\* What a step that is none of the four handlers' and purges nothing may do.
Aside ==
  /\ now' \in {now, now + 1} /\ actions' \in {actions, actions + 1}
  /\ acks' = acks /\ events' = events /\ torn' = torn
  /\ silences' \in [Keys -> Nat] /\ \A k \in Keys : silences'[k] \in {silences[k], 0}
  /\ \/ desk' = desk
     \/ desk.step \notin {"write", "event"} /\ desk'.step \notin {"write", "event"}
     \/ desk.step \notin {"write", "event"} /\ desk'.step = "write" /\ actions' = actions + 1

\* The same with a purge of the history, which keeps a newest part.
Purged ==
  /\ now' = now /\ actions' = actions /\ acks' = acks /\ silences' = silences /\ torn' = torn
  /\ \E cut \in Int : events' = {e \in events : e.at >= cut}
  /\ desk' = desk \/ (desk.step \notin {"write", "event"} /\ desk'.step \notin {"write", "event"})

\* A desk that runs a cleanup or a reading writes nothing.
Serial ==
  /\ runs["desk"].step # "idle" => desk.step = "cleanup"
  /\ view["desk"].step # "idle" => desk.step = "refresh"

\* The event loop runs one handler at a time.
LEMMA SerialKept == ASSUME AlarmTypeOK, Serial, AlarmNext PROVE Serial'
<1> USE DEF Desk, store, Serial
<1>0. /\ AlarmStep /\ runs \in [Runners -> Run] /\ view \in [Readers -> View]
      /\ "desk" \in Runners /\ "desk" \in Readers
  BY DEF AlarmTypeOK, AlarmNext, Run, Runners, Readers
<1>1. CASE Tick \/ WriteState \/ WriteFails \/ LogEvent \/ LogFails
  BY <1>1 DEF Tick, WriteState, WriteFails, LogEvent, LogFails
<1>2. CASE \E kind \in Kinds, device \in Devices, good \in BOOLEAN, lag \in 0..MaxLag :
             LogRow(kind, device, good, lag)
  BY <1>2 DEF LogRow
<1>3. CASE \E op \in Ops, key \in Keys, minutes \in SilenceMinutes : Press(op, key, minutes)
  BY <1>3 DEF Press
<1>4. ASSUME NEW r \in Readers, NEW window \in Windows, BeginReading(r, window) PROVE Serial'
  BY <1>0, <1>4 DEF BeginReading
<1>5. ASSUME NEW r \in Readers, ReadAcks(r) \/ ReadSilences(r) PROVE Serial'
  BY <1>0, <1>5 DEF ReadAcks, ReadSilences
<1>6. ASSUME NEW r \in Readers, EndReading(r) \/ ReadFails(r) PROVE Serial'
  BY <1>0, <1>6 DEF EndReading, ReadFails, NoView, View
<1>7. ASSUME NEW t \in Runners, BeginCleanup(t) PROVE Serial'
  BY <1>0, <1>7 DEF BeginCleanup
<1>8. ASSUME NEW t \in Runners, NEW asOf \in 0..now, PurgeRecords(t, asOf) \/ PurgeSilences(t, asOf)
      PROVE  Serial'
  BY <1>0, <1>8 DEF PurgeRecords, PurgeSilences, Advance
<1>9. ASSUME NEW t \in Runners, CleanupFails(t) \/ \E asOf \in 0..now : PurgeEvents(t, asOf)
      PROVE  Serial'
  BY <1>0, <1>9 DEF CleanupFails, PurgeEvents, EndCleanup, NoRun
<1> QED BY <1>0, <1>1, <1>2, <1>3, <1>4, <1>5, <1>6, <1>7, <1>8, <1>9 DEF AlarmStep

\* Every step is one of the four handlers', a purge of the history, or aside.
LEMMA StepKinds ==
  ASSUME AlarmTypeOK, Serial, AlarmStep
  PROVE  WriteState \/ WriteFails \/ LogEvent \/ LogFails \/ Purged \/ Aside
<1> USE DEF Desk, store
<1>0. /\ runs \in [Runners -> Run] /\ view \in [Readers -> View] /\ silences \in [Keys -> Nat]
      /\ now \in Nat
  BY Bounds DEF AlarmTypeOK, Run
<1>1. CASE Tick
  BY <1>0, <1>1 DEF Tick, Aside
<1>2. CASE \E kind \in Kinds, device \in Devices, good \in BOOLEAN, lag \in 0..MaxLag :
             LogRow(kind, device, good, lag)
  BY <1>0, <1>2 DEF LogRow, Aside
<1>3. CASE \E op \in Ops, key \in Keys, minutes \in SilenceMinutes : Press(op, key, minutes)
  BY <1>0, <1>3 DEF Press, Aside
<1>4. ASSUME NEW r \in Readers, NEW window \in Windows, BeginReading(r, window) PROVE Aside
  BY <1>0, <1>4 DEF BeginReading, Aside
<1>5. ASSUME NEW r \in Readers, ReadAcks(r) \/ ReadSilences(r) PROVE Aside
  BY <1>0, <1>5 DEF ReadAcks, ReadSilences, Aside
<1>6. ASSUME NEW r \in Readers, EndReading(r) \/ ReadFails(r) PROVE Aside
  BY <1>0, <1>6 DEF EndReading, ReadFails, Serial, Aside
<1>7. ASSUME NEW t \in Runners, BeginCleanup(t) PROVE Aside
  BY <1>0, <1>7 DEF BeginCleanup, Aside
<1>8. ASSUME NEW t \in Runners, NEW asOf \in 0..now, PurgeRecords(t, asOf) \/ PurgeSilences(t, asOf)
      PROVE  Aside
  BY <1>0, <1>8 DEF PurgeRecords, PurgeSilences, Aside
<1>9. ASSUME NEW t \in Runners, CleanupFails(t) PROVE Aside
  BY <1>0, <1>9 DEF CleanupFails, EndCleanup, Serial, Aside
<1>10. ASSUME NEW t \in Runners, NEW asOf \in 0..now, PurgeEvents(t, asOf) PROVE Purged
  <2>1. asOf - EventRetention \in Int
    BY <1>0, AlarmAssumption DEF AlarmAssumption
  <2> QED BY <1>0, <1>10, <2>1 DEF PurgeEvents, EndCleanup, Serial, Purged
<1> QED BY <1>1, <1>2, <1>3, <1>4, <1>5, <1>6, <1>7, <1>8, <1>9, <1>10 DEF AlarmStep

\* What runs beside the handlers lets the history alone.
LEMMA HistoryAside == ASSUME AlarmTypeOK, History, Aside PROVE History'
<1>0. /\ silences \in [Keys -> Nat] /\ actions \in Nat /\ now \in Nat
      /\ events \subseteq Event /\ \A e \in events : e.id \in Nat /\ e.at \in Nat /\ e.key \in Keys
  BY Bounds DEF AlarmTypeOK, Event
<1>1. InOrder' /\ Numbered'
  BY <1>0 DEF History, InOrder, Numbered, Aside
<1>2. desk'.step = "event" => desk' = desk /\ desk.key \in Keys
  <2>1. desk.step = "event" => desk.key \in Keys
    BY DeskBusy DEF Busy
  <2> QED BY <2>1 DEF Aside
<1>3. Written'
  BY <1>0, <1>2 DEF History, Written, Aside
<1>4. HistoryExplains'
  <2> SUFFICES ASSUME NEW e \in events', Newest(e, Subject(e.op))', <<e.key, Subject(e.op)>> \notin torn',
                      ~ (desk'.step = "event" /\ <<e.key, Subject(e.op)>> = <<desk'.key, Subject(desk'.op)>>)
               PROVE  /\ e.op \in AckOps => (e.op = "acknowledge" <=> e.key \in acks')
                      /\ e.op = "clear_silence" => silences'[e.key] = 0
    BY DEF HistoryExplains
  <2>1. Newest(e, Subject(e.op)) /\ <<e.key, Subject(e.op)>> \notin torn /\ e \in events
    BY DEF Aside, Newest
  <2>2. ~ (desk.step = "event" /\ <<e.key, Subject(e.op)>> = <<desk.key, Subject(desk.op)>>)
    BY DEF Aside
  <2>3. /\ e.op \in AckOps => (e.op = "acknowledge" <=> e.key \in acks)
        /\ e.op = "clear_silence" => silences[e.key] = 0
    BY <2>1, <2>2 DEF History, HistoryExplains
  <2> QED BY <1>0, <2>1, <2>3 DEF Aside
<1> QED BY <1>1, <1>3, <1>4 DEF History

\* A purge of the history keeps the newest events, or none at all.
LEMMA HistoryPurged == ASSUME AlarmTypeOK, History, Purged PROVE History'
<1>0. events \subseteq Event /\ \A e \in events : e.id \in Nat /\ e.at \in Nat
  BY Bounds DEF AlarmTypeOK, Event
<1>1. PICK cut \in Int : events' = {e \in events : e.at >= cut}
  BY DEF Purged
<1>2. InOrder' /\ Numbered' /\ Written'
  BY <1>1 DEF History, InOrder, Numbered, Written, Purged
<1>3. HistoryExplains'
  <2> SUFFICES ASSUME NEW e \in events', Newest(e, Subject(e.op))', <<e.key, Subject(e.op)>> \notin torn',
                      ~ (desk'.step = "event" /\ <<e.key, Subject(e.op)>> = <<desk'.key, Subject(desk'.op)>>)
               PROVE  /\ e.op \in AckOps => (e.op = "acknowledge" <=> e.key \in acks')
                      /\ e.op = "clear_silence" => silences'[e.key] = 0
    BY DEF HistoryExplains
  <2>1. e \in events /\ e.at >= cut
    BY <1>1
  <2>2. ASSUME NEW f \in events, f.key = e.key, Subject(f.op) = Subject(e.op) PROVE f.id <= e.id
    <3>1. CASE f.id > e.id
      <4>1. f.at >= e.at
        BY <1>0, <2>1, <3>1 DEF History, InOrder
      <4>2. f \in events'
        BY <1>0, <1>1, <2>1, <4>1
      <4> QED BY <2>2, <4>2 DEF Newest
    <3>2. CASE f.id <= e.id
      BY <3>2
    <3> QED BY <1>0, <2>1, <3>1, <3>2
  <2>3. ~ (desk.step = "event" /\ <<e.key, Subject(e.op)>> = <<desk.key, Subject(desk.op)>>)
    BY DEF Purged
  <2>4. /\ e.op \in AckOps => (e.op = "acknowledge" <=> e.key \in acks)
        /\ e.op = "clear_silence" => silences[e.key] = 0
    <3>1. Newest(e, Subject(e.op))
      BY <2>2 DEF Newest
    <3> QED BY <2>1, <2>3, <3>1 DEF History, HistoryExplains, Purged
  <2> QED BY <2>4 DEF Purged
<1> QED BY <1>2, <1>3 DEF History

\* The row of a change is written: its event is due.
LEMMA HistoryWritten == ASSUME AlarmTypeOK, History, WriteState PROVE History'
<1>0. desk \in Busy /\ desk.step = "write" /\ silences \in [Keys -> Nat]
  BY DeskBusy DEF WriteState, AlarmTypeOK
<1>1. /\ desk'.step = "event" /\ desk'.key = desk.key /\ desk'.op = desk.op
      /\ now' = now /\ actions' = actions /\ events' = events /\ torn' = torn
  BY <1>0 DEF WriteState, Busy
<1>2. InOrder' /\ Numbered'
  BY <1>0, <1>1 DEF History, InOrder, Numbered
<1>3. Written'
  <2>1. desk.op = "acknowledge" => desk.key \in acks'
    BY <1>0 DEF WriteState
  <2>2. desk.op = "clear_acknowledgement" => desk.key \notin acks'
    BY <1>0 DEF WriteState
  <2>3. desk.op = "clear_silence" => silences'[desk.key] = 0
    BY <1>0 DEF WriteState, Busy
  <2> QED BY <1>1, <2>1, <2>2, <2>3 DEF Written
<1>4. HistoryExplains'
  <2> SUFFICES ASSUME NEW e \in events, Newest(e, Subject(e.op)), <<e.key, Subject(e.op)>> \notin torn,
                      <<e.key, Subject(e.op)>> # <<desk.key, Subject(desk.op)>>
               PROVE  /\ e.op \in AckOps => (e.op = "acknowledge" <=> e.key \in acks')
                      /\ e.op = "clear_silence" => silences'[e.key] = 0
    BY <1>1 DEF HistoryExplains, Newest
  <2>1. /\ e.op \in AckOps => (e.op = "acknowledge" <=> e.key \in acks)
        /\ e.op = "clear_silence" => silences[e.key] = 0
    BY <1>0 DEF History, HistoryExplains
  <2>2. e.key \in Keys /\ e.op \in Ops
    BY DEF AlarmTypeOK, Event
  <2>3. CASE desk.op \in AckOps
    <3>1. silences' = silences
      BY <2>3 DEF WriteState, AckOps
    <3>2. e.op \in AckOps => e.key # desk.key
      BY <2>3 DEF Subject
    <3>3. e.key # desk.key => (e.key \in acks' <=> e.key \in acks)
      BY <2>3 DEF WriteState, AckOps
    <3> QED BY <2>1, <3>1, <3>2, <3>3
  <2>4. CASE desk.op \in SilenceOps
    <3>1. acks' = acks
      BY <2>4 DEF WriteState, SilenceOps
    <3>2. e.op = "clear_silence" => e.key # desk.key
      BY <2>4 DEF Subject, AckOps, SilenceOps
    <3>3. e.key # desk.key => silences'[e.key] = silences[e.key]
      BY <1>0, <2>2, <2>4 DEF WriteState, SilenceOps, Busy
    <3> QED BY <2>1, <3>1, <3>2, <3>3
  <2> QED BY <1>0, <2>3, <2>4 DEF Busy, Ops
<1> QED BY <1>2, <1>3, <1>4 DEF History

\* The store raises, at the row or at its event: the latter leaves a tear.
LEMMA HistoryTorn == ASSUME AlarmTypeOK, History, WriteFails \/ LogFails PROVE History'
<1>1. /\ desk'.step = "idle" /\ now' = now /\ actions' = actions
      /\ events' = events /\ acks' = acks /\ silences' = silences
  BY DEF WriteFails, LogFails, Desk, store
<1>2. InOrder' /\ Numbered' /\ Written'
  BY <1>1 DEF History, InOrder, Numbered, Written
<1>3. HistoryExplains'
  <2> SUFFICES ASSUME NEW e \in events, Newest(e, Subject(e.op)), <<e.key, Subject(e.op)>> \notin torn'
               PROVE  /\ e.op \in AckOps => (e.op = "acknowledge" <=> e.key \in acks)
                      /\ e.op = "clear_silence" => silences[e.key] = 0
    BY <1>1 DEF HistoryExplains, Newest
  <2>1. /\ <<e.key, Subject(e.op)>> \notin torn
        /\ ~ (desk.step = "event" /\ <<e.key, Subject(e.op)>> = <<desk.key, Subject(desk.op)>>)
    BY DEF WriteFails, LogFails
  <2> QED BY <2>1 DEF History, HistoryExplains
<1> QED BY <1>2, <1>3 DEF History

\* The event of a change is the newest about it, and says what the row says.
LEMMA HistoryLogged == ASSUME AlarmTypeOK, History, LogEvent PROVE History'
<1> DEFINE new == [id |-> actions, key |-> desk.key, op |-> desk.op, at |-> now]
<1>0. /\ desk \in Busy /\ desk.step = "event" /\ actions \in Nat /\ now \in Nat
      /\ \A e \in events : e.id \in Nat /\ e.at \in Nat /\ e.op \in Ops
  BY DeskBusy, Bounds DEF LogEvent, AlarmTypeOK, Event
<1>1. /\ desk'.step = "refresh" /\ now' = now /\ actions' = actions
      /\ events' = events \cup {new} /\ acks' = acks /\ silences' = silences
      /\ torn' = torn \ {<<desk.key, Subject(desk.op)>>}
  BY DEF LogEvent, Desk
<1>2. \A e \in events : e.id < actions /\ e.at <= now
  BY <1>0 DEF History, InOrder
<1>3. InOrder' /\ Numbered' /\ Written'
  <2>1. InOrder'
    BY <1>0, <1>1, <1>2 DEF History, InOrder
  <2>2. Numbered'
    BY <1>0, <1>1, <1>2 DEF History, Numbered
  <2>3. Written'
    BY <1>1 DEF Written
  <2> QED BY <2>1, <2>2, <2>3
<1>4. HistoryExplains'
  <2> SUFFICES ASSUME NEW e \in events', Newest(e, Subject(e.op))', <<e.key, Subject(e.op)>> \notin torn'
               PROVE  /\ e.op \in AckOps => (e.op = "acknowledge" <=> e.key \in acks)
                      /\ e.op = "clear_silence" => silences[e.key] = 0
    BY <1>1 DEF HistoryExplains
  <2>1. CASE e = new
    BY <1>0, <2>1 DEF History, Written, AckOps, Busy
  <2>2. CASE e \in events
    <3>1. <<e.key, Subject(e.op)>> # <<desk.key, Subject(desk.op)>>
      <4>1. CASE <<e.key, Subject(e.op)>> = <<desk.key, Subject(desk.op)>>
        <5>1. new \in events' /\ new.key = e.key /\ Subject(new.op) = Subject(e.op) /\ new.id = actions
          BY <1>1, <4>1
        <5>2. actions <= e.id
          BY <5>1 DEF Newest
        <5> QED BY <1>0, <1>2, <2>2, <5>2
      <4> QED BY <4>1
    <3>2. Newest(e, Subject(e.op)) /\ <<e.key, Subject(e.op)>> \notin torn
      BY <1>1, <3>1 DEF Newest
    <3> QED BY <2>2, <3>1, <3>2 DEF History, HistoryExplains
  <2> QED BY <1>1, <2>1, <2>2
<1> QED BY <1>3, <1>4 DEF History

\* The newest event about an alarm says how it stands.
THEOREM HistoryIsTrue == AlarmSpec => []HistoryExplains
<1>1. AlarmInit => Serial /\ History
  BY DEF AlarmInit, Serial, History, InOrder, Numbered, Written, HistoryExplains, Desk, NoRun, NoView,
         Runners, Readers
<1>2. ASSUME AlarmTypeOK, Serial, History, [AlarmNext]_alarmVars PROVE Serial' /\ History'
  <2>1. CASE AlarmNext
    BY <1>2, <2>1, SerialKept, StepKinds, HistoryAside, HistoryPurged, HistoryWritten, HistoryTorn,
       HistoryLogged DEF AlarmNext
  <2>2. CASE UNCHANGED alarmVars
    BY <1>2, <2>2 DEF alarmVars, store, Serial, History, InOrder, Numbered, Written, HistoryExplains, Newest
  <2> QED BY <1>2, <2>1, <2>2
<1>3. History => HistoryExplains
  BY DEF History
<1> QED BY <1>1, <1>2, <1>3, AlarmTypes, PTL DEF AlarmSpec

----------------------------------------------------------------------------
(* The readings *)

\* What a reading that has read the acknowledgements knows of them.
Known ==
  /\ \A r \in Readers : view[r].step = "silences" =>
       /\ span[r].acked \subseteq view[r].known
       /\ span[r].open \cap view[r].known = {}
  /\ view["desk"].step = "silences" => view["desk"].known = acks

Reading == Known /\ AnswersFit

\* What a step does to a reading that was under way and stays so.
LEMMA ReadingMoves ==
  ASSUME AlarmTypeOK, Serial, AlarmStep, NEW r \in Readers, view'[r].step \in {"silences", "answered"}
  PROVE  \/ view'[r] = view[r]
         \/ /\ view[r].step = "acks" /\ view'[r].step = "silences"
            /\ view'[r].known = acks /\ acks' = acks
         \/ /\ view[r].step = "silences" /\ view'[r].step = "answered"
            /\ view'[r].raised = view[r].raised
            /\ view'[r].silenced = view[r].raised \cap Quiet
            /\ view'[r].active = (view[r].raised \ Quiet) \ view[r].known
            /\ now' = now /\ acks' = acks /\ silences' = silences
<1> USE DEF store
<1>0. view \in [Readers -> View]
  BY DEF AlarmTypeOK
<1>1. CASE Tick \/ WriteState \/ WriteFails \/ LogEvent \/ LogFails
  BY <1>1 DEF Tick, WriteState, WriteFails, LogEvent, LogFails
<1>2. CASE \E kind \in Kinds, device \in Devices, good \in BOOLEAN, lag \in 0..MaxLag :
             LogRow(kind, device, good, lag)
  BY <1>2 DEF LogRow
<1>3. CASE \E op \in Ops, key \in Keys, minutes \in SilenceMinutes : Press(op, key, minutes)
  BY <1>3 DEF Press
<1>4. ASSUME NEW q \in Readers, NEW window \in Windows, BeginReading(q, window) PROVE view'[r] = view[r]
  <2>1. q # r
    <3>1. CASE q = r
      <4>1. view' = [view EXCEPT ![r] = [view[r] EXCEPT !.step = "acks", !.raised = Raised(window)]]
        BY <1>0, <1>4, <3>1 DEF BeginReading
      <4>2. view'[r].step = "acks"
        BY <1>0, <4>1 DEF View
      <4> QED BY <4>2
    <3> QED BY <3>1
  <2> QED BY <1>0, <1>4, <2>1 DEF BeginReading
<1>5. ASSUME NEW q \in Readers, ReadAcks(q)
      PROVE  \/ view'[r] = view[r]
             \/ /\ view[r].step = "acks" /\ view'[r].step = "silences"
                /\ view'[r].known = acks /\ acks' = acks
  <2>1. CASE q = r
    <3>1. view'[r] = [view[r] EXCEPT !.step = "silences", !.known = acks]
      BY <1>0, <1>5, <2>1 DEF ReadAcks
    <3> QED BY <1>0, <1>5, <2>1, <3>1 DEF ReadAcks, View
  <2> QED BY <1>0, <1>5, <2>1 DEF ReadAcks
<1>6. ASSUME NEW q \in Readers, ReadSilences(q)
      PROVE  \/ view'[r] = view[r]
             \/ /\ view[r].step = "silences" /\ view'[r].step = "answered"
                /\ view'[r].raised = view[r].raised
                /\ view'[r].silenced = view[r].raised \cap Quiet
                /\ view'[r].active = (view[r].raised \ Quiet) \ view[r].known
                /\ now' = now /\ acks' = acks /\ silences' = silences
  <2>1. CASE q = r
    <3>1. view'[r] = [view[r] EXCEPT !.step = "answered",
                        !.silenced = view[r].raised \cap Quiet,
                        !.acknowledged = (view[r].raised \ Quiet) \cap view[r].known,
                        !.active = (view[r].raised \ Quiet) \ view[r].known]
      BY <1>0, <1>6, <2>1 DEF ReadSilences
    <3> QED BY <1>0, <1>6, <2>1, <3>1 DEF ReadSilences, View
  <2> QED BY <1>0, <1>6, <2>1 DEF ReadSilences
<1>7. ASSUME NEW q \in Readers, EndReading(q) \/ ReadFails(q) PROVE view'[r] = view[r]
  BY <1>0, <1>7 DEF EndReading, ReadFails, NoView
<1>8. ASSUME NEW t \in Runners,
             \/ BeginCleanup(t) \/ CleanupFails(t)
             \/ \E asOf \in 0..now :
                  PurgeRecords(t, asOf) \/ PurgeSilences(t, asOf) \/ PurgeEvents(t, asOf)
      PROVE  view'[r] = view[r]
  BY <1>8 DEF BeginCleanup, CleanupFails, PurgeRecords, PurgeSilences, PurgeEvents
<1> QED BY <1>1, <1>2, <1>3, <1>4, <1>5, <1>6, <1>7, <1>8 DEF AlarmStep

\* While a reading is under way, what has been so only shrinks.
LEMMA SpanShrinks ==
  ASSUME AlarmTypeOK, Watch, NEW r \in Readers, view[r].step # "idle", view'[r].step # "idle"
  PROVE  /\ span'[r].open = span[r].open \cap Open'
         /\ span'[r].acked = span[r].acked \cap acks'
         /\ span'[r].quiet = span[r].quiet \cap Quiet'
BY DEF Watch

\* While the desk reads, no acknowledgement changes and no silence begins.
LEMMA DeskReadsAlone ==
  ASSUME AlarmTypeOK, Serial, AlarmStep, view["desk"].step # "idle"
  PROVE  acks' = acks /\ Open \subseteq Open'
<1>0. /\ desk.step = "refresh" /\ silences \in [Keys -> Nat] /\ now \in Nat
  BY Bounds DEF Serial, AlarmTypeOK
<1>1. Aside \/ Purged
  BY <1>0, StepKinds DEF WriteState, WriteFails, LogEvent, LogFails
<1> QED BY <1>0, <1>1 DEF Aside, Purged, Open, InForce

\* The knowledge of a reading and the fitness of its answer, step by step.
LEMMA ReadingKept == ASSUME AlarmTypeOK, Serial, Reading, AlarmNext PROVE Reading'
<1>0. AlarmStep /\ Watch /\ "desk" \in Readers
  BY DEF AlarmNext, Readers
<1>1. ASSUME NEW r \in Readers, view'[r].step = "silences"
      PROVE  span'[r].acked \subseteq view'[r].known /\ span'[r].open \cap view'[r].known = {}
  <2>1. CASE view'[r] = view[r]
    BY <1>0, <1>1, <2>1, SpanShrinks DEF Reading, Known
  <2>2. CASE view[r].step = "acks" /\ view'[r].known = acks /\ acks' = acks
    BY <1>0, <1>1, <2>2, SpanShrinks DEF Open
  <2> QED BY <1>0, <1>1, <2>1, <2>2, ReadingMoves
<1>2. view'["desk"].step = "silences" => view'["desk"].known = acks'
  BY <1>0, ReadingMoves, DeskReadsAlone DEF Reading, Known
<1>3. ASSUME NEW r \in Readers, view'[r].step = "answered"
      PROVE  /\ view'[r].raised \cap span'[r].open \subseteq view'[r].active
             /\ view'[r].raised \cap span'[r].quiet \subseteq view'[r].silenced
             /\ view'[r].active \cap (span'[r].quiet \cup span'[r].acked) = {}
             /\ r = "desk" => view'[r].active \subseteq Open'
  <2>1. CASE view'[r] = view[r]
    BY <1>0, <1>3, <2>1, SpanShrinks, DeskReadsAlone DEF Reading, AnswersFit
  <2>2. CASE /\ view[r].step = "silences" /\ view'[r].raised = view[r].raised
             /\ view'[r].silenced = view[r].raised \cap Quiet
             /\ view'[r].active = (view[r].raised \ Quiet) \ view[r].known
             /\ now' = now /\ acks' = acks /\ silences' = silences
    <3>1. Quiet' = Quiet /\ Open' = Open
      BY <2>2 DEF Quiet, Open, InForce
    <3>2. span[r].acked \subseteq view[r].known /\ span[r].open \cap view[r].known = {}
      BY <2>2 DEF Reading, Known
    <3>3. Open \cap Quiet = {}
      BY DEF Open, Quiet
    <3>4. /\ span'[r].open \subseteq span[r].open \cap Open
          /\ span'[r].quiet \subseteq Quiet /\ span'[r].acked \subseteq span[r].acked
      BY <1>0, <1>3, <2>2, <3>1, SpanShrinks
    <3>5. r = "desk" => view'[r].active \subseteq Open'
      <4>1. view[r].raised \subseteq Keys
        BY DEF AlarmTypeOK, View
      <4> QED BY <2>2, <3>1, <4>1 DEF Reading, Known, Open, Quiet
    <3> QED BY <2>2, <3>2, <3>3, <3>4, <3>5
  <2> QED BY <1>0, <1>3, <2>1, <2>2, ReadingMoves
<1> QED BY <1>1, <1>2, <1>3 DEF Reading, Known, AnswersFit

\* A reading's answer is right of whatever did not change while it read.
THEOREM AnswersAreFit == AlarmSpec => []AnswersFit
<1>1. AlarmInit => Serial /\ Reading
  BY DEF AlarmInit, Serial, Reading, Known, AnswersFit, NoRun, NoView, Runners, Readers
<1>2. ASSUME AlarmTypeOK, Serial, Reading, [AlarmNext]_alarmVars PROVE Serial' /\ Reading'
  <2>1. CASE AlarmNext
    BY <1>2, <2>1, SerialKept, ReadingKept
  <2>2. CASE UNCHANGED alarmVars
    BY <1>2, <2>2 DEF alarmVars, store, Serial, Reading, Known, AnswersFit, Open, InForce
  <2> QED BY <1>2, <2>1, <2>2
<1>3. Reading => AnswersFit
  BY DEF Reading
<1> QED BY <1>1, <1>2, <1>3, AlarmTypes, PTL DEF AlarmSpec

----------------------------------------------------------------------------
(* Retention and the alarms *)

\* Rows are numbered as they are written, each soon after its timestamp.
Logged ==
  \A kind \in Kinds : \A q, r \in rows[kind] :
    /\ r.id <= actions /\ r.at <= now
    /\ q.id > r.id => q.at >= r.at - MaxLag

\* No step but a new row adds to a log.
LEMMA RowWriters ==
  ASSUME AlarmTypeOK, AlarmStep
  PROVE  /\ now' >= now /\ actions' >= actions
         /\ \/ \A kind \in Kinds : rows'[kind] \subseteq rows[kind]
            \/ \E kind \in Kinds, device \in Devices, good \in BOOLEAN, lag \in 0..MaxLag :
                 LogRow(kind, device, good, lag)
<1> USE DEF store
<1>0. rows \in [Kinds -> SUBSET LoggedRow] /\ now \in Nat /\ actions \in Nat
  BY Bounds DEF AlarmTypeOK
<1>1. CASE Tick \/ WriteState \/ WriteFails \/ LogEvent \/ LogFails
  BY <1>0, <1>1 DEF Tick, WriteState, WriteFails, LogEvent, LogFails
<1>2. CASE \E kind \in Kinds, device \in Devices, good \in BOOLEAN, lag \in 0..MaxLag :
             LogRow(kind, device, good, lag)
  <2>1. now' = now /\ actions' = actions + 1
    BY <1>2 DEF LogRow
  <2> QED BY <1>0, <1>2, <2>1
<1>3. CASE \E op \in Ops, key \in Keys, minutes \in SilenceMinutes : Press(op, key, minutes)
  BY <1>0, <1>3 DEF Press
<1>4. CASE \E r \in Readers :
             \/ (\E window \in Windows : BeginReading(r, window))
             \/ ReadAcks(r) \/ ReadSilences(r) \/ EndReading(r) \/ ReadFails(r)
  BY <1>0, <1>4 DEF BeginReading, ReadAcks, ReadSilences, EndReading, ReadFails
<1>5. CASE \E t \in Runners :
             \/ BeginCleanup(t) \/ CleanupFails(t)
             \/ \E asOf \in 0..now : PurgeSilences(t, asOf) \/ PurgeEvents(t, asOf)
  <2>1. rows' = rows /\ now' = now /\ actions' \in {actions, actions + 1}
    BY <1>5 DEF BeginCleanup, CleanupFails, PurgeSilences, PurgeEvents
  <2> QED BY <1>0, <2>1
<1>6. ASSUME NEW t \in Runners, NEW asOf \in 0..now, PurgeRecords(t, asOf)
      PROVE  /\ now' >= now /\ actions' >= actions
             /\ \A kind \in Kinds : rows'[kind] \subseteq rows[kind]
  <2>1. now' = now /\ actions' = actions
    BY <1>6 DEF PurgeRecords
  <2>2. \A kind \in Kinds : rows'[kind] \subseteq rows[kind]
    BY <1>6 DEF PurgeRecords
  <2> QED BY <1>0, <2>1, <2>2
<1> QED BY <1>1, <1>2, <1>3, <1>4, <1>5, <1>6 DEF AlarmStep

\* The order of the logs, step by step.
LEMMA LoggedKept == ASSUME AlarmTypeOK, Logged, AlarmNext PROVE Logged'
<1>0. /\ AlarmStep /\ rows \in [Kinds -> SUBSET LoggedRow] /\ now \in Nat /\ actions \in Nat
      /\ now' \in Int /\ actions' \in Int /\ MaxLag \in Nat
  BY Bounds, NextAlarmTypeOK DEF AlarmTypeOK, AlarmNext
<1>1. ASSUME NEW k \in Kinds, NEW device \in Devices, NEW good \in BOOLEAN, NEW lag \in 0..MaxLag,
             LogRow(k, device, good, lag)
      PROVE  Logged'
  <2> DEFINE new == [id |-> actions + 1, device |-> device, good |-> good, at |-> now - lag]
  <2>1. /\ now' = now /\ actions' = actions + 1
        /\ \A kind \in Kinds : rows'[kind] \subseteq rows[kind] \cup {new}
    BY <1>0, <1>1 DEF LogRow
  <2> SUFFICES ASSUME NEW kind \in Kinds, NEW q \in rows'[kind], NEW r \in rows'[kind]
               PROVE  /\ r.id <= actions' /\ r.at <= now'
                      /\ q.id > r.id => q.at >= r.at - MaxLag
    BY DEF Logged
  <2>2. /\ new.id = actions + 1 /\ new.at <= now /\ new.at >= now - MaxLag
        /\ new.at \in Int /\ new.id \in Int
    BY <1>0
  <2>3. \A p \in rows[kind] : p.id \in Int /\ p.at \in Int /\ p.id <= actions /\ p.at <= now
    BY <1>0 DEF Logged, LoggedRow
  <2>4. q \in rows[kind] /\ r \in rows[kind] => (q.id > r.id => q.at >= r.at - MaxLag)
    BY DEF Logged
  <2>5. (q \in rows[kind] \/ q = new) /\ (r \in rows[kind] \/ r = new)
    BY <2>1
  <2> HIDE DEF new
  <2>6. r.id <= actions' /\ r.at <= now'
    BY <1>0, <2>1, <2>2, <2>3, <2>5
  <2>7. q.id > r.id => q.at >= r.at - MaxLag
    BY <1>0, <2>2, <2>3, <2>4, <2>5
  <2> QED BY <2>6, <2>7
<1>2. CASE \A kind \in Kinds : rows'[kind] \subseteq rows[kind]
  <2> SUFFICES ASSUME NEW kind \in Kinds, NEW q \in rows'[kind], NEW r \in rows'[kind]
               PROVE  /\ r.id <= actions' /\ r.at <= now'
                      /\ q.id > r.id => q.at >= r.at - MaxLag
    BY DEF Logged
  <2>1. q \in rows[kind] /\ r \in rows[kind] /\ r.id \in Int /\ r.at \in Int
    BY <1>0, <1>2 DEF LoggedRow
  <2>2. now' >= now /\ actions' >= actions
    BY <1>0, RowWriters
  <2> QED BY <1>0, <2>1, <2>2 DEF Logged
<1> QED BY <1>0, <1>1, <1>2, RowWriters

\* A purge of old rows takes none that a shorter window can fetch.
LEMMA PurgeFetchesTheSame ==
  ASSUME AlarmTypeOK, Logged, NEW t \in Runners, NEW asOf \in 0..now, PurgeRecords(t, asOf),
         NEW kind \in Kinds, NEW window \in Windows, window + MaxLag <= Retention[kind]
  PROVE  Fetched(kind, window)' = Fetched(kind, window)
<1>0. /\ now' = now /\ now \in Nat /\ asOf \in Int /\ asOf <= now /\ Retention[kind] \in Nat
      /\ window \in Nat /\ MaxLag \in Nat
      /\ \A r \in rows[kind] : r.id \in Int /\ r.at \in Int
      /\ rows'[kind] = {r \in rows[kind] : r.at >= asOf - Retention[kind]}
  BY Bounds, AlarmAssumption DEF AlarmAssumption, PurgeRecords, AlarmTypeOK, LoggedRow
<1>1. ASSUME NEW r \in rows[kind], r.at >= now - window
      PROVE  /\ r \in rows'[kind]
             /\ {q \in rows'[kind] : q.id > r.id} = {q \in rows[kind] : q.id > r.id}
  <2>1. \A q \in rows[kind] : q.id > r.id => q.at >= r.at - MaxLag
    BY DEF Logged
  <2>2. r \in rows'[kind]
    BY <1>0, <1>1
  <2>3. ASSUME NEW q \in rows[kind], q.id > r.id PROVE q \in rows'[kind]
    <3>1. q.at >= r.at - MaxLag
      BY <2>1, <2>3
    <3> QED BY <1>0, <1>1, <2>3, <3>1
  <2>4. rows'[kind] \subseteq rows[kind]
    BY <1>0
  <2> QED BY <2>2, <2>3, <2>4
<1>2. Fetched(kind, window) \subseteq Fetched(kind, window)'
  <2> SUFFICES ASSUME NEW r \in Fetched(kind, window) PROVE r \in Fetched(kind, window)'
    OBVIOUS
  <2>1. /\ r \in rows[kind] /\ r.at >= now - window
        /\ Cardinality({q \in rows[kind] : q.id > r.id}) < Limit
    BY DEF Fetched
  <2>2. /\ r \in rows'[kind]
        /\ {q \in rows'[kind] : q.id > r.id} = {q \in rows[kind] : q.id > r.id}
    BY <1>1, <2>1
  <2>3. Cardinality({q \in rows'[kind] : q.id > r.id}) < Limit
    BY <2>1, <2>2
  <2> QED BY <1>0, <2>1, <2>2, <2>3 DEF Fetched
<1>3. Fetched(kind, window)' \subseteq Fetched(kind, window)
  <2> SUFFICES ASSUME NEW r \in Fetched(kind, window)' PROVE r \in Fetched(kind, window)
    OBVIOUS
  <2>1. /\ r \in rows'[kind] /\ r.at >= now - window
        /\ Cardinality({q \in rows'[kind] : q.id > r.id}) < Limit
    BY <1>0 DEF Fetched
  <2>2. r \in rows[kind]
    BY <1>0, <2>1
  <2>3. {q \in rows'[kind] : q.id > r.id} = {q \in rows[kind] : q.id > r.id}
    BY <1>1, <2>1, <2>2
  <2>4. Cardinality({q \in rows[kind] : q.id > r.id}) < Limit
    BY <2>1, <2>3
  <2> QED BY <2>1, <2>2, <2>4 DEF Fetched
<1> QED BY <1>2, <1>3

\* A retention run changes no alarm of a window shorter than the logs keep.
THEOREM CleanupIsInvisible == AlarmSpec => CleanupChangesNoAlarm
<1>1. AlarmInit => Logged
  <2> SUFFICES ASSUME AlarmInit, NEW kind \in Kinds, NEW q \in rows[kind], NEW r \in rows[kind]
               PROVE  /\ r.id <= actions /\ r.at <= now
                      /\ q.id > r.id => q.at >= r.at - MaxLag
    BY DEF Logged
  <2>1. rows[kind] \in Pasts
    BY DEF AlarmInit
  <2> QED BY <2>1, AlarmAssumption DEF AlarmAssumption, AlarmInit
<1>2. ASSUME AlarmTypeOK, Logged, [AlarmNext]_alarmVars PROVE Logged'
  <2>1. CASE UNCHANGED alarmVars
    BY <1>2, <2>1 DEF alarmVars, store, Logged
  <2> QED BY <1>2, <2>1, LoggedKept
<1>3. ASSUME AlarmTypeOK, Logged, AlarmNext, NEW t \in Runners,
             runs[t].step = "records", runs'[t].step = "silences",
             NEW window \in Windows, \A kind \in Kinds : window + MaxLag <= Retention[kind]
      PROVE  Raised(window)' = Raised(window)
  <2>1. PICK asOf \in 0..now : PurgeRecords(t, asOf)
    <3>1. runs \in [Runners -> Run]
      BY <1>3 DEF AlarmTypeOK, Run
    <3>2. ASSUME NEW u \in Runners, NEW asOf \in 0..now,
                 PurgeRecords(u, asOf) \/ PurgeSilences(u, asOf)
          PROVE  u = t /\ PurgeRecords(t, asOf)
      BY <1>3, <3>1, <3>2 DEF PurgeRecords, PurgeSilences, Advance
    <3>3. CASE \E u \in Runners : \/ BeginCleanup(u) \/ CleanupFails(u)
                                 \/ \E asOf \in 0..now : PurgeEvents(u, asOf)
      BY <1>3, <3>1, <3>3 DEF BeginCleanup, CleanupFails, PurgeEvents, EndCleanup, NoRun
    <3>4. CASE runs' = runs
      BY <1>3, <3>4
    <3>5. \/ runs' = runs
          \/ \E u \in Runners : \/ BeginCleanup(u) \/ CleanupFails(u)
                               \/ \E asOf \in 0..now :
                                    PurgeRecords(u, asOf) \/ PurgeSilences(u, asOf) \/ PurgeEvents(u, asOf)
      BY <1>3 DEF AlarmNext, AlarmStep, Tick, WriteState, WriteFails, LogEvent, LogFails, LogRow, Press,
                  BeginReading, ReadAcks, ReadSilences, EndReading, ReadFails
    <3> QED BY <3>2, <3>3, <3>4, <3>5
  <2>2. \A kind \in Kinds : Fetched(kind, window)' = Fetched(kind, window)
    BY <1>3, <2>1, PurgeFetchesTheSame
  <2>3. ASSUME NEW k \in Keys PROVE Streak(k[1], k[2], window)' = Streak(k[1], k[2], window)
    <3>1. k[1] \in Kinds
      BY DEF Keys
    <3> QED BY <2>2, <3>1 DEF Streak, Newer
  <2> QED BY <2>3 DEF Raised
<1>4. ASSUME AlarmTypeOK, Logged, [AlarmNext]_alarmVars
      PROVE  [\A t \in Runners : runs[t].step = "records" /\ runs'[t].step = "silences" =>
                \A window \in Windows :
                  (\A kind \in Kinds : window + MaxLag <= Retention[kind]) =>
                    Raised(window)' = Raised(window)]_alarmVars
  BY <1>3, <1>4
<1> QED BY <1>1, <1>2, <1>4, AlarmTypes, PTL DEF AlarmSpec, CleanupChangesNoAlarm

-----------------------------------------------------------------------------
(* Storage alerts and their webhook                                        *)

\* The checks that have yet to write down a refusal of a row.
Recorders(id) == {c \in Checks : At(c, "recording") /\ Current(c).id = id}

IdsAreUsed ==
  /\ \A r \in queue \cup dead : r.id \in 1 .. lastId
  /\ \A c \in Checks : /\ Current(c).id <= lastId
                       /\ \A r \in local[c].items : r.id <= lastId

TriesAreLeft == \A c \in Checks : pc[c] \in {"posting", "marking", "recording"} => local[c].left >= 1

MarksAreDelivered == \A c \in Checks : At(c, "marking") => Current(c).id \in sent

RefusalsCoverAttempts ==
  /\ \A r \in queue : /\ r.attempts < MaxAttempts
                      /\ r.refused >= r.attempts + Cardinality(Recorders(r.id))
  /\ \A r \in dead : r.attempts = MaxAttempts /\ r.refused >= MaxAttempts

IInv == /\ TypeOK /\ NoAlertIsLost /\ RowsAreDistinct
        /\ IdsAreUsed /\ TriesAreLeft /\ MarksAreDelivered /\ RefusalsCoverAttempts

-----------------------------------------------------------------------------
(* What the loop over the batch does                                       *)

\* Only c moves, to its next try, its next row or its end; it is at no place where
\* the invariants look, and its rows have ids already given out.
Onward(c) ==
  /\ pc' \in [Checks -> Steps] /\ local' \in [Checks -> Local]
  /\ pc'[c] \in {"idle", "posting"} /\ (pc'[c] = "posting" => local'[c].left >= 1)
  /\ \A d \in Checks \ {c} : pc'[d] = pc[d] /\ local'[d] = local[d]
  /\ local'[c].row.id <= lastId /\ \A r \in local'[c].items : r.id <= lastId

\* Take goes on with rows it was given.
LEMMA TakeGoesOn ==
  ASSUME TypeOK, NEW c \in Checks, NEW items \in SUBSET Row, \A r \in items : r.id <= lastId,
         Take(c, items)
  PROVE  Onward(c)
<1> USE DeliveryAssumption DEF DeliveryAssumption
<1>1. Blank \in Local /\ Blank.row.id = 0 /\ Blank.items = {}
  BY DEF Blank, NoRow, Local, Row
<1>2. CASE items = {} /\ Goto(c, "idle") /\ local' = [local EXCEPT ![c] = Blank]
  BY <1>1, <1>2 DEF Onward, Goto, TypeOK, Steps
<1>3. ASSUME NEW r \in items, Goto(c, "posting"),
             local' = [local EXCEPT ![c] =
               [streak |-> 0, row |-> r, items |-> items \ {r},
                left |-> IF r.attempts < MaxAttempts THEN MaxAttempts - r.attempts ELSE 1]]
      PROVE  Onward(c)
  <2> DEFINE l == [streak |-> 0, row |-> r, items |-> items \ {r},
                   left |-> IF r.attempts < MaxAttempts THEN MaxAttempts - r.attempts ELSE 1]
  <2>1. r \in Row /\ r.attempts \in Nat
    BY DEF Row
  <2>2. l \in Local /\ l.row = r /\ l.items \subseteq items /\ l.left >= 1
    BY <2>1 DEF Local
  <2>3. local' = [local EXCEPT ![c] = l] /\ pc' = [pc EXCEPT ![c] = "posting"]
    BY <1>3 DEF Goto
  <2> HIDE DEF l
  <2>4. local' \in [Checks -> Local] /\ pc' \in [Checks -> Steps]
    BY <2>2, <2>3 DEF TypeOK, Steps
  <2>5. local'[c] = l /\ pc'[c] = "posting" /\ \A d \in Checks \ {c} : pc'[d] = pc[d] /\ local'[d] = local[d]
    BY <2>3 DEF TypeOK
  <2>6. QED
    BY <2>2, <2>4, <2>5 DEF Onward
<1>4. QED
  BY <1>2, <1>3 DEF Take

\* So does Retry, with the rest of the batch after the last try.
LEMMA RetryGoesOn ==
  ASSUME TypeOK, IdsAreUsed, NEW c \in Checks, Retry(c), local[c].left >= 1
  PROVE  Onward(c)
<1>1. CASE local[c].left = 1
  BY <1>1, TakeGoesOn DEF Retry, IdsAreUsed, TypeOK, Local
<1>2. CASE local[c].left # 1
  <2>1. pc' = [pc EXCEPT ![c] = "posting"] /\ local' = [local EXCEPT ![c].left = @ - 1]
    BY <1>2 DEF Retry, Goto
  <2>2. local[c] \in Local /\ local[c].left - 1 \in Nat
    BY <1>2 DEF TypeOK, Local
  <2>3. [local[c] EXCEPT !.left = local[c].left - 1] \in Local
    BY <2>2 DEF Local
  <2>4. local' \in [Checks -> Local] /\ pc' \in [Checks -> Steps]
    BY <2>1, <2>3 DEF TypeOK, Steps
  <2>5. QED
    BY <1>2, <2>1, <2>2, <2>4 DEF Onward, IdsAreUsed, Current, TypeOK, Local
<1>3. QED
  BY <1>1, <1>2

-----------------------------------------------------------------------------
(* Preservation                                                            *)

\* Recorders are checks, so that there are finitely many.
LEMMA RecordersAreFinite ==
  \A id : Recorders(id) \in SUBSET Checks /\ IsFiniteSet(Recorders(id)) /\ Cardinality(Recorders(id)) \in Nat
<1> SUFFICES ASSUME NEW id
    PROVE Recorders(id) \in SUBSET Checks /\ IsFiniteSet(Recorders(id)) /\ Cardinality(Recorders(id)) \in Nat
  OBVIOUS
<1>1. Recorders(id) \in SUBSET Checks
  BY DEF Recorders
<1>2. QED
  BY <1>1, FS_Subset, FS_CardinalityType, DeliveryAssumption DEF DeliveryAssumption

\* Steps that touch neither queue nor dead letters, and that bring nobody to
\* "recording" and nobody undelivered to "marking", keep the invariant.
LEMMA FrameStep ==
  ASSUME IInv, TypeOK', UNCHANGED durable, sent \subseteq sent',
         \A c \in Checks : /\ local'[c].row.id <= lastId
                           /\ \A r \in local'[c].items : r.id <= lastId
                           /\ pc'[c] = "recording" => pc[c] = "recording" /\ local'[c].row = local[c].row
                           /\ pc'[c] = "marking" => local'[c].row.id \in sent'
                           /\ pc'[c] \in {"posting", "marking", "recording"} => local'[c].left >= 1
  PROVE  IInv'
<1>1. NoAlertIsLost' /\ RowsAreDistinct' /\ IdsAreUsed' /\ TriesAreLeft' /\ MarksAreDelivered'
  BY DEF IInv, NoAlertIsLost, RowsAreDistinct, IdsAreUsed, TriesAreLeft, MarksAreDelivered, durable, Ids, At, Current
<1>2. \A r \in queue : r.refused >= r.attempts + Cardinality(Recorders(r.id)')
  <2>1. SUFFICES ASSUME NEW r \in queue PROVE r.refused >= r.attempts + Cardinality(Recorders(r.id)')
    OBVIOUS
  <2>2. Recorders(r.id)' \in SUBSET Recorders(r.id)
    BY DEF Recorders, At, Current
  <2>3. Cardinality(Recorders(r.id)') <= Cardinality(Recorders(r.id)) /\ IsFiniteSet(Recorders(r.id)')
    BY <2>2, RecordersAreFinite, FS_Subset
  <2>4. Cardinality(Recorders(r.id)') \in Nat /\ Cardinality(Recorders(r.id)) \in Nat
    BY <2>3, RecordersAreFinite, FS_CardinalityType
  <2>5. r.refused >= r.attempts + Cardinality(Recorders(r.id)) /\ r.refused \in Nat /\ r.attempts \in Nat
    BY DEF IInv, RefusalsCoverAttempts, TypeOK, Row
  <2>6. QED
    BY <2>3, <2>4, <2>5
<1>3. RefusalsCoverAttempts'
  BY <1>2 DEF IInv, RefusalsCoverAttempts, durable
<1>4. QED
  BY <1>1, <1>3 DEF IInv

\* The steps up to the listing, and those that end a check.
LEMMA TypesBeforeListing ==
  ASSUME TypeOK, NEW c \in Checks, Measure(c) \/ Count(c) \/ Judge(c) \/ Ask(c)
  PROVE  TypeOK' /\ local'[c].row.id \in {0, local[c].row.id} /\ local'[c].items \in {{}, local[c].items}
                 /\ (\A d \in Checks \ {c} : local'[d] = local[d] /\ pc'[d] = pc[d])
                 /\ pc'[c] \notin {"posting", "marking", "recording"}
<1>1. [Blank EXCEPT !.streak = streak] \in Local /\ [Blank EXCEPT !.streak = streak].row.id = 0
      /\ [Blank EXCEPT !.streak = streak].items = {}
  BY DEF TypeOK, Local, Blank, NoRow, Row
<1>2. CASE Measure(c)
  <2> DEFINE l == [Blank EXCEPT !.streak = streak]
  <2>1. CASE local' = [local EXCEPT ![c] = l] /\ Goto(c, "counting") /\ streak' = streak
    <3> l \in Local /\ l.row.id = 0 /\ l.items = {}
      BY <1>1
    <3> HIDE DEF l
    <3>1. local' \in [Checks -> Local] /\ local'[c] = l /\ (\A d \in Checks \ {c} : local'[d] = local[d])
      BY <2>1 DEF TypeOK
    <3>2. pc' \in [Checks -> Steps] /\ pc'[c] = "counting" /\ (\A d \in Checks \ {c} : pc'[d] = pc[d])
      BY <2>1 DEF Goto, TypeOK, Steps
    <3>3. QED
      BY <1>2, <2>1, <3>1, <3>2 DEF Measure, TypeOK, durable
  <2>2. CASE streak' = 0 /\ Goto(c, "listing") /\ local' = local
    BY <1>2, <2>2 DEF Measure, Goto, TypeOK, Steps, durable
  <2>3. QED
    BY <1>2, <2>1, <2>2 DEF Measure
<1>3. CASE Count(c)
  BY <1>3 DEF Count, Goto, TypeOK, Steps, durable, Local
<1>4. CASE Judge(c)
  <2>1. [local[c] EXCEPT !.streak = streak] \in Local
    BY DEF TypeOK, Local
  <2>2. QED
    BY <1>4, <2>1 DEF Judge, Goto, TypeOK, Steps, durable, shared, Local
<1>5. CASE Ask(c)
  BY <1>5 DEF Ask, Goto, TypeOK, Steps, durable, shared
<1>6. QED
  BY <1>2, <1>3, <1>4, <1>5

\* What FrameStep asks of every check.
Settled ==
  \A c \in Checks : /\ local'[c].row.id <= lastId
                    /\ \A r \in local'[c].items : r.id <= lastId
                    /\ pc'[c] = "recording" => pc[c] = "recording" /\ local'[c].row = local[c].row
                    /\ pc'[c] = "marking" => local'[c].row.id \in sent'
                    /\ pc'[c] \in {"posting", "marking", "recording"} => local'[c].left >= 1

\* A check that goes on with its batch settles, and it disturbs no other.
LEMMA OnwardSettles ==
  ASSUME IInv, NEW c \in Checks, Onward(c), sent \subseteq sent'
  PROVE  Settled
<1>1. SUFFICES ASSUME NEW d \in Checks
      PROVE  /\ local'[d].row.id <= lastId
             /\ \A r \in local'[d].items : r.id <= lastId
             /\ pc'[d] = "recording" => pc[d] = "recording" /\ local'[d].row = local[d].row
             /\ pc'[d] = "marking" => local'[d].row.id \in sent'
             /\ pc'[d] \in {"posting", "marking", "recording"} => local'[d].left >= 1
  BY DEF Settled
<1>2. CASE d = c
  BY <1>2 DEF Onward
<1>3. CASE d # c
  BY <1>3 DEF Onward, IInv, IdsAreUsed, MarksAreDelivered, TriesAreLeft, At, Current
<1>4. QED
  BY <1>2, <1>3

\* The steps up to the alert.
LEMMA EarlyStep ==
  ASSUME IInv, NEW c \in Checks, Measure(c) \/ Count(c) \/ Judge(c) \/ Ask(c)
  PROVE  IInv'
<1>1. UNCHANGED <<durable, sent>>
  BY DEF Measure, Count, Judge, Ask
<1>2. /\ TypeOK' /\ local'[c].row.id \in {0, local[c].row.id} /\ local'[c].items \in {{}, local[c].items}
      /\ (\A d \in Checks \ {c} : local'[d] = local[d] /\ pc'[d] = pc[d])
      /\ pc'[c] \notin {"posting", "marking", "recording"}
  BY TypesBeforeListing DEF IInv
<1>3. \A d \in Checks :
        /\ local[d].row.id <= lastId /\ 0 <= lastId
        /\ \A r \in local[d].items : r.id <= lastId
        /\ pc[d] = "marking" => local[d].row.id \in sent
        /\ pc[d] \in {"posting", "marking", "recording"} => local[d].left >= 1
  BY DEF IInv, TypeOK, IdsAreUsed, MarksAreDelivered, TriesAreLeft, At, Current
<1>4. Settled
  BY <1>1, <1>2, <1>3 DEF Settled
<1>5. QED
  BY <1>1, <1>2, <1>4, FrameStep DEF Settled

\* The batch is listed from the queue, whose ids are used.
LEMMA ListStep ==
  ASSUME IInv, NEW c \in Checks, List(c)
  PROVE  IInv'
<1> DEFINE batch == {r \in queue : Cardinality({other \in queue : other.id < r.id}) < Batch}
<1>1. Take(c, batch) /\ UNCHANGED <<shared, durable, sent, faults>>
  BY DEF List
<1>2. batch \in SUBSET Row /\ \A r \in batch : r.id <= lastId
  BY DEF IInv, TypeOK, IdsAreUsed
<1> HIDE DEF batch
<1>3. Onward(c)
  BY <1>1, <1>2, TakeGoesOn DEF IInv
<1>4. Settled
  BY <1>1, <1>3, OnwardSettles
<1>5. TypeOK'
  BY <1>1, <1>3 DEF IInv, TypeOK, Onward, shared, durable
<1>6. QED
  BY <1>1, <1>4, <1>5, FrameStep DEF Settled

\* What is about to be marked has just been delivered.
LEMMA DeliveredStep ==
  ASSUME IInv, NEW c \in Checks, PostDelivered(c)
  PROVE  IInv'
<1>1. /\ pc[c] = "posting" /\ pc' = [pc EXCEPT ![c] = "marking"] /\ sent' = sent \cup {local[c].row.id}
      /\ UNCHANGED <<shared, durable, local, faults>>
  BY DEF PostDelivered, At, Goto, Current
<1>2. TypeOK'
  <2>1. local[c].row.id \in Nat
    BY DEF IInv, TypeOK, Local, Row
  <2>2. QED
    BY <1>1, <2>1 DEF IInv, TypeOK, shared, durable, Steps
<1>3. Settled
  BY <1>1 DEF Settled, IInv, TypeOK, IdsAreUsed, MarksAreDelivered, TriesAreLeft, At, Current
<1>4. QED
  BY <1>1, <1>2, <1>3, FrameStep DEF Settled

\* The environment: forgetting, a failed transaction, a restart.
LEMMA QuietStep ==
  ASSUME IInv, \/ \E c \in Checks : StorageFails(c)
               \/ \E key \in recent : Forget(key)
               \/ Restart
               \/ UNCHANGED vars
  PROVE  IInv'
<1> USE DeliveryAssumption DEF DeliveryAssumption
<1>1. Blank \in Local /\ Blank.row.id = 0 /\ Blank.items = {}
  BY DEF Blank, NoRow, Local, Row
<1>2. 0 <= lastId
  BY DEF IInv, TypeOK
<1>3. CASE \E key \in recent : Forget(key)
  <2>1. UNCHANGED <<streak, durable, pc, local, sent, faults>> /\ recent' \subseteq recent
    BY <1>3 DEF Forget
  <2>2. TypeOK' /\ Settled
    BY <2>1 DEF IInv, TypeOK, Settled, IdsAreUsed, MarksAreDelivered, TriesAreLeft, At, Current, durable
  <2>3. QED
    BY <2>1, <2>2, FrameStep DEF Settled
<1>4. CASE UNCHANGED vars
  <2>1. TypeOK' /\ Settled /\ UNCHANGED <<durable, sent>>
    BY <1>4 DEF IInv, TypeOK, Settled, IdsAreUsed, MarksAreDelivered, TriesAreLeft, At, Current, vars, shared, durable
  <2>2. QED
    BY <2>1, FrameStep DEF Settled
<1>5. ASSUME NEW c \in Checks, StorageFails(c) PROVE IInv'
  <2>1. /\ pc' = [pc EXCEPT ![c] = "idle"] /\ local' = [local EXCEPT ![c] = Blank]
        /\ faults' = faults + 1 /\ faults < MaxFaults /\ UNCHANGED <<shared, durable, sent>>
    BY <1>5 DEF StorageFails, Goto
  <2>2. TypeOK'
    BY <1>1, <2>1 DEF IInv, TypeOK, shared, durable, Steps
  <2>3. Settled
    BY <1>1, <1>2, <2>1 DEF IInv, TypeOK, Settled, IdsAreUsed, MarksAreDelivered, TriesAreLeft, At, Current
  <2>4. QED
    BY <2>1, <2>2, <2>3, FrameStep DEF Settled
<1>6. CASE Restart
  <2>1. /\ pc' = [c \in Checks |-> "idle"] /\ local' = [c \in Checks |-> Blank] /\ streak' = 0 /\ recent' = {}
        /\ faults' = faults + 1 /\ faults < MaxFaults /\ UNCHANGED <<durable, sent>>
    BY <1>6 DEF Restart
  <2>2. TypeOK'
    BY <1>1, <2>1 DEF IInv, TypeOK, durable, Steps
  <2>3. Settled
    BY <1>1, <1>2, <2>1 DEF Settled
  <2>4. QED
    BY <2>1, <2>2, <2>3, FrameStep DEF Settled
<1>7. QED
  BY <1>3, <1>4, <1>5, <1>6

\* Where nobody comes to "recording", no row has more recorders than before.
LEMMA RecordersShrink ==
  ASSUME \A d \in Checks : pc'[d] = "recording" => pc[d] = "recording" /\ local'[d].row = local[d].row
  PROVE  \A id : /\ Cardinality(Recorders(id)') \in Nat /\ Cardinality(Recorders(id)) \in Nat
                 /\ Cardinality(Recorders(id)') <= Cardinality(Recorders(id))
<1> SUFFICES ASSUME NEW id
    PROVE /\ Cardinality(Recorders(id)') \in Nat /\ Cardinality(Recorders(id)) \in Nat
          /\ Cardinality(Recorders(id)') <= Cardinality(Recorders(id))
  OBVIOUS
<1>1. Recorders(id)' \in SUBSET Recorders(id)
  BY DEF Recorders, At, Current
<1>2. Cardinality(Recorders(id)') <= Cardinality(Recorders(id)) /\ IsFiniteSet(Recorders(id)')
  BY <1>1, RecordersAreFinite, FS_Subset
<1>3. QED
  BY <1>2, RecordersAreFinite, FS_CardinalityType

\* A new row has an id and a key that no other has, and nobody was refused it yet.
LEMMA EnqueueStep ==
  ASSUME IInv, NEW c \in Checks, Enqueue(c)
  PROVE  IInv'
<1> USE DeliveryAssumption DEF DeliveryAssumption
<1> DEFINE key == local[c].streak
<1>1. /\ pc[c] = "queueing" /\ pc' = [pc EXCEPT ![c] = "listing"]
      /\ UNCHANGED <<streak, recent, dead, local, sent, faults>>
  BY DEF Enqueue, At, Goto, shared
<1>2. /\ pc' \in [Checks -> Steps] /\ pc'[c] = "listing"
      /\ \A d \in Checks : d # c => pc'[d] = pc[d]
  BY <1>1 DEF IInv, TypeOK, Steps
<1>3. Settled
  BY <1>1, <1>2 DEF Settled, IInv, TypeOK, IdsAreUsed, MarksAreDelivered, TriesAreLeft, At, Current
<1>4. CASE \E r \in queue : r.key = key
  <2>1. UNCHANGED durable
    BY <1>1, <1>4 DEF Enqueue, durable
  <2>2. TypeOK'
    BY <1>1, <1>2, <2>1 DEF IInv, TypeOK, durable
  <2>3. QED
    BY <1>1, <1>3, <2>1, <2>2, FrameStep DEF Settled
<1>5. CASE ~ \E r \in queue : r.key = key
  <2>0. lastId \in Nat /\ [id |-> lastId + 1, key |-> key, attempts |-> 0, refused |-> 0] \in Row
    BY DEF Row, IInv, TypeOK, Local
  <2> PICK n \in Row : n = [id |-> lastId + 1, key |-> key, attempts |-> 0, refused |-> 0]
    BY <2>0
  <2>1. lastId' = lastId + 1 /\ queue' = queue \cup {n}
    BY <1>5 DEF Enqueue
  <2>2. /\ n.id = lastId + 1 /\ n.key = key /\ n.attempts = 0 /\ n.refused = 0 /\ lastId \in Nat
    BY <2>0
  <2>3. TypeOK'
    BY <1>1, <1>2, <2>1, <2>2 DEF IInv, TypeOK
  <2>4. NoAlertIsLost'
    BY <1>1, <2>1, <2>2 DEF IInv, NoAlertIsLost, Ids
  <2>5. \A r \in queue \cup dead : r.id # n.id
    BY <2>2 DEF IInv, IdsAreUsed
  <2>6. RowsAreDistinct'
    <3>1. \A r \in queue : r.key # n.key
      BY <1>5, <2>2
    <3>2. \A r, q \in queue' : r.id = q.id \/ r.key = q.key => r = q
      BY <2>1, <2>5, <3>1 DEF IInv, RowsAreDistinct
    <3>3. \A r \in queue', q \in dead : r.id # q.id
      BY <2>1, <2>5 DEF IInv, RowsAreDistinct, Ids
    <3>4. QED
      BY <1>1, <3>2, <3>3 DEF IInv, RowsAreDistinct, Ids
  <2>7. IdsAreUsed'
    <3>1. \A r \in queue' \cup dead' : r.id \in 1 .. lastId'
      BY <1>1, <2>1, <2>2 DEF IInv, IdsAreUsed
    <3>2. \A d \in Checks : local[d].row.id \in Nat /\ \A r \in local[d].items : r.id \in Nat
      BY DEF IInv, TypeOK, Local, Row
    <3>3. \A d \in Checks : local'[d].row.id <= lastId' /\ \A r \in local'[d].items : r.id <= lastId'
      BY <1>1, <2>1, <2>2, <3>2 DEF IInv, IdsAreUsed, Current
    <3>4. QED
      BY <3>1, <3>3 DEF IdsAreUsed, Current
  <2>8. TriesAreLeft' /\ MarksAreDelivered'
    BY <1>3 DEF Settled, TriesAreLeft, MarksAreDelivered, At, Current
  <2>9. RefusalsCoverAttempts'
    <3>1. \A id : /\ Cardinality(Recorders(id)') \in Nat /\ Cardinality(Recorders(id)) \in Nat
                  /\ Cardinality(Recorders(id)') <= Cardinality(Recorders(id))
      BY <1>3, RecordersShrink DEF Settled
    <3>2. Recorders(n.id)' = {}
      BY <1>1, <2>2 DEF Recorders, At, Current, IInv, IdsAreUsed, TypeOK, Local, Row
    <3>3. n.attempts < MaxAttempts /\ n.refused >= n.attempts + Cardinality(Recorders(n.id)')
      BY <2>2, <3>2, FS_EmptySet
    <3>4. ASSUME NEW r \in queue
          PROVE  r.attempts < MaxAttempts /\ r.refused >= r.attempts + Cardinality(Recorders(r.id)')
      <4>1. r.refused \in Nat /\ r.attempts \in Nat
        BY DEF IInv, TypeOK, Row
      <4>2. QED
        BY <3>1, <4>1 DEF IInv, RefusalsCoverAttempts
    <3>5. QED
      BY <1>1, <2>1, <3>3, <3>4 DEF IInv, RefusalsCoverAttempts
  <2>10. QED
    BY <2>3, <2>4, <2>6, <2>7, <2>8, <2>9 DEF IInv
<1>6. QED
  BY <1>4, <1>5

\* The memory of what was sent is not the queue's concern.
LEMMA RememberStep ==
  ASSUME IInv, NEW c \in Checks, Remember(c)
  PROVE  IInv'
<1>1. /\ recent' = recent \cup {local[c].row.key} /\ Take(c, local[c].items)
      /\ UNCHANGED <<streak, durable, sent, faults>>
  BY DEF Remember, Current
<1>2. local[c].row.key \in Nat /\ local[c].items \in SUBSET Row
  BY DEF IInv, TypeOK, Local, Row
<1>3. Onward(c)
  BY <1>1, <1>2, TakeGoesOn DEF IInv, IdsAreUsed
<1>4. Settled
  BY <1>1, <1>3, OnwardSettles
<1>5. TypeOK'
  BY <1>1, <1>2, <1>3 DEF IInv, TypeOK, Onward, durable
<1>6. QED
  BY <1>1, <1>4, <1>5, FrameStep DEF Settled

\* What is marked has been delivered, so that it may leave the queue.
LEMMA MarkStep ==
  ASSUME IInv, NEW c \in Checks, Mark(c)
  PROVE  IInv'
<1> DEFINE x == local[c].row.id
<1>1. /\ pc[c] = "marking" /\ pc' = [pc EXCEPT ![c] = "remembering"]
      /\ queue' = {r \in queue : r.id # x}
      /\ UNCHANGED <<streak, recent, lastId, dead, local, sent, faults>>
  BY DEF Mark, At, Goto, Current, shared
<1>2. pc' \in [Checks -> Steps] /\ pc'[c] = "remembering" /\ \A d \in Checks \ {c} : pc'[d] = pc[d]
  BY <1>1 DEF IInv, TypeOK, Steps
<1>3. Settled
  BY <1>1, <1>2 DEF Settled, IInv, IdsAreUsed, MarksAreDelivered, TriesAreLeft, At, Current
<1>4. TypeOK'
  BY <1>1, <1>2 DEF IInv, TypeOK
<1>5. x \in sent
  BY <1>1 DEF IInv, MarksAreDelivered, At, Current
<1>6. NoAlertIsLost'
  BY <1>1, <1>5 DEF IInv, NoAlertIsLost, Ids
<1>7. RowsAreDistinct'
  BY <1>1 DEF IInv, RowsAreDistinct, Ids
<1>8. IdsAreUsed' /\ TriesAreLeft' /\ MarksAreDelivered'
  BY <1>1, <1>3 DEF Settled, IInv, IdsAreUsed, TriesAreLeft, MarksAreDelivered, At, Current
<1>9. RefusalsCoverAttempts'
  <2>1. \A id : /\ Cardinality(Recorders(id)') \in Nat /\ Cardinality(Recorders(id)) \in Nat
                /\ Cardinality(Recorders(id)') <= Cardinality(Recorders(id))
    BY <1>3, RecordersShrink DEF Settled
  <2>2. ASSUME NEW r \in queue
        PROVE  r.attempts < MaxAttempts /\ r.refused >= r.attempts + Cardinality(Recorders(r.id)')
    <3>1. r.refused \in Nat /\ r.attempts \in Nat
      BY DEF IInv, TypeOK, Row
    <3>2. QED
      BY <2>1, <3>1 DEF IInv, RefusalsCoverAttempts
  <2>3. queue' \subseteq queue /\ dead' = dead
    BY <1>1
  <2>4. QED
    BY <2>2, <2>3 DEF IInv, RefusalsCoverAttempts
<1>10. QED
  BY <1>4, <1>6, <1>7, <1>8, <1>9 DEF IInv

\* A refusal of a row is one recorder more for it, and for no other row.
LEMMA FailedStep ==
  ASSUME IInv, NEW c \in Checks, PostFailed(c)
  PROVE  IInv'
<1> USE DeliveryAssumption DEF DeliveryAssumption
<1> PICK x : x = local[c].row.id
  OBVIOUS
<1> DEFINE After(r) == IF r.id = x THEN [r EXCEPT !.refused = @ + 1] ELSE r
<1>1. /\ pc[c] = "posting" /\ pc' = [pc EXCEPT ![c] = "recording"]
      /\ queue' = {After(r) : r \in queue}
      /\ UNCHANGED <<streak, recent, lastId, dead, local, sent, faults>>
  BY DEF PostFailed, At, Goto, Current, shared
<1>2. \A r \in queue : /\ After(r) \in Row /\ After(r).id = r.id /\ After(r).key = r.key
                       /\ After(r).attempts = r.attempts
                       /\ After(r).refused = IF r.id = x THEN r.refused + 1 ELSE r.refused
  BY DEF IInv, TypeOK, Row
<1> HIDE DEF After
<1>3. TypeOK'
  BY <1>1, <1>2 DEF IInv, TypeOK, Steps
<1>4. Ids(queue') = Ids(queue)
  BY <1>1, <1>2 DEF Ids
<1>5. NoAlertIsLost'
  BY <1>1, <1>4 DEF IInv, NoAlertIsLost, Ids
<1>6. RowsAreDistinct'
  <2>1. ASSUME NEW r \in queue', NEW q \in queue', r.id = q.id \/ r.key = q.key PROVE r = q
    <3>1. PICK r0 \in queue, q0 \in queue : r = After(r0) /\ q = After(q0)
      BY <1>1
    <3>2. r0.id = q0.id \/ r0.key = q0.key
      BY <1>2, <2>1, <3>1
    <3>3. QED
      BY <3>1, <3>2 DEF IInv, RowsAreDistinct
  <2>2. QED
    BY <1>1, <1>4, <2>1 DEF IInv, RowsAreDistinct, Ids
<1>7. IdsAreUsed'
  <2>1. \A r \in queue' : r.id \in 1 .. lastId
    BY <1>1, <1>2 DEF IInv, IdsAreUsed
  <2>2. QED
    BY <1>1, <2>1 DEF IInv, IdsAreUsed, Current
<1>8. TriesAreLeft' /\ MarksAreDelivered'
  BY <1>1 DEF IInv, TypeOK, TriesAreLeft, MarksAreDelivered, At, Current
<1>9. RefusalsCoverAttempts'
  <2>1. Recorders(x)' = Recorders(x) \cup {c} /\ c \notin Recorders(x)
    BY <1>1 DEF Recorders, At, Current, IInv, TypeOK
  <2>2. \A id : id # x => Recorders(id)' = Recorders(id)
    BY <1>1 DEF Recorders, At, Current, IInv, TypeOK
  <2>3. Cardinality(Recorders(x)') = Cardinality(Recorders(x)) + 1
    BY <2>1, RecordersAreFinite, FS_AddElement
  <2>4. ASSUME NEW r \in queue
        PROVE  /\ After(r).attempts < MaxAttempts
               /\ After(r).refused >= After(r).attempts + Cardinality(Recorders(After(r).id)')
    <3>1. /\ r.refused \in Nat /\ r.attempts \in Nat /\ Cardinality(Recorders(r.id)) \in Nat
          /\ r.attempts < MaxAttempts /\ r.refused >= r.attempts + Cardinality(Recorders(r.id))
      BY RecordersAreFinite DEF IInv, TypeOK, RefusalsCoverAttempts, Row
    <3>2. CASE r.id = x
      <4>1. Cardinality(Recorders(r.id)') = Cardinality(Recorders(r.id)) + 1
        BY <2>3, <3>2
      <4>2. QED
        BY <1>2, <3>1, <3>2, <4>1
    <3>3. CASE r.id # x
      <4>1. Cardinality(Recorders(r.id)') = Cardinality(Recorders(r.id))
        BY <2>2, <3>3
      <4>2. QED
        BY <1>2, <3>1, <3>3, <4>1
    <3>4. QED
      BY <3>2, <3>3
  <2>5. ASSUME NEW r \in queue'
        PROVE  r.attempts < MaxAttempts /\ r.refused >= r.attempts + Cardinality(Recorders(r.id)')
    <3>1. PICK r0 \in queue : r = After(r0)
      BY <1>1
    <3>2. QED
      BY <2>4, <3>1
  <2>6. QED
    BY <1>1, <2>5 DEF IInv, RefusalsCoverAttempts
<1>10. QED
  BY <1>3, <1>5, <1>6, <1>7, <1>8, <1>9 DEF IInv

\* A refusal written down is one recorder less; the last one makes a dead letter of
\* a row that was refused as often as it may be.
LEMMA RecordStep ==
  ASSUME IInv, NEW c \in Checks, Record(c)
  PROVE  IInv'
<1> USE DeliveryAssumption DEF DeliveryAssumption
<1> PICK x : x = local[c].row.id
  OBVIOUS
<1>1. /\ pc[c] = "recording" /\ UNCHANGED <<streak, recent, lastId, sent, faults>>
      /\ local[c].left >= 1 /\ local[c] \in Local /\ local[c].items \in SUBSET Row
      /\ \A r \in local[c].items : r.id <= lastId
  BY DEF Record, At, shared, IInv, TypeOK, TriesAreLeft, IdsAreUsed, Local
<1>2. Retry(c) => Onward(c)
  BY <1>1, RetryGoesOn DEF IInv
<1>3. Take(c, local[c].items) => Onward(c)
  BY <1>1, TakeGoesOn DEF IInv
<1>4. CASE (\A r \in queue : r.id # x) /\ Retry(c) /\ UNCHANGED <<queue, dead>>
  <2>1. Onward(c) /\ Settled /\ UNCHANGED durable
    BY <1>1, <1>2, <1>4, OnwardSettles DEF durable
  <2>2. TypeOK'
    BY <1>1, <2>1 DEF IInv, TypeOK, Onward, durable
  <2>3. QED
    BY <1>1, <2>1, <2>2, FrameStep DEF Settled
<1>5. ASSUME NEW r \in queue, r.id = x,
             IF r.attempts + 1 >= MaxAttempts
             THEN /\ dead' = dead \cup {[r EXCEPT !.attempts = @ + 1]}
                  /\ queue' = queue \ {r}
                  /\ Take(c, local[c].items)
             ELSE /\ queue' = (queue \ {r}) \cup {[r EXCEPT !.attempts = @ + 1]}
                  /\ Retry(c)
                  /\ UNCHANGED dead
      PROVE  IInv'
  <2>1. Onward(c)
    BY <1>2, <1>3, <1>5
  <2>2. Settled
    BY <1>1, <2>1, OnwardSettles
  <2>3. \A id : /\ Cardinality(Recorders(id)') \in Nat /\ Cardinality(Recorders(id)) \in Nat
                /\ Cardinality(Recorders(id)') <= Cardinality(Recorders(id))
    BY <2>2, RecordersShrink DEF Settled
  <2>4. Recorders(x)' = Recorders(x) \ {c} /\ c \in Recorders(x)
    BY <1>1, <2>1 DEF Recorders, At, Current, Onward
  <2>5. Cardinality(Recorders(x)') = Cardinality(Recorders(x)) - 1
    <3>1. IsFiniteSet(Recorders(x))
      BY RecordersAreFinite
    <3>2. Cardinality(Recorders(x) \ {c}) = Cardinality(Recorders(x)) - 1
      BY <2>4, <3>1, FS_RemoveElement
    <3>3. QED
      BY <2>4, <3>2
  <2> r \in Row
    BY DEF IInv, TypeOK
  <2>6. PICK n \in Row : /\ n = [r EXCEPT !.attempts = @ + 1]
                         /\ n.id = r.id /\ n.key = r.key /\ n.refused = r.refused
                         /\ n.attempts = r.attempts + 1
    <3>1. [r EXCEPT !.attempts = @ + 1] \in Row
      BY DEF Row
    <3>2. QED
      BY <3>1 DEF Row
  <2>7. /\ r.refused \in Nat /\ r.attempts \in Nat /\ r.attempts < MaxAttempts
        /\ r.refused >= r.attempts + Cardinality(Recorders(x))
    BY <1>5 DEF IInv, TypeOK, RefusalsCoverAttempts, Row
  <2>8. n.refused >= n.attempts + Cardinality(Recorders(x)') /\ n.refused >= n.attempts
    BY <2>3, <2>5, <2>6, <2>7
  <2>9. ASSUME NEW q \in queue
        PROVE  q.attempts < MaxAttempts /\ q.refused >= q.attempts + Cardinality(Recorders(q.id)')
    <3>1. q.refused \in Nat /\ q.attempts \in Nat
      BY DEF IInv, TypeOK, Row
    <3>2. QED
      BY <2>3, <3>1 DEF IInv, RefusalsCoverAttempts
  <2>10. IdsAreUsed' /\ TriesAreLeft' /\ MarksAreDelivered'
    <3>1. \A q \in queue' \cup dead' : q.id \in 1 .. lastId
      BY <1>5, <2>6 DEF IInv, IdsAreUsed
    <3>2. QED
      BY <1>1, <2>2, <3>1 DEF Settled, IdsAreUsed, TriesAreLeft, MarksAreDelivered, At, Current
  <2>11. /\ \A q \in queue : q.id = n.id \/ q.key = n.key => q = r
         /\ \A q \in dead : q.id # n.id
    BY <2>6 DEF IInv, RowsAreDistinct, Ids
  <2>12. CASE r.attempts + 1 >= MaxAttempts
    <3>1. dead' = dead \cup {n} /\ queue' = queue \ {r}
      BY <1>5, <2>6, <2>12
    <3>2. TypeOK'
      BY <1>1, <2>1, <3>1 DEF IInv, TypeOK, Onward
    <3>3. NoAlertIsLost'
      <4>1. Ids(queue) \cup Ids(dead) \subseteq Ids(queue') \cup Ids(dead')
        BY <2>6, <3>1 DEF Ids
      <4>2. QED
        BY <1>1, <4>1 DEF IInv, NoAlertIsLost, Ids
    <3>4. RowsAreDistinct'
      <4>1. \A q1, q2 \in queue' : q1.id = q2.id \/ q1.key = q2.key => q1 = q2
        BY <3>1 DEF IInv, RowsAreDistinct
      <4>2. \A q1, q2 \in dead' : q1.id = q2.id => q1 = q2
        BY <2>11, <3>1 DEF IInv, RowsAreDistinct
      <4>3. \A q1 \in queue', q2 \in dead' : q1.id # q2.id
        BY <2>11, <3>1 DEF IInv, RowsAreDistinct, Ids
      <4>4. QED
        BY <4>1, <4>2, <4>3 DEF RowsAreDistinct, Ids
    <3>5. n.attempts = MaxAttempts /\ n.refused >= MaxAttempts
      BY <2>6, <2>7, <2>8, <2>12
    <3>6. RefusalsCoverAttempts'
      BY <2>9, <3>1, <3>5 DEF IInv, RefusalsCoverAttempts
    <3>7. QED
      BY <2>10, <3>2, <3>3, <3>4, <3>6 DEF IInv
  <2>13. CASE ~ (r.attempts + 1 >= MaxAttempts)
    <3>1. dead' = dead /\ queue' = (queue \ {r}) \cup {n}
      BY <1>5, <2>6, <2>13
    <3>2. TypeOK'
      BY <1>1, <2>1, <3>1 DEF IInv, TypeOK, Onward
    <3>3. NoAlertIsLost'
      <4>1. Ids(queue) \subseteq Ids(queue')
        BY <2>6, <3>1 DEF Ids
      <4>2. QED
        BY <1>1, <3>1, <4>1 DEF IInv, NoAlertIsLost, Ids
    <3>4. RowsAreDistinct'
      <4>1. \A q1, q2 \in queue' : q1.id = q2.id \/ q1.key = q2.key => q1 = q2
        BY <2>11, <3>1 DEF IInv, RowsAreDistinct
      <4>2. \A q1 \in queue', q2 \in dead' : q1.id # q2.id
        BY <2>11, <3>1 DEF IInv, RowsAreDistinct, Ids
      <4>3. QED
        BY <3>1, <4>1, <4>2 DEF IInv, RowsAreDistinct, Ids
    <3>5. n.attempts < MaxAttempts /\ n.refused >= n.attempts + Cardinality(Recorders(n.id)')
      BY <1>5, <2>6, <2>7, <2>8, <2>13
    <3>6. RefusalsCoverAttempts'
      BY <2>9, <3>1, <3>5 DEF IInv, RefusalsCoverAttempts
    <3>7. QED
      BY <2>10, <3>2, <3>3, <3>4, <3>6 DEF IInv
  <2>14. QED
    BY <2>12, <2>13
<1>6. QED
  BY <1>4, <1>5 DEF Record, Current

-----------------------------------------------------------------------------
(* Theorems                                                                *)

\* The queue is empty to begin with, and nobody is at work on it.
LEMMA InitHolds == Init => IInv
<1> USE DeliveryAssumption DEF DeliveryAssumption
<1> SUFFICES ASSUME Init PROVE IInv
  OBVIOUS
<1>1. Blank \in Local /\ Blank.row.id = 0 /\ Blank.items = {}
  BY DEF Blank, NoRow, Local, Row
<1>2. TypeOK
  BY <1>1 DEF Init, TypeOK, Steps
<1>3. NoAlertIsLost /\ RowsAreDistinct /\ RefusalsCoverAttempts
  BY DEF Init, NoAlertIsLost, RowsAreDistinct, RefusalsCoverAttempts, Ids
<1>4. IdsAreUsed /\ TriesAreLeft /\ MarksAreDelivered
  BY <1>1 DEF Init, IdsAreUsed, TriesAreLeft, MarksAreDelivered, Current, At
<1>5. QED
  BY <1>2, <1>3, <1>4 DEF IInv

\* Every step of every check, and everything that may befall them, keeps IInv.
THEOREM Invariance == Spec => []IInv
<1>1. ASSUME IInv, [Next]_vars PROVE IInv'
  <2>1. ASSUME NEW c \in Checks, Step(c) PROVE IInv'
    <3>1. CASE Measure(c) \/ Count(c) \/ Judge(c) \/ Ask(c)
      BY <1>1, <3>1, EarlyStep
    <3>2. CASE Enqueue(c)
      BY <1>1, <3>2, EnqueueStep
    <3>3. CASE List(c)
      BY <1>1, <3>3, ListStep
    <3>4. CASE PostDelivered(c)
      BY <1>1, <3>4, DeliveredStep
    <3>5. CASE PostFailed(c)
      BY <1>1, <3>5, FailedStep
    <3>6. CASE Mark(c)
      BY <1>1, <3>6, MarkStep
    <3>7. CASE Remember(c)
      BY <1>1, <3>7, RememberStep
    <3>8. CASE Record(c)
      BY <1>1, <3>8, RecordStep
    <3>9. QED
      BY <2>1, <3>1, <3>2, <3>3, <3>4, <3>5, <3>6, <3>7, <3>8 DEF Step
  <2>2. CASE (\E c \in Checks : StorageFails(c)) \/ (\E key \in recent : Forget(key)) \/ Restart \/ UNCHANGED vars
    BY <1>1, <2>2, QuietStep
  <2>3. QED
    BY <1>1, <2>1, <2>2 DEF Next
<1>2. QED
  BY <1>1, InitHolds, PTL DEF Spec

\* The streaks, the queue and the dead letters keep their types.
THEOREM TypeCorrect == Spec => []TypeOK
<1>1. IInv => TypeOK
  BY DEF IInv
<1>2. QED
  BY <1>1, Invariance, PTL

\* Whatever fails, a queued alert is waiting, delivered or a dead letter.
THEOREM AlertsAreNotLost == Spec => []NoAlertIsLost
<1>1. IInv => NoAlertIsLost
  BY DEF IInv
<1>2. QED
  BY <1>1, Invariance, PTL

\* record_alert_webhook_failure gives an alert up only after as many refusals as
\* there are attempts, however many checks share them.
THEOREM GivenUpLate == Spec => []GivenUpAfterAllAttempts
<1>1. IInv => GivenUpAfterAllAttempts
  BY DEF IInv, RefusalsCoverAttempts, GivenUpAfterAllAttempts
<1>2. QED
  BY <1>1, Invariance, PTL

\* The queue holds one row per alert, and no row that is also a dead letter.
THEOREM OneRowPerAlert == Spec => []RowsAreDistinct
<1>1. IInv => RowsAreDistinct
  BY DEF IInv
<1>2. QED
  BY <1>1, Invariance, PTL

=============================================================================
