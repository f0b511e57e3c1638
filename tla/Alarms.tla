-------------------------------- MODULE Alarms --------------------------------
(***************************************************************************)
(* The alarm desk: streak alarms computed from the activity log, the       *)
(* acknowledgements and silences an operator puts on them, their history,  *)
(* and the retention cleanup that purges all of these.                     *)
(*                                                                         *)
(* Every method of the store is one transaction under its lock, and one    *)
(* step here; what calls several of them is several steps.  The handlers   *)
(* of the desk and the code that writes log rows run on one event loop, a  *)
(* handler from start to end; the API's readers and the scheduler's job    *)
(* run in threads of their own, between any two transactions of a handler. *)
(*                                                                         *)
(* A minute is a tick.  An alarm's key is its kind and its device.  Names, *)
(* notes, severities and the rendering of the lists are left out.          *)
(***************************************************************************)
EXTENDS Integers, FiniteSets

CONSTANTS
  Kinds,           \* the two logs: status_snapshots and command_audit
  Devices,         \* device_ip of log rows
  Threshold,       \* rows of a streak, by kind
  Retention,       \* retention of a log, by kind
  EventRetention,  \* retention of the alarm history
  Limit,           \* rows of each log that a reading fetches
  Windows,         \* window_minutes; "all" is one longer than the system runs
  SilenceMinutes,  \* lengths of a silence
  Pasts,           \* what a log may hold when the process starts
  PastSilences,    \* how long an alarm may still be silenced by then
  MaxLag,          \* bound of the model: age of a row when it is written
  MaxNow,          \* bound of the model: the clock
  MaxActions       \* bound of the model: rows, clicks, API calls and scheduled runs

ASSUME AlarmAssumption ==
  /\ Threshold \in [Kinds -> Nat \ {0}] /\ Retention \in [Kinds -> Nat \ {0}]
  /\ EventRetention \in Nat \ {0} /\ Limit \in Nat \ {0}
  /\ Windows \subseteq Nat \ {0} /\ SilenceMinutes \subseteq Nat \ {0}
  /\ Pasts \subseteq SUBSET [id : Int, device : Devices, good : BOOLEAN, at : Int]
  /\ \A past \in Pasts : \A q, r \in past :
       r.id <= 0 /\ r.at <= 0 /\ (q.id > r.id => q.at >= r.at - MaxLag)
  /\ PastSilences \subseteq Nat
  /\ MaxLag \in Nat /\ MaxNow \in Nat
  /\ MaxActions \in Nat

VARIABLES
  now,       \* the clock
  rows,      \* the log of each kind
  acks,      \* alarm_acknowledgements: keys
  silences,  \* alarm_silences: until when, 0 when there is no row
  events,    \* alarm_events
  actions,   \* rows, clicks, API calls and scheduled runs so far; the source of row ids
  desk,      \* the handler that the event loop is running
  view,      \* a reading of the alarms, by the desk's refresh and by an API call
  runs,      \* the retention runs of the scheduler and of the desk
  report,    \* _last_cleanup_status: ok
  torn,      \* what an operator changed and the history could not record
  span       \* what has been so since a reading began

store == <<rows, acks, silences, events>>
alarmVars == <<now, store, actions, desk, view, runs, report, torn, span>>

Keys == Kinds \X Devices
Readers == {"desk", "api"}
Runners == {"desk", "scheduler"}
AckOps == {"acknowledge", "clear_acknowledgement"}
SilenceOps == {"silence", "clear_silence"}
Ops == AckOps \cup SilenceOps

\* What an event is about: the acknowledgement of its key, or its silence.
Subject(op) == IF op \in AckOps THEN "ack" ELSE "silence"

InForce(k) == silences[k] > now
Open == {k \in Keys : k \notin acks /\ ~ InForce(k)}
Quiet == {k \in Keys : InForce(k)}

----------------------------------------------------------------------------
(* The alarms that a reading derives from the log. *)

\* ORDER BY id DESC LIMIT, then the rows of the window.
Fetched(kind, window) ==
  {r \in rows[kind] : /\ Cardinality({q \in rows[kind] : q.id > r.id}) < Limit
                      /\ r.at >= now - window}

\* Sorted by timestamp; rows of one instant stay in the order of their ids.
Newer(q, r) == q.at > r.at \/ (q.at = r.at /\ q.id > r.id)

\* The newest Threshold rows of a device are all bad.
Streak(kind, device, window) ==
  LET own == {r \in Fetched(kind, window) : r.device = device}
  IN /\ Cardinality(own) >= Threshold[kind]
     /\ \A r \in own : Cardinality({q \in own : Newer(q, r)}) < Threshold[kind] => ~ r.good

Raised(window) == {k \in Keys : Streak(k[1], k[2], window)}

----------------------------------------------------------------------------
NoView == [step |-> "idle", raised |-> {}, known |-> {},
           active |-> {}, acknowledged |-> {}, silenced |-> {}]
Desk(step) == [step |-> step]
NoRun == [step |-> "idle", start |-> 0]
NoSpan == [open |-> {}, acked |-> {}, quiet |-> {}]

AlarmInit ==
  /\ now = 0
  /\ rows \in [Kinds -> Pasts]
  /\ acks = {} /\ silences \in [Keys -> PastSilences] /\ events = {} /\ actions = 0
  /\ desk = Desk("idle")
  /\ view = [r \in Readers |-> NoView]
  /\ runs = [t \in Runners |-> NoRun] /\ report = FALSE
  /\ torn = {} /\ span = [r \in Readers |-> NoSpan]

\* A click is followed by its write within the minute: the lock is held for
\* milliseconds and a busy database gives up after seconds.
Tick ==
  /\ now < MaxNow /\ desk.step # "write"
  /\ now' = now + 1
  /\ UNCHANGED <<store, actions, desk, view, runs, report, torn>>

(* log_status_snapshot and log_command, from handlers and loops. *)
LogRow(kind, device, good, lag) ==
  /\ desk.step = "idle" /\ actions < MaxActions /\ lag <= now
  /\ actions' = actions + 1
  /\ rows' = [rows EXCEPT ![kind] = @ \cup
       {[id |-> actions + 1, device |-> device, good |-> good, at |-> now - lag]}]
  /\ UNCHANGED <<now, acks, silences, events, desk, view, runs, report, torn>>

----------------------------------------------------------------------------
(* The four alarm handlers: a state row, an event, and a refresh. *)

\* An admin clicks; a denied click and an empty key change nothing.
Press(op, key, minutes) ==
  /\ desk.step = "idle" /\ actions < MaxActions
  /\ actions' = actions + 1
  /\ desk' = [step |-> "write", op |-> op, key |-> key,
              until |-> IF op = "silence" THEN now + minutes ELSE 0]
  /\ UNCHANGED <<now, store, view, runs, report, torn>>

WriteState ==
  /\ desk.step = "write"
  /\ acks' = CASE desk.op = "acknowledge" -> acks \cup {desk.key}
               [] desk.op = "clear_acknowledgement" -> acks \ {desk.key}
               [] OTHER -> acks
  /\ silences' = CASE desk.op = "silence" -> [silences EXCEPT ![desk.key] = desk.until]
                   [] desk.op = "clear_silence" -> [silences EXCEPT ![desk.key] = 0]
                   [] OTHER -> silences
  /\ desk' = [desk EXCEPT !.step = "event"]
  /\ UNCHANGED <<now, rows, events, actions, view, runs, report, torn>>

\* Faulty: the handler swallows the exception of the state row and logs the event.
WriteFailsQuietly ==
  /\ desk.step = "write"
  /\ desk' = [desk EXCEPT !.step = "event"]
  /\ UNCHANGED <<now, store, actions, view, runs, report, torn>>

\* The store raises: the transaction is rolled back and the handler ends.
WriteFails ==
  /\ desk.step = "write"
  /\ desk' = Desk("idle")
  /\ UNCHANGED <<now, store, actions, view, runs, report, torn>>

LogEvent ==
  /\ desk.step = "event"
  /\ events' = events \cup {[id |-> actions, key |-> desk.key, op |-> desk.op, at |-> now]}
  /\ torn' = torn \ {<<desk.key, Subject(desk.op)>>}
  /\ desk' = Desk("refresh")
  /\ UNCHANGED <<now, rows, acks, silences, actions, view, runs, report>>

LogFails ==
  /\ desk.step = "event"
  /\ torn' = torn \cup {<<desk.key, Subject(desk.op)>>}
  /\ desk' = Desk("idle")
  /\ UNCHANGED <<now, store, actions, view, runs, report>>

----------------------------------------------------------------------------
(* build_timeline_and_alarms, three transactions. *)

\* The refresh button, which needs no role; the end of an alarm handler; and
\* GET /api/ops/alarms.  The first transaction fetches the rows.
BeginReading(r, window) ==
  /\ view[r].step = "idle"
  /\ \/ /\ r = "desk" => desk.step = "idle"
        /\ actions < MaxActions
        /\ actions' = actions + 1
     \/ r = "desk" /\ desk.step = "refresh" /\ UNCHANGED actions
  /\ desk' = IF r = "desk" THEN Desk("refresh") ELSE desk
  /\ view' = [view EXCEPT ![r].step = "acks", ![r].raised = Raised(window)]
  /\ UNCHANGED <<now, store, runs, report, torn>>

ReadAcks(r) ==
  /\ view[r].step = "acks"
  /\ view' = [view EXCEPT ![r].step = "silences", ![r].known = acks]
  /\ UNCHANGED <<now, store, actions, desk, runs, report, torn>>

\* Faulty: list_alarm_silences with include_expired.
ReadAllSilences(r) ==
  /\ view[r].step = "silences"
  /\ LET raised == view[r].raised
         quiet == {k \in Keys : silences[k] # 0}
     IN view' = [view EXCEPT ![r] = [@ EXCEPT !.step = "answered",
          !.silenced = raised \cap quiet,
          !.acknowledged = (raised \ quiet) \cap view[r].known,
          !.active = (raised \ quiet) \ view[r].known]]
  /\ UNCHANGED <<now, store, actions, desk, runs, report, torn>>

\* A silence in force beats an acknowledgement; an expired one is not listed.
ReadSilences(r) ==
  /\ view[r].step = "silences"
  /\ LET raised == view[r].raised
         rest == raised \ Quiet
     IN view' = [view EXCEPT ![r] = [@ EXCEPT !.step = "answered",
          !.silenced = raised \cap Quiet,
          !.acknowledged = rest \cap view[r].known,
          !.active = rest \ view[r].known]]
  /\ UNCHANGED <<now, store, actions, desk, runs, report, torn>>

\* The desk goes on to its history, which reads events and ends the handler.
EndReading(r) ==
  /\ view[r].step = "answered"
  /\ desk' = IF r = "desk" THEN Desk("idle") ELSE desk
  /\ view' = [view EXCEPT ![r] = NoView]
  /\ UNCHANGED <<now, store, actions, runs, report, torn>>

\* A read raises: no list is assigned.
ReadFails(r) ==
  /\ view[r].step \in {"acks", "silences"} \/ (r = "desk" /\ desk.step = "refresh")
  /\ view[r].step # "answered"
  /\ desk' = IF r = "desk" THEN Desk("idle") ELSE desk
  /\ view' = [view EXCEPT ![r] = NoView]
  /\ UNCHANGED <<now, store, actions, runs, report, torn>>

----------------------------------------------------------------------------
(* run_retention_cleanup: three purges, each a transaction whose cutoff is *)
(* computed before it has the lock.                                        *)

BeginCleanup(t) ==
  /\ runs[t].step = "idle" /\ actions < MaxActions
  /\ actions' = actions + 1
  /\ t = "desk" => desk.step = "idle"
  /\ desk' = IF t = "desk" THEN Desk("cleanup") ELSE desk
  /\ runs' = [runs EXCEPT ![t] = [step |-> "records", start |-> now]]
  /\ UNCHANGED <<now, store, view, report, torn>>

Advance(t, step) == runs' = [runs EXCEPT ![t].step = step]

\* Faulty: the retention is not subtracted from the clock.
PurgeAllRecords(t, asOf) ==
  /\ runs[t].step = "records" /\ asOf >= runs[t].start
  /\ rows' = [k \in Kinds |-> {r \in rows[k] : r.at >= asOf}]
  /\ Advance(t, "silences")
  /\ UNCHANGED <<now, acks, silences, events, actions, desk, view, report, torn>>

PurgeRecords(t, asOf) ==
  /\ runs[t].step = "records" /\ asOf >= runs[t].start
  /\ rows' = [k \in Kinds |-> {r \in rows[k] : r.at >= asOf - Retention[k]}]
  /\ Advance(t, "silences")
  /\ UNCHANGED <<now, acks, silences, events, actions, desk, view, report, torn>>

\* Faulty: the cutoff is rounded up to the next minute.
PurgeSilencesEarly(t, asOf) ==
  /\ runs[t].step = "silences" /\ asOf >= runs[t].start
  /\ silences' = [k \in Keys |-> IF silences[k] <= asOf + 1 THEN 0 ELSE silences[k]]
  /\ Advance(t, "events")
  /\ UNCHANGED <<now, rows, acks, events, actions, desk, view, report, torn>>

PurgeSilences(t, asOf) ==
  /\ runs[t].step = "silences" /\ asOf >= runs[t].start
  /\ silences' = [k \in Keys |-> IF silences[k] <= asOf THEN 0 ELSE silences[k]]
  /\ Advance(t, "events")
  /\ UNCHANGED <<now, rows, acks, events, actions, desk, view, report, torn>>

EndCleanup(t, verdict) ==
  /\ report' = verdict
  /\ runs' = [runs EXCEPT ![t] = NoRun]
  /\ desk' = IF t = "desk" THEN Desk("idle") ELSE desk

PurgeEvents(t, asOf) ==
  /\ runs[t].step = "events" /\ asOf >= runs[t].start
  /\ events' = {e \in events : e.at >= asOf - EventRetention}
  /\ EndCleanup(t, TRUE)
  /\ UNCHANGED <<now, rows, acks, silences, actions, view, torn>>

\* A purge raises, or a retention is not a positive number of days; what
\* the earlier purges committed stays deleted.
CleanupFails(t) ==
  /\ runs[t].step # "idle"
  /\ EndCleanup(t, FALSE)
  /\ UNCHANGED <<now, store, actions, view, torn>>

----------------------------------------------------------------------------
AlarmStep ==
  \/ Tick \/ WriteState \/ WriteFails \/ LogEvent \/ LogFails
  \/ \E kind \in Kinds, device \in Devices, good \in BOOLEAN, lag \in 0..MaxLag :
       LogRow(kind, device, good, lag)
  \/ \E op \in Ops, key \in Keys, minutes \in SilenceMinutes : Press(op, key, minutes)
  \/ \E r \in Readers :
       \/ (\E window \in Windows : BeginReading(r, window))
       \/ ReadAcks(r) \/ ReadSilences(r) \/ EndReading(r) \/ ReadFails(r)
  \/ \E t \in Runners :
       \/ BeginCleanup(t) \/ CleanupFails(t)
       \/ \E asOf \in 0..now : PurgeRecords(t, asOf) \/ PurgeSilences(t, asOf) \/ PurgeEvents(t, asOf)

\* Not part of the code: what has been so at every moment of a reading.
Watch ==
  span' = [r \in Readers |->
    CASE view'[r].step = "idle" -> NoSpan
      [] view'[r].step # "idle" /\ view[r].step = "idle" ->
           [open |-> Open', acked |-> acks', quiet |-> Quiet']
      [] OTHER ->
           [open |-> span[r].open \cap Open', acked |-> span[r].acked \cap acks',
            quiet |-> span[r].quiet \cap Quiet']]

AlarmNext == AlarmStep /\ Watch

AlarmSpec == AlarmInit /\ [][AlarmNext]_alarmVars

----------------------------------------------------------------------------
(* What holds of the desk. *)

LoggedRow == [id : Int, device : Devices, good : BOOLEAN, at : Int]
Event == [id : 0..MaxActions, key : Keys, op : Ops, at : 0..MaxNow]
View == [step : {"idle", "acks", "silences", "answered"},
         raised : SUBSET Keys, known : SUBSET Keys, active : SUBSET Keys,
         acknowledged : SUBSET Keys, silenced : SUBSET Keys]

\* Type invariant: the tables, the handler, the readings and the runs.
AlarmTypeOK ==
  /\ now \in 0..MaxNow
  /\ rows \in [Kinds -> SUBSET LoggedRow]
  /\ acks \subseteq Keys /\ silences \in [Keys -> Nat] /\ events \subseteq Event
  /\ actions \in 0..MaxActions
  /\ desk \in [step : {"idle", "refresh", "cleanup"}]
              \cup [step : {"write", "event"}, op : Ops, key : Keys, until : Nat]
  /\ view \in [Readers -> View]
  /\ runs \in [Runners -> [step : {"idle", "records", "silences", "events"},
                          start : 0..MaxNow]]
  /\ report \in BOOLEAN
  /\ torn \subseteq Keys \X {"ack", "silence"}
  /\ span \in [Readers -> [open : SUBSET Keys, acked : SUBSET Keys, quiet : SUBSET Keys]]

\* The newest event about an alarm's acknowledgement says whether it is
\* acknowledged, and the newest about its silence never says "cleared" of an
\* alarm that has a silence, although row and event are two transactions
\* (acknowledge_alarm, clear_alarm_..., silence_alarm) and cleanups purge the
\* history in between; except while the event is being written, and after the
\* event of the last change was lost.
Newest(e, subject) ==
  \A f \in events : f.key = e.key /\ Subject(f.op) = subject => f.id <= e.id

HistoryExplains ==
  \A e \in events :
    LET pair == <<e.key, Subject(e.op)>>
    IN (/\ Newest(e, Subject(e.op)) /\ pair \notin torn
        /\ ~ (desk.step = "event" /\ pair = <<desk.key, Subject(desk.op)>>))
       => /\ e.op \in AckOps => (e.op = "acknowledge" <=> e.key \in acks)
          /\ e.op = "clear_silence" => silences[e.key] = 0

\* build_timeline_and_alarms reads acknowledgements and silences in different
\* transactions while handlers change them.  Its answer is right of whatever
\* did not change: an alarm that was never covered is active, one silenced
\* throughout is silenced, one acknowledged throughout is not active.  What the
\* desk itself reads is never out of date: none it lists as active is covered.
AnswersFit ==
  \A r \in Readers : view[r].step = "answered" =>
    /\ view[r].raised \cap span[r].open \subseteq view[r].active
    /\ view[r].raised \cap span[r].quiet \subseteq view[r].silenced
    /\ view[r].active \cap (span[r].quiet \cup span[r].acked) = {}
    /\ r = "desk" => view[r].active \subseteq Open

\* Once a retention run has purged the silences, none that had expired when the
\* run began is stored: the run deletes what the lists hide, to the last one,
\* while handlers add and extend silences and another run does the same.
NothingExpiredIsLeft ==
  \A t \in Runners : runs[t].step = "events" =>
    \A k \in Keys : silences[k] = 0 \/ silences[k] > runs[t].start

\* A silence in force ends or moves only by its operator's own write, "until
\* expiry or manual clear": no retention run removes one, however long its
\* DELETE waited and whatever was extended meanwhile.
SilencesLast ==
  [][\A k \in Keys : InForce(k) /\ silences'[k] # silences[k] =>
       desk.step = "write" /\ desk.key = k /\ desk.op \in SilenceOps]_alarmVars

\* A retention run changes no alarm of a window that is shorter than what the
\* logs keep: it deletes no row that the window can see, and no row whose
\* absence lets an older one into the Limit newest.
CleanupChangesNoAlarm ==
  [][\A t \in Runners : runs[t].step = "records" /\ runs'[t].step = "silences" =>
       \A window \in Windows :
         (\A kind \in Kinds : window + MaxLag <= Retention[kind]) => Raised(window)' = Raised(window)]_alarmVars
=============================================================================
