----------------------------- MODULE AlertDelivery -----------------------------
(***************************************************************************)
(* Persistent storage alerts and their webhook, as the health checks drive *)
(* them.                                                                   *)
(*                                                                         *)
(* A check is a run of health_snapshot, for an operator's panel or for GET *)
(* /api/ops/health, a plain function that a FastAPI application runs on a  *)
(* thread: several checks may run at once, and each does the whole work.   *)
(* It counts the rows of a table, counts how many checks in a row were     *)
(* over the threshold, queues an alert for the webhook when there were     *)
(* enough, and then works off the first rows of the queue.  The queue and  *)
(* the dead letters are durable; the streak and the memory of what was     *)
(* sent are not.                                                           *)
(*                                                                         *)
(* One table is watched here.  An alert's key is its text, in which the    *)
(* streak occurs, so that the streak stands for the key.  A step is one    *)
(* transaction, one access to the shared streak, or one POST; a thread may *)
(* lose the processor between any two.  Time only matters to the memory of *)
(* what was sent, which Forget lets go.                                    *)
(***************************************************************************)
EXTENDS Integers, FiniteSets

CONSTANTS
  Checks,       \* threads that run health checks
  Persist,      \* OPENSIGNAL_DB_WARN_PERSISTENCE_CHECKS
  MaxAttempts,  \* OPENSIGNAL_ALERT_WEBHOOK_MAX_RETRIES, and the first try
  Batch,        \* OPENSIGNAL_ALERT_WEBHOOK_BATCH_SIZE
  MaxStreak,    \* bound of the model: the table recovers by then
  MaxAlerts,    \* bound of the model: no more rows than these are queued
  MaxFaults     \* bound of the model: storage errors and restarts

ASSUME DeliveryAssumption ==
  /\ IsFiniteSet(Checks)
  /\ Persist \in Nat \ {0} /\ MaxAttempts \in Nat \ {0} /\ Batch \in Nat \ {0}
  /\ MaxStreak \in Nat /\ MaxAlerts \in Nat /\ MaxFaults \in Nat

VARIABLES
  streak,  \* _warning_streaks of the table
  queue,   \* alert_webhook_queue
  lastId,  \* its AUTOINCREMENT counter
  dead,    \* alert_webhook_deadletter
  recent,  \* keys of _last_sent_by_alert that are not older than the window
  pc,      \* where each check is, "idle" when none runs on the thread
  local,   \* locals of each check
  sent,    \* history: ids of the rows whose alert reached the webhook
  faults   \* history: storage errors and restarts so far

shared == <<streak, recent>>
durable == <<queue, lastId, dead>>
vars == <<shared, durable, pc, local, sent, faults>>

\* refused is history: how often the webhook turned the alert down.
Row == [id : Nat, key : Nat, attempts : Nat, refused : Nat]

NoRow == [id |-> 0, key |-> 0, attempts |-> 0, refused |-> 0]

\* streak: what was read of it, then the key of the alert; row: the row being
\* worked off, as it was listed; left: its remaining tries; items: the rows of
\* the batch after it.
Local == [streak : Nat, row : Row, left : Nat, items : SUBSET Row]
Blank == [streak |-> 0, row |-> NoRow, left |-> 0, items |-> {}]

Steps == {"idle", "counting", "judging", "asking", "queueing", "listing",
          "posting", "marking", "remembering", "recording"}

At(c, step) == pc[c] = step
Goto(c, step) == pc' = [pc EXCEPT ![c] = step]
Alerting == {c \in Checks : pc[c] \in {"counting", "judging", "asking", "queueing"}}

-----------------------------------------------------------------------------
(* The streak and the alert                                                *)

\* The rows are counted; a table below its threshold loses its streak.
Measure(c) ==
  /\ At(c, "idle")
  /\ \/ /\ streak < MaxStreak /\ lastId + Cardinality(Alerting) < MaxAlerts
        /\ local' = [local EXCEPT ![c] = [Blank EXCEPT !.streak = streak]]
        /\ Goto(c, "counting")
        /\ UNCHANGED streak
     \/ streak' = 0 /\ Goto(c, "listing") /\ UNCHANGED local
  /\ UNCHANGED <<recent, durable, sent, faults>>

\* Increments of two checks may be lost in each other.
Count(c) ==
  /\ At(c, "counting")
  /\ streak' = local[c].streak + 1
  /\ Goto(c, "judging")
  /\ UNCHANGED <<recent, durable, local, sent, faults>>

Judge(c) ==
  /\ At(c, "judging")
  /\ IF streak < Persist THEN Goto(c, "listing") /\ UNCHANGED local
     ELSE Goto(c, "asking") /\ local' = [local EXCEPT ![c].streak = streak]
  /\ UNCHANGED <<shared, durable, sent, faults>>

\* _should_send.
Ask(c) ==
  /\ At(c, "asking")
  /\ Goto(c, IF local[c].streak \in recent THEN "listing" ELSE "queueing")
  /\ UNCHANGED <<shared, durable, local, sent, faults>>

\* Faulty: a plain INSERT, into a table without the UNIQUE key.
EnqueueAlways(c) ==
  /\ At(c, "queueing")
  /\ lastId' = lastId + 1
  /\ queue' = queue \cup {[id |-> lastId + 1, key |-> local[c].streak, attempts |-> 0, refused |-> 0]}
  /\ Goto(c, "listing")
  /\ UNCHANGED <<shared, dead, local, sent, faults>>

\* INSERT OR IGNORE: the queue keeps one row per key.
Enqueue(c) ==
  LET key == local[c].streak IN
  /\ At(c, "queueing")
  /\ IF \E r \in queue : r.key = key THEN UNCHANGED <<queue, lastId>>
     ELSE /\ lastId' = lastId + 1
          /\ queue' = queue \cup {[id |-> lastId + 1, key |-> key, attempts |-> 0, refused |-> 0]}
  /\ Goto(c, "listing")
  /\ UNCHANGED <<shared, dead, local, sent, faults>>

-----------------------------------------------------------------------------
(* Working off the queue                                                   *)

Current(c) == local[c].row

\* The next row of the batch, by id, with the tries that its attempts leave.
Take(c, items) ==
  \/ items = {} /\ Goto(c, "idle") /\ local' = [local EXCEPT ![c] = Blank]
  \/ \E r \in items :
       /\ \A other \in items : r.id <= other.id
       /\ Goto(c, "posting")
       /\ local' = [local EXCEPT ![c] =
            [streak |-> 0, row |-> r, items |-> items \ {r},
             left |-> IF r.attempts < MaxAttempts THEN MaxAttempts - r.attempts ELSE 1]]

List(c) ==
  /\ At(c, "listing")
  /\ Take(c, {r \in queue : Cardinality({other \in queue : other.id < r.id}) < Batch})
  /\ UNCHANGED <<shared, durable, sent, faults>>

PostDelivered(c) ==
  /\ At(c, "posting")
  /\ sent' = sent \cup {Current(c).id}
  /\ Goto(c, "marking")
  /\ UNCHANGED <<shared, durable, local, faults>>

\* An error status, a timeout, or no answer.
PostFailed(c) ==
  /\ At(c, "posting")
  /\ queue' = {IF r.id = Current(c).id THEN [r EXCEPT !.refused = @ + 1] ELSE r : r \in queue}
  /\ Goto(c, "recording")
  /\ UNCHANGED <<shared, lastId, dead, local, sent, faults>>

\* Faulty: the row is remembered as sent and not deleted.
MarkWithoutDeleting(c) ==
  /\ At(c, "marking")
  /\ Goto(c, "remembering")
  /\ UNCHANGED <<shared, durable, local, sent, faults>>

\* mark_alert_webhook_sent.
Mark(c) ==
  /\ At(c, "marking")
  /\ queue' = {r \in queue : r.id # Current(c).id}
  /\ Goto(c, "remembering")
  /\ UNCHANGED <<shared, lastId, dead, local, sent, faults>>

\* Until then another check does not know of the delivery, and may queue the
\* alert once more.
Remember(c) ==
  /\ At(c, "remembering")
  /\ recent' = recent \cup {Current(c).key}
  /\ Take(c, local[c].items)
  /\ UNCHANGED <<streak, durable, sent, faults>>

\* Another try, unless this was the last one.
Retry(c) ==
  IF local[c].left = 1 THEN Take(c, local[c].items)
  ELSE Goto(c, "posting") /\ local' = [local EXCEPT ![c].left = @ - 1]

\* Faulty: the row leaves the queue without a dead letter.
RecordForgetfully(c) ==
  LET kept == {r \in queue : r.id # Current(c).id \/ r.attempts + 1 < MaxAttempts} IN
  /\ At(c, "recording")
  /\ queue' = {IF r.id = Current(c).id THEN [r EXCEPT !.attempts = @ + 1] ELSE r : r \in kept}
  /\ Retry(c)
  /\ UNCHANGED <<shared, lastId, dead, sent, faults>>

\* Faulty: attempts are counted against the retries, without the first try.
RecordEarly(c) ==
  /\ At(c, "recording")
  /\ \E r \in queue :
       /\ r.id = Current(c).id
       /\ IF r.attempts + 1 >= MaxAttempts - 1
          THEN /\ dead' = dead \cup {[r EXCEPT !.attempts = @ + 1]}
               /\ queue' = queue \ {r}
               /\ Take(c, local[c].items)
          ELSE /\ queue' = (queue \ {r}) \cup {[r EXCEPT !.attempts = @ + 1]}
               /\ Retry(c)
               /\ UNCHANGED dead
  /\ UNCHANGED <<shared, lastId, sent, faults>>

\* record_alert_webhook_failure, by the row as it is now; another check may have
\* removed it, and then the tries of this one go on.
Record(c) ==
  /\ At(c, "recording")
  /\ \/ /\ \A r \in queue : r.id # Current(c).id
        /\ Retry(c)
        /\ UNCHANGED <<queue, dead>>
     \/ \E r \in queue :
          /\ r.id = Current(c).id
          /\ IF r.attempts + 1 >= MaxAttempts
             THEN /\ dead' = dead \cup {[r EXCEPT !.attempts = @ + 1]}
                  /\ queue' = queue \ {r}
                  /\ Take(c, local[c].items)
             ELSE /\ queue' = (queue \ {r}) \cup {[r EXCEPT !.attempts = @ + 1]}
                  /\ Retry(c)
                  /\ UNCHANGED dead
  /\ UNCHANGED <<shared, lastId, sent, faults>>

-----------------------------------------------------------------------------
(* Time and failures                                                       *)

Forget(key) == key \in recent /\ recent' = recent \ {key}
               /\ UNCHANGED <<streak, durable, pc, local, sent, faults>>

\* A transaction raises, the database being locked or full: the check ends.
StorageFails(c) ==
  /\ faults < MaxFaults
  /\ pc[c] \in {"queueing", "listing", "marking", "recording"}
  /\ Goto(c, "idle")
  /\ local' = [local EXCEPT ![c] = Blank]
  /\ faults' = faults + 1
  /\ UNCHANGED <<shared, durable, sent>>

Restart ==
  /\ faults < MaxFaults
  /\ streak' = 0 /\ recent' = {}
  /\ pc' = [c \in Checks |-> "idle"]
  /\ local' = [c \in Checks |-> Blank]
  /\ faults' = faults + 1
  /\ UNCHANGED <<durable, sent>>

Init ==
  /\ streak = 0 /\ recent = {}
  /\ queue = {} /\ lastId = 0 /\ dead = {}
  /\ pc = [c \in Checks |-> "idle"]
  /\ local = [c \in Checks |-> Blank]
  /\ sent = {} /\ faults = 0

Step(c) ==
  \/ Measure(c) \/ Count(c) \/ Judge(c) \/ Ask(c) \/ Enqueue(c)
  \/ List(c) \/ PostDelivered(c) \/ PostFailed(c) \/ Mark(c) \/ Remember(c) \/ Record(c)

Next ==
  \/ \E c \in Checks : Step(c) \/ StorageFails(c)
  \/ \E key \in recent : Forget(key)
  \/ Restart

\* Whoever watches the system asks for its health again and again, and threads
\* run; storage errors and restarts come to an end (MaxFaults).
Fairness == \A c \in Checks : WF_vars(Step(c))

Spec == Init /\ [][Next]_vars /\ Fairness

-----------------------------------------------------------------------------
(* Properties                                                              *)

\* Every variable keeps its type.
TypeOK ==
  /\ streak \in Nat /\ recent \subseteq Nat
  /\ queue \subseteq Row /\ lastId \in Nat /\ dead \subseteq Row
  /\ pc \in [Checks -> Steps] /\ local \in [Checks -> Local]
  /\ sent \subseteq Nat /\ faults \in 0 .. MaxFaults

Ids(rows) == {r.id : r \in rows}

\* No alert is lost, whatever fails and whoever else works on the queue: once
\* queued it stays there until it reached the webhook or is a dead letter.
NoAlertIsLost == 1 .. lastId \subseteq Ids(queue) \cup Ids(dead) \cup sent

\* An alert is given up only after the webhook turned it down as often as it may,
\* whichever checks did the asking: the attempts written down are never more than
\* the refusals there were.
GivenUpAfterAllAttempts ==
  /\ \A r \in dead : r.attempts = MaxAttempts /\ r.refused >= MaxAttempts
  /\ \A r \in queue : r.attempts < MaxAttempts

\* A row is what it is by its id, in the queue and among the dead letters, and no
\* two rows of the queue tell the same alert.
RowsAreDistinct ==
  /\ \A r, q \in queue : r.id = q.id \/ r.key = q.key => r = q
  /\ \A r, q \in dead : r.id = q.id => r = q
  /\ Ids(queue) \cap Ids(dead) = {}

\* Every queued alert leaves the queue in the end.
EveryAlertSettles == \A id \in 1 .. MaxAlerts : id \in Ids(queue) ~> id \notin Ids(queue)

=============================================================================
