--------------------------- MODULE SnapshotPolling ---------------------------
(***************************************************************************)
(* PollingService.collect_snapshot: coalesced, backed-off status reads.    *)
(*                                                                         *)
(* Any number of sessions ask for the status of a device.  The device is   *)
(* named by its runtime key.  The first caller of a key opens a flight: it *)
(* registers a future, connects to the device and polls it, both with      *)
(* awaits, and resolves the future.  A caller that finds a flight joins it *)
(* and awaits the future behind asyncio.shield, which gives every joiner   *)
(* an outer future of its own.  After _backoff_failure_threshold failed    *)
(* flights in a row a key is left alone for a window of time, in which     *)
(* callers get the last result back, marked stale.                         *)
(*                                                                         *)
(* One action is the code between two awaits.  asyncio runs it atomically, *)
(* so _inflight_snapshot_lock never blocks and is not modelled.  A future  *)
(* is named by the caller that owns it, whose flight lasts as long as the  *)
(* future is registered.  The configuration of a key is fixed here, which  *)
(* makes RUNTIME.get_or_create a lookup; DeviceRuntime models the registry *)
(* and the managed polling loops.                                          *)
(***************************************************************************)
EXTENDS Integers, FiniteSets

CONSTANTS
  Callers,         \* tasks that call collect_snapshot
  Keys,            \* runtime keys
  None,            \* Python's None
  Threshold,       \* _backoff_failure_threshold
  InitialBackoff,  \* _backoff_initial_seconds
  MaxBackoff,      \* _backoff_max_seconds
  MaxStreak,       \* bound of the model: failure_streak saturates here
  MaxTime          \* bound of the model: the monotonic clock stops here

\* A recorded snapshot: when its flight began and when it was recorded, whether
\* the status in it reads healthy (online and without errors), and whether the
\* flight ended by an exception, which leaves the status as it stands.
Snapshot == [since : Int, at : Int, healthy : BOOLEAN, raised : BOOLEAN]

\* What _record_snapshot_outcome counts as a failure.
Failed(snapshot) == ~snapshot.healthy \/ snapshot.raised

ASSUME PollingAssumption ==
  /\ IsFiniteSet(Callers)
  /\ None \notin Callers /\ None \notin Keys /\ None \notin Snapshot
  /\ Threshold \in Nat \ {0}
  /\ InitialBackoff \in Nat \ {0}
  /\ MaxBackoff \in Nat /\ InitialBackoff <= MaxBackoff
  /\ MaxStreak \in Nat /\ Threshold <= MaxStreak
  /\ MaxTime \in Nat

\* Doubling never shrinks the window, and has reached the cap by MaxStreak, so
\* that saturating the streak there changes no window.
ASSUME DoublingAssumption ==
  /\ \A n \in 0 .. (MaxStreak - Threshold) : 2 ^ n \in Nat \ {0}
  /\ InitialBackoff * 2 ^ (MaxStreak - Threshold) >= MaxBackoff

VARIABLES
  now,       \* time.monotonic()
  inflight,  \* _inflight_snapshot_results: key -> owner of the future, or None
  backoff,   \* _snapshot_backoff_state: key -> _SnapshotBackoffState
  pc,        \* the await each caller is at, "idle" outside collect_snapshot
  key,       \* runtime key of the call in progress
  began,     \* now_seconds of the call in progress
  flight,    \* owner of the future the caller resolves or awaits
  outer,     \* a joiner's future made by asyncio.shield
  active,    \* telemetry: key -> active_refresh_count
  returned   \* the call that ended in the last step, None when none did

vars == <<now, inflight, backoff, pc, key, began, flight, outer, active, returned>>

Time == 0 .. MaxTime

BackoffState == [failure_streak : 0 .. MaxStreak, backoff_until : Int,
                 last_result : Snapshot \cup {None}]

\* What a future holds: nothing yet, a result, an exception, its cancellation.
Pending == [kind |-> "pending", value |-> None]
Outcome == {Pending} \cup [kind : {"fresh", "error", "cancelled"},
                           value : Snapshot \cup {None}]

\* How a call ended: a snapshot from a flight, a repeated stale one, or raised.
Returned == [asked : Time,
             kind : {"fresh", "stale", "error", "cancelled"},
             value : Snapshot \cup {None}]

-----------------------------------------------------------------------------
(* Helpers                                                                 *)

\* _backoff_seconds: nothing below the threshold, then the initial window,
\* doubled by every further failure and capped.
BackoffSeconds(streak) ==
  IF streak < Threshold THEN 0
  ELSE LET duration == InitialBackoff * 2 ^ (streak - Threshold)
       IN  IF duration < MaxBackoff THEN duration ELSE MaxBackoff

\* The callers inside a device conversation, and those awaiting someone's.
Flying(c) == pc[c] \in {"connecting", "polling"}
Joined(c) == pc[c] = "joined"

\* Faulty: the window includes its end.
BackingOffAtItsEnd(k) == backoff[k].last_result # None /\ backoff[k].backoff_until >= now

\* _claim_snapshot_slot's second test: there is a result to repeat and the
\* window of the key is still open.
BackingOff(k) ==
  /\ backoff[k].last_result # None
  /\ backoff[k].backoff_until > now

Longer(streak) == IF streak < MaxStreak THEN streak + 1 ELSE streak

\* _record_snapshot_outcome: keep the result, then reset or extend the streak.
\* The window is measured from the start of the flight, not from its end.
RecordOutcome(k, result) ==
  LET streak == IF Failed(result) THEN Longer(backoff[k].failure_streak) ELSE 0
      pause  == BackoffSeconds(streak)
  IN  backoff' = [backoff EXCEPT ![k] =
        [failure_streak |-> streak,
         backoff_until  |-> IF pause > 0 THEN result.since + pause ELSE 0,
         last_result    |-> result]]

\* Faulty: a cancelled owner leaves its future as it is.
SettleOutcomesOnly(o, outcome) ==
  outer' = [c \in Callers |->
              IF Joined(c) /\ flight[c] = o /\ outer[c] = Pending /\ outcome.kind # "cancelled"
              THEN outcome ELSE outer[c]]

\* set_result, set_exception or cancel on the future of owner o: asyncio copies
\* the outcome to the outer future of every caller that awaits it.
Settle(o, outcome) ==
  outer' = [c \in Callers |->
              IF Joined(c) /\ flight[c] = o /\ outer[c] = Pending THEN outcome
              ELSE outer[c]]

\* _release_inflight_snapshot: only the owner's own entry is removed.
Release(k, o) ==
  inflight' = [inflight EXCEPT ![k] = IF @ = o THEN None ELSE @]

\* Entering and leaving POLLING_TELEMETRY.observe(..., track_overlap=True).
Enter(k) == active' = [active EXCEPT ![k] = @ + 1]
LeaveUncounted(k) == UNCHANGED active  \* Faulty: the section's exit is not counted.
Leave(k) == active' = [active EXCEPT ![k] = IF @ > 0 THEN @ - 1 ELSE 0]

\* The call of c on k begins and suspends at the await `at`.
Suspend(c, k, o, at) ==
  /\ pc' = [pc EXCEPT ![c] = at]
  /\ key' = [key EXCEPT ![c] = k]
  /\ began' = [began EXCEPT ![c] = now]
  /\ flight' = [flight EXCEPT ![c] = o]
  /\ returned' = None

\* The call of c ends; its locals are gone.
Return(c, kind, value) ==
  /\ pc' = [pc EXCEPT ![c] = "idle"]
  /\ key' = [key EXCEPT ![c] = None]
  /\ began' = [began EXCEPT ![c] = 0]
  /\ flight' = [flight EXCEPT ![c] = None]
  /\ returned' = [asked |-> began[c], kind |-> kind, value |-> value]

-----------------------------------------------------------------------------
(* Starting a call: collect_snapshot up to its first await                 *)

\* A flight of the key is registered: await its future, shielded.
Join(c, k) ==
  /\ pc[c] = "idle"
  /\ inflight[k] # None
  /\ Suspend(c, k, inflight[k], "joined")
  /\ Enter(k)
  /\ UNCHANGED <<now, inflight, backoff, outer>>

\* The key is backing off: the last result comes back at once, marked stale.
\* The call enters and leaves the telemetry without an await in between.
ServeStale(c, k) ==
  /\ pc[c] = "idle"
  /\ inflight[k] = None
  /\ BackingOff(k)
  /\ returned' = [asked |-> now, kind |-> "stale", value |-> backoff[k].last_result]
  /\ UNCHANGED <<now, inflight, backoff, pc, key, began, flight, outer, active>>

\* Faulty: the backoff window is not looked up.
ClaimEagerly(c, k) ==
  /\ pc[c] = "idle" /\ inflight[k] = None
  /\ inflight' = [inflight EXCEPT ![k] = c]
  /\ Suspend(c, k, c, "connecting")
  /\ Enter(k)
  /\ UNCHANGED <<now, backoff, outer>>

\* Neither: create a future, register it, and start to connect.
Claim(c, k) ==
  /\ pc[c] = "idle"
  /\ inflight[k] = None
  /\ ~BackingOff(k)
  /\ inflight' = [inflight EXCEPT ![k] = c]
  /\ Suspend(c, k, c, "connecting")
  /\ Enter(k)
  /\ UNCHANGED <<now, backoff, outer>>

-----------------------------------------------------------------------------
(* The owner of a flight                                                   *)

\* device.connect() returned True; device.poll() is awaited next.
ConnectOk(c) ==
  /\ pc[c] = "connecting"
  /\ pc' = [pc EXCEPT ![c] = "polling"]
  /\ returned' = None
  /\ UNCHANGED <<now, inflight, backoff, key, began, flight, outer, active>>

\* The flight ends: the future is settled, the slot released, the call returns.
Land(c, kind, value) ==
  /\ Settle(c, [kind |-> kind, value |-> value])
  /\ Release(key[c], c)
  /\ Return(c, kind, value)
  /\ Leave(key[c])
  /\ UNCHANGED now

\* What the flight of c has to record now.
Reading(c, healthy, raised) ==
  [since |-> began[c], at |-> now, healthy |-> healthy, raised |-> raised]

\* A status is in hand: it is recorded and becomes everyone's result.
Complete(c, healthy) ==
  /\ RecordOutcome(key[c], Reading(c, healthy, FALSE))
  /\ Land(c, "fresh", Reading(c, healthy, FALSE))

\* device.connect() returned False, which it does with an offline status.
ConnectFailed(c) == pc[c] = "connecting" /\ Complete(c, FALSE)

\* device.poll() returned a status, healthy or not.
PollDone(c) == pc[c] = "polling" /\ \E healthy \in BOOLEAN : Complete(c, healthy)

\* The driver raised: the device's status is recorded as it stands, which after
\* a connect() that succeeded reads healthy, the flight counts as failed, and
\* the exception is raised in every joiner.
FlightRaises(c) ==
  /\ Flying(c)
  /\ \E healthy \in BOOLEAN : RecordOutcome(key[c], Reading(c, healthy, TRUE))
  /\ Land(c, "error", None)

\* The owner's task is cancelled: nothing is recorded and the future is
\* cancelled with it.
OwnerCancelled(c) ==
  /\ Flying(c)
  /\ Land(c, "cancelled", None)
  /\ UNCHANGED backoff

-----------------------------------------------------------------------------
(* A joiner                                                                *)

\* The await ends, with what the outer future holds or with a cancellation.
LeaveFlight(c, kind, value) ==
  /\ Return(c, kind, value)
  /\ outer' = [outer EXCEPT ![c] = Pending]
  /\ Leave(key[c])
  /\ UNCHANGED <<now, inflight, backoff>>

\* The outer future is done: the joiner returns its result or raises it.
Resume(c) ==
  /\ Joined(c)
  /\ outer[c] # Pending
  /\ LeaveFlight(c, outer[c].kind, outer[c].value)

\* Faulty: the future is awaited without asyncio.shield, and cancelled with c.
UnshieldedJoinerCancelled(c) ==
  /\ Joined(c)
  /\ Return(c, "cancelled", None)
  /\ outer' = [d \in Callers |->
                 IF d = c THEN Pending
                 ELSE IF Joined(d) /\ flight[d] = flight[c] /\ outer[d] = Pending
                 THEN [kind |-> "cancelled", value |-> None] ELSE outer[d]]
  /\ Leave(key[c])
  /\ UNCHANGED <<now, inflight, backoff>>

\* The joiner's own task is cancelled; the shield keeps the flight alive.
JoinerCancelled(c) ==
  /\ Joined(c)
  /\ LeaveFlight(c, "cancelled", None)

Tick ==
  /\ now < MaxTime
  /\ now' = now + 1
  /\ returned' = None
  /\ UNCHANGED <<inflight, backoff, pc, key, began, flight, outer, active>>

-----------------------------------------------------------------------------
Init ==
  /\ now = 0
  /\ inflight = [k \in Keys |-> None]
  /\ backoff = [k \in Keys |-> [failure_streak |-> 0, backoff_until |-> 0,
                                last_result |-> None]]
  /\ pc = [c \in Callers |-> "idle"]
  /\ key = [c \in Callers |-> None]
  /\ began = [c \in Callers |-> 0]
  /\ flight = [c \in Callers |-> None]
  /\ outer = [c \in Callers |-> Pending]
  /\ active = [k \in Keys |-> 0]
  /\ returned = None

\* The part of a call the event loop and the driver's timeouts carry forward.
Progress(c) ==
  \/ ConnectOk(c)
  \/ ConnectFailed(c)
  \/ PollDone(c)
  \/ FlightRaises(c)
  \/ Resume(c)

Next ==
  \/ \E c \in Callers, k \in Keys : Join(c, k) \/ ServeStale(c, k) \/ Claim(c, k)
  \/ \E c \in Callers : Progress(c) \/ OwnerCancelled(c) \/ JoinerCancelled(c)
  \/ Tick

\* Every SNMP exchange ends, by an answer or by its timeout and retries, and
\* the event loop runs every task that is ready.  Calls, cancellations and the
\* clock are not fair.
Fairness == \A c \in Callers : WF_vars(Progress(c))

Spec == Init /\ [][Next]_vars /\ Fairness

-----------------------------------------------------------------------------
(* Properties                                                              *)

\* Every variable has its type, and a suspended call has a key and a flight.
TypeOK ==
  /\ now \in Time
  /\ inflight \in [Keys -> Callers \cup {None}]
  /\ backoff \in [Keys -> BackoffState]
  /\ pc \in [Callers -> {"idle", "connecting", "polling", "joined"}]
  /\ key \in [Callers -> Keys \cup {None}]
  /\ began \in [Callers -> Time]
  /\ flight \in [Callers -> Callers \cup {None}]
  /\ outer \in [Callers -> Outcome]
  /\ active \in [Keys -> Nat]
  /\ returned \in Returned \cup {None}
  /\ \A c \in Callers : pc[c] # "idle" => key[c] \in Keys /\ flight[c] \in Callers

\* At most one caller at a time converses with the device of a key through
\* collect_snapshot: connect() and poll() rewrite the driver's shared status,
\* and two flights would mix their readings.
SingleFlight ==
  \A c, d \in Callers : Flying(c) /\ Flying(d) /\ key[c] = key[d] => c = d

\* A joiner never waits for a future that nobody will resolve: while its outer
\* future is pending, the owner is flying on the joiner's key, and registered.
NoOrphanedJoiner ==
  \A c \in Callers :
    Joined(c) /\ outer[c] = Pending =>
      /\ inflight[key[c]] = flight[c]
      /\ Flying(flight[c]) /\ key[flight[c]] = key[c]

\* How calls, flights and futures fit together, whatever the order of calls,
\* failures and cancellations: the registered futures are those of the flying
\* callers, and a pending outer future belongs to a registered flight.
FlightLaw ==
  /\ \A c \in Callers :
       /\ pc[c] = "idle" => key[c] = None /\ flight[c] = None
       /\ ~Joined(c) => outer[c] = Pending
       /\ Flying(c) => flight[c] = c /\ inflight[key[c]] = c
       /\ Joined(c) /\ outer[c] = Pending => inflight[key[c]] = flight[c]
       /\ began[c] <= now
       /\ outer[c].kind = "fresh" => outer[c].value # None /\ outer[c].value.at >= began[c]
  /\ \A k \in Keys : inflight[k] # None => Flying(inflight[k]) /\ key[inflight[k]] = k

\* A fresh answer is fresh: the device was read after the call was made, for
\* the owner as for a caller that joined in the middle of the flight; a result
\* read before the call is only ever handed out as stale.
FreshAnswersAreFresh ==
  returned # None /\ returned.kind = "fresh" => returned.value.at >= returned.asked

\* A stale answer repeats what a failed flight recorded, and one that began
\* less than _backoff_max_seconds before the call.  It reads healthy only if
\* that flight ended by an exception: then what is repeated is the status the
\* exception found, marked stale.
StaleAnswersAreRecentFailures ==
  returned # None /\ returned.kind = "stale" =>
    /\ returned.value.healthy => returned.value.raised
    /\ returned.asked < returned.value.since + MaxBackoff

\* What collect_snapshot hands out is fresh, or a recent failure and says so.
AnswersAreHonest == FreshAnswersAreFresh /\ StaleAnswersAreRecentFailures

\* The backoff record of a key agrees with the last recorded flight: a window
\* exists exactly from the threshold on, starts with that flight and is never
\* longer than the cap, and a healthy result leaves no trace of failures.
BackoffLaw ==
  \A k \in Keys :
    LET b == backoff[k] IN
      /\ b.last_result = None => b.failure_streak = 0
      /\ b.last_result # None => (b.failure_streak = 0 <=> ~Failed(b.last_result))
      /\ b.failure_streak < Threshold => b.backoff_until = 0
      /\ b.failure_streak >= Threshold =>
           /\ b.backoff_until >= b.last_result.since + InitialBackoff
           /\ b.backoff_until <= b.last_result.since + MaxBackoff

\* active_refresh_count is the number of callers inside the observed section,
\* whichever way the others left it; its floor at zero never hides an error.
\* (A managed polling loop counts itself on the same key, in pairs of its own.)
Inside(k) == {c \in Callers : pc[c] # "idle" /\ key[c] = k}
ActiveCountExact == \A k \in Keys : active[k] = Cardinality(Inside(k))

\* After Threshold failures in a row the device is left alone: the next flight
\* of the key begins no earlier than InitialBackoff after the last one began.
FailingDeviceRests ==
  \A k \in Keys :
    /\ inflight'[k] # None /\ inflight'[k] # inflight[k]
    /\ backoff[k].failure_streak >= Threshold
    => now >= backoff[k].last_result.since + InitialBackoff

FailingDeviceIsLeftAlone == [][FailingDeviceRests]_vars

\* What docs/polling-rtsp-dms-phase0-baseline.md says of the program: repeated
\* failures enter a backoff, so that a flight that fails as the Threshold-th in
\* a row, or later, leaves a window that is open when its failure is recorded.
\* The code does not keep it: the window runs from the start of the flight, and
\* is over when the flight's own timeouts and retries outlast it.
FailureEntersBackoff ==
  \A k \in Keys :
    backoff'[k] # backoff[k] /\ backoff'[k].failure_streak >= Threshold
    => backoff'[k].backoff_until > now

RepeatedFailuresEnterBackoff == [][FailureEntersBackoff]_vars

\* Every call ends: none is left waiting for a flight that ended without it.
EveryCallReturns == \A c \in Callers : pc[c] # "idle" ~> pc[c] = "idle"

\* collect_snapshot keeps the promise of SnapshotContract: the registered
\* future is the conversation, a shielded future what its joiner is owed.
Contract == INSTANCE SnapshotContract
  WITH talking <- inflight, waiting <- key, owed <- [c \in Callers |-> outer[c].kind]

ImplementsContract == Contract!Spec

=============================================================================
