------------------------ MODULE SnapshotPollingProofs ------------------------
(***************************************************************************)
(* Theorems about SnapshotPolling, for any callers, keys and windows.      *)
(*                                                                         *)
(* IInv, the conjunction of TypeOK, FlightLaw and BackoffLaw, is           *)
(* inductive.  SingleFlight and NoOrphanedJoiner need FlightLaw, which     *)
(* ties every pending outer future to a registered flight; what is said of *)
(* stale answers needs BackoffLaw, which ties every window to the failure  *)
(* it starts from.                                                         *)
(***************************************************************************)
EXTENDS SnapshotPolling, FiniteSetTheorems, TLAPS

IInv == TypeOK /\ FlightLaw /\ BackoffLaw

-----------------------------------------------------------------------------
(* Helpers                                                                 *)

\* A window is a natural number, none below the threshold, and from the
\* threshold on between the initial window and the cap (_backoff_seconds).
LEMMA BackoffSecondsBounds ==
  ASSUME NEW streak \in 0 .. MaxStreak
  PROVE  /\ BackoffSeconds(streak) \in Nat
         /\ streak < Threshold => BackoffSeconds(streak) = 0
         /\ streak >= Threshold => /\ BackoffSeconds(streak) >= InitialBackoff
                                   /\ BackoffSeconds(streak) <= MaxBackoff
<1>1. CASE streak < Threshold
  BY <1>1, PollingAssumption DEF BackoffSeconds
<1>2. CASE streak >= Threshold
  <2> DEFINE n == streak - Threshold
             p == 2 ^ n
  <2>1. n \in 0 .. (MaxStreak - Threshold)
    BY <1>2, PollingAssumption
  <2>2. p \in Nat \ {0}
    BY <2>1, DoublingAssumption
  <2>3. InitialBackoff * p \in Nat /\ InitialBackoff * p >= InitialBackoff
    <3> HIDE DEF p
    <3> QED BY <2>2, PollingAssumption
  <2>4. ~(streak < Threshold)
    BY <1>2, PollingAssumption
  <2>5. BackoffSeconds(streak)
          = IF InitialBackoff * p < MaxBackoff THEN InitialBackoff * p ELSE MaxBackoff
    BY <2>4 DEF BackoffSeconds
  <2> HIDE DEF p
  <2> QED BY <2>3, <2>5, <2>4, PollingAssumption
<1> QED BY <1>1, <1>2, PollingAssumption

\* _record_snapshot_outcome keeps the backoff record typed and lawful, and
\* touches no other key's.
LEMMA RecordOutcomeKeepsLaw ==
  ASSUME TypeOK, BackoffLaw, NEW k \in Keys, NEW result \in Snapshot,
         result.since \in Time, RecordOutcome(k, result)
  PROVE  backoff' \in [Keys -> BackoffState] /\ BackoffLaw'
<1> DEFINE streak == IF Failed(result) THEN Longer(backoff[k].failure_streak) ELSE 0
           pause  == BackoffSeconds(streak)
           entry  == [failure_streak |-> streak,
                      backoff_until  |-> IF pause > 0 THEN result.since + pause ELSE 0,
                      last_result    |-> result]
<1>1. backoff[k].failure_streak \in 0 .. MaxStreak
  BY DEF TypeOK, BackoffState
<1>2. streak \in 0 .. MaxStreak /\ (streak = 0 <=> ~Failed(result))
  BY <1>1, PollingAssumption DEF Longer
<1>3. result # None
  BY PollingAssumption
<1>4. /\ pause \in Nat
      /\ streak < Threshold => pause = 0
      /\ streak >= Threshold => pause >= InitialBackoff /\ pause <= MaxBackoff
  BY <1>2, BackoffSecondsBounds
<1>5. backoff' = [backoff EXCEPT ![k] = entry]
  BY DEF RecordOutcome
<1> HIDE DEF streak, pause
<1>6. entry \in BackoffState
  BY <1>2, <1>3, <1>4, PollingAssumption DEF BackoffState, Time
<1>7. backoff' \in [Keys -> BackoffState]
  BY <1>5, <1>6 DEF TypeOK
<1>8. ASSUME NEW j \in Keys
      PROVE  LET b == backoff'[j] IN
               /\ b.last_result = None => b.failure_streak = 0
               /\ b.last_result # None => (b.failure_streak = 0 <=> ~Failed(b.last_result))
               /\ b.failure_streak < Threshold => b.backoff_until = 0
               /\ b.failure_streak >= Threshold =>
                    /\ b.backoff_until >= b.last_result.since + InitialBackoff
                    /\ b.backoff_until <= b.last_result.since + MaxBackoff
  <2>1. CASE j = k
    <3>1. backoff'[j] = entry
      BY <2>1, <1>5 DEF TypeOK
    <3>2. streak >= Threshold => pause > 0
      BY <1>4, PollingAssumption
    <3> QED BY <3>1, <3>2, <1>2, <1>3, <1>4, PollingAssumption DEF Time
  <2>2. CASE j # k
    BY <2>2, <1>5 DEF TypeOK, BackoffLaw
  <2> QED BY <2>1, <2>2
<1> QED BY <1>7, <1>8 DEF BackoffLaw

-----------------------------------------------------------------------------
(* The inductive invariant                                                 *)

\* Initially nothing is registered and no call is in progress.
LEMMA InitEstablishesIInv == Init => IInv
<1> SUFFICES ASSUME Init PROVE IInv
  OBVIOUS
<1> USE PollingAssumption DEF Init
<1>1. TypeOK
  BY DEF TypeOK, Time, BackoffState, Outcome, Pending
<1>2. FlightLaw
  BY DEF FlightLaw, Joined, Flying, Pending
<1>3. BackoffLaw
  BY DEF BackoffLaw
<1> QED BY <1>1, <1>2, <1>3 DEF IInv

\* A caller that joins a flight keeps the invariant: the flight it awaits is
\* registered for its key at that moment.
LEMMA JoinKeepsIInv ==
  ASSUME IInv, NEW c \in Callers, NEW k \in Keys, Join(c, k)
  PROVE  IInv'
<1> USE PollingAssumption DEF IInv
<1>1. TypeOK'
  BY DEF TypeOK, Join, Suspend, Enter, Time
<1>2. FlightLaw'
  BY DEF TypeOK, FlightLaw, Join, Suspend, Joined, Flying, Time, Pending, Outcome
<1>3. BackoffLaw'
  BY DEF Join, BackoffLaw
<1> QED BY <1>1, <1>2, <1>3

\* A stale answer changes nothing but the answer.
LEMMA ServeStaleKeepsIInv ==
  ASSUME IInv, NEW c \in Callers, NEW k \in Keys, ServeStale(c, k)
  PROVE  IInv'
<1> USE PollingAssumption DEF IInv
<1>1. TypeOK'
  <2>1. backoff[k].last_result \in Snapshot
    BY DEF ServeStale, BackingOff, TypeOK, BackoffState
  <2> QED BY <2>1 DEF TypeOK, ServeStale, Returned
<1>2. FlightLaw'
  BY DEF FlightLaw, ServeStale, Joined, Flying
<1>3. BackoffLaw'
  BY DEF ServeStale, BackoffLaw
<1> QED BY <1>1, <1>2, <1>3

\* A caller that opens a flight finds no other registered for the key, so the
\* entry it writes is the only one, and no pending joiner loses its flight.
LEMMA ClaimKeepsIInv ==
  ASSUME IInv, NEW c \in Callers, NEW k \in Keys, Claim(c, k)
  PROVE  IInv'
<1> USE PollingAssumption DEF IInv
<1>1. TypeOK'
  BY DEF TypeOK, Claim, Suspend, Enter, Time
<1>2. FlightLaw'
  BY DEF TypeOK, FlightLaw, Claim, Suspend, Joined, Flying, Time, Pending, Outcome
<1>3. BackoffLaw'
  BY DEF Claim, BackoffLaw
<1> QED BY <1>1, <1>2, <1>3

\* Between connect() and poll() only the owner's await changes.
LEMMA ConnectOkKeepsIInv ==
  ASSUME IInv, NEW c \in Callers, ConnectOk(c)
  PROVE  IInv'
<1> USE PollingAssumption DEF IInv
<1>1. TypeOK'
  BY DEF TypeOK, ConnectOk
<1>2. FlightLaw'
  BY DEF TypeOK, FlightLaw, ConnectOk, Joined, Flying
<1>3. BackoffLaw'
  BY DEF ConnectOk, BackoffLaw
<1> QED BY <1>1, <1>2, <1>3

\* However a flight ends, its slot is released and every joiner of it that was
\* pending is settled: none is left pending on a flight that is gone.
LEMMA LandKeepsFlights ==
  ASSUME IInv, NEW c \in Callers, Flying(c),
         NEW kind \in {"fresh", "error", "cancelled"},
         NEW value \in Snapshot \cup {None},
         kind = "fresh" => value # None /\ value.at = now,
         Land(c, kind, value), backoff' \in [Keys -> BackoffState]
  PROVE  TypeOK' /\ FlightLaw'
<1> USE PollingAssumption DEF IInv
<1>1. key[c] \in Keys /\ flight[c] = c /\ inflight[key[c]] = c
  BY DEF TypeOK, FlightLaw, Flying
<1>2. outer' \in [Callers -> Outcome]
  BY DEF Land, Settle, TypeOK, Outcome
<1>3. returned' \in Returned
  BY <1>1 DEF Land, Return, Returned, TypeOK
<1>4. TypeOK'
  <2>1. inflight' \in [Keys -> Callers \cup {None}]
    BY DEF TypeOK, Land, Release
  <2>2. active' \in [Keys -> Nat]
    BY <1>1 DEF TypeOK, Land, Leave
  <2>3. /\ now' \in Time
        /\ pc' \in [Callers -> {"idle", "connecting", "polling", "joined"}]
        /\ key' \in [Callers -> Keys \cup {None}]
        /\ began' \in [Callers -> Time]
        /\ flight' \in [Callers -> Callers \cup {None}]
        /\ \A d \in Callers : pc'[d] # "idle" => key'[d] \in Keys /\ flight'[d] \in Callers
    BY DEF TypeOK, Land, Return, Time
  <2> QED BY <2>1, <2>2, <2>3, <1>2, <1>3 DEF TypeOK
<1>5. inflight' = [inflight EXCEPT ![key[c]] = None]
  BY <1>1 DEF Land, Release, TypeOK
<1>6. ASSUME NEW d \in Callers
      PROVE  /\ pc'[d] = "idle" => key'[d] = None /\ flight'[d] = None
             /\ ~Joined(d)' => outer'[d] = Pending
             /\ Flying(d)' => flight'[d] = d /\ inflight'[key'[d]] = d
             /\ Joined(d)' /\ outer'[d] = Pending => inflight'[key'[d]] = flight'[d]
             /\ began'[d] <= now'
             /\ outer'[d].kind = "fresh" =>
                  outer'[d].value # None /\ outer'[d].value.at >= began'[d]
  <2>1. CASE d = c
    <3>1. /\ pc'[d] = "idle" /\ key'[d] = None /\ flight'[d] = None
          /\ began'[d] = 0 /\ now' = now
      BY <2>1 DEF Land, Return, TypeOK
    <3>2. outer'[d] = Pending
      BY <2>1 DEF Land, Settle, Flying, Joined, FlightLaw
    <3> QED BY <3>1, <3>2 DEF Joined, Flying, Pending, TypeOK, Time
  <2>2. CASE d # c
    <3>1. /\ pc'[d] = pc[d] /\ key'[d] = key[d] /\ flight'[d] = flight[d]
          /\ began'[d] = began[d] /\ now' = now
      BY <2>2 DEF Land, Return, TypeOK
    <3>2. outer'[d] = IF Joined(d) /\ flight[d] = c /\ outer[d] = Pending
                      THEN [kind |-> kind, value |-> value] ELSE outer[d]
      BY DEF Land, Settle
    <3>3. Flying(d) => key[d] # key[c]
      BY <1>1, <2>2 DEF FlightLaw
    <3>4. Joined(d) /\ outer[d] = Pending /\ flight[d] # c => key[d] # key[c]
      BY <1>1, <2>2 DEF FlightLaw
    <3>5. pc[d] # "idle" => key[d] \in Keys
      BY DEF TypeOK
    <3>6. began[d] <= now /\ now \in Int /\ began[d] \in Int
      BY DEF FlightLaw, TypeOK, Time
    <3>7. [kind |-> kind, value |-> value] # Pending
      BY DEF Pending
    <3>8. Joined(d)' => Joined(d)
      BY <3>1 DEF Joined
    <3>9. Flying(d)' => Flying(d)
      BY <3>1 DEF Flying
    <3>10. Flying(d)' => flight'[d] = d /\ inflight'[key'[d]] = d
      BY <3>1, <3>3, <3>5, <3>9, <1>5 DEF FlightLaw, TypeOK, Flying
    <3>11. Joined(d)' /\ outer'[d] = Pending => inflight'[key'[d]] = flight'[d]
      <4> HAVE Joined(d)' /\ outer'[d] = Pending
      <4>1. Joined(d) /\ outer[d] = Pending /\ flight[d] # c
        BY <3>2, <3>7, <3>8
      <4>2. key[d] # key[c] /\ key[d] \in Keys
        BY <4>1, <3>4, <3>5 DEF Joined
      <4>3. inflight'[key[d]] = inflight[key[d]]
        BY <4>2, <1>5 DEF TypeOK
      <4> QED BY <4>1, <4>3, <3>1 DEF FlightLaw
    <3>12. outer'[d].kind = "fresh" =>
             outer'[d].value # None /\ outer'[d].value.at >= began'[d]
      BY <3>1, <3>2, <3>6 DEF FlightLaw
    <3>13. ~Joined(d)' => outer'[d] = Pending
      BY <3>1, <3>2 DEF FlightLaw, Joined
    <3> QED BY <3>1, <3>6, <3>10, <3>11, <3>12, <3>13 DEF FlightLaw
  <2> QED BY <2>1, <2>2
<1>7. ASSUME NEW k \in Keys, inflight'[k] # None
      PROVE  Flying(inflight[k])' /\ key'[inflight'[k]] = k
  <2>1. k # key[c] /\ inflight'[k] = inflight[k] /\ inflight[k] # None
    BY <1>5, <1>7, <1>1 DEF TypeOK
  <2>2. PICK o \in Callers : o = inflight[k]
    BY <2>1 DEF TypeOK
  <2>3. Flying(o) /\ key[o] = k /\ o # c
    BY <2>1, <2>2 DEF FlightLaw
  <2>4. pc'[o] = pc[o] /\ key'[o] = key[o]
    BY <2>3 DEF Land, Return, TypeOK
  <2>5. inflight'[k] = o
    BY <2>1, <2>2
  <2> QED BY <2>3, <2>4, <2>5 DEF Flying
<1>8. FlightLaw'
  BY <1>6, <1>7 DEF FlightLaw
<1> QED BY <1>4, <1>8

\* What a flight records is a snapshot of its own time.
LEMMA ReadingType ==
  ASSUME TypeOK, NEW c \in Callers, NEW healthy \in BOOLEAN, NEW raised \in BOOLEAN
  PROVE  /\ Reading(c, healthy, raised) \in Snapshot
         /\ Reading(c, healthy, raised) # None
         /\ Reading(c, healthy, raised).since \in Time
         /\ Reading(c, healthy, raised).at = now
<1>1. began[c] \in Time /\ now \in Time
  BY DEF TypeOK
<1> QED BY <1>1, PollingAssumption DEF Reading, Snapshot, Time

\* A result in hand is recorded and lands as the answer of everyone.
LEMMA CompleteKeepsIInv ==
  ASSUME IInv, NEW c \in Callers, NEW healthy \in BOOLEAN, Flying(c), Complete(c, healthy)
  PROVE  IInv'
<1> DEFINE value == Reading(c, healthy, FALSE)
<1> USE DEF IInv
<1>1. key[c] \in Keys
  BY DEF TypeOK, Flying
<1>2. /\ value \in Snapshot /\ value # None
      /\ value.since \in Time /\ value.at = now
  BY ReadingType
<1>3. backoff' \in [Keys -> BackoffState] /\ BackoffLaw'
  BY <1>1, <1>2, RecordOutcomeKeepsLaw DEF Complete
<1>4. Land(c, "fresh", value)
  BY DEF Complete
<1> HIDE DEF value
<1>5. TypeOK' /\ FlightLaw'
  BY <1>2, <1>3, <1>4, LandKeepsFlights
<1> QED BY <1>3, <1>5

\* A driver that raises counts as a failure, and everyone gets the exception.
LEMMA FlightRaisesKeepsIInv ==
  ASSUME IInv, NEW c \in Callers, FlightRaises(c)
  PROVE  IInv'
<1> USE DEF IInv
<1>1. key[c] \in Keys
  BY DEF TypeOK, Flying, FlightRaises
<1>2. backoff' \in [Keys -> BackoffState] /\ BackoffLaw'
  <2>1. PICK healthy \in BOOLEAN : RecordOutcome(key[c], Reading(c, healthy, TRUE))
    BY DEF FlightRaises
  <2> QED BY <1>1, <2>1, ReadingType, RecordOutcomeKeepsLaw
<1>3. TypeOK' /\ FlightLaw'
  BY <1>2, LandKeepsFlights DEF FlightRaises
<1> QED BY <1>2, <1>3

\* A cancelled owner cancels everyone and leaves the backoff record alone.
LEMMA OwnerCancelledKeepsIInv ==
  ASSUME IInv, NEW c \in Callers, OwnerCancelled(c)
  PROVE  IInv'
<1> USE DEF IInv
<1>1. backoff' \in [Keys -> BackoffState] /\ BackoffLaw'
  BY DEF OwnerCancelled, TypeOK, BackoffLaw
<1>2. TypeOK' /\ FlightLaw'
  BY <1>1, LandKeepsFlights DEF OwnerCancelled
<1> QED BY <1>1, <1>2

\* A joiner that leaves disturbs neither the flight nor the other joiners.
LEMMA LeaveFlightKeepsIInv ==
  ASSUME IInv, NEW c \in Callers, Joined(c),
         NEW kind \in {"fresh", "error", "cancelled"},
         NEW value \in Snapshot \cup {None}, LeaveFlight(c, kind, value)
  PROVE  IInv'
<1> USE PollingAssumption DEF IInv
<1>1. key[c] \in Keys
  BY DEF TypeOK, Joined
<1>2. TypeOK'
  <2>1. outer' \in [Callers -> Outcome] /\ active' \in [Keys -> Nat]
    BY <1>1 DEF LeaveFlight, Leave, TypeOK, Outcome, Pending
  <2>2. returned' \in Returned
    BY <1>1 DEF LeaveFlight, Return, Returned, TypeOK
  <2>3. /\ pc' \in [Callers -> {"idle", "connecting", "polling", "joined"}]
        /\ key' \in [Callers -> Keys \cup {None}]
        /\ began' \in [Callers -> Time]
        /\ flight' \in [Callers -> Callers \cup {None}]
        /\ \A d \in Callers : pc'[d] # "idle" => key'[d] \in Keys /\ flight'[d] \in Callers
    BY DEF TypeOK, LeaveFlight, Return, Time
  <2>4. UNCHANGED <<now, inflight, backoff>>
    BY DEF LeaveFlight
  <2> QED BY <2>1, <2>2, <2>3, <2>4 DEF TypeOK
<1>3. FlightLaw'
  <2>1. \A k \in Keys : inflight[k] # c
    BY DEF FlightLaw, Joined, Flying, TypeOK
  <2>2. /\ pc' = [pc EXCEPT ![c] = "idle"]
        /\ key' = [key EXCEPT ![c] = None]
        /\ began' = [began EXCEPT ![c] = 0]
        /\ flight' = [flight EXCEPT ![c] = None]
        /\ outer' = [outer EXCEPT ![c] = Pending]
        /\ inflight' = inflight /\ now' = now
    BY DEF LeaveFlight, Return
  <2>3. \A k \in Keys : inflight'[k] # None =>
          pc'[inflight'[k]] = pc[inflight[k]] /\ key'[inflight'[k]] = key[inflight[k]]
    BY <2>1, <2>2 DEF TypeOK
  <2>4. \A k \in Keys : inflight'[k] # None => Flying(inflight[k])' /\ key'[inflight'[k]] = k
    BY <2>2, <2>3 DEF FlightLaw, Flying
  <2>5. ASSUME NEW d \in Callers
        PROVE  /\ pc'[d] = "idle" => key'[d] = None /\ flight'[d] = None
               /\ ~Joined(d)' => outer'[d] = Pending
               /\ Flying(d)' => flight'[d] = d /\ inflight'[key'[d]] = d
               /\ Joined(d)' /\ outer'[d] = Pending => inflight'[key'[d]] = flight'[d]
               /\ began'[d] <= now'
               /\ outer'[d].kind = "fresh" =>
                    outer'[d].value # None /\ outer'[d].value.at >= began'[d]
    <3>1. CASE d = c
      BY <3>1, <2>2 DEF TypeOK, Joined, Flying, Pending, Time
    <3>2. CASE d # c
      BY <3>2, <2>2 DEF TypeOK, FlightLaw, Joined, Flying
    <3> QED BY <3>1, <3>2
  <2> QED BY <2>4, <2>5 DEF FlightLaw
<1>4. BackoffLaw'
  BY DEF LeaveFlight, BackoffLaw
<1> QED BY <1>2, <1>3, <1>4

\* The clock only makes calls older.
LEMMA TickKeepsIInv == IInv /\ Tick => IInv'
<1> SUFFICES ASSUME IInv, Tick PROVE IInv'
  OBVIOUS
<1> USE PollingAssumption DEF IInv
<1>1. TypeOK'
  BY DEF TypeOK, Tick, Time
<1>2. FlightLaw'
  BY DEF TypeOK, FlightLaw, Tick, Joined, Flying, Time
<1>3. BackoffLaw'
  BY DEF Tick, BackoffLaw
<1> QED BY <1>1, <1>2, <1>3

\* Every step of the system keeps the invariant.
LEMMA NextKeepsIInv == IInv /\ [Next]_vars => IInv'
<1> SUFFICES ASSUME IInv, [Next]_vars PROVE IInv'
  OBVIOUS
<1>1. ASSUME NEW c \in Callers, NEW k \in Keys, Join(c, k) PROVE IInv'
  BY <1>1, JoinKeepsIInv
<1>2. ASSUME NEW c \in Callers, NEW k \in Keys, ServeStale(c, k) PROVE IInv'
  BY <1>2, ServeStaleKeepsIInv
<1>3. ASSUME NEW c \in Callers, NEW k \in Keys, Claim(c, k) PROVE IInv'
  BY <1>3, ClaimKeepsIInv
<1>4. ASSUME NEW c \in Callers, ConnectOk(c) PROVE IInv'
  BY <1>4, ConnectOkKeepsIInv
<1>5. ASSUME NEW c \in Callers, ConnectFailed(c) PROVE IInv'
  BY <1>5, CompleteKeepsIInv DEF ConnectFailed, Flying
<1>6. ASSUME NEW c \in Callers, PollDone(c) PROVE IInv'
  BY <1>6, CompleteKeepsIInv DEF PollDone, Flying
<1>7. ASSUME NEW c \in Callers, FlightRaises(c) PROVE IInv'
  BY <1>7, FlightRaisesKeepsIInv
<1>8. ASSUME NEW c \in Callers, OwnerCancelled(c) PROVE IInv'
  BY <1>8, OwnerCancelledKeepsIInv
<1>9. ASSUME NEW c \in Callers, Resume(c) PROVE IInv'
  <2>1. outer[c].kind \in {"fresh", "error", "cancelled"} /\ outer[c].value \in Snapshot \cup {None}
    BY <1>9 DEF Resume, IInv, TypeOK, Outcome
  <2> QED BY <1>9, <2>1, LeaveFlightKeepsIInv DEF Resume
<1>10. ASSUME NEW c \in Callers, JoinerCancelled(c) PROVE IInv'
  BY <1>10, LeaveFlightKeepsIInv DEF JoinerCancelled
<1>11. CASE Tick
  BY <1>11, TickKeepsIInv
<1>12. CASE UNCHANGED vars
  BY <1>12 DEF IInv, TypeOK, FlightLaw, BackoffLaw, vars, Joined, Flying
<1> QED
  BY <1>1, <1>2, <1>3, <1>4, <1>5, <1>6, <1>7, <1>8, <1>9, <1>10, <1>11, <1>12
  DEF Next, Progress

\* IInv holds in every reachable state.
LEMMA IInvInvariant == Spec => []IInv
<1>1. Init => IInv
  BY InitEstablishesIInv
<1>2. IInv /\ [Next]_vars => IInv'
  BY NextKeepsIInv
<1> QED BY <1>1, <1>2, PTL DEF Spec

-----------------------------------------------------------------------------
(* Calls, flights and futures                                              *)

\* Every variable of collect_snapshot and its classes keeps its type.
THEOREM TypeCorrect == Spec => []TypeOK
<1>1. IInv => TypeOK
  BY DEF IInv
<1> QED BY <1>1, IInvInvariant, PTL

\* The registry of in-flight futures and the callers agree in every state.
THEOREM FlightsAgree == Spec => []FlightLaw
<1>1. IInv => FlightLaw
  BY DEF IInv
<1> QED BY <1>1, IInvInvariant, PTL

\* Two callers never converse with the device of one key at once: each flying
\* caller owns the one future registered for its key.
THEOREM OneFlightPerDevice == Spec => []SingleFlight
<1>1. IInv => SingleFlight
  BY DEF IInv, FlightLaw, SingleFlight
<1> QED BY <1>1, IInvInvariant, PTL

\* No joiner waits for a future that is gone: a pending outer future belongs
\* to a registered flight, whose owner is flying.
THEOREM JoinersAreNotOrphaned == Spec => []NoOrphanedJoiner
<1>1. IInv => NoOrphanedJoiner
  <2> SUFFICES ASSUME IInv, NEW c \in Callers, Joined(c), outer[c] = Pending
               PROVE  /\ inflight[key[c]] = flight[c]
                      /\ Flying(flight[c]) /\ key[flight[c]] = key[c]
    BY DEF NoOrphanedJoiner
  <2>1. key[c] \in Keys /\ flight[c] \in Callers
    BY DEF IInv, TypeOK, Joined
  <2>2. inflight[key[c]] = flight[c] /\ flight[c] # None
    BY <2>1, PollingAssumption DEF IInv, FlightLaw
  <2> QED BY <2>1, <2>2 DEF IInv, FlightLaw
<1> QED BY <1>1, IInvInvariant, PTL

-----------------------------------------------------------------------------
(* Backoff                                                                 *)

\* The backoff record of every key agrees with its last recorded flight.
THEOREM BackoffAgrees == Spec => []BackoffLaw
<1>1. IInv => BackoffLaw
  BY DEF IInv
<1> QED BY <1>1, IInvInvariant, PTL

\* A key that has failed Threshold times in a row gets no new flight before
\* InitialBackoff has passed since its last one began: only Claim registers a
\* future, and it does so outside the window BackoffLaw describes.
THEOREM FailingDevicesRest == Spec => FailingDeviceIsLeftAlone
<1>1. IInv /\ [Next]_vars => [FailingDeviceRests]_vars
  <2> SUFFICES ASSUME IInv, Next, NEW k \in Keys, inflight'[k] # None,
                      inflight'[k] # inflight[k],
                      backoff[k].failure_streak >= Threshold
               PROVE  now >= backoff[k].last_result.since + InitialBackoff
    BY DEF FailingDeviceRests
  <2> USE DEF IInv
  <2>1. ASSUME NEW c \in Callers, NEW j \in Keys, Claim(c, j)
        PROVE  now >= backoff[k].last_result.since + InitialBackoff
    <3>1. j = k /\ ~BackingOff(k)
      BY <2>1 DEF Claim, TypeOK
    <3>2. backoff[k].failure_streak \in Nat /\ backoff[k].failure_streak # 0
      BY PollingAssumption DEF TypeOK, BackoffState
    <3>3. backoff[k].last_result # None /\ backoff[k].last_result \in Snapshot
      BY <3>2 DEF BackoffLaw, TypeOK, BackoffState
    <3>4. backoff[k].backoff_until <= now
      BY <3>1, <3>3 DEF BackingOff, TypeOK, BackoffState, Time
    <3>5. backoff[k].backoff_until >= backoff[k].last_result.since + InitialBackoff
      BY DEF BackoffLaw
    <3> QED BY <3>3, <3>4, <3>5, PollingAssumption DEF TypeOK, BackoffState, Snapshot, Time
  <2>2. ASSUME NEW c \in Callers, Flying(c), NEW kind, NEW value, Land(c, kind, value)
        PROVE  FALSE
    BY <2>2 DEF Land, Release, TypeOK, FlightLaw
  <2>3. ASSUME UNCHANGED inflight PROVE FALSE
    BY <2>3
  <2> QED
    BY <2>1, <2>2, <2>3
    DEF Next, Progress, Join, ServeStale, ConnectOk, ConnectFailed, PollDone, Complete,
        FlightRaises, OwnerCancelled, Resume, JoinerCancelled, LeaveFlight, Tick, Flying
<1> QED BY <1>1, IInvInvariant, PTL DEF Spec, FailingDeviceIsLeftAlone

-----------------------------------------------------------------------------
(* Answers                                                                 *)

\* What a step returns is honest, by the invariant of the state it starts in.
LEMMA StepAnswersHonestly == IInv /\ AnswersAreHonest /\ [Next]_vars => AnswersAreHonest'
<1> SUFFICES ASSUME IInv, AnswersAreHonest, [Next]_vars PROVE AnswersAreHonest'
  OBVIOUS
<1> USE DEF IInv, AnswersAreHonest, FreshAnswersAreFresh, StaleAnswersAreRecentFailures
<1>1. CASE returned' = None
  BY <1>1
<1>2. ASSUME NEW c \in Callers, NEW k \in Keys, ServeStale(c, k) PROVE AnswersAreHonest'
  <2> DEFINE b == backoff[k]
  <2>1. b \in BackoffState /\ b.last_result \in Snapshot /\ b.backoff_until > now
    BY <1>2 DEF ServeStale, BackingOff, TypeOK, BackoffState
  <2>2. b.failure_streak >= Threshold
    BY <2>1, PollingAssumption DEF BackoffLaw, BackoffState, TypeOK, Time
  <2>3. b.last_result.healthy => b.last_result.raised
    <3>1. b.failure_streak # 0 /\ b.last_result # None
      BY <2>1, <2>2, PollingAssumption DEF BackoffState
    <3> QED BY <3>1 DEF BackoffLaw, Failed
  <2>4. now < b.last_result.since + MaxBackoff
    BY <2>1, <2>2, PollingAssumption DEF BackoffLaw, BackoffState, Snapshot, TypeOK, Time
  <2>5. returned' = [asked |-> now, kind |-> "stale", value |-> b.last_result]
    BY <1>2 DEF ServeStale
  <2> QED BY <2>3, <2>4, <2>5
<1>3. ASSUME NEW c \in Callers, NEW kind \in {"fresh", "error", "cancelled"}, NEW value,
             kind = "fresh" => value.at >= began[c], Return(c, kind, value)
      PROVE  AnswersAreHonest'
  <2>1. returned'.kind = kind /\ returned'.value = value /\ returned'.asked = began[c]
    BY <1>3 DEF Return
  <2> QED BY <1>3, <2>1
<1>4. ASSUME NEW c \in Callers, NEW healthy \in BOOLEAN, Complete(c, healthy)
      PROVE  AnswersAreHonest'
  <2>1. now >= began[c]
    BY DEF FlightLaw, TypeOK, Time
  <2> QED BY <1>3, <1>4, <2>1 DEF Complete, Land, Reading
<1>5. ASSUME NEW c \in Callers, Resume(c) PROVE AnswersAreHonest'
  <2>1. outer[c].kind \in {"fresh", "error", "cancelled"}
    BY <1>5 DEF Resume, TypeOK, Outcome
  <2>2. outer[c].kind = "fresh" => outer[c].value.at >= began[c]
    BY DEF FlightLaw
  <2> QED BY <1>3, <1>5, <2>1, <2>2 DEF Resume, LeaveFlight
<1>6. ASSUME NEW c \in Callers, FlightRaises(c) \/ OwnerCancelled(c) \/ JoinerCancelled(c)
      PROVE  AnswersAreHonest'
  BY <1>3, <1>6 DEF FlightRaises, OwnerCancelled, JoinerCancelled, Land, LeaveFlight
<1>7. CASE UNCHANGED vars
  BY <1>7 DEF vars
<1> QED
  BY <1>1, <1>2, <1>4, <1>5, <1>6, <1>7
  DEF Next, Progress, Join, Claim, Suspend, ConnectOk, ConnectFailed, PollDone, Tick

\* In every execution a fresh answer was read after it was asked for, and a
\* stale one repeats what a failed flight recorded that began less than
\* MaxBackoff before, healthy only where that flight ended by an exception.
THEOREM HonestAnswers == Spec => []AnswersAreHonest
<1>1. Init => AnswersAreHonest
  BY DEF Init, AnswersAreHonest, FreshAnswersAreFresh, StaleAnswersAreRecentFailures
<1>2. IInv /\ AnswersAreHonest /\ [Next]_vars => AnswersAreHonest'
  BY StepAnswersHonestly
<1> QED BY <1>1, <1>2, IInvInvariant, PTL DEF Spec

-----------------------------------------------------------------------------
(* Telemetry                                                               *)

\* A step of c that does not touch the other callers changes Inside by c only.
LEMMA InsideChanges ==
  ASSUME TypeOK, NEW c \in Callers, NEW k \in Keys,
         \A d \in Callers \ {c} : pc'[d] = pc[d] /\ key'[d] = key[d]
  PROVE  /\ IsFiniteSet(Inside(k))
         /\ pc'[c] # "idle" /\ key'[c] = k => Inside(k)' = Inside(k) \cup {c}
         /\ ~(pc'[c] # "idle" /\ key'[c] = k) => Inside(k)' = Inside(k) \ {c}
<1>1. IsFiniteSet(Inside(k))
  BY PollingAssumption, FS_Subset DEF Inside
<1> QED BY <1>1 DEF Inside

\* A call enters the observed section of its key.
LEMMA EnterKeepsCount ==
  ASSUME TypeOK, ActiveCountExact, NEW c \in Callers, NEW k \in Keys, pc[c] = "idle",
         pc' = [pc EXCEPT ![c] = pc'[c]], pc'[c] # "idle",
         key' = [key EXCEPT ![c] = k], Enter(k)
  PROVE  ActiveCountExact'
<1> SUFFICES ASSUME NEW j \in Keys PROVE active'[j] = Cardinality(Inside(j)')
  BY DEF ActiveCountExact
<1>1. \A d \in Callers \ {c} : pc'[d] = pc[d] /\ key'[d] = key[d]
  BY DEF TypeOK
<1>2. key'[c] = k /\ c \notin Inside(j) /\ active[j] = Cardinality(Inside(j))
  BY DEF TypeOK, Inside, ActiveCountExact
<1>3. CASE j = k
  <2>1. Inside(j)' = Inside(j) \cup {c} /\ IsFiniteSet(Inside(j))
    BY <1>1, <1>2, <1>3, InsideChanges
  <2>2. Cardinality(Inside(j)') = Cardinality(Inside(j)) + 1
    BY <2>1, <1>2, FS_AddElement
  <2> QED BY <2>2, <1>2, <1>3 DEF Enter, TypeOK
<1>4. CASE j # k
  <2>1. Inside(j)' = Inside(j)
    BY <1>1, <1>2, <1>4, InsideChanges
  <2> QED BY <2>1, <1>2, <1>4 DEF Enter, TypeOK
<1> QED BY <1>3, <1>4

\* A call leaves the observed section of its key: it was counted, so the floor
\* at zero is not reached.
LEMMA LeaveKeepsCount ==
  ASSUME TypeOK, ActiveCountExact, NEW c \in Callers, pc[c] # "idle",
         pc' = [pc EXCEPT ![c] = "idle"], key' = [key EXCEPT ![c] = None], Leave(key[c])
  PROVE  ActiveCountExact'
<1> SUFFICES ASSUME NEW j \in Keys PROVE active'[j] = Cardinality(Inside(j)')
  BY DEF ActiveCountExact
<1>1. \A d \in Callers \ {c} : pc'[d] = pc[d] /\ key'[d] = key[d]
  BY DEF TypeOK
<1>2. pc'[c] = "idle" /\ key[c] \in Keys /\ active[j] = Cardinality(Inside(j))
  BY DEF TypeOK, ActiveCountExact
<1>3. Inside(j)' = Inside(j) \ {c} /\ IsFiniteSet(Inside(j))
  BY <1>1, <1>2, InsideChanges
<1>4. CASE j = key[c]
  <2>1. c \in Inside(j)
    BY <1>4 DEF Inside
  <2>2. Cardinality(Inside(j)') = Cardinality(Inside(j)) - 1
    BY <1>3, <2>1, FS_RemoveElement
  <2>3. Cardinality(Inside(j)) \in Nat /\ Cardinality(Inside(j)) # 0
    BY <1>3, <2>1, FS_CardinalityType, FS_EmptySet
  <2> QED BY <2>2, <2>3, <1>2, <1>4 DEF Leave, TypeOK
<1>5. CASE j # key[c]
  <2>1. c \notin Inside(j)
    BY <1>5 DEF Inside
  <2>2. Inside(j)' = Inside(j)
    BY <2>1, <1>3
  <2> QED BY <2>2, <1>2, <1>5 DEF Leave, TypeOK
<1> QED BY <1>4, <1>5

\* active_refresh_count is the number of callers inside the observed section of
\* the key, in every state and for every number of callers.
THEOREM TelemetryCountsCallers == Spec => []ActiveCountExact
<1>1. Init => ActiveCountExact
  <2> SUFFICES ASSUME Init, NEW k \in Keys PROVE active[k] = Cardinality(Inside(k))
    BY DEF ActiveCountExact
  <2>1. Inside(k) = {}
    BY DEF Init, Inside
  <2> QED BY <2>1, FS_EmptySet DEF Init
<1>2. IInv /\ ActiveCountExact /\ [Next]_vars => ActiveCountExact'
  <2> SUFFICES ASSUME IInv, ActiveCountExact, [Next]_vars PROVE ActiveCountExact'
    OBVIOUS
  <2>1. TypeOK
    BY DEF IInv
  <2>2. ASSUME NEW c \in Callers, NEW k \in Keys, Join(c, k) \/ Claim(c, k)
        PROVE  ActiveCountExact'
    BY <2>1, <2>2, EnterKeepsCount DEF Join, Claim, Suspend, TypeOK
  <2>3. ASSUME NEW c \in Callers, ConnectOk(c) PROVE ActiveCountExact'
    <3>1. \A k \in Keys : Inside(k)' = Inside(k)
      BY <2>1, <2>3 DEF ConnectOk, Inside, TypeOK
    <3> QED BY <2>3, <3>1 DEF ConnectOk, ActiveCountExact
  <2>4. ASSUME NEW c \in Callers, NEW kind, NEW value, Flying(c), Land(c, kind, value)
        PROVE  ActiveCountExact'
    BY <2>1, <2>4, LeaveKeepsCount DEF Land, Return, Flying
  <2>5. ASSUME NEW c \in Callers, NEW kind, NEW value, Joined(c), LeaveFlight(c, kind, value)
        PROVE  ActiveCountExact'
    BY <2>1, <2>5, LeaveKeepsCount DEF LeaveFlight, Return, Joined
  <2>6. ASSUME UNCHANGED <<pc, key, active>> PROVE ActiveCountExact'
    BY <2>6 DEF ActiveCountExact, Inside
  <2>7. ASSUME NEW c \in Callers,
               ConnectFailed(c) \/ PollDone(c) \/ FlightRaises(c) \/ OwnerCancelled(c)
        PROVE  ActiveCountExact'
    <3>1. Flying(c)
      BY <2>7 DEF ConnectFailed, PollDone, FlightRaises, OwnerCancelled, Flying
    <3>2. \E kind, value : Land(c, kind, value)
      BY <2>7 DEF ConnectFailed, PollDone, Complete, FlightRaises, OwnerCancelled
    <3> QED BY <2>4, <3>1, <3>2
  <2>8. ASSUME NEW c \in Callers, Resume(c) \/ JoinerCancelled(c) PROVE ActiveCountExact'
    BY <2>5, <2>8 DEF Resume, JoinerCancelled
  <2>9. ASSUME NEW c \in Callers, NEW k \in Keys, ServeStale(c, k) PROVE ActiveCountExact'
    BY <2>6, <2>9 DEF ServeStale
  <2>10. CASE Tick \/ UNCHANGED vars
    BY <2>6, <2>10 DEF Tick, vars
  <2> QED BY <2>2, <2>3, <2>7, <2>8, <2>9, <2>10 DEF Next, Progress
<1> QED BY <1>1, <1>2, IInvInvariant, PTL DEF Spec

-----------------------------------------------------------------------------
(* The contract                                                            *)

\* A flight that ends is a conversation that is hung up: exactly the callers
\* that wait for its key come to be owed its outcome.
LEMMA LandHangsUp ==
  ASSUME IInv, NEW c \in Callers, Flying(c),
         NEW kind \in {"fresh", "error", "cancelled"}, NEW value, Land(c, kind, value)
  PROVE  Contract!HangUp(key[c], kind)
<1> USE DEF IInv
<1>1. key[c] \in Keys /\ inflight[key[c]] = c /\ c # None
  BY PollingAssumption DEF TypeOK, FlightLaw, Flying
<1>2. inflight' = [inflight EXCEPT ![key[c]] = None]
  BY <1>1 DEF Land, Release, TypeOK
<1>3. key' = [key EXCEPT ![c] = None]
  BY DEF Land, Return
<1>4. ASSUME NEW d \in Callers
      PROVE  outer'[d].kind = IF key[d] = key[c] /\ outer[d].kind = "pending" /\ d # c
                              THEN kind ELSE outer[d].kind
  <2>1. outer'[d] = IF Joined(d) /\ flight[d] = c /\ outer[d] = Pending
                    THEN [kind |-> kind, value |-> value] ELSE outer[d]
    BY DEF Land, Settle
  <2>2. outer[d].kind = "pending" <=> outer[d] = Pending
    BY DEF TypeOK, Outcome, Pending
  <2>3. Joined(d) /\ flight[d] = c /\ outer[d] = Pending => key[d] = key[c] /\ d # c
    BY PollingAssumption DEF TypeOK, FlightLaw, Joined, Flying
  <2>4. key[d] = key[c] /\ outer[d] = Pending /\ d # c => Joined(d) /\ flight[d] = c
    BY <1>1, PollingAssumption DEF TypeOK, FlightLaw, Joined, Flying
  <2> QED BY <2>1, <2>2, <2>3, <2>4
<1>5. [d \in Callers |-> outer'[d].kind]
        = [d \in Callers |-> IF key[d] = key[c] /\ outer[d].kind = "pending" /\ d # c
                              THEN kind ELSE outer[d].kind]
  BY <1>4
<1> QED BY <1>1, <1>2, <1>3, <1>5 DEF Contract!HangUp

\* collect_snapshot implements the contract: one conversation per device, and
\* all who waited for it get its outcome.
THEOREM PollingKeepsContract == Spec => Contract!SafetySpec
<1>1. Init => Contract!Init
  BY DEF Init, Contract!Init, Pending
<1>2. IInv /\ [Next]_vars => [Contract!Next]_Contract!vars
  <2> SUFFICES ASSUME IInv, [Next]_vars PROVE Contract!Next \/ UNCHANGED Contract!vars
    OBVIOUS
  <2> USE DEF IInv
  <2>1. ASSUME NEW c \in Callers, NEW k \in Keys, Join(c, k) \/ Claim(c, k)
        PROVE  Contract!Next
    <3>1. key[c] = None /\ outer' = outer /\ key' = [key EXCEPT ![c] = k]
      BY <2>1 DEF Join, Claim, Suspend, FlightLaw
    <3>2. inflight' = [inflight EXCEPT ![k] = IF @ = None THEN c ELSE @]
      BY <2>1 DEF Join, Claim, TypeOK
    <3>3. Contract!Ask(c, k)
      BY <3>1, <3>2 DEF Contract!Ask
    <3> QED BY <3>3 DEF Contract!Next
  <2>2. ASSUME NEW c \in Callers, Flying(c), NEW kind \in {"fresh", "error", "cancelled"},
               NEW value, Land(c, kind, value)
        PROVE  Contract!Next
    <3>1. key[c] \in Keys
      BY <2>2 DEF TypeOK, Flying
    <3> QED BY <2>2, <3>1, LandHangsUp DEF Contract!Next, Contract!Outcomes
  <2>3. ASSUME NEW c \in Callers, Joined(c), NEW kind, NEW value, LeaveFlight(c, kind, value)
        PROVE  Contract!Next
    <3>1. key[c] # None /\ \A k \in Keys : inflight[k] # c
      BY <2>3, PollingAssumption DEF TypeOK, FlightLaw, Joined, Flying
    <3>2. /\ key' = [key EXCEPT ![c] = None] /\ inflight' = inflight
          /\ outer' = [outer EXCEPT ![c] = Pending]
      BY <2>3 DEF LeaveFlight, Return
    <3>3. [d \in Callers |-> outer'[d].kind]
            = [[d \in Callers |-> outer[d].kind] EXCEPT ![c] = "pending"]
      BY <3>2 DEF TypeOK, Pending
    <3>4. Contract!GiveUp(c)
      BY <3>1, <3>2, <3>3 DEF Contract!GiveUp
    <3> QED BY <3>4 DEF Contract!Next
  <2>4. ASSUME UNCHANGED <<inflight, key, outer>> PROVE UNCHANGED Contract!vars
    BY <2>4 DEF Contract!vars
  <2> QED
    BY <2>1, <2>2, <2>3, <2>4
    DEF Next, Progress, ServeStale, ConnectOk, ConnectFailed, PollDone, Complete,
        FlightRaises, OwnerCancelled, Resume, JoinerCancelled, Tick, Flying, vars
<1> QED BY <1>1, <1>2, IInvInvariant, PTL DEF Spec, Contract!SafetySpec

=============================================================================
