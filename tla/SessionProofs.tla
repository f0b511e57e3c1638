---------------------------- MODULE SessionProofs ----------------------------
(***************************************************************************)
(* Proofs about what one session does: its commands (CommandSession), for  *)
(* any controllers, patterns and windows, and its refresh loops            *)
(* (FleetRefresh), for any set of controllers, any number of tasks and any *)
(* number of operator actions.                                             *)
(*                                                                         *)
(* The inductive invariant of the commands adds to their properties what   *)
(* the session carries from the request to the SET: a pending command has  *)
(* its own row and has not been carried out (PendingWasAsked), and a       *)
(* command in execution that may write was confirmed in time, in a session *)
(* whose write mode nothing can close before it is over (RunningMayWrite). *)
(*                                                                         *)
(* Of the loops the exclusion of live ones and the flag of the fleet's are *)
(* inductive together with the shape of the two task tables; how top bar   *)
(* and cards come to differ is a matter of single steps.  The types of the *)
(* monitor need that the selection a fleet task writes back is in the list *)
(* it read.                                                                *)
(***************************************************************************)
EXTENDS CommandSession, FleetRefresh, ProfileListProofs

\* The row that asked for the confirmation of a request.
AskedBy(r, id, value) == r.kind = "confirm" /\ r.id = id /\ r.value = value

IdsAreUsed ==
  /\ call.id <= calls /\ call.asked <= calls
  /\ \A r \in trail : r.id <= calls
  /\ \A w \in sets : w.id <= calls /\ w.asked <= calls

PendingWasAsked ==
  pending # None =>
    /\ \E r \in trail : /\ AskedBy(r, pending.asked, pending.value)
                        /\ r.at <= now /\ pending.expires = r.at + ConfirmWindow
    /\ 0 < pending.asked /\ pending.asked <= calls
    /\ \A w \in sets : w.asked # pending.asked
    /\ ~Idle => call.asked # pending.asked

RunningMayWrite ==
  ~Idle /\ ~call.probe =>
    /\ signedIn /\ writing /\ ~probe /\ call.began < unlocked
    /\ \E r \in trail : /\ AskedBy(r, call.asked, call.value)
                        /\ r.at <= call.began /\ call.began < r.at + ConfirmWindow
    /\ \A w \in sets : w.asked = call.asked => w = call

SetsAreCalls ==
  /\ \A w \in sets : w.id = call.id => w = call
  /\ pc = "polling" /\ ~call.probe => Landed

SessionIInv == /\ TypeOK /\ SessionLaw
        /\ IdsAreUsed /\ PendingWasAsked /\ RunningMayWrite /\ SetsAreCalls
        /\ WritesWereConfirmed /\ WritesAreAudited /\ AcknowledgedWasWritten

-----------------------------------------------------------------------------
(* Types and sign-in                                                       *)

\* Every step keeps the types: the calls of the field are those of send_command.
LEMMA TypeStep == TypeOK /\ [Next]_vars => TypeOK'
<1> SUFFICES ASSUME TypeOK, [Next]_vars PROVE TypeOK'
  OBVIOUS
<1> USE SessionAssumption DEF SessionAssumption
<1>1. CASE SignIn
  <2>1. CASE LoginRefused
    BY <2>1 DEF LoginRefused, TypeOK, Time, safety, running, audit
  <2>2. CASE LoginSucceeds
    BY <2>2 DEF LoginSucceeds, TypeOK, Time, safety, running, audit
  <2>3. CASE LoginFails
    <3>1. now + LockoutWindow \in Nat
      BY DEF TypeOK, Time
    <3>2. failed' \in 0 .. MaxAttempts /\ lockout' \in Nat \cup {None}
      BY <2>3, <3>1 DEF LoginFails, TypeOK
    <3>3. QED
      BY <2>3, <3>2 DEF LoginFails, Lock, TypeOK, running, audit
  <2>4. CASE Logout
    BY <2>4 DEF Logout, Lock, TypeOK, Time, running, audit
  <2>5. CASE ResetLockout
    BY <2>5 DEF ResetLockout, TypeOK, Time, safety, running, audit
  <2>6. QED
    BY <1>1, <2>1, <2>2, <2>3, <2>4, <2>5 DEF SignIn
<1>2. CASE Prepare
  <2>1. ASSUME NEW rightKey \in BOOLEAN, Unlock(rightKey) PROVE TypeOK'
    <3>1. now + UnlockWindow \in Nat
      BY DEF TypeOK, Time
    <3>2. QED
      BY <2>1, <3>1 DEF Unlock, Lock, TypeOK, login, running, audit
  <2>2. ASSUME NEW on \in BOOLEAN, SwitchProbe(on) PROVE TypeOK'
    BY <2>2 DEF SwitchProbe, Lock, TypeOK, Time, login, running, audit
  <2>3. CASE LockWriteMode
    BY <2>3 DEF LockWriteMode, Lock, TypeOK, Time, login, running, audit
  <2>4. ASSUME NEW d \in Controllers, Select(d) PROVE TypeOK'
    BY <2>4 DEF Select, TypeOK, Time, login, safety, running, audit
  <2>5. QED
    BY <1>2, <2>1, <2>2, <2>3, <2>4 DEF Prepare
<1>3. ASSUME NEW value \in Patterns, Request(value) PROVE TypeOK'
  BY <1>3 DEF Request, Deny, Execute, Log, NextId, Idle,
     TypeOK, Time, Call, Row, Command, Stages, Steps, login, safety, running, audit
<1>4. CASE ConfirmExpired \/ ConfirmMismatched
  BY <1>4 DEF ConfirmExpired, ConfirmMismatched, TypeOK, Time, Stages, login, safety, running, audit
<1>5. CASE ConfirmMatched
  <2>1. pending \in Command /\ calls + 1 \in 0 .. MaxCalls /\ calls' = calls + 1
    BY <1>5 DEF ConfirmMatched, Forced, NextId, TypeOK
  <2>2. CASE Deny(pending.value)
    <3>1. trail' \subseteq Row /\ stage' \in Stages
      BY <2>1, <2>2 DEF Deny, Log, NextId, TypeOK, Row, Command, Stages
    <3>2. QED
      BY <1>5, <2>1, <2>2, <3>1 DEF ConfirmMatched, Forced, Deny, Execute, Lock, TypeOK, Time, login, safety, running
  <2>3. CASE Execute(pending.value, pending.asked)
    <3>1. call' \in Call /\ pc' \in Steps /\ stage' \in Stages
      BY <2>1, <2>3 DEF Execute, NextId, TypeOK, Call, Command, Stages, Steps
    <3>2. QED
      BY <1>5, <2>1, <2>3, <3>1 DEF ConfirmMatched, Forced, Deny, Execute, Lock, TypeOK, Time, login, safety, running
  <2>4. QED
    BY <1>5, <2>2, <2>3 DEF ConfirmMatched, Forced
<1>6. ASSUME NEW outcome \in Outcomes, Finish(outcome) PROVE TypeOK'
  BY <1>6 DEF Finish, Log, Outcomes, TypeOK, Time, Call, Row, Stages, Steps, login, safety
<1>7. ASSUME NEW step \in Steps, Await(step) PROVE TypeOK'
  BY <1>7 DEF Await, TypeOK, Time, login, safety, audit
<1>8. CASE Field
  <2>1. CASE SetLands
    BY <2>1 DEF SetLands, TypeOK, Time, login, safety, audit
  <2>2. QED
    BY <1>6, <1>7, <1>8, <2>1 DEF Field, Connect, ProbeTarget, SetAnswered, SetFails, Poll, Outcomes, Steps
<1>9. CASE Tick
  BY <1>9 DEF Tick, TypeOK, Time, login, safety, running, audit
<1>10. CASE UNCHANGED vars
  BY <1>10 DEF vars, TypeOK, Time, login, safety, running, audit
<1>11. QED
  BY <1>1, <1>2, <1>3, <1>4, <1>5, <1>8, <1>9, <1>10 DEF Next, Write

\* Signing in, locking out and opening write mode stay consistent.
LEMMA LawStep == TypeOK /\ SessionLaw /\ [Next]_vars => SessionLaw'
<1> SUFFICES ASSUME TypeOK, SessionLaw, [Next]_vars PROVE SessionLaw'
  OBVIOUS
<1> USE SessionAssumption DEF SessionAssumption
<1>1. CASE SignIn
  BY <1>1 DEF SignIn, LoginRefused, LoginSucceeds, LoginFails, LoginLocked, Expired, Logout,
     ResetLockout, Lock, SessionLaw, TypeOK, Time, safety
<1>2. CASE Prepare
  BY <1>2 DEF Prepare, Unlock, SwitchProbe, LockWriteMode, Select, Lock, SessionLaw, TypeOK, Time,
     login, safety
<1>3. ASSUME UNCHANGED <<login, safety>> PROVE SessionLaw'
  BY <1>3 DEF SessionLaw, login, safety
<1>4. CASE ConfirmMatched
  BY <1>4 DEF ConfirmMatched, Forced, Lock, SessionLaw, login, safety
<1>5. CASE Write /\ ~ConfirmMatched
  BY <1>3, <1>5 DEF Write, Request, ConfirmExpired, ConfirmMismatched
<1>6. CASE Field
  BY <1>3, <1>6 DEF Field, Connect, ProbeTarget, SetLands, SetAnswered, SetFails, Poll, Finish, Await
<1>7. CASE Tick \/ UNCHANGED vars
  BY <1>3, <1>7 DEF Tick, vars
<1>8. QED
  BY <1>1, <1>2, <1>4, <1>5, <1>6, <1>7 DEF Next

-----------------------------------------------------------------------------
(* From the request to the SET                                             *)

History == /\ IdsAreUsed /\ PendingWasAsked /\ RunningMayWrite /\ SetsAreCalls
           /\ WritesWereConfirmed /\ WritesAreAudited /\ AcknowledgedWasWritten

\* Between commands, sign-in and write mode may change freely.
LEMMA QuietStep ==
  ASSUME TypeOK, History, Idle, UNCHANGED <<now, pending, stage, pc, call, sets, calls, trail>>
  PROVE  History'
BY DEF History, IdsAreUsed, PendingWasAsked, RunningMayWrite, SetsAreCalls, WritesWereConfirmed,
   WritesAreAudited, AcknowledgedWasWritten, Idle, Landed, AskedBy

\* Whatever else it does, a step between commands that adds rows under new ids,
\* drops the pending command or keeps it, and reports nothing as written.
LEMMA RowStep ==
  ASSUME TypeOK, TypeOK', History, Idle, Idle', UNCHANGED <<now, call, sets>>,
         calls' \in {calls, calls + 1},
         trail \subseteq trail', \A r \in trail' \ trail : r.id <= calls',
         pending' \in {pending, None}, stage' \notin {"verified", "timed_out"}
  PROVE  History'
<1>1. IdsAreUsed'
  BY DEF TypeOK, History, IdsAreUsed, Call, Row
<1>2. PendingWasAsked'
  BY DEF TypeOK, History, PendingWasAsked, AskedBy, Command, Idle
<1>3. WritesWereConfirmed'
  BY DEF History, WritesWereConfirmed
<1>4. WritesAreAudited'
  BY DEF History, WritesAreAudited, Idle
<1>5. QED
  BY <1>1, <1>2, <1>3, <1>4 DEF History, RunningMayWrite, SetsAreCalls, AcknowledgedWasWritten, Idle

\* A denial, or a driver that is not there.
LEMMA DenyStep ==
  ASSUME TypeOK, TypeOK', History, Idle, NEW value, Deny(value),
         calls' = calls + 1, pending' \in {pending, None}, now' = now
  PROVE  History'
<1>1. /\ trail \subseteq trail' /\ \A r \in trail' \ trail : r.id = calls + 1
      /\ UNCHANGED <<call, sets, pc>> /\ stage' = "failed"
  BY DEF Deny, Log, NextId, running
<1>2. QED
  BY <1>1, RowStep DEF Idle, TypeOK

\* A command begins: a probe, or the request that was pending and is not any more.
LEMMA ExecuteStep ==
  ASSUME TypeOK, TypeOK', History, SessionLaw, Idle, signedIn, UNCHANGED <<now, login, safety>>,
         NEW value, NEW asked, Execute(value, asked), calls' = calls + 1,
         \/ asked = 0 /\ probe /\ pending' = pending
         \/ /\ pending # None /\ pending' = None /\ Allowed /\ now < pending.expires
            /\ value = pending.value /\ asked = pending.asked
  PROVE  History'
<1> USE SessionAssumption DEF SessionAssumption
<1>1. CASE stage' = "failed" /\ UNCHANGED <<pc, call>>
  BY <1>1, RowStep DEF Execute, Idle, TypeOK
<1>2. CASE call' = [id |-> NextId, asked |-> asked, value |-> value, device |-> chosen,
                    probe |-> probe, began |-> now] /\ pc' = "connecting" /\ stage' = "executing"
  <2>1. UNCHANGED <<trail, sets>> /\ asked <= calls
    BY DEF Execute, History, PendingWasAsked, TypeOK, Command
  <2>2. call'.id = calls + 1 /\ call'.asked = asked /\ call'.value = value
        /\ call'.probe = probe /\ call'.began = now
    BY <1>2 DEF NextId
  <2>3. IdsAreUsed'
    BY <2>1, <2>2 DEF TypeOK, History, IdsAreUsed, Call, Row
  <2>4. PendingWasAsked'
    BY <2>1, <2>2 DEF TypeOK, History, PendingWasAsked, AskedBy, Command
  <2>5. RunningMayWrite'
    <3>1. SUFFICES ASSUME ~probe PROVE RunningMayWrite'
      BY <2>2 DEF RunningMayWrite
    <3>2. signedIn' /\ writing' /\ ~probe' /\ now < unlocked'
      BY <3>1 DEF Allowed, Expired, SessionLaw, TypeOK, Time, login, safety
    <3>3. \E r \in trail : /\ AskedBy(r, asked, value) /\ r.at <= now /\ now < r.at + ConfirmWindow
      BY <3>1 DEF History, PendingWasAsked, AskedBy
    <3>4. \A w \in sets : w.asked # asked
      BY <3>1 DEF History, PendingWasAsked
    <3>5. QED
      BY <2>1, <2>2, <3>2, <3>3, <3>4 DEF RunningMayWrite, AskedBy
  <2>6. SetsAreCalls'
    BY <1>2, <2>1, <2>2 DEF TypeOK, History, IdsAreUsed, SetsAreCalls, Call
  <2>7. WritesWereConfirmed' /\ WritesAreAudited' /\ AcknowledgedWasWritten'
    BY <1>2, <2>1 DEF History, WritesWereConfirmed, WritesAreAudited, AcknowledgedWasWritten, Idle
  <2>8. QED
    BY <2>3, <2>4, <2>5, <2>6, <2>7 DEF History
<1>3. QED
  BY <1>1, <1>2 DEF Execute

\* A request: denied, or a new command waits for its confirmation, or a probe begins.
LEMMA RequestStep ==
  ASSUME SessionIInv, TypeOK', NEW value \in Patterns, Request(value)
  PROVE  History'
<1> USE SessionAssumption DEF SessionAssumption
<1> History
  BY DEF SessionIInv, History
<1>1. CASE ~signedIn /\ Deny(value) /\ UNCHANGED pending
  BY <1>1, DenyStep DEF Request, NextId, SessionIInv
<1>2. CASE /\ pending' = [value |-> value, asked |-> NextId, expires |-> now + ConfirmWindow]
           /\ stage' = "awaiting_confirmation" /\ Log(NextId, value, "confirm") /\ UNCHANGED running
  <2> DEFINE row == [id |-> NextId, value |-> value, at |-> now, kind |-> "confirm"]
  <2>1. /\ trail' = trail \cup {row} /\ UNCHANGED <<now, pc, call, sets>> /\ Idle /\ calls' = calls + 1
    BY <1>2 DEF Log, running, Request, NextId
  <2>2. IdsAreUsed'
    BY <2>1 DEF SessionIInv, TypeOK, History, IdsAreUsed, Call, Row, NextId
  <2>3. PendingWasAsked'
    <3>1. pending'.asked = calls + 1 /\ pending'.value = value /\ pending'.expires = now + ConfirmWindow
      BY <1>2 DEF NextId
    <3>2. /\ row \in trail' /\ AskedBy(row, calls + 1, value)
          /\ row.at <= now' /\ now + ConfirmWindow = row.at + ConfirmWindow
      BY <2>1 DEF AskedBy, NextId, SessionIInv, TypeOK, Time
    <3>3. \A w \in sets' : w.asked # calls + 1
      BY <2>1 DEF History, IdsAreUsed, SessionIInv, TypeOK, Call
    <3>4. \E r \in trail' : /\ AskedBy(r, pending'.asked, pending'.value)
                            /\ r.at <= now' /\ pending'.expires = r.at + ConfirmWindow
      BY <3>1, <3>2 DEF AskedBy
    <3>5. 0 < pending'.asked /\ pending'.asked <= calls'
      BY <2>1, <3>1 DEF SessionIInv, TypeOK
    <3>6. Idle'
      BY <2>1 DEF Idle
    <3>7. QED
      BY <3>1, <3>3, <3>4, <3>5, <3>6 DEF PendingWasAsked, AskedBy
  <2>4. QED
    BY <1>2, <2>1, <2>2, <2>3 DEF History, RunningMayWrite, SetsAreCalls, WritesWereConfirmed,
       WritesAreAudited, AcknowledgedWasWritten, Idle
<1>3. CASE signedIn /\ probe /\ Execute(value, 0) /\ UNCHANGED pending
  BY <1>3, ExecuteStep DEF Request, NextId, SessionIInv
<1>4. QED
  BY <1>1, <1>2, <1>3 DEF Request

\* A confirmation: too late, wrong, or the command goes through send_command again.
LEMMA ConfirmStep ==
  ASSUME SessionIInv, TypeOK', ConfirmExpired \/ ConfirmMismatched \/ ConfirmMatched
  PROVE  History'
<1> USE SessionAssumption DEF SessionAssumption
<1> History
  BY DEF SessionIInv, History
<1>1. CASE ConfirmExpired
  BY <1>1, RowStep DEF ConfirmExpired, SessionIInv, TypeOK, Idle, running, audit
<1>2. CASE ConfirmMismatched
  BY <1>2, RowStep DEF ConfirmMismatched, SessionIInv, TypeOK, Idle, running, audit
<1>3. CASE ConfirmMatched
  <2>1. Idle /\ pending # None /\ pending' = None /\ calls' = calls + 1 /\ UNCHANGED <<now, login>>
    BY <1>3 DEF ConfirmMatched, Forced, NextId
  <2>2. now < pending.expires
    BY <1>3 DEF ConfirmMatched, Expired, SessionIInv, TypeOK, Command, Time
  <2>3. CASE Deny(pending.value)
    BY <2>1, <2>3, DenyStep DEF SessionIInv
  <2>4. CASE signedIn /\ Allowed /\ Execute(pending.value, pending.asked) /\ UNCHANGED safety
    BY <2>1, <2>2, <2>4, ExecuteStep DEF SessionIInv
  <2>5. QED
    BY <1>3, <2>3, <2>4 DEF ConfirmMatched, Forced
<1>4. QED
  BY <1>1, <1>2, <1>3

\* The end of a command that was a probe or whose SET landed, or that failed.
LEMMA FinishStep ==
  ASSUME SessionIInv, TypeOK', NEW outcome \in Outcomes, Finish(outcome),
         outcome \in {"verified", "timed_out"} => Landed /\ ~call.probe
  PROVE  History'
<1> DEFINE row == [id |-> call.id, value |-> call.value, at |-> now,
                   kind |-> IF outcome \in {"failed", "timed_out"} THEN "failed" ELSE "succeeded"]
<1>1. /\ trail' = trail \cup {row} /\ pc' = "idle" /\ stage' \in {outcome, "failed"}
      /\ UNCHANGED <<now, safety, signedIn, pending, call, calls, sets>>
  BY DEF Finish, Log, login
<1>2. IdsAreUsed'
  BY <1>1 DEF SessionIInv, TypeOK, IdsAreUsed, Call, Row
<1>3. PendingWasAsked'
  BY <1>1 DEF SessionIInv, PendingWasAsked, AskedBy, Idle
<1>4. WritesAreAudited'
  <2>1. SUFFICES ASSUME NEW w \in sets
        PROVE \E r \in trail' : r.id = w.id /\ r.value = w.value /\ r.kind \in {"succeeded", "failed"}
    BY <1>1 DEF WritesAreAudited
  <2>2. CASE call.id = w.id
    <3>1. w = call
      BY <2>2 DEF SessionIInv, SetsAreCalls
    <3>2. row \in trail' /\ row.id = w.id /\ row.value = w.value /\ row.kind \in {"succeeded", "failed"}
      BY <1>1, <3>1
    <3>3. QED
      BY <3>2
  <2>3. CASE call.id # w.id
    BY <1>1, <2>3 DEF SessionIInv, WritesAreAudited
  <2>4. QED
    BY <2>2, <2>3
<1>5. WritesWereConfirmed' /\ SetsAreCalls' /\ RunningMayWrite' /\ AcknowledgedWasWritten'
  BY <1>1 DEF SessionIInv, WritesWereConfirmed, SetsAreCalls, RunningMayWrite, AcknowledgedWasWritten, Landed, Idle
<1>6. QED
  BY <1>2, <1>3, <1>4, <1>5 DEF History

\* The next await of a command: the answer to a SET only comes once it landed.
LEMMA AwaitStep ==
  ASSUME SessionIInv, NEW step, Await(step), ~Idle, step = "polling" => Landed \/ call.probe, step # "idle"
  PROVE  History'
BY DEF Await, SessionIInv, History, IdsAreUsed, PendingWasAsked, RunningMayWrite, SetsAreCalls, AskedBy,
   WritesWereConfirmed, WritesAreAudited, AcknowledgedWasWritten, Idle, Landed, login, safety, audit

\* A SET lands: it is the command in execution, whose request was never carried out.
LEMMA LandStep ==
  ASSUME SessionIInv, TypeOK', SetLands
  PROVE  History' /\ \A w \in sets' \ sets : signedIn /\ writing /\ ~probe /\ w.began < unlocked
<1>1. /\ sets' = sets \cup {call} /\ ~call.probe /\ ~Landed /\ ~Idle
      /\ UNCHANGED <<now, login, safety, pending, stage, pc, call, audit>>
  BY DEF SetLands, Idle
<1>2. /\ \E r \in trail : /\ AskedBy(r, call.asked, call.value)
                          /\ r.at <= call.began /\ call.began < r.at + ConfirmWindow
      /\ \A w \in sets : w.asked # call.asked
  BY <1>1 DEF SessionIInv, RunningMayWrite, Landed
<1>3. WritesWereConfirmed'
  BY <1>1, <1>2 DEF SessionIInv, WritesWereConfirmed, AskedBy, audit
<1>4. IdsAreUsed' /\ PendingWasAsked' /\ SetsAreCalls'
  BY <1>1 DEF SessionIInv, IdsAreUsed, PendingWasAsked, SetsAreCalls, Landed, Idle, audit, AskedBy
<1>5. RunningMayWrite' /\ WritesAreAudited' /\ AcknowledgedWasWritten'
  BY <1>1 DEF SessionIInv, RunningMayWrite, WritesAreAudited, AcknowledgedWasWritten, Landed, Idle, audit,
     AskedBy, login, safety
<1>6. QED
  BY <1>1, <1>3, <1>4, <1>5 DEF History, SessionIInv, RunningMayWrite

-----------------------------------------------------------------------------
(* The theorems                                                            *)

\* What a step may do to sets, shared by the invariant and the action property.
SetsAllowed == \A w \in sets' \ sets : signedIn /\ writing /\ ~probe /\ w.began < unlocked

\* Every step, by the lemmas above: one case per group of actions.
LEMMA HistoryStep == SessionIInv /\ TypeOK' /\ [Next]_vars => History' /\ SetsAllowed
<1> SUFFICES ASSUME SessionIInv, TypeOK', [Next]_vars PROVE History' /\ SetsAllowed
  OBVIOUS
<1>0. TypeOK /\ History
  BY DEF SessionIInv, History
<1>1. CASE SignIn \/ Prepare
  <2>1. Idle /\ UNCHANGED <<now, pending, stage, pc, call, sets, calls, trail>>
    BY <1>1 DEF SignIn, LoginRefused, LoginSucceeds, LoginFails, Logout, ResetLockout,
       Prepare, Unlock, SwitchProbe, LockWriteMode, Select, running, audit
  <2>2. QED
    BY <1>0, <2>1, QuietStep DEF SetsAllowed
<1>2. CASE Write
  <2>1. sets' = sets
    BY <1>2 DEF Write, Request, ConfirmExpired, ConfirmMismatched, ConfirmMatched, Forced, Deny, Execute, running
  <2>2. QED
    BY <1>2, <2>1, RequestStep, ConfirmStep DEF Write, SetsAllowed
<1>3. CASE Field
  <2>1. CASE SetLands
    BY <2>1, LandStep DEF SetsAllowed
  <2>2. CASE pc = "connecting" /\ Await("commanding")
    BY <2>2, AwaitStep DEF SetsAllowed, Idle, Await
  <2>3. CASE pc = "commanding" /\ (call.probe \/ Landed) /\ Await("polling")
    BY <2>3, AwaitStep DEF SetsAllowed, Idle, Await
  <2>4. ASSUME NEW outcome \in Outcomes, Finish(outcome),
               outcome \in {"verified", "timed_out"} => pc = "polling" /\ ~call.probe
        PROVE  History' /\ SetsAllowed
    <3>1. outcome \in {"verified", "timed_out"} => Landed /\ ~call.probe
      BY <2>4 DEF SessionIInv, SetsAreCalls
    <3>2. sets' = sets
      BY <2>4 DEF Finish
    <3>3. QED
      BY <2>4, <3>1, <3>2, FinishStep DEF SetsAllowed
  <2>5. CASE Poll
    <3>1. PICK outcome \in Outcomes \ {"failed"} :
            pc = "polling" /\ (outcome = "applied" <=> call.probe) /\ Finish(outcome)
      BY <2>5 DEF Poll
    <3>2. QED
      BY <2>4, <3>1
  <2>6. QED
    BY <1>3, <2>1, <2>2, <2>3, <2>4, <2>5 DEF Field, Connect, ProbeTarget, SetAnswered, SetFails, Outcomes
<1>4. CASE Tick
  <2>1. UNCHANGED <<login, safety, pending, stage, running, audit>>
    BY <1>4 DEF Tick
  <2>2. PendingWasAsked'
    <3>1. \A r \in trail : r.at <= now => r.at <= now'
      BY <1>0, <1>4, SessionAssumption DEF SessionAssumption, Tick, TypeOK, Row, Time
    <3>2. QED
      BY <2>1, <3>1 DEF SessionIInv, PendingWasAsked, AskedBy, Idle, running, audit
  <2>3. QED
    BY <2>1, <2>2 DEF SessionIInv, History, IdsAreUsed, RunningMayWrite, SetsAreCalls, AskedBy, Landed, Idle, SetsAllowed,
       WritesWereConfirmed, WritesAreAudited, AcknowledgedWasWritten, login, safety, running, audit
<1>5. CASE UNCHANGED vars
  BY <1>5 DEF vars, SessionIInv, History, IdsAreUsed, PendingWasAsked, RunningMayWrite, SetsAreCalls, AskedBy, Landed,
     Idle, SetsAllowed, WritesWereConfirmed, WritesAreAudited, AcknowledgedWasWritten, login, safety, running, audit
<1>6. QED
  BY <1>1, <1>2, <1>3, <1>4, <1>5 DEF Next

\* A fresh session: signed out, probing, nothing asked for.
LEMMA InitHolds == Init => SessionIInv
<1> SUFFICES ASSUME Init PROVE SessionIInv
  OBVIOUS
<1> USE SessionAssumption DEF SessionAssumption
<1>0. 0 \in Time /\ 0 \in 0 .. MaxAttempts /\ 0 \in 0 .. MaxCalls
  BY DEF Time
<1>1. call \in Call /\ call.id = 0 /\ call.asked = 0
  <2>1. PICK value \in Patterns :
         call = [id |-> 0, asked |-> 0, value |-> value, device |-> chosen, probe |-> TRUE, began |-> 0]
    BY DEF Init
  <2>2. chosen \in Controllers
    BY DEF Init
  <2>3. QED
    BY <1>0, <2>1, <2>2 DEF Call
<1>2. TypeOK
  <2>1. probe = TRUE /\ writing = FALSE /\ signedIn = FALSE /\ unlocked = None /\ lockout = None /\ pending = None
    BY DEF Init
  <2>2. /\ now = 0 /\ failed = 0 /\ calls = 0 /\ chosen \in Controllers
        /\ trail = {} /\ sets = {} /\ stage = "idle" /\ pc = "idle"
    BY DEF Init
  <2>3. QED
    BY <1>0, <1>1, <2>1, <2>2 DEF TypeOK, Stages, Steps
<1>3. QED
  BY <1>1, <1>2 DEF Init, SessionIInv, SessionLaw, IdsAreUsed, PendingWasAsked, RunningMayWrite,
     SetsAreCalls, WritesWereConfirmed, WritesAreAudited, AcknowledgedWasWritten, Idle

\* The inductive invariant, for any constants.
THEOREM SessionHolds == Spec => []SessionIInv
<1>1. SessionIInv /\ [Next]_vars => SessionIInv'
  BY TypeStep, LawStep, HistoryStep DEF SessionIInv, History
<1>2. QED
  BY InitHolds, <1>1, PTL DEF Spec

\* Every variable keeps its type.
THEOREM TypeCorrect == Spec => []TypeOK
BY SessionHolds, PTL DEF SessionIInv

\* Write mode is open exactly while there is an unlock to expire, for someone
\* signed in and not probing; a locked-out session has none.
THEOREM SessionsAreLawful == Spec => []SessionLaw
BY SessionHolds, PTL DEF SessionIInv

\* Every SET was confirmed before its token expired, and no request is carried
\* out twice, whatever happens between the request and the confirmation.
THEOREM WritesAreConfirmed == Spec => []WritesWereConfirmed
BY SessionHolds, PTL DEF SessionIInv

\* Every SET, answered or not, has a row of its own once its command is over.
THEOREM SetsHaveRows == Spec => []WritesAreAudited
BY SessionHolds, PTL DEF SessionIInv

\* A command reported as verified or acknowledged was written by itself.
THEOREM AcknowledgementsAreTrue == Spec => []AcknowledgedWasWritten
BY SessionHolds, PTL DEF SessionIInv

\* A SET takes effect only in a signed-in session in write mode, for a command
\* that began within the unlock, and the flags stay together.
THEOREM WritesNeedWriteMode == Spec => SetsUnderWriteMode
<1>1. SessionIInv /\ SessionIInv' /\ [Next]_vars => [SetsAllowed /\ SessionLaw']_vars
  BY TypeStep, HistoryStep DEF SessionIInv
<1>2. QED
  BY SessionHolds, <1>1, PTL DEF Spec, SetsUnderWriteMode, SetsAllowed

-----------------------------------------------------------------------------
(* The refresh loops                                                       *)

\* The task tables are functions of the tasks.
TasksShaped ==
  /\ live = [l \in LiveLoops |-> live[l]]
  /\ fleet = [f \in FleetLoops |-> fleet[f]]

FleetIInv == TasksShaped /\ OneLiveLoop /\ FleetFlagHasALoop

-----------------------------------------------------------------------------
(* What a step of a task or of the session does to the task tables         *)

\* A live task goes to another place, the others stay.
LEMMA LiveMoves ==
  ASSUME TasksShaped, NEW l \in LiveLoops, NEW r, live' = [live EXCEPT ![l] = r]
  PROVE  /\ live' = [m \in LiveLoops |-> live'[m]]
         /\ live'[l] = r
         /\ \A m \in LiveLoops \ {l} : live'[m] = live[m]
BY DEF TasksShaped

\* The same for a task of the fleet's loop.
LEMMA FleetMoves ==
  ASSUME TasksShaped, NEW f \in FleetLoops, NEW r, fleet' = [fleet EXCEPT ![f] = r]
  PROVE  /\ fleet' = [g \in FleetLoops |-> fleet'[g]]
         /\ fleet'[f] = r
         /\ \A g \in FleetLoops \ {f} : fleet'[g] = fleet[g]
BY DEF TasksShaped

\* A task that is free is a task.
LEMMA FreeLive ==
  ASSUME TasksShaped, \E l \in LiveLoops : live[l].pc = "idle"
  PROVE  Free(live) \in LiveLoops /\ live[Free(live)].pc = "idle"
<1>1. DOMAIN live = LiveLoops BY DEF TasksShaped
<1> QED BY <1>1 DEF Free

\* The same for a task of the fleet's loop.
LEMMA FreeFleet ==
  ASSUME TasksShaped, \E f \in FleetLoops : fleet[f].pc = "idle"
  PROVE  Free(fleet) \in FleetLoops /\ fleet[Free(fleet)].pc = "idle"
<1>1. DOMAIN fleet = FleetLoops BY DEF TasksShaped
<1> QED BY <1>1 DEF Free

\* Asking for live updates makes no task active and takes none away.
LEMMA RequestKeepsActive ==
  ASSUME TasksShaped, NEW polling, LiveRefreshEvent(polling)
  PROVE  TasksShaped' /\ LiveActive' = LiveActive /\ liveRunning' = liveRunning
         /\ fleet' = fleet /\ fleetRunning' = fleetRunning
<1>1. CASE polling
  <2>1. /\ Free(live) \in LiveLoops /\ live[Free(live)].pc = "idle"
        /\ live' = [live EXCEPT ![Free(live)] = [IdleLive EXCEPT !.pc = "starting"]]
    BY <1>1, FreeLive DEF LiveRefreshEvent
  <2>2. [IdleLive EXCEPT !.pc = "starting"].pc = "starting"
    BY DEF IdleLive
  <2>3. /\ live' = [m \in LiveLoops |-> live'[m]]
        /\ live'[Free(live)].pc = "starting"
        /\ \A m \in LiveLoops \ {Free(live)} : live'[m] = live[m]
    BY <2>1, <2>2, LiveMoves
  <2> QED BY <2>1, <2>3 DEF LiveActive, LiveRefreshEvent, TasksShaped
<1>2. CASE ~polling
  BY <1>2 DEF LiveRefreshEvent, LiveActive, TasksShaped
<1> QED BY <1>1, <1>2

-----------------------------------------------------------------------------

\* The initial states satisfy the invariant.
LEMMA InitIInv == FleetInit => FleetIInv
BY DEF FleetInit, FleetIInv, TasksShaped, OneLiveLoop, FleetFlagHasALoop, LiveActive,
       FleetActive, IdleLive, IdleFleet

\* What every action of the operator comes to, as far as the invariant looks.
Harmless ==
  /\ TasksShaped'
  /\ LiveActive' = LiveActive /\ liveRunning' = liveRunning
  /\ FleetActive' = FleetActive /\ fleetRunning' \in {fleetRunning, FALSE}
  /\ cache' = cache /\ panel' \in {panel, NoPanel}

\* Harmless is as harmless does; the empty panel is about no controller.
LEMMA HarmlessKeeps ==
  ASSUME FleetIInv, Harmless
  PROVE  FleetIInv'
<1>1. TasksShaped'
  BY DEF Harmless
<1>2. OneLiveLoop'
  <2>1. OneLiveLoop /\ LiveActive' = LiveActive /\ liveRunning' = liveRunning
    BY DEF FleetIInv, Harmless
  <2>2. (\A l, m \in LiveActive : l = m)'
    BY <2>1 DEF OneLiveLoop
  <2>3. (liveRunning <=> LiveActive # {})'
    BY <2>1 DEF OneLiveLoop
  <2> QED BY <2>2, <2>3 DEF OneLiveLoop
<1>3. FleetFlagHasALoop'
  <2>1. FleetFlagHasALoop /\ FleetActive' = FleetActive
    BY DEF FleetIInv, Harmless
  <2>2. CASE fleetRunning' = fleetRunning
    BY <2>1, <2>2 DEF FleetFlagHasALoop
  <2>3. CASE fleetRunning' = FALSE
    BY <2>3 DEF FleetFlagHasALoop
  <2> QED BY <2>2, <2>3 DEF Harmless
<1> QED BY <1>1, <1>2, <1>3 DEF FleetIInv

\* No handler of the session disturbs the loops or writes a status.
LEMMA OperatorIsHarmless ==
  ASSUME FleetIInv, Operator
  PROVE  Harmless
<1>1. TasksShaped
  BY DEF FleetIInv
<1> DEFINE Quiet == loops' = loops /\ cache' = cache /\ panel' \in {panel, NoPanel}
<1>2. ASSUME Quiet PROVE Harmless
  BY <1>1, <1>2 DEF Harmless, loops, TasksShaped, LiveActive, FleetActive
<1>3. ASSUME NEW polling, LiveRefreshEvent(polling), cache' = cache, panel' \in {panel, NoPanel}
      PROVE  Harmless
  BY <1>1, <1>3, RequestKeepsActive DEF Harmless, FleetActive
<1>4. ASSUME NEW d, InitializeControllerProfiles(d)
      PROVE  Harmless
  <2>1. live' = live /\ liveRunning' = liveRunning /\ cache' = cache /\ panel' = panel
        /\ fleetRunning' \in {fleetRunning, FALSE}
    BY <1>4 DEF InitializeControllerProfiles
  <2>2. TasksShaped' /\ FleetActive' = FleetActive
    <3>1. CASE enabled /\ sortable'
      <4>1. /\ Free(fleet) \in FleetLoops /\ fleet[Free(fleet)].pc = "idle"
            /\ fleet' = [fleet EXCEPT ![Free(fleet)] = [IdleFleet EXCEPT !.pc = "starting"]]
        BY <1>1, <1>4, <3>1, FreeFleet DEF InitializeControllerProfiles
      <4>2. [IdleFleet EXCEPT !.pc = "starting"].pc = "starting"
        BY DEF IdleFleet
      <4>3. /\ fleet' = [g \in FleetLoops |-> fleet'[g]]
            /\ fleet'[Free(fleet)].pc = "starting"
            /\ \A g \in FleetLoops \ {Free(fleet)} : fleet'[g] = fleet[g]
        BY <1>1, <4>1, <4>2, FleetMoves
      <4> QED BY <1>1, <2>1, <4>1, <4>3 DEF FleetActive, TasksShaped
    <3>2. CASE ~(enabled /\ sortable')
      BY <1>1, <1>4, <2>1, <3>2 DEF InitializeControllerProfiles, TasksShaped, FleetActive
    <3> QED BY <3>1, <3>2
  <2>3. LiveActive' = LiveActive
    BY <2>1 DEF LiveActive
  <2> QED BY <2>1, <2>2, <2>3 DEF Harmless
<1>5. ASSUME NEW d, UpdateSelectedDeviceId(d) PROVE Quiet
  BY <1>5 DEF UpdateSelectedDeviceId, ResetPanel
<1>6. ASSUME NEW d, SelectController(d) PROVE Harmless
  <2>1. cache' = cache /\ panel' \in {panel, NoPanel}
    BY <1>6 DEF SelectController, ResetPanel
  <2>2. CASE sortable
    BY <1>3, <1>6, <2>1, <2>2 DEF SelectController
  <2>3. CASE ~sortable
    BY <1>2, <1>6, <2>1, <2>3 DEF SelectController
  <2> QED BY <2>2, <2>3
<1>7. ASSUME NEW d, LoadControllerProfile(d) PROVE Quiet
  BY <1>7 DEF LoadControllerProfile
<1>8. ASSUME NEW d, DeleteControllerProfile(d) PROVE Quiet
  BY <1>8 DEF DeleteControllerProfile
<1>9. ASSUME NEW d, NEW b, SaveControllerProfile(d, b) PROVE Quiet
  BY <1>9 DEF SaveControllerProfile
<1>10. ASSUME NEW d, NEW b, OpenSelectedControllerStatus(d, b) PROVE Harmless
  BY <1>3, <1>10 DEF OpenSelectedControllerStatus, ResetPanel
<1>11. ASSUME NEW b, UpdateControllerProfilePollingEnabled(b) PROVE Harmless
  <2>1. CASE sortable
    BY <1>3, <1>11, <2>1 DEF UpdateControllerProfilePollingEnabled
  <2>2. CASE ~sortable
    BY <1>2, <1>11, <2>2 DEF UpdateControllerProfilePollingEnabled
  <2> QED BY <2>1, <2>2
<1>12. ASSUME \/ BackToDashboard \/ NewControllerProfile \/ UpdateDeviceProfilesJson
              \/ ArrangeTable \/ UpdateConnectionForm
       PROVE  Quiet
  BY <1>12 DEF BackToDashboard, NewControllerProfile, UpdateDeviceProfilesJson, ArrangeTable,
               UpdateConnectionForm
<1> QED
  BY <1>2, <1>4, <1>5, <1>6, <1>7, <1>8, <1>9, <1>10, <1>11, <1>12 DEF Operator, Handler

\* A live task that goes to a place past its guard, or back from one, keeps the
\* exclusion as long as the flag goes with it.
LEMMA LiveStepKeeps ==
  ASSUME FleetIInv, NEW l \in LiveLoops, LiveStep(l)
  PROVE  FleetIInv'
<1>1. TasksShaped /\ OneLiveLoop /\ FleetFlagHasALoop
  BY DEF FleetIInv
<1>2. \A to : [IdleLive EXCEPT !.pc = to].pc = to
  BY DEF IdleLive
<1>3. fleet' = fleet /\ fleetRunning' = fleetRunning
  BY DEF LiveStep, LiveStart, LiveCheck, LiveApply, LiveFail
<1>4. FleetFlagHasALoop'
  BY <1>1, <1>3 DEF FleetFlagHasALoop, FleetActive
<1>5. \E r : live' = [live EXCEPT ![l] = r]
  BY DEF LiveStep, LiveStart, LiveCheck, LiveApply, LiveFail, LiveGoto, Show
<1>6. TasksShaped' /\ \A m \in LiveLoops \ {l} : live'[m] = live[m]
  BY <1>1, <1>3, <1>5, LiveMoves DEF TasksShaped
<1>7. OneLiveLoop'
  <2>1. CASE LiveStart(l)
    <3>1. live[l].pc = "starting" /\ liveRunning' = TRUE
          /\ live'[l].pc = (IF liveRunning THEN "idle" ELSE "checking")
      BY <1>1, <1>2, <2>1, LiveMoves DEF LiveStart, LiveGoto
    <3>2. CASE liveRunning
      <4>1. LiveActive' = LiveActive
        BY <1>6, <3>1, <3>2 DEF LiveActive
      <4> QED BY <1>1, <3>1, <3>2, <4>1 DEF OneLiveLoop
    <3>3. CASE ~liveRunning
      <4>1. LiveActive' = {l}
        BY <1>1, <1>6, <3>1, <3>3 DEF LiveActive, OneLiveLoop
      <4> QED BY <3>1, <4>1 DEF OneLiveLoop
    <3> QED BY <3>2, <3>3
  <2>2. CASE LiveCheck(l)
    <3>1. live[l].pc = "checking" /\ LiveActive = {l}
      BY <1>1, <2>2 DEF LiveCheck, LiveActive, OneLiveLoop
    <3>2. CASE LiveWanted
      <4>1. live'[l].pc = "polling" /\ liveRunning' = liveRunning
        BY <1>1, <2>2, <3>2, LiveMoves DEF LiveCheck
      <4>2. LiveActive' = LiveActive
        BY <1>6, <3>1, <4>1 DEF LiveActive
      <4> QED BY <1>1, <4>1, <4>2 DEF OneLiveLoop
    <3>3. CASE ~LiveWanted
      <4>1. live'[l].pc = "idle" /\ liveRunning' = FALSE
        BY <1>1, <1>2, <2>2, <3>3, LiveMoves DEF LiveCheck, LiveGoto
      <4>2. LiveActive' = {}
        BY <1>6, <3>1, <4>1 DEF LiveActive
      <4> QED BY <4>1, <4>2 DEF OneLiveLoop
    <3> QED BY <3>2, <3>3
  <2>3. ASSUME live[l].pc = "polling", LiveGoto(l, "checking"), liveRunning' = liveRunning
        PROVE  OneLiveLoop'
    <3>1. live'[l].pc = "checking"
      BY <1>1, <1>2, <2>3, LiveMoves DEF LiveGoto
    <3>2. LiveActive' = LiveActive
      BY <1>6, <2>3, <3>1 DEF LiveActive
    <3> QED BY <1>1, <2>3, <3>2 DEF OneLiveLoop
  <2>4. ASSUME live[l].pc = "polling", LiveGoto(l, "idle"), liveRunning' = FALSE
        PROVE  OneLiveLoop'
    <3>1. LiveActive = {l}
      BY <1>1, <2>4 DEF LiveActive, OneLiveLoop
    <3>2. live'[l].pc = "idle"
      BY <1>1, <1>2, <2>4, LiveMoves DEF LiveGoto
    <3>3. LiveActive' = {}
      BY <1>6, <3>1, <3>2 DEF LiveActive
    <3> QED BY <2>4, <3>3 DEF OneLiveLoop
  <2>5. liveRunning <=> LiveActive # {}
    BY <1>1 DEF OneLiveLoop
  <2>6. ASSUME NEW b \in BOOLEAN, LiveApply(l, b) PROVE OneLiveLoop'
    <3>1. live[l].pc = "polling" /\ liveRunning
      BY <2>5, <2>6 DEF LiveApply, LiveActive
    <3>2. CASE selected = live[l].sel /\ ~sortable
      BY <2>4, <2>6, <3>1, <3>2 DEF LiveApply, Show
    <3>3. CASE selected # live[l].sel \/ sortable
      BY <2>3, <2>6, <3>1, <3>3 DEF LiveApply, Show
    <3> QED BY <3>2, <3>3
  <2>7. CASE LiveFail(l)
    BY <2>3, <2>7 DEF LiveFail
  <2> QED BY <2>1, <2>2, <2>6, <2>7 DEF LiveStep
<1> QED BY <1>4, <1>6, <1>7 DEF FleetIInv

\* A task of the fleet's loop leaves the live loops alone.
LEMMA FleetStepKeeps ==
  ASSUME FleetIInv, NEW f \in FleetLoops, FleetStep(f)
  PROVE  FleetIInv'
<1>1. TasksShaped /\ OneLiveLoop /\ FleetFlagHasALoop
  BY DEF FleetIInv
<1>2. \A to : [IdleFleet EXCEPT !.pc = to].pc = to
  BY DEF IdleFleet
<1>3. live' = live /\ liveRunning' = liveRunning
  BY DEF FleetStep, FleetStart, FleetCheck, FleetCapture, FleetRefused, FleetCommit
<1>4. OneLiveLoop'
  BY <1>1, <1>3 DEF OneLiveLoop, LiveActive
<1>5. \E r : fleet' = [fleet EXCEPT ![f] = r]
  BY DEF FleetStep, FleetStart, FleetCheck, FleetCapture, FleetRefused, FleetCommit, FleetGoOn,
         FleetGoto
<1>6. TasksShaped' /\ \A g \in FleetLoops \ {f} : fleet'[g] = fleet[g]
  BY <1>1, <1>3, <1>5, FleetMoves DEF TasksShaped
<1>7. FleetFlagHasALoop'
  <2>1. CASE FleetStart(f)
    <3>1. fleet[f].pc = "starting"
          /\ fleet'[f].pc = (IF fleetRunning THEN "idle" ELSE "checking")
      BY <1>1, <1>2, <2>1, FleetMoves DEF FleetStart, FleetGoto
    <3>2. CASE fleetRunning
      BY <1>1, <1>6, <3>1, <3>2 DEF FleetFlagHasALoop, FleetActive
    <3>3. CASE ~fleetRunning
      BY <3>1, <3>3 DEF FleetFlagHasALoop, FleetActive
    <3> QED BY <3>2, <3>3
  <2>2. CASE FleetCheck(f)
    <3>1. CASE enabled
      <4>1. fleet'[f].pc = "capturing"
        BY <1>1, <1>2, <2>2, <3>1, FleetMoves DEF FleetCheck, FleetGoto
      <4> QED BY <4>1 DEF FleetFlagHasALoop, FleetActive
    <3>2. CASE ~enabled
      BY <2>2, <3>2 DEF FleetCheck, FleetFlagHasALoop
    <3> QED BY <3>1, <3>2
  <2>3. CASE FleetCapture(f)
    <3>1. fleet'[f].pc = IF parses THEN "polling" ELSE "refused"
      BY <1>1, <2>3, FleetMoves DEF FleetCapture
    <3> QED BY <3>1 DEF FleetFlagHasALoop, FleetActive
  <2>4. CASE FleetRefused(f)
    <3>1. fleet'[f].pc = "checking"
      BY <1>1, <1>2, <2>4, FleetMoves DEF FleetRefused, FleetGoto
    <3> QED BY <3>1 DEF FleetFlagHasALoop, FleetActive
  <2>5. CASE FleetCommit(f)
    <3>1. CASE sortable
      <4>1. fleet'[f].pc = "checking"
        BY <1>1, <1>2, <2>5, <3>1, FleetMoves DEF FleetCommit, FleetGoOn, FleetGoto
      <4> QED BY <4>1 DEF FleetFlagHasALoop, FleetActive
    <3>2. CASE ~sortable
      BY <2>5, <3>2 DEF FleetCommit, FleetGoOn, FleetFlagHasALoop
    <3> QED BY <3>1, <3>2
  <2> QED BY <2>1, <2>2, <2>3, <2>4, <2>5 DEF FleetStep
<1> QED BY <1>4, <1>6, <1>7 DEF FleetIInv

\* Every step keeps the invariant.
LEMMA NextIInv == FleetIInv /\ [FleetNext]_fleetVars => FleetIInv'
<1> SUFFICES ASSUME FleetIInv, [FleetNext]_fleetVars PROVE FleetIInv'
  OBVIOUS
<1>1. CASE UNCHANGED fleetVars
  BY <1>1 DEF fleetVars, config, loops, FleetIInv, TasksShaped, OneLiveLoop, FleetFlagHasALoop,
              LiveActive, FleetActive
<1>2. CASE Operator
  BY <1>2, OperatorIsHarmless, HarmlessKeeps
<1> QED BY <1>1, <1>2, LiveStepKeeps, FleetStepKeeps DEF FleetNext

\* The invariant holds in every behaviour.
THEOREM FleetHolds == FleetSpec => []FleetIInv
BY InitIInv, NextIInv, PTL DEF FleetSpec

\* One task at most polls the selected controller, its flag is up exactly while
\* it does, and the fleet's flag is never up without a loop, whatever the
\* number of tasks and of requests.
THEOREM FlagsTellTheTruth == FleetSpec => []FlagsAreTrue
<1>1. FleetIInv => FlagsAreTrue
  BY DEF FleetIInv, FlagsAreTrue
<1> QED BY <1>1, FleetHolds, PTL

\* What a step may do to top bar and cards.
BarLaw ==
  /\ Agree /\ ~Agree' => BreaksOff
  /\ panel' # panel => Agree'

\* A panel that is left alone or emptied keeps the law; an empty one is about
\* no controller.
LEMMA EmptyPanelAgrees ==
  ASSUME cache' = cache, panel' \in {panel, NoPanel}
  PROVE  BarLaw
<1>1. CASE panel' = panel
  BY <1>1 DEF BarLaw, Agree
<1>2. CASE panel' = NoPanel
  BY <1>2 DEF BarLaw, Agree, NoPanel
<1> QED BY <1>1, <1>2

\* An answer of the live loop is written to both.
LEMMA LiveKeepsBarLaw ==
  ASSUME NEW l \in LiveLoops, LiveStep(l)
  PROVE  BarLaw
<1>1. ASSUME NEW b \in BOOLEAN, Show(l, b) PROVE BarLaw
  <2>1. /\ panel' = [of |-> live[l].target, online |-> b]
        /\ cache' = [d \in DOMAIN cache \cup {live[l].target} |->
                       IF d = live[l].target THEN b ELSE cache[d]]
    BY <1>1 DEF Show
  <2>2. panel'.of = live[l].target /\ panel'.online = b /\ cache'[live[l].target] = b
    BY <2>1
  <2> QED BY <2>2 DEF BarLaw, Agree
<1>2. \/ panel' = panel /\ cache' = cache
      \/ \E b \in BOOLEAN : Show(l, b)
  BY DEF LiveStep, LiveStart, LiveCheck, LiveApply, LiveFail
<1> QED BY <1>1, <1>2, EmptyPanelAgrees

\* A refresh writes both, or the cards and then breaks off.
LEMMA FleetKeepsBarLaw ==
  ASSUME TasksShaped, NEW f \in FleetLoops, FleetStep(f)
  PROVE  BarLaw
<1>1. ASSUME panel' = panel, DOMAIN cache' = {} PROVE BarLaw
  BY <1>1 DEF BarLaw, Agree
<1>2. CASE FleetRefused(f)
  <2>1. panel' = panel /\ cache' = <<>>
    BY <1>2 DEF FleetRefused
  <2>2. DOMAIN cache' = {}
    BY <2>1
  <2> QED BY <1>1, <2>1, <2>2
<1>3. CASE FleetCommit(f)
  <2> DEFINE list == fleet[f].list
             sel == fleet[f].sel
  <2>1. PICK results \in Results(list) :
          /\ cache' = results
          /\ panel' = IF list = <<>> \/ ~sortable THEN panel
                      ELSE [of |-> sel, online |-> results[sel]]
    BY <1>3 DEF FleetCommit
  <2>2. CASE list = <<>>
    <3>1. Configured(list) = {}
      <4>1. DOMAIN <<>> = {}
        OBVIOUS
      <4> QED BY <2>2, <4>1 DEF Configured
    <3>2. DOMAIN results = {}
      BY <2>1, <3>1 DEF Results
    <3> QED BY <1>1, <2>1, <2>2, <3>2
  <2>3. CASE list # <<>> /\ sortable
    <3>1. panel'.of = sel /\ panel'.online = cache'[sel]
      BY <2>1, <2>3
    <3> QED BY <3>1 DEF BarLaw, Agree
  <2>4. CASE ~sortable
    <3>1. fleet' = [fleet EXCEPT ![f] = [IdleFleet EXCEPT !.pc = "idle"]]
      BY <1>3, <2>4 DEF FleetCommit, FleetGoOn, FleetGoto
    <3>2. fleet[f].pc = "polling" /\ fleet'[f].pc = "idle"
      BY <1>3, <3>1, FleetMoves DEF FleetCommit, IdleFleet
    <3>3. panel' = panel
      BY <2>1, <2>4
    <3> QED BY <2>4, <3>2, <3>3 DEF BarLaw, BreaksOff
  <2> QED BY <2>2, <2>3, <2>4
<1>4. CASE FleetStart(f) \/ FleetCheck(f) \/ FleetCapture(f)
  BY <1>4, EmptyPanelAgrees DEF FleetStart, FleetCheck, FleetCapture
<1> QED BY <1>2, <1>3, <1>4 DEF FleetStep

\* Top bar and cards part only where a refresh breaks off between them, and
\* whatever writes the top bar next reunites them.
THEOREM BarAndCardsAgree == FleetSpec => TopBarAgreesWithCards
<1>1. FleetIInv /\ [FleetNext]_fleetVars => [BarLaw]_fleetVars
  <2> SUFFICES ASSUME FleetIInv, FleetNext PROVE BarLaw
    OBVIOUS
  <2>1. CASE Operator
    BY <2>1, OperatorIsHarmless, EmptyPanelAgrees DEF Harmless
  <2>2. TasksShaped
    BY DEF FleetIInv
  <2> QED BY <2>1, <2>2, LiveKeepsBarLaw, FleetKeepsBarLaw DEF FleetNext
<1> QED BY <1>1, FleetHolds, PTL DEF FleetSpec, TopBarAgreesWithCards, BarLaw

\* An answer to a poll for an earlier selection changes nothing.
THEOREM LateAnswersChangeNothing == FleetSpec => LateAnswersAreDropped
<1> DEFINE Dropped == \A l \in LiveLoops :
                        live[l].pc = "polling" /\ live'[l].pc # "polling" /\ selected # live[l].sel
                          => UNCHANGED <<panel, cache, selected>>
<1>1. FleetIInv /\ [FleetNext]_fleetVars => [Dropped]_fleetVars
  <2> SUFFICES ASSUME FleetIInv, FleetNext PROVE Dropped
    OBVIOUS
  <2>0. TasksShaped
    BY DEF FleetIInv
  <2> SUFFICES ASSUME NEW l \in LiveLoops, live[l].pc = "polling", live'[l].pc # "polling",
                      selected # live[l].sel
               PROVE  UNCHANGED <<panel, cache, selected>>
    OBVIOUS
  <2>1. CASE Operator
    <3>1. ASSUME NEW polling, LiveRefreshEvent(polling) PROVE FALSE
      <4>1. polling
        BY <3>1 DEF LiveRefreshEvent
      <4>2. /\ Free(live) \in LiveLoops /\ live[Free(live)].pc = "idle"
            /\ live' = [live EXCEPT ![Free(live)] = [IdleLive EXCEPT !.pc = "starting"]]
        BY <2>0, <3>1, <4>1, FreeLive DEF LiveRefreshEvent
      <4>3. live'[l] = live[l]
        BY <2>0, <4>2, LiveMoves
      <4> QED BY <4>3
    <3>2. live' # live
      OBVIOUS
    <3>3. ASSUME loops' = loops PROVE FALSE
      BY <3>2, <3>3 DEF loops
    <3>4. ASSUME NEW d, UpdateSelectedDeviceId(d) \/ LoadControllerProfile(d)
                        \/ DeleteControllerProfile(d) \/ InitializeControllerProfiles(d)
          PROVE FALSE
      BY <3>2, <3>4 DEF UpdateSelectedDeviceId, LoadControllerProfile, DeleteControllerProfile,
                        InitializeControllerProfiles, loops
    <3>5. ASSUME NEW d, NEW b, SaveControllerProfile(d, b) PROVE FALSE
      BY <3>2, <3>5 DEF SaveControllerProfile, loops
    <3>6. ASSUME \/ BackToDashboard \/ NewControllerProfile \/ UpdateDeviceProfilesJson
                 \/ ArrangeTable \/ UpdateConnectionForm
          PROVE  FALSE
      BY <3>2, <3>6 DEF BackToDashboard, NewControllerProfile, UpdateDeviceProfilesJson,
                        ArrangeTable, UpdateConnectionForm, loops
    <3>7. ASSUME NEW d, SelectController(d) PROVE FALSE
      BY <3>1, <3>3, <3>7 DEF SelectController
    <3>8. ASSUME NEW d, NEW b, OpenSelectedControllerStatus(d, b) PROVE FALSE
      BY <3>1, <3>8 DEF OpenSelectedControllerStatus
    <3>9. ASSUME NEW b, UpdateControllerProfilePollingEnabled(b) PROVE FALSE
      BY <3>1, <3>3, <3>9 DEF UpdateControllerProfilePollingEnabled
    <3> QED BY <2>1, <3>4, <3>5, <3>6, <3>7, <3>8, <3>9 DEF Operator, Handler
  <2>2. ASSUME NEW m \in LiveLoops, LiveStep(m) PROVE UNCHANGED <<panel, cache, selected>>
    <3>1. \E r : live' = [live EXCEPT ![m] = r]
      BY <2>2 DEF LiveStep, LiveStart, LiveCheck, LiveApply, LiveFail, LiveGoto, Show
    <3>2. m = l
      BY <2>0, <3>1, LiveMoves
    <3> QED BY <2>2, <3>2 DEF LiveStep, LiveStart, LiveCheck, LiveApply, LiveFail
  <2>3. ASSUME NEW f \in FleetLoops, FleetStep(f) PROVE FALSE
    BY <2>3 DEF FleetStep, FleetStart, FleetCheck, FleetCapture, FleetRefused, FleetCommit
  <2> QED BY <2>1, <2>2, <2>3 DEF FleetNext
<1> QED BY <1>1, FleetHolds, PTL DEF FleetSpec, LateAnswersAreDropped

-----------------------------------------------------------------------------
(* Types of the monitor                                                    *)

\* A poll is of some controller, and the selection that a task of the fleet's
\* loop writes back is in the list it read.
PollsAreOfSome ==
  /\ \A l \in LiveLoops : live[l].pc = "polling" => live[l].target \in Polled
  /\ \A f \in FleetLoops : fleet[f].list # <<>> => fleet[f].sel \in Configured(fleet[f].list)

FleetTypeIInv == FleetTypeOK /\ PollsAreOfSome

LiveTask == [pc     : {"idle", "starting", "checking", "polling"},
             sel    : Ids \cup {NoDevice},
             target : Polled \cup {NoDevice}]
FleetTask == [pc   : {"idle", "starting", "checking", "capturing", "refused", "polling"},
              sel  : Ids \cup {NoDevice},
              list : Seq(Profile)]

\* A table of tasks in which one task goes to a place without a poll.
LEMMA LiveGoes ==
  ASSUME live \in [LiveLoops -> LiveTask],
         \A l \in LiveLoops : live[l].pc = "polling" => live[l].target \in Polled,
         NEW l \in LiveLoops, NEW to \in {"idle", "starting", "checking"},
         live' = [live EXCEPT ![l] = [IdleLive EXCEPT !.pc = to]]
  PROVE  /\ live' \in [LiveLoops -> LiveTask]
         /\ \A m \in LiveLoops : live'[m].pc = "polling" => live'[m].target \in Polled
<1>1. [IdleLive EXCEPT !.pc = to] \in LiveTask /\ [IdleLive EXCEPT !.pc = to].pc = to
  BY DEF IdleLive, LiveTask
<1>2. live' \in [LiveLoops -> LiveTask]
  BY <1>1
<1>3. \A m \in LiveLoops : live'[m] = IF m = l THEN [IdleLive EXCEPT !.pc = to] ELSE live[m]
  OBVIOUS
<1> QED  BY <1>1, <1>2, <1>3

\* The same for the fleet's loop.
LEMMA FleetGoes ==
  ASSUME fleet \in [FleetLoops -> FleetTask],
         \A f \in FleetLoops : fleet[f].list # <<>> => fleet[f].sel \in Configured(fleet[f].list),
         NEW f \in FleetLoops, NEW to \in {"idle", "starting", "checking", "capturing"},
         fleet' = [fleet EXCEPT ![f] = [IdleFleet EXCEPT !.pc = to]]
  PROVE  /\ fleet' \in [FleetLoops -> FleetTask]
         /\ \A g \in FleetLoops : fleet'[g].list # <<>> => fleet'[g].sel \in Configured(fleet'[g].list)
<1>1. /\ [IdleFleet EXCEPT !.pc = to] = [pc |-> to, sel |-> NoDevice, list |-> <<>>]
      /\ <<>> \in Seq(Profile)
  BY DEF IdleFleet
<1>2. [IdleFleet EXCEPT !.pc = to] \in FleetTask /\ [IdleFleet EXCEPT !.pc = to].list = <<>>
  BY <1>1 DEF FleetTask
<1>3. fleet' \in [FleetLoops -> FleetTask]
  BY <1>2
<1>4. \A g \in FleetLoops : fleet'[g] = IF g = f THEN [IdleFleet EXCEPT !.pc = to] ELSE fleet[g]
  OBVIOUS
<1> QED  BY <1>2, <1>3, <1>4

\* The types of what the session shows and holds, and those of the two loops,
\* each with what its polls are of.
FieldsTyped ==
  /\ profiles \in Seq(Profile) /\ parses \in BOOLEAN
  /\ sortable \in BOOLEAN /\ numbers \in BOOLEAN
  /\ selected \in Ids \cup {NoDevice}
  /\ form \in [original : Ids \cup {NoDevice}, polling : BOOLEAN]
  /\ detail \in BOOLEAN /\ enabled \in BOOLEAN
  /\ panel \in [of : Polled \cup {NoDevice}, online : BOOLEAN]
  /\ DOMAIN cache \subseteq Polled /\ \A d \in DOMAIN cache : cache[d] \in BOOLEAN

LiveTyped ==
  /\ live \in [LiveLoops -> LiveTask] /\ liveRunning \in BOOLEAN
  /\ \A l \in LiveLoops : live[l].pc = "polling" => live[l].target \in Polled

FleetTyped ==
  /\ fleet \in [FleetLoops -> FleetTask] /\ fleetRunning \in BOOLEAN
  /\ \A f \in FleetLoops : fleet[f].list # <<>> => fleet[f].sel \in Configured(fleet[f].list)

\* The invariant, part by part.
LEMMA TypePartsOfFleet ==
  FleetTypeIInv <=> FieldsTyped /\ LiveTyped /\ FleetTyped /\ clicks \in Nat
BY DEF FleetTypeIInv, FleetTypeOK, PollsAreOfSome, FieldsTyped, LiveTyped, FleetTyped, LiveTask,
       FleetTask

\* What a step leaves alone keeps its types.
LEMMA FieldsStay ==
  ASSUME FieldsTyped,
         UNCHANGED <<config, numbers, selected, form, detail, enabled, panel, cache>>
  PROVE  FieldsTyped'
BY DEF FieldsTyped, config

\* The same for the live loop's table.
LEMMA LiveStays ==
  ASSUME LiveTyped, UNCHANGED <<live, liveRunning>>
  PROVE  LiveTyped'
BY DEF LiveTyped

\* The same for the fleet's.
LEMMA FleetStays ==
  ASSUME FleetTyped, UNCHANGED <<fleet, fleetRunning>>
  PROVE  FleetTyped'
BY DEF FleetTyped

\* What a form holds once a profile is loaded into it.
LEMMA FormType ==
  ASSUME FieldsTyped, NEW list \in Seq(Profile), NEW d \in Ids
  PROVE  FormOf(list, d) \in [original : Ids \cup {NoDevice}, polling : BOOLEAN]
<1>1. CASE d \in Configured(list)
  <2>1. ProfileOf(list, d) \in Profile
    BY <1>1, LookupIsTyped
  <2>2. ProfileOf(list, d).polling \in BOOLEAN
    BY <2>1 DEF Profile
  <2> QED  BY <1>1, <2>2 DEF FormOf
<1>2. CASE d \notin Configured(list)
  BY <1>2 DEF FormOf, FieldsTyped
<1> QED  BY <1>1, <1>2

\* The ids of a list of profiles are ids.
LEMMA ConfiguredIds ==
  ASSUME NEW list \in Seq(Profile)
  PROVE  Configured(list) \subseteq Ids
<1>1. \A i \in DOMAIN list : list[i] \in Profile
  OBVIOUS
<1>2. \A q \in Profile : q.id \in Ids
  BY DEF Profile
<1> QED  BY <1>1, <1>2 DEF Configured

\* Asking for live updates keeps the types.
LEMMA RequestTyped ==
  ASSUME LiveTyped, FleetTyped, NEW polling \in BOOLEAN, LiveRefreshEvent(polling)
  PROVE  enabled' \in BOOLEAN /\ LiveTyped' /\ FleetTyped'
<1>1. enabled' \in BOOLEAN /\ FleetTyped'
  BY FleetStays DEF LiveRefreshEvent
<1>2. CASE polling
  <2>1. DOMAIN live = LiveLoops
    BY DEF LiveTyped
  <2>2. /\ Free(live) \in LiveLoops
        /\ live' = [live EXCEPT ![Free(live)] = [IdleLive EXCEPT !.pc = "starting"]]
    BY <1>2, <2>1 DEF LiveRefreshEvent, Free
  <2>3. liveRunning' = liveRunning
    BY DEF LiveRefreshEvent
  <2> QED  BY <1>1, <2>2, <2>3, LiveGoes DEF LiveTyped
<1>3. CASE ~polling
  BY <1>1, <1>3, LiveStays DEF LiveRefreshEvent
<1> QED  BY <1>2, <1>3

\* A list typed as JSON is one of profiles.
LEMMA ListsOfText == Lists \subseteq Seq(Profile)
<1> SUFFICES ASSUME NEW n \in 0..MaxProfiles, NEW list \in [1..n -> Profile]
             PROVE  list \in Seq(Profile)
  BY DEF Lists
<1>1. n \in Nat /\ \A i \in 1..n : list[i] \in Profile
  BY FleetAssumption
<1>2. list = [i \in 1..n |-> list[i]]
  OBVIOUS
<1>3. [i \in 1..n |-> list[i]] \in Seq(Profile)
  BY <1>1, IsASeq
<1> QED  BY <1>2, <1>3

\* The list as a text gives it.
LEMMA TypedList ==
  ASSUME Typed
  PROVE  profiles' \in Seq(Profile) /\ parses' \in BOOLEAN /\ sortable' \in BOOLEAN
<1>1. <<>> \in Seq(Profile)
  OBVIOUS
<1>2. parses' \in BOOLEAN /\ sortable' \in BOOLEAN /\ (profiles' \in Lists \/ profiles' = <<>>)
  BY DEF Typed, Rearranged
<1> QED  BY <1>1, <1>2, ListsOfText

\* Every handler of the session keeps the types.
LEMMA HandlerTyped ==
  ASSUME FieldsTyped, LiveTyped, FleetTyped, Handler, UNCHANGED numbers
  PROVE  FieldsTyped' /\ LiveTyped' /\ FleetTyped'
<1> DEFINE Loops == UNCHANGED <<live, liveRunning, fleet, fleetRunning>>
<1>0. UNCHANGED numbers
  OBVIOUS
<1>1. ASSUME FieldsTyped', Loops PROVE FieldsTyped' /\ LiveTyped' /\ FleetTyped'
  BY <1>1, LiveStays, FleetStays
<1>2. NoPanel \in [of : Polled \cup {NoDevice}, online : BOOLEAN]
  BY DEF NoPanel
<1>3. ASSUME NEW d, ResetPanel(d)
      PROVE  panel' \in [of : Polled \cup {NoDevice}, online : BOOLEAN]
  BY <1>2, <1>3 DEF ResetPanel, FieldsTyped
<1>4. ASSUME NEW d \in Ids \cup {NoDevice}, UpdateSelectedDeviceId(d)
      PROVE  FieldsTyped' /\ LiveTyped' /\ FleetTyped'
  <2>1. Loops
    BY <1>4 DEF UpdateSelectedDeviceId, loops
  <2>2. FieldsTyped'
    BY <1>0, <1>3, <1>4 DEF UpdateSelectedDeviceId, FieldsTyped, config
  <2> QED  BY <1>1, <2>1, <2>2
<1>5. ASSUME NEW d \in Ids, SelectController(d)
      PROVE  FieldsTyped' /\ LiveTyped' /\ FleetTyped'
  <2>1. CASE ~sortable
    <3>1. Loops /\ UNCHANGED <<form, enabled>>
      BY <1>5, <2>1 DEF SelectController, loops
    <3>2. panel' \in [of : Polled \cup {NoDevice}, online : BOOLEAN]
      BY <1>3, <1>5 DEF SelectController
    <3>3. selected' = d /\ detail' = TRUE /\ UNCHANGED <<config, cache>>
      BY <1>5 DEF SelectController
    <3>4. FieldsTyped'
      BY <1>0, <3>1, <3>2, <3>3 DEF FieldsTyped, config
    <3> QED  BY <1>1, <3>1, <3>4
  <2>2. ASSUME sortable
        PROVE  /\ form' \in [original : Ids \cup {NoDevice}, polling : BOOLEAN]
               /\ enabled' \in BOOLEAN /\ LiveTyped' /\ FleetTyped'
    <3>1. form' = FormOf(profiles, d) /\ LiveRefreshEvent(form'.polling)
      BY <1>5, <2>2 DEF SelectController
    <3>2. form' \in [original : Ids \cup {NoDevice}, polling : BOOLEAN]
      BY <3>1, FormType DEF FieldsTyped
    <3>3. form'.polling \in BOOLEAN
      BY <3>2
    <3> QED  BY <3>1, <3>2, <3>3, RequestTyped
  <2>4. panel' \in [of : Polled \cup {NoDevice}, online : BOOLEAN]
    BY <1>3, <1>5 DEF SelectController
  <2>5. selected' = d /\ detail' = TRUE /\ UNCHANGED <<config, cache>>
    BY <1>5 DEF SelectController
  <2> QED  BY <1>0, <2>1, <2>2, <2>4, <2>5 DEF FieldsTyped, config
<1>6. ASSUME NEW d \in Ids, LoadControllerProfile(d)
      PROVE  FieldsTyped' /\ LiveTyped' /\ FleetTyped'
  <2>1. Loops
    BY <1>6 DEF LoadControllerProfile, loops
  <2>2. form' \in [original : Ids \cup {NoDevice}, polling : BOOLEAN]
    BY <1>6, FormType DEF LoadControllerProfile, FieldsTyped
  <2>3. selected' = d /\ UNCHANGED <<config, detail, enabled, panel, cache>>
    BY <1>6 DEF LoadControllerProfile
  <2>4. FieldsTyped'
    BY <1>0, <2>2, <2>3 DEF FieldsTyped, config
  <2> QED  BY <1>1, <2>1, <2>4
<1>7. ASSUME NEW d \in Ids, DeleteControllerProfile(d)
      PROVE  FieldsTyped' /\ LiveTyped' /\ FleetTyped'
  <2>1. Loops
    BY <1>7 DEF DeleteControllerProfile, loops
  <2>2. \E t : profiles' = Remove(profiles, t)
    BY <1>7 DEF DeleteControllerProfile
  <2>3. profiles' \in Seq(Profile)
    BY <2>2, GatheringIsTyped DEF FieldsTyped
  <2>4. /\ selected' \in {selected, NoDevice} /\ form' = [original |-> NoDevice, polling |-> TRUE]
        /\ sortable' \in BOOLEAN /\ UNCHANGED <<parses, detail, enabled, panel, cache>>
    BY <1>7 DEF DeleteControllerProfile, Rearranged
  <2>5. FieldsTyped'
    BY <1>0, <2>3, <2>4 DEF FieldsTyped
  <2> QED  BY <1>1, <2>1, <2>5
<1>8. ASSUME NEW d \in Ids, InitializeControllerProfiles(d)
      PROVE  FieldsTyped' /\ LiveTyped' /\ FleetTyped'
  <2>1. LiveTyped'
    BY <1>8, LiveStays DEF InitializeControllerProfiles
  <2>2. UNCHANGED <<numbers, detail, enabled, panel, cache>>
    BY <1>0, <1>8 DEF InitializeControllerProfiles
  <2>3. profiles' \in Seq(Profile) /\ parses' \in BOOLEAN /\ sortable' \in BOOLEAN
    <3>1. CASE Typed
      BY <3>1, TypedList
    <3>2. CASE UNCHANGED config
      BY <3>2 DEF config, FieldsTyped
    <3> QED  BY <1>8, <3>1, <3>2 DEF InitializeControllerProfiles
  <2>4. FieldsTyped'
    <3>1. CASE UNCHANGED <<selected, form>>
      BY <2>2, <2>3, <3>1 DEF FieldsTyped
    <3>2. CASE profiles' # <<>> /\ sortable'
      <4>1. PICK hint : /\ selected' = SelectProfile(profiles', hint)
                        /\ form' = FormOf(profiles', SelectProfile(profiles', hint))
        BY <1>8, <3>2 DEF InitializeControllerProfiles
      <4>2. SelectProfile(profiles', hint) \in Ids
        BY <2>3, <3>2, SelectionIsConfigured, ConfiguredIds
      <4>3. form' \in [original : Ids \cup {NoDevice}, polling : BOOLEAN]
        BY <2>3, <4>1, <4>2, FormType
      <4> QED  BY <2>2, <2>3, <4>1, <4>2, <4>3 DEF FieldsTyped
    <3> QED  BY <1>8, <3>1, <3>2 DEF InitializeControllerProfiles
  <2>5. FleetTyped'
    <3>1. fleetRunning' \in BOOLEAN
      BY <1>8 DEF InitializeControllerProfiles, FleetTyped
    <3>2. CASE enabled /\ sortable'
      <4>1. DOMAIN fleet = FleetLoops
        BY DEF FleetTyped
      <4>2. /\ Free(fleet) \in FleetLoops
            /\ fleet' = [fleet EXCEPT ![Free(fleet)] = [IdleFleet EXCEPT !.pc = "starting"]]
        BY <1>8, <3>2, <4>1 DEF InitializeControllerProfiles, Free
      <4> QED  BY <3>1, <4>2, FleetGoes DEF FleetTyped
    <3>3. CASE ~(enabled /\ sortable')
      <4>1. fleet' = fleet
        BY <1>8, <3>3 DEF InitializeControllerProfiles
      <4> QED  BY <3>1, <4>1 DEF FleetTyped
    <3> QED  BY <3>2, <3>3
  <2> QED  BY <2>1, <2>4, <2>5
<1>9. ASSUME NEW d \in Ids, NEW b \in BOOLEAN, SaveControllerProfile(d, b)
      PROVE  FieldsTyped' /\ LiveTyped' /\ FleetTyped'
  <2>1. Loops
    BY <1>9 DEF SaveControllerProfile, loops
  <2>2. PICK kept : /\ kept = profiles \/ kept = Remove(profiles, form.original)
                    /\ profiles' = Upsert(kept, [id |-> d, polling |-> b])
    BY <1>9 DEF SaveControllerProfile
  <2>3. kept \in Seq(Profile) /\ [id |-> d, polling |-> b] \in Profile
    BY <2>2, GatheringIsTyped DEF FieldsTyped, Profile
  <2>4. profiles' \in Seq(Profile)
    BY <2>2, <2>3, UpsertIsTyped
  <2>5. /\ selected' = d /\ form' = [original |-> d, polling |-> b]
        /\ sortable' \in BOOLEAN /\ UNCHANGED <<parses, detail, enabled, panel, cache>>
    BY <1>9 DEF SaveControllerProfile
  <2>6. FieldsTyped'
    BY <1>0, <2>4, <2>5 DEF FieldsTyped
  <2> QED  BY <1>1, <2>1, <2>6
<1>10. ASSUME NEW d \in Ids, NEW b \in BOOLEAN, OpenSelectedControllerStatus(d, b)
       PROVE  FieldsTyped' /\ LiveTyped' /\ FleetTyped'
  <2>1. enabled' \in BOOLEAN /\ LiveTyped' /\ FleetTyped'
    BY <1>10, RequestTyped DEF OpenSelectedControllerStatus
  <2>2. panel' \in [of : Polled \cup {NoDevice}, online : BOOLEAN]
    BY <1>3, <1>10 DEF OpenSelectedControllerStatus
  <2>3. /\ selected' = d /\ detail' = TRUE /\ form' = [form EXCEPT !.polling = b]
        /\ UNCHANGED <<config, cache>>
    BY <1>10 DEF OpenSelectedControllerStatus
  <2> QED  BY <1>0, <2>1, <2>2, <2>3 DEF FieldsTyped, config
<1>11. ASSUME NEW b \in BOOLEAN, UpdateControllerProfilePollingEnabled(b)
       PROVE  FieldsTyped' /\ LiveTyped' /\ FleetTyped'
  <2>1. enabled' \in BOOLEAN /\ LiveTyped' /\ FleetTyped'
    <3>1. CASE sortable
      BY <1>11, <3>1, RequestTyped DEF UpdateControllerProfilePollingEnabled
    <3>2. CASE ~sortable
      <4>1. Loops /\ enabled' = enabled
        BY <1>11, <3>2 DEF UpdateControllerProfilePollingEnabled, loops
      <4> QED  BY <4>1, LiveStays, FleetStays DEF FieldsTyped
    <3> QED  BY <3>1, <3>2
  <2>2. \E t : profiles' = WithPolling(profiles, t, b)
    BY <1>11 DEF UpdateControllerProfilePollingEnabled
  <2>3. \A q \in Profile : [q EXCEPT !.polling = b] \in Profile
    BY DEF Profile
  <2>4. profiles' \in Seq(Profile)
    BY <2>2, <2>3, SwitchIsTyped DEF FieldsTyped
  <2>5. /\ form' = [form EXCEPT !.polling = b]
        /\ UNCHANGED <<parses, sortable, selected, detail, panel, cache>>
    BY <1>11 DEF UpdateControllerProfilePollingEnabled
  <2> QED  BY <1>0, <2>1, <2>4, <2>5 DEF FieldsTyped
<1>12. ASSUME BackToDashboard \/ NewControllerProfile
       PROVE  FieldsTyped' /\ LiveTyped' /\ FleetTyped'
  <2>1. Loops
    BY <1>12 DEF BackToDashboard, NewControllerProfile, loops
  <2>2. FieldsTyped'
    <3>1. /\ form' = form \/ form' = [original |-> NoDevice, polling |-> TRUE]
          /\ detail' \in {detail, FALSE} /\ UNCHANGED <<config, selected, enabled, panel, cache>>
      BY <1>12 DEF BackToDashboard, NewControllerProfile
    <3>2. form' \in [original : Ids \cup {NoDevice}, polling : BOOLEAN]
      <4>1. form \in [original : Ids \cup {NoDevice}, polling : BOOLEAN]
        BY DEF FieldsTyped
      <4>2. [original |-> NoDevice, polling |-> TRUE] \in [original : Ids \cup {NoDevice}, polling : BOOLEAN]
        OBVIOUS
      <4>3. CASE form' = form
        BY <4>1, <4>3
      <4>4. CASE form' = [original |-> NoDevice, polling |-> TRUE]
        BY <4>2, <4>4
      <4> QED  BY <3>1, <4>3, <4>4
    <3>3. detail' \in BOOLEAN
      BY <3>1 DEF FieldsTyped
    <3> QED  BY <1>0, <3>1, <3>2, <3>3 DEF FieldsTyped, config
  <2> QED  BY <1>1, <2>1, <2>2
<1>13. ASSUME UpdateDeviceProfilesJson
       PROVE  FieldsTyped' /\ LiveTyped' /\ FleetTyped'
  <2>1. Loops
    BY <1>13 DEF UpdateDeviceProfilesJson, loops
  <2>2. profiles' \in Seq(Profile) /\ parses' \in BOOLEAN /\ sortable' \in BOOLEAN
    BY <1>13, TypedList DEF UpdateDeviceProfilesJson
  <2>3. UNCHANGED <<selected, form, detail, enabled, panel, cache>>
    BY <1>13 DEF UpdateDeviceProfilesJson
  <2>4. FieldsTyped'
    BY <1>0, <2>2, <2>3 DEF FieldsTyped
  <2> QED  BY <1>1, <2>1, <2>4
<1>14. ASSUME ArrangeTable
       PROVE  FieldsTyped' /\ LiveTyped' /\ FleetTyped'
  <2>1. Loops
    BY <1>14 DEF ArrangeTable, loops
  <2>2. FieldsTyped'
    BY <1>0, <1>14 DEF ArrangeTable, FieldsTyped
  <2> QED  BY <1>1, <2>1, <2>2
<1> QED
  BY <1>4, <1>5, <1>6, <1>7, <1>8, <1>9, <1>10, <1>11, <1>12, <1>13, <1>14 DEF Handler

\* Whatever the operator does keeps them.
LEMMA OperatorTyped ==
  ASSUME FieldsTyped, LiveTyped, FleetTyped, clicks \in Nat, Operator
  PROVE  FieldsTyped' /\ LiveTyped' /\ FleetTyped' /\ clicks' \in Nat
<1>1. clicks' \in Nat
  BY DEF Operator
<1>2. CASE Handler /\ UNCHANGED numbers
  BY <1>1, <1>2, HandlerTyped
<1>3. CASE UpdateConnectionForm
  <2>1. FieldsTyped'
    BY <1>3 DEF UpdateConnectionForm, FieldsTyped, config
  <2>2. LiveTyped' /\ FleetTyped'
    BY <1>3, LiveStays, FleetStays DEF UpdateConnectionForm, loops
  <2> QED  BY <1>1, <2>1, <2>2
<1> QED  BY <1>2, <1>3 DEF Operator

\* A task of the live loop keeps the types.
LEMMA LiveStepTyped ==
  ASSUME FieldsTyped, LiveTyped, FleetTyped, NEW l \in LiveLoops, LiveStep(l)
  PROVE  FieldsTyped' /\ LiveTyped' /\ FleetTyped'
<1>0. UNCHANGED numbers
  BY DEF LiveStep
<1>1. FleetTyped'
  BY FleetStays DEF LiveStep, LiveStart, LiveCheck, LiveApply, LiveFail
<1>2. ASSUME NEW to \in {"idle", "starting", "checking"}, LiveGoto(l, to), liveRunning' \in BOOLEAN
      PROVE  LiveTyped'
  BY <1>2, LiveGoes DEF LiveTyped, LiveGoto
<1>3. CASE LiveStart(l)
  <2>1. LiveTyped'
    BY <1>2, <1>3 DEF LiveStart
  <2>2. FieldsTyped'
    BY <1>3, <1>0, FieldsStay DEF LiveStart
  <2> QED  BY <1>1, <2>1, <2>2
<1>4. CASE LiveCheck(l)
  <2>1. FieldsTyped'
    BY <1>4, <1>0, FieldsStay DEF LiveCheck
  <2>2. ASSUME LiveWanted PROVE LiveTyped'
    <3> DEFINE task == [pc |-> "polling", sel |-> selected, target |-> ResolveTarget(profiles, selected)]
    <3>1. live' = [live EXCEPT ![l] = task] /\ liveRunning' = liveRunning
      BY <1>4, <2>2 DEF LiveCheck
    <3>2. ResolveTarget(profiles, selected) \in Polled
      <4>1. CASE profiles = <<>>
        BY <4>1 DEF ResolveTarget, Polled
      <4>2. CASE profiles # <<>>
        BY <4>2, SelectionIsConfigured, ConfiguredIds DEF FieldsTyped, ResolveTarget, Polled
      <4> QED  BY <4>1, <4>2
    <3>3. task \in LiveTask /\ task.target \in Polled
      BY <3>2 DEF FieldsTyped, LiveTask
    <3> HIDE DEF task
    <3>4. \A m \in LiveLoops : live'[m] = IF m = l THEN task ELSE live[m]
      BY <3>1 DEF LiveTyped
    <3>5. live' \in [LiveLoops -> LiveTask]
      BY <3>1, <3>3 DEF LiveTyped
    <3> QED  BY <3>1, <3>3, <3>4, <3>5 DEF LiveTyped
  <2>3. ASSUME ~LiveWanted PROVE LiveTyped'
    BY <1>2, <1>4, <2>3 DEF LiveCheck
  <2> QED  BY <1>1, <2>1, <2>2, <2>3
<1>5. ASSUME NEW b \in BOOLEAN, LiveApply(l, b)
      PROVE  FieldsTyped' /\ LiveTyped' /\ FleetTyped'
  <2>1. CASE selected # live[l].sel
    <3>1. LiveTyped'
      BY <1>2, <1>5, <2>1 DEF LiveApply, LiveTyped
    <3>2. UNCHANGED <<panel, cache>>
      BY <1>5, <2>1 DEF LiveApply
    <3> QED  BY <1>0, <1>1, <1>5, <3>1, <3>2, FieldsStay DEF LiveApply
  <2>2. CASE selected = live[l].sel
    <3>1. Show(l, b) /\ live[l].target \in Polled
      BY <1>5, <2>2 DEF LiveApply, LiveTyped
    <3>2. liveRunning' \in BOOLEAN
      BY <3>1 DEF Show, FieldsTyped, LiveTyped
    <3>3. LiveTyped'
      BY <1>2, <3>1, <3>2 DEF Show
    <3>4. /\ panel' = [of |-> live[l].target, online |-> b]
          /\ cache' = [d \in DOMAIN cache \cup {live[l].target} |->
                         IF d = live[l].target THEN b ELSE cache[d]]
          /\ UNCHANGED <<config, selected, form, detail, enabled>>
      BY <1>5, <3>1 DEF LiveApply, Show
    <3>5. panel' \in [of : Polled \cup {NoDevice}, online : BOOLEAN]
      BY <3>1, <3>4
    <3>6. DOMAIN cache' \subseteq Polled /\ \A d \in DOMAIN cache' : cache'[d] \in BOOLEAN
      BY <3>1, <3>4 DEF FieldsTyped
    <3>7. FieldsTyped'
      BY <1>0, <3>4, <3>5, <3>6 DEF FieldsTyped, config
    <3> QED  BY <1>1, <3>3, <3>7
  <2> QED  BY <2>1, <2>2
<1>6. CASE LiveFail(l)
  <2>1. LiveTyped'
    BY <1>2, <1>6 DEF LiveFail, LiveTyped
  <2>2. FieldsTyped'
    BY <1>6, <1>0, FieldsStay DEF LiveFail
  <2> QED  BY <1>1, <2>1, <2>2
<1> QED  BY <1>3, <1>4, <1>5, <1>6 DEF LiveStep

\* A task of the fleet's loop keeps them: the selection it writes back is in the
\* list it polled, and so has a result.
LEMMA FleetStepTyped ==
  ASSUME FieldsTyped, LiveTyped, FleetTyped, NEW f \in FleetLoops, FleetStep(f)
  PROVE  FieldsTyped' /\ LiveTyped' /\ FleetTyped'
<1>0. UNCHANGED numbers
  BY DEF FleetStep
<1>1. LiveTyped'
  BY LiveStays DEF FleetStep, FleetStart, FleetCheck, FleetCapture, FleetRefused, FleetCommit
<1>2. ASSUME NEW to \in {"idle", "starting", "checking", "capturing"}, FleetGoto(f, to),
             fleetRunning' \in BOOLEAN
      PROVE  FleetTyped'
  BY <1>2, FleetGoes DEF FleetTyped, FleetGoto
<1>3. CASE FleetStart(f)
  <2>1. FleetTyped'
    BY <1>2, <1>3 DEF FleetStart
  <2>2. FieldsTyped'
    BY <1>3, <1>0, FieldsStay DEF FleetStart
  <2> QED  BY <1>1, <2>1, <2>2
<1>4. CASE FleetCheck(f)
  <2>1. FleetTyped'
    BY <1>2, <1>4 DEF FleetCheck, FleetTyped
  <2>2. FieldsTyped'
    BY <1>4, <1>0, FieldsStay DEF FleetCheck
  <2> QED  BY <1>1, <2>1, <2>2
<1>5. CASE FleetCapture(f)
  <2>1. FieldsTyped'
    BY <1>5, <1>0, FieldsStay DEF FleetCapture
  <2> DEFINE task == [pc   |-> IF parses THEN "polling" ELSE "refused", list |-> profiles,
                      sel  |-> IF profiles = <<>> THEN NoDevice ELSE SelectProfile(profiles, selected)]
  <2>2. fleet' = [fleet EXCEPT ![f] = task] /\ fleetRunning' = fleetRunning
    BY <1>5 DEF FleetCapture
  <2>3. profiles # <<>> => /\ SelectProfile(profiles, selected) \in Configured(profiles)
                           /\ SelectProfile(profiles, selected) \in Ids
    BY SelectionIsConfigured, ConfiguredIds DEF FieldsTyped
  <2>4. task \in FleetTask
    BY <2>3 DEF FieldsTyped, FleetTask
  <2>5. task.list # <<>> => task.sel \in Configured(task.list)
    BY <2>3
  <2> HIDE DEF task
  <2>6. \A g \in FleetLoops : fleet'[g] = IF g = f THEN task ELSE fleet[g]
    BY <2>2 DEF FleetTyped
  <2>7. fleet' \in [FleetLoops -> FleetTask]
    BY <2>2, <2>4 DEF FleetTyped
  <2>8. FleetTyped'
    BY <2>2, <2>5, <2>6, <2>7 DEF FleetTyped
  <2> QED  BY <1>1, <2>1, <2>8
<1>6. CASE FleetCommit(f)
  <2> DEFINE list == fleet[f].list
             sel == fleet[f].sel
  <2>1. FleetTyped'
    <3>1. fleetRunning' \in BOOLEAN
      BY <1>6 DEF FleetCommit, FleetGoOn, FieldsTyped, FleetTyped
    <3> QED  BY <1>2, <1>6, <3>1 DEF FleetCommit, FleetGoOn
  <2>2. list \in Seq(Profile) /\ sel \in Ids \cup {NoDevice}
        /\ (list # <<>> => sel \in Configured(list))
    BY DEF FleetTyped, FleetTask
  <2>3. PICK results \in Results(list) :
          /\ cache' = results
          /\ selected' = IF list = <<>> THEN selected ELSE sel
          /\ panel' = IF list = <<>> \/ ~sortable THEN panel
                      ELSE [of |-> sel, online |-> results[sel]]
    BY <1>6 DEF FleetCommit
  <2>4. UNCHANGED <<config, form, detail, enabled>>
    BY <1>6 DEF FleetCommit
  <2> HIDE DEF list, sel
  <2>5. results \in [Configured(list) -> BOOLEAN] /\ Configured(list) \subseteq Ids
    BY <2>2, ConfiguredIds DEF Results
  <2>6. DOMAIN cache' \subseteq Polled /\ \A d \in DOMAIN cache' : cache'[d] \in BOOLEAN
    BY <2>3, <2>5 DEF Polled
  <2>7. selected' \in Ids \cup {NoDevice}
    BY <2>2, <2>3 DEF FieldsTyped
  <2>8. panel' \in [of : Polled \cup {NoDevice}, online : BOOLEAN]
    <3>1. CASE list = <<>> \/ ~sortable
      BY <2>3, <3>1 DEF FieldsTyped
    <3>2. CASE ~(list = <<>> \/ ~sortable)
      <4>1. sel \in Polled /\ results[sel] \in BOOLEAN
        BY <2>2, <2>5, <3>2 DEF Polled
      <4>2. panel' = [of |-> sel, online |-> results[sel]]
        BY <2>3, <3>2
      <4> QED  BY <4>1, <4>2
    <3> QED  BY <3>1, <3>2
  <2>9. FieldsTyped'
    BY <1>0, <2>4, <2>6, <2>7, <2>8 DEF FieldsTyped, config
  <2> QED  BY <1>1, <2>1, <2>9
<1>7. CASE FleetRefused(f)
  <2>1. FleetTyped'
    BY <1>2, <1>7 DEF FleetRefused, FleetTyped
  <2>2. cache' = <<>> /\ UNCHANGED <<config, selected, form, detail, enabled, panel>>
    BY <1>7 DEF FleetRefused
  <2>3. DOMAIN cache' = {}
    BY <2>2
  <2>4. FieldsTyped'
    BY <1>0, <2>2, <2>3 DEF FieldsTyped, config
  <2> QED  BY <1>1, <2>1, <2>4
<1> QED  BY <1>3, <1>4, <1>5, <1>6, <1>7 DEF FleetStep

\* The initial states are of the types.
LEMMA FleetTypesBegin == FleetInit => FieldsTyped /\ LiveTyped /\ FleetTyped /\ clicks \in Nat
<1> SUFFICES ASSUME FleetInit PROVE FieldsTyped /\ LiveTyped /\ FleetTyped /\ clicks \in Nat
  OBVIOUS
<1>1. FieldsTyped
  <2>1. profiles \in Seq(Profile)
    BY ListsOfText DEF FleetInit
  <2>2. DOMAIN cache = {}
    BY DEF FleetInit
  <2> QED  BY <2>1, <2>2 DEF FleetInit, FieldsTyped, NoPanel
<1>2. LiveTyped
  BY DEF FleetInit, LiveTyped, LiveTask, IdleLive
<1>3. FleetTyped
  <2>1. <<>> \in Seq(Profile)
    OBVIOUS
  <2>2. IdleFleet \in FleetTask /\ IdleFleet.list = <<>>
    BY <2>1 DEF IdleFleet, FleetTask
  <2>3. fleet = [f \in FleetLoops |-> IdleFleet] /\ fleetRunning = FALSE
    BY DEF FleetInit
  <2> QED  BY <2>2, <2>3 DEF FleetTyped
<1> QED  BY <1>1, <1>2, <1>3 DEF FleetInit

\* Every step keeps them.
LEMMA FleetTypesStay == FleetTypeIInv /\ [FleetNext]_fleetVars => FleetTypeIInv'
<1>0. FleetTypeIInv' <=> FieldsTyped' /\ LiveTyped' /\ FleetTyped' /\ clicks' \in Nat
  BY DEF FleetTypeIInv, FleetTypeOK, PollsAreOfSome, FieldsTyped, LiveTyped, FleetTyped, LiveTask,
         FleetTask
<1> SUFFICES ASSUME FieldsTyped, LiveTyped, FleetTyped, clicks \in Nat, [FleetNext]_fleetVars
             PROVE  FieldsTyped' /\ LiveTyped' /\ FleetTyped' /\ clicks' \in Nat
  BY <1>0, TypePartsOfFleet
<1>1. CASE UNCHANGED fleetVars
  BY <1>1, FieldsStay, LiveStays, FleetStays DEF fleetVars, loops
<1>2. CASE Operator
  BY <1>2, OperatorTyped
<1>3. ASSUME NEW l \in LiveLoops, LiveStep(l)
      PROVE  FieldsTyped' /\ LiveTyped' /\ FleetTyped' /\ clicks' \in Nat
  BY <1>3, LiveStepTyped DEF LiveStep
<1>4. ASSUME NEW f \in FleetLoops, FleetStep(f)
      PROVE  FieldsTyped' /\ LiveTyped' /\ FleetTyped' /\ clicks' \in Nat
  BY <1>4, FleetStepTyped DEF FleetStep
<1> QED  BY <1>1, <1>2, <1>3, <1>4 DEF FleetNext

\* In every behaviour every poll is of a controller there is, and a result that
\* is written back has the selected controller in it.
THEOREM FleetTypesHold == FleetSpec => []FleetTypeIInv
<1>1. FleetInit => FleetTypeIInv
  BY FleetTypesBegin, TypePartsOfFleet
<1> QED  BY <1>1, FleetTypesStay, PTL DEF FleetSpec

\* The types of the monitor and of its loops.
THEOREM FleetTypes == FleetSpec => []FleetTypeOK
<1>1. FleetTypeIInv => FleetTypeOK
  BY DEF FleetTypeIInv
<1> QED  BY <1>1, FleetTypesHold, PTL

=============================================================================
