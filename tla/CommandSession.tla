---------------------------- MODULE CommandSession ----------------------------
(***************************************************************************)
(* Writing to a controller from one browser session: sign-in, write        *)
(* unlock, confirmation, execution and audit.                              *)
(*                                                                         *)
(* The handlers of a session run one at a time under its state lock, which *)
(* send_command keeps while it awaits the controller, so that only the     *)
(* clock goes on meanwhile.  Two sessions share no variable of this module *)
(* but the audit store, to which both only add.  A command is              *)
(* select_pattern: an SNMP SET of the controller's systemPatternControl,   *)
(* and a poll that looks whether the controller runs the pattern, which is *)
(* the controller's own decision.  With safe_command_probe set a command   *)
(* reads and writes nothing.                                               *)
(*                                                                         *)
(* Rows of the audit trail are named by their correlation id; trail holds  *)
(* the rows handed to the store.  The history variable sets records the    *)
(* SETs that took effect, and the request each of them came from.          *)
(***************************************************************************)
EXTENDS Integers

CONSTANTS
  Controllers,    \* the profiles the session can select
  Patterns,       \* signal patterns
  None,           \* no pending command, the empty timestamp
  MaxAttempts,    \* OPENSIGNAL_MAX_LOGIN_ATTEMPTS
  LockoutWindow,  \* OPENSIGNAL_LOGIN_LOCKOUT_SECONDS
  UnlockWindow,   \* the unlock seconds asked for, as the service bounds them
  ConfirmWindow,  \* the 90 seconds of a confirmation token
  MaxCalls,       \* bound of the model: correlation ids handed out
  MaxTime         \* bound of the model: the clock stops here

ASSUME SessionAssumption ==
  /\ None \notin Int /\ None \notin [value : Patterns, asked : Nat, expires : Int]
  /\ MaxAttempts \in Nat \ {0} /\ MaxCalls \in Nat /\ MaxTime \in Nat
  /\ LockoutWindow \in Nat \ {0} /\ UnlockWindow \in Nat \ {0} /\ ConfirmWindow \in Nat \ {0}

VARIABLES
  now,       \* the UTC clock
  signedIn,  \* is_authenticated, as operator or admin
  failed,    \* failed_login_attempts
  lockout,   \* login_lockout_until
  probe,     \* safe_command_probe
  writing,   \* write_mode_active
  unlocked,  \* write_unlock_until
  chosen,    \* selected_device_id
  pending,   \* the command awaiting its confirmation, or None
  stage,     \* stage of selected_controller_command_lifecycle
  pc,        \* what send_command awaits, "idle" when it does not run
  call,      \* locals of the command in execution, or of the last one
  calls,     \* correlation ids handed out so far
  trail,     \* the command rows handed to the audit store
  sets       \* history: the SETs that took effect

login == <<signedIn, failed, lockout>>
safety == <<probe, writing, unlocked>>
running == <<pc, call, sets>>
audit == <<calls, trail>>
vars == <<now, login, safety, chosen, pending, stage, running, audit>>

Time == 0 .. MaxTime
Expired(deadline) == deadline = None \/ now >= deadline

Stages == {"idle", "awaiting_confirmation", "confirmation_expired", "confirmation_rejected",
           "executing", "failed", "applied", "verified", "timed_out"}
Steps == {"idle", "connecting", "commanding", "polling"}
Command == [value : Patterns, asked : Nat, expires : Int]
Call == [id : Nat, asked : Nat, value : Patterns, device : Controllers,
         probe : BOOLEAN, began : Time]
Row == [id : Nat, value : Patterns, at : Time, kind : {"denied", "confirm", "succeeded", "failed"}]

Idle == pc = "idle"
NextId == calls + 1

-----------------------------------------------------------------------------
(* Signing in                                                              *)

\* lock_write_mode, also the fate of a session whose unlock is refused.
Lock == probe' = TRUE /\ writing' = FALSE /\ unlocked' = None

LoginLocked == ~Expired(lockout)

\* While locked out an attempt is not even looked at.
LoginRefused ==
  /\ Idle /\ LoginLocked
  /\ signedIn' = FALSE
  /\ UNCHANGED <<now, failed, lockout, safety, chosen, pending, stage, running, audit>>

LoginSucceeds ==
  /\ Idle /\ ~LoginLocked
  /\ signedIn' = TRUE /\ failed' = 0 /\ lockout' = None
  /\ UNCHANGED <<now, safety, chosen, pending, stage, running, audit>>

\* A wrong password signs out, locks write mode, and from the last attempt
\* allowed on locks the login.  The count stops where it no longer matters.
LoginFails ==
  LET count == IF failed < MaxAttempts THEN failed + 1 ELSE failed IN
  /\ Idle /\ ~LoginLocked
  /\ signedIn' = FALSE
  /\ failed' = count
  /\ lockout' = IF count < MaxAttempts THEN lockout ELSE now + LockoutWindow
  /\ Lock
  /\ UNCHANGED <<now, chosen, pending, stage, running, audit>>

\* A command that awaits its confirmation survives the logout.
Logout ==
  /\ Idle
  /\ signedIn' = FALSE
  /\ Lock
  /\ UNCHANGED <<now, failed, lockout, chosen, pending, stage, running, audit>>

\* reset_login_lockout with the admin recovery key.
ResetLockout ==
  /\ Idle
  /\ failed' = 0 /\ lockout' = None
  /\ UNCHANGED <<now, signedIn, safety, chosen, pending, stage, running, audit>>

-----------------------------------------------------------------------------
(* Unlocking and selecting                                                 *)

\* unlock_write_mode: refused outright when signed out; a wrong key locks write
\* mode, the right one opens it for a while.
Unlock(rightKey) ==
  /\ Idle /\ signedIn
  /\ IF rightKey
     THEN probe' = FALSE /\ writing' = TRUE /\ unlocked' = now + UnlockWindow
     ELSE Lock
  /\ UNCHANGED <<now, login, chosen, pending, stage, running, audit>>

LockWriteMode ==
  /\ Idle
  /\ Lock
  /\ UNCHANGED <<now, login, chosen, pending, stage, running, audit>>

\* update_safe_command_probe: switching it on locks write mode, switching it off
\* does not unlock it.
SwitchProbe(on) ==
  /\ Idle
  /\ IF on THEN Lock ELSE probe' = FALSE /\ UNCHANGED <<writing, unlocked>>
  /\ UNCHANGED <<now, login, chosen, pending, stage, running, audit>>

Select(d) ==
  /\ Idle
  /\ chosen' = d
  /\ UNCHANGED <<now, login, safety, pending, stage, running, audit>>

-----------------------------------------------------------------------------
(* Asking and confirming                                                   *)

Log(id, value, kind) == trail' = trail \cup {[id |-> id, value |-> value, at |-> now, kind |-> kind]}

Deny(value) ==
  /\ stage' = "failed"
  /\ Log(NextId, value, "denied")
  /\ UNCHANGED running

\* send_command hands over to CommandService with the controller chosen now.
\* A device type without a driver raises there: the session's handler shows the
\* failure and writes no row.
Execute(value, asked) ==
  /\ UNCHANGED <<trail, sets>>
  /\ \/ /\ stage' = "executing" /\ pc' = "connecting"
        /\ call' = [id |-> NextId, asked |-> asked, value |-> value, device |-> chosen,
                    probe |-> probe, began |-> now]
     \/ stage' = "failed" /\ UNCHANGED <<pc, call>>

\* send_command from the control panel.  A write waits for its token, whether
\* write mode is unlocked or not, and replaces the command waiting before it.
Request(value) ==
  /\ Idle /\ calls < MaxCalls
  /\ calls' = NextId
  /\ \/ ~signedIn /\ Deny(value) /\ UNCHANGED pending
     \/ /\ signedIn /\ ~probe
        /\ pending' = [value |-> value, asked |-> NextId, expires |-> now + ConfirmWindow]
        /\ stage' = "awaiting_confirmation"
        /\ Log(NextId, value, "confirm")
        /\ UNCHANGED running
     \/ signedIn /\ probe /\ Execute(value, 0) /\ UNCHANGED pending
  /\ UNCHANGED <<now, login, safety, chosen>>

\* Faulty: the expiry of the unlock is not looked at.
AllowedForEver == probe \/ unlocked # None

\* CommandSafetyService.evaluate_command.
Allowed == probe \/ ~Expired(unlocked)

ConfirmExpired ==
  /\ Idle /\ pending # None /\ Expired(pending.expires)
  /\ pending' = None
  /\ stage' = "confirmation_expired"
  /\ UNCHANGED <<now, login, safety, chosen, running, audit>>

\* A wrong token leaves the command pending.
ConfirmMismatched ==
  /\ Idle /\ pending # None /\ ~Expired(pending.expires)
  /\ stage' = "confirmation_rejected"
  /\ UNCHANGED <<now, login, safety, chosen, pending, running, audit>>

\* The confirmed command goes through send_command again, under an id of its own.
Forced(command) ==
  /\ calls < MaxCalls
  /\ calls' = NextId
  /\ \/ ~signedIn /\ Deny(command.value) /\ UNCHANGED safety
     \/ signedIn /\ ~Allowed /\ Lock /\ Deny(command.value)
     \/ signedIn /\ Allowed /\ Execute(command.value, command.asked) /\ UNCHANGED safety

\* Faulty: the command stays pending and its token good.
ConfirmAgain ==
  /\ Idle /\ pending # None /\ ~Expired(pending.expires)
  /\ Forced(pending)
  /\ UNCHANGED <<now, login, chosen, pending>>

ConfirmMatched ==
  /\ Idle /\ pending # None /\ ~Expired(pending.expires)
  /\ pending' = None
  /\ Forced(pending)
  /\ UNCHANGED <<now, login, chosen>>

-----------------------------------------------------------------------------
(* Executing                                                               *)

Outcomes == {"failed", "applied", "verified", "timed_out"}

\* Faulty: only what went well is written down.
FinishSilently(outcome) ==
  /\ pc' = "idle"
  /\ stage' = outcome
  /\ IF outcome = "failed" THEN UNCHANGED trail ELSE Log(call.id, call.value, "succeeded")
  /\ UNCHANGED <<now, login, safety, chosen, pending, call, calls, sets>>

\* send_command resumes with the result: first the row, then the status and the
\* outcome.  Showing the status draws the pages, which may raise: the command
\* then reads failed whatever its row says.
Finish(outcome) ==
  /\ pc' = "idle"
  /\ Log(call.id, call.value, IF outcome \in {"failed", "timed_out"} THEN "failed" ELSE "succeeded")
  /\ stage' \in {outcome, "failed"}
  /\ UNCHANGED <<now, login, safety, chosen, pending, call, calls, sets>>

Await(step) == pc' = step /\ UNCHANGED <<now, login, safety, chosen, pending, stage, call, sets, audit>>

Connect == pc = "connecting" /\ (Await("commanding") \/ Finish("failed"))

\* A probe is one GET of the object the command would write.
ProbeTarget == pc = "commanding" /\ call.probe /\ (Await("polling") \/ Finish("failed"))

Landed == \E w \in sets : w.id = call.id

\* The SET takes effect.  Its answer may be lost and the SET sent again, which
\* changes nothing, or the last retry may run out.
SetLands ==
  /\ pc = "commanding" /\ ~call.probe /\ ~Landed
  /\ sets' = sets \cup {call}
  /\ UNCHANGED <<now, login, safety, chosen, pending, stage, pc, call, audit>>

SetAnswered == pc = "commanding" /\ ~call.probe /\ Landed /\ Await("polling")

\* Refused by the controller, or never answered.
SetFails == pc = "commanding" /\ ~call.probe /\ Finish("failed")

\* Faulty: a probe is verified too.
PollAndVerify == pc = "polling" /\ \E outcome \in {"verified", "timed_out"} : Finish(outcome)

\* The poll never raises.  A probe is not verified: nothing was to change.
Poll == pc = "polling" /\ \E outcome \in Outcomes \ {"failed"} :
          (outcome = "applied" <=> call.probe) /\ Finish(outcome)

Tick ==
  /\ now < MaxTime
  /\ now' = now + 1
  /\ UNCHANGED <<login, safety, chosen, pending, stage, running, audit>>

Init ==
  /\ now = 0
  /\ signedIn = FALSE /\ failed = 0 /\ lockout = None
  /\ probe = TRUE /\ writing = FALSE /\ unlocked = None
  /\ chosen \in Controllers
  /\ pending = None
  /\ stage = "idle" /\ pc = "idle"
  /\ \E value \in Patterns :
       call = [id |-> 0, asked |-> 0, value |-> value, device |-> chosen, probe |-> TRUE, began |-> 0]
  /\ calls = 0
  /\ trail = {} /\ sets = {}

SignIn == LoginRefused \/ LoginSucceeds \/ LoginFails \/ Logout \/ ResetLockout
Prepare == \/ \E rightKey \in BOOLEAN : Unlock(rightKey)
           \/ \E on \in BOOLEAN : SwitchProbe(on)
           \/ LockWriteMode
           \/ \E d \in Controllers : Select(d)
Write == \/ \E value \in Patterns : Request(value)
         \/ ConfirmExpired \/ ConfirmMismatched \/ ConfirmMatched
Field == Connect \/ ProbeTarget \/ SetLands \/ SetAnswered \/ SetFails \/ Poll

Next == SignIn \/ Prepare \/ Write \/ Field \/ Tick

Spec == Init /\ [][Next]_vars

-----------------------------------------------------------------------------
(* Properties                                                              *)

\* Every variable keeps its type.
TypeOK ==
  /\ now \in Time
  /\ signedIn \in BOOLEAN /\ failed \in 0 .. MaxAttempts /\ lockout \in Nat \cup {None}
  /\ probe \in BOOLEAN /\ writing \in BOOLEAN /\ unlocked \in Nat \cup {None}
  /\ chosen \in Controllers
  /\ pending \in Command \cup {None}
  /\ stage \in Stages /\ pc \in Steps
  /\ call \in Call
  /\ calls \in 0 .. MaxCalls
  /\ trail \subseteq Row
  /\ sets \subseteq Call

\* Sign-in, lockout and write mode agree: write mode is open exactly while there
\* is an unlock to expire, and only for someone signed in and not probing; who is
\* signed in is not locked out, and a lockout comes from too many failures.  A
\* refused login closes no write mode because of it: a locked-out session has none.
SessionLaw ==
  /\ writing <=> unlocked # None
  /\ writing => signedIn /\ ~probe
  /\ signedIn => lockout = None /\ failed = 0
  /\ lockout # None => failed = MaxAttempts

\* Every SET goes back to one request of the same pattern, asked for and then
\* confirmed before its token expired, and no request is carried out twice.
WritesWereConfirmed ==
  /\ \A w \in sets : \E r \in trail :
       /\ r.kind = "confirm" /\ r.id = w.asked /\ r.value = w.value
       /\ r.at <= w.began /\ w.began < r.at + ConfirmWindow
  /\ \A v, w \in sets : v.asked = w.asked => v = w

\* A SET takes effect only in a session that is signed in and in write mode, for
\* a command that began before the unlock expired; and no step, whatever it is,
\* takes the flags of sign-in, lockout and write mode apart, so that none of
\* them is left open for a SET to come.
SetsUnderWriteMode ==
  [][/\ \A w \in sets' \ sets : signedIn /\ writing /\ ~probe /\ w.began < unlocked
     /\ SessionLaw']_vars

\* When the command is over the audit trail has a row of its own for every SET
\* that took effect, those the controller never answered included.
WritesAreAudited ==
  \A w \in sets : \/ ~Idle /\ call.id = w.id
                  \/ \E r \in trail : /\ r.id = w.id /\ r.value = w.value
                                      /\ r.kind \in {"succeeded", "failed"}

\* What the panel reports as verified, or as acknowledged and not seen to take,
\* was written: by this very command, not by an earlier one or in a probe.
AcknowledgedWasWritten ==
  stage \in {"verified", "timed_out"} => Landed /\ ~call.probe

=============================================================================
