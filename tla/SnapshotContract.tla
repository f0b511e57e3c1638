--------------------------- MODULE SnapshotContract ---------------------------
(***************************************************************************)
(* What collect_snapshot promises its callers, without futures, backoff or *)
(* clock: there is one conversation per device key, a caller that asks     *)
(* while it goes on waits for that one, when it ends everyone who waited   *)
(* is owed the same outcome, and whoever is owed an outcome gets it.       *)
(***************************************************************************)
CONSTANTS Callers, Keys, None

VARIABLES
  talking,  \* key -> the caller in conversation with its device, or None
  waiting,  \* caller -> the key it has asked for and not been answered on
  owed      \* caller -> the outcome it is to be answered with, or "pending"

vars == <<talking, waiting, owed>>

Outcomes == {"fresh", "error", "cancelled"}

Init ==
  /\ talking = [k \in Keys |-> None]
  /\ waiting = [c \in Callers |-> None]
  /\ owed = [c \in Callers |-> "pending"]

\* c asks for k: it starts the conversation, or waits for the one going on.  A
\* caller that is answered at once changes nothing here.
Ask(c, k) ==
  /\ waiting[c] = None
  /\ waiting' = [waiting EXCEPT ![c] = k]
  /\ talking' = [talking EXCEPT ![k] = IF @ = None THEN c ELSE @]
  /\ UNCHANGED owed

\* The conversation about k ends: its caller has its outcome, all others who
\* wait for k are owed it.
HangUp(k, outcome) ==
  /\ talking[k] # None
  /\ talking' = [talking EXCEPT ![k] = None]
  /\ waiting' = [waiting EXCEPT ![talking[k]] = None]
  /\ owed' = [c \in Callers |->
                IF waiting[c] = k /\ owed[c] = "pending" /\ c # talking[k]
                THEN outcome ELSE owed[c]]

\* A caller takes the outcome it is owed.
Take(c) ==
  /\ owed[c] # "pending"
  /\ waiting' = [waiting EXCEPT ![c] = None]
  /\ owed' = [owed EXCEPT ![c] = "pending"]
  /\ UNCHANGED talking

\* A caller that is not in conversation stops waiting.
GiveUp(c) ==
  /\ waiting[c] # None
  /\ \A k \in Keys : talking[k] # c
  /\ waiting' = [waiting EXCEPT ![c] = None]
  /\ owed' = [owed EXCEPT ![c] = "pending"]
  /\ UNCHANGED talking

Next ==
  \/ \E c \in Callers, k \in Keys : Ask(c, k)
  \/ \E k \in Keys, outcome \in Outcomes : HangUp(k, outcome)
  \/ \E c \in Callers : Take(c) \/ GiveUp(c)

Fairness ==
  /\ \A k \in Keys : WF_vars(\E outcome \in Outcomes : HangUp(k, outcome))
  /\ \A c \in Callers : WF_vars(Take(c))

SafetySpec == Init /\ [][Next]_vars
Spec == SafetySpec /\ Fairness

=============================================================================
