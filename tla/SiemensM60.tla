------------------------------ MODULE SiemensM60 ------------------------------
(***************************************************************************)
(* The driver of one Siemens M60 and the tasks that share it: the loop of  *)
(* managed polling, snapshots and commands.  They write one status object. *)
(*                                                                         *)
(* A poll is many SNMP exchanges, one step each, and the signal goes on    *)
(* between them.  Any read may be lost, or not be supported, which is the  *)
(* same to the driver: a batch fails as a whole and single reads follow; it *)
(* has read nothing then and is one step with the first of them.           *)
(* What a poll found becomes visible in one step, and its caller goes on   *)
(* in the same step, as nothing is awaited there.                          *)
(*                                                                         *)
(* What is green comes from two sources: a bit mask for each group of      *)
(* eight phases, and a status of three bits per phase.  Red is read in the *)
(* same two ways and is left out, as are the calls, the timers, the rings  *)
(* and the maximum greens, that are read before and after these.           *)
(***************************************************************************)
EXTENDS Integers, Sequences, FiniteSets, FiniteSetsExt

CONSTANTS
  Phases,      \* phases in use, numbers from 1 to 16
  Patterns,    \* timing patterns
  Loops,       \* tasks of managed polling
  Callers,     \* tasks of snapshots and commands
  None,        \* no value: Python's None
  MaxChanges   \* bound of the model: what the signal does by itself

ASSUME M60Assumption ==
  /\ Phases \subseteq 1..16 /\ Phases # {} /\ None \notin Patterns
  /\ Loops \cap Callers = {} /\ None \notin Int
  /\ MaxChanges \in Nat

VARIABLES
  colour,     \* what the signal shows, phase by phase
  pattern,    \* the pattern it runs
  status,     \* Device.status: is_online and the pattern in raw_data
  described,  \* _cached_sys_descr is not None
  task,       \* the tasks: where they are and what they have read
  seen,       \* history: what the signal showed since the poll of a task began
  ran,        \* history: the patterns it ran since the SET of a task
  changes     \* what the signal did by itself so far

field == <<colour, pattern>>
history == <<seen, ran>>
vars == <<field, status, described, task, history, changes>>

Tasks == Loops \cup Callers
Colours == {"green", "yellow", "red"}
Groups == {1, 2}

-----------------------------------------------------------------------------
(* Masks and status bits                                                   *)

Base(g) == IF g = 1 THEN 1 ELSE 9
GroupOf(p) == IF p < 9 THEN 1 ELSE 2
Bit(n, i) == (n \div 2 ^ i) % 2 = 1

\* The mask the controller answers for a group: a bit is set where the phase is
\* green.
MaskOf(g) ==
  CHOOSE n \in 0..255 :
    \A i \in 0..7 : Bit(n, i) <=> Base(g) + i \in {p \in Phases : colour[p] = "green"}

\* The status it answers for a phase: bit 0 green, bit 1 yellow, bit 2 red.
BitsOf(p) == CASE colour[p] = "green" -> 1 [] colour[p] = "yellow" -> 2 [] colour[p] = "red" -> 4

\* Faulty: both groups count from phase 1.
DecodeFromOne(mask, g) ==
  IF mask = None THEN {} ELSE {p \in 1..8 : Bit(mask, p - 1)}

DecodePhaseGroupBits(mask, g) ==
  IF mask = None THEN {} ELSE {p \in Base(g)..(Base(g) + 7) : Bit(mask, p - Base(g))}

Decoded(masks) == UNION {DecodePhaseGroupBits(masks[g], g) : g \in Groups}

\* One answered group is enough for the masks to be believed.
Known(masks) == \E g \in Groups : masks[g] # None

StatusBit(bits, p, i) == bits[p] # None /\ Bit(bits[p], i)

\* Faulty: without masks the greens of an earlier poll are kept.
PublishedSticky(got) ==
  [online |-> got.answered, pattern |-> got.pattern,
   green |-> IF Known(got.greens) THEN Decoded(got.greens) ELSE status.green,
   yellow |-> {p \in Phases : StatusBit(got.bits, p, 1)}]

\* The payload: a mask overrides the bits, for the phases of both groups.
Published(got) ==
  [online |-> got.answered, pattern |-> got.pattern,
   green |-> IF Known(got.greens) THEN Decoded(got.greens)
             ELSE {p \in Phases : StatusBit(got.bits, p, 0)},
   yellow |-> {p \in Phases : StatusBit(got.bits, p, 1)}]

-----------------------------------------------------------------------------
(* Polls                                                                   *)

NoMasks == [g \in Groups |-> None]
NoBits == [p \in Phases |-> None]
Nothing == [answered |-> FALSE, pattern |-> None, greens |-> NoMasks, bits |-> NoBits]

Idle == [pc |-> "idle", job |-> "loop", want |-> None, got |-> Nothing, todo |-> Phases]

\* Where a task goes on after its poll: a loop sleeps, the others have a result.
AfterPoll == {"sleep", "done", "verified", "timed_out"}
AtRest == {"idle"} \cup AfterPoll
Polling == {"target", "identity", "masks", "mask2", "bits"}

Ended(t, read) ==
  LET pc == CASE task[t].job = "loop" -> "sleep"
              [] task[t].job = "snapshot" -> "done"
              [] OTHER -> IF read = task[t].want THEN "verified" ELSE "timed_out"
  IN  [Idle EXCEPT !.pc = pc]

\* The histories last as long as the poll, and from the SET to its verification.
Unseen == [p \in Phases |-> {}]
Forget(t) == seen' = [seen EXCEPT ![t] = Unseen] /\ ran' = [ran EXCEPT ![t] = {}]
Note(p) == ran' = [t \in Tasks |-> IF ran[t] = {} THEN {} ELSE ran[t] \cup {p}]

\* The read of t is answered or lost; here it was, with what r says.
Reads(t, pc, got) ==
  /\ task' = [task EXCEPT ![t].pc = pc, ![t].got = got]
  /\ UNCHANGED <<field, status, history, changes>>

StartOfPoll(t, next) ==
  /\ task' = next
  /\ seen' = [seen EXCEPT ![t] = [p \in Phases |-> {colour[p]}]]
  /\ UNCHANGED <<field, status, described, ran, changes>>

LoopPolls(t) ==
  /\ t \in Loops /\ task[t].pc \in AtRest
  /\ StartOfPoll(t, [task EXCEPT ![t] = [Idle EXCEPT !.pc = "target"]])

CallerPolls(t) ==
  /\ task[t].pc = "topoll"
  /\ StartOfPoll(t, [task EXCEPT ![t].pc = "target", ![t].got = Nothing])

\* create_target raises, for a name that does not resolve: raw_data is as it was,
\* and the command is verified against that.
PollRaises(t) ==
  /\ task[t].pc = "target"
  /\ status' = [status EXCEPT !.online = FALSE]
  /\ task' = [task EXCEPT ![t] = Ended(t, status.pattern)]
  /\ UNCHANGED <<field, described, changes>>
  /\ Forget(t)

\* Faulty: the command is verified against what an earlier poll found.
PublishAfterVerifying(t, got) ==
  /\ status' = Published(got)
  /\ task' = [task EXCEPT ![t] = Ended(t, status.pattern)]
  /\ UNCHANGED <<field, described, changes>>
  /\ Forget(t)

\* After the last read.  The payload is replaced, whether the poll counts as
\* failed or not, and the caller goes on at once.
Publish(t, got) ==
  /\ status' = Published(got)
  /\ task' = [task EXCEPT ![t] = Ended(t, got.pattern)]
  /\ UNCHANGED <<field, described, changes>>
  /\ Forget(t)

\* sysDescr is read until it has been answered once.
ReadSysDescr(t) ==
  /\ task[t].pc = "target"
  /\ \E answered \in BOOLEAN :
       /\ described => answered
       /\ described' = answered
       /\ Reads(t, "identity", [task[t].got EXCEPT !.answered = answered])

\* currentPattern and unitControlStatus, together or one by one.
ReadIdentity(t) ==
  /\ task[t].pc = "identity"
  /\ \E r \in {pattern, None}, unit \in BOOLEAN :
       Reads(t, "masks", [task[t].got EXCEPT !.pattern = r, !.answered = @ \/ unit \/ r # None])
  /\ UNCHANGED described

\* All masks in one exchange.
ReadMaskBatch(t) ==
  /\ task[t].pc = "masks"
  /\ Reads(t, "bits", [task[t].got EXCEPT !.greens = [g \in Groups |-> MaskOf(g)]])
  /\ UNCHANGED described

\* After a batch that failed, one mask after the other; group 1 has a second
\* object to ask for.
ReadMask(t, g, here, next) ==
  /\ task[t].pc = here
  /\ \E r \in {MaskOf(g), None} : Reads(t, next, [task[t].got EXCEPT !.greens[g] = r])
  /\ UNCHANGED described

ReadMasks(t) == ReadMask(t, 1, "masks", "mask2") \/ ReadMask(t, 2, "mask2", "bits")

\* The status of all phases in one exchange.
ReadStatusBatch(t) ==
  /\ task[t].pc = "bits" /\ task[t].todo = Phases
  /\ Publish(t, [task[t].got EXCEPT !.bits = [p \in Phases |-> BitsOf(p)]])

\* After a batch that failed, phase by phase, each with a second object.
ReadPhaseStatus(t) ==
  /\ task[t].pc = "bits"
  /\ LET p == Min(task[t].todo)
         rest == task[t].todo \ {p}
     IN  \E r \in {BitsOf(p), None} :
           LET got == [task[t].got EXCEPT !.bits[p] = r]
           IN  IF rest = {} THEN Publish(t, got)
               ELSE /\ task' = [task EXCEPT ![t].got = got, ![t].todo = rest]
                    /\ UNCHANGED <<field, status, described, history, changes>>

PollSteps(t) ==
  \/ CallerPolls(t) \/ PollRaises(t) \/ ReadSysDescr(t) \/ ReadIdentity(t)
  \/ ReadMaskBatch(t) \/ ReadMasks(t) \/ ReadStatusBatch(t) \/ ReadPhaseStatus(t)

\* stop_polling cancels the loop at whatever it awaits; a later start runs it anew.
LoopCancelled(t) ==
  /\ t \in Loops /\ task[t].pc # "idle"
  /\ task' = [task EXCEPT ![t] = Idle]
  /\ UNCHANGED <<field, status, described, changes>>
  /\ Forget(t)

-----------------------------------------------------------------------------
(* Snapshots and commands                                                  *)

\* collect_snapshot and execute_command begin with connect.
Call(t, job, want) ==
  /\ task[t].pc \in AtRest
  /\ task' = [task EXCEPT ![t] = [Idle EXCEPT !.pc = "connect", !.job = job, !.want = want]]
  /\ UNCHANGED <<field, status, described, history, changes>>

\* One answer to sysDescr or currentPattern is enough, from the batch or alone.
ConnectOk(t) ==
  /\ task[t].pc = "connect"
  /\ status' = [status EXCEPT !.online = TRUE]
  /\ task' = [task EXCEPT ![t].pc = IF task[t].job = "command" THEN "set" ELSE "topoll"]
  /\ UNCHANGED <<field, described, history, changes>>

\* No answer, or an exception.
ConnectFailed(t) ==
  /\ task[t].pc = "connect"
  /\ status' = [status EXCEPT !.online = FALSE]
  /\ task' = [task EXCEPT ![t] = Idle]
  /\ UNCHANGED <<field, described, history, changes>>

\* The answer to a SET says that it was taken, not that the pattern runs now; one
\* that is refused or not answered may have been taken too.
SetAnswered(t) ==
  /\ task[t].pc = "set"
  /\ \E p \in {pattern, task[t].want} :
       /\ pattern' = p
       /\ ran' = [u \in Tasks |-> IF u = t \/ ran[u] # {} THEN ran[u] \cup {p} ELSE {}]
  /\ task' = [task EXCEPT ![t].pc = "topoll"]
  /\ UNCHANGED <<colour, status, described, seen, changes>>

SetFails(t) ==
  /\ task[t].pc = "set"
  /\ \E p \in {pattern, task[t].want} : pattern' = p /\ Note(p)
  /\ task' = [task EXCEPT ![t] = Idle]
  /\ UNCHANGED <<colour, status, described, seen, changes>>

CallerSteps(t) ==
  \/ Call(t, "snapshot", None)
  \/ \E p \in Patterns : Call(t, "command", p)
  \/ ConnectOk(t) \/ ConnectFailed(t) \/ SetAnswered(t) \/ SetFails(t)

-----------------------------------------------------------------------------
(* The signal                                                              *)

NextColour == [green |-> "yellow", yellow |-> "red", red |-> "green"]

Change(p) ==
  /\ changes < MaxChanges
  /\ changes' = changes + 1
  /\ colour' = [colour EXCEPT ![p] = NextColour[@]]
  /\ seen' = [t \in Tasks |-> IF seen[t][p] = {} THEN seen[t]
                             ELSE [seen[t] EXCEPT ![p] = @ \cup {colour'[p]}]]
  /\ UNCHANGED <<pattern, status, described, task, ran>>

\* Its own schedule, or someone at the cabinet, changes the pattern.
ChangePattern(p) ==
  /\ changes < MaxChanges
  /\ changes' = changes + 1
  /\ pattern' = p
  /\ Note(p)
  /\ UNCHANGED <<colour, status, described, task, seen>>

Signal == (\E p \in Phases : Change(p)) \/ (\E p \in Patterns : ChangePattern(p))

Init ==
  /\ colour \in [Phases -> Colours]
  /\ pattern \in Patterns
  /\ status = [online |-> FALSE, pattern |-> None, green |-> {}, yellow |-> {}]
  /\ described = FALSE
  /\ task = [t \in Tasks |-> Idle]
  /\ seen = [t \in Tasks |-> Unseen]
  /\ ran = [t \in Tasks |-> {}]
  /\ changes = 0

Next ==
  \/ \E t \in Loops : LoopPolls(t) \/ LoopCancelled(t)
  \/ \E t \in Callers : CallerSteps(t)
  \/ \E t \in Tasks : PollSteps(t)
  \/ Signal

Spec == Init /\ [][Next]_vars

-----------------------------------------------------------------------------
(* Properties                                                              *)

Pcs == AtRest \cup {"connect", "set", "topoll"} \cup Polling
Found == [answered : BOOLEAN, pattern : Patterns \cup {None},
          greens : [Groups -> 0..255 \cup {None}], bits : [Phases -> {1, 2, 4, None}]]

TypeOK ==
  /\ colour \in [Phases -> Colours] /\ pattern \in Patterns
  /\ status \in [online : BOOLEAN, pattern : Patterns \cup {None},
                green : SUBSET Phases, yellow : SUBSET Phases]
  /\ described \in BOOLEAN
  /\ task \in [Tasks -> [pc : Pcs, job : {"loop", "snapshot", "command"},
                        want : Patterns \cup {None}, got : Found, todo : SUBSET Phases]]
  /\ \A t \in Tasks : task[t].want \in Patterns <=> task[t].job = "command"
  /\ seen \in [Tasks -> [Phases -> SUBSET Colours]]
  /\ ran \in [Tasks -> SUBSET Patterns]
  /\ changes \in 0..MaxChanges

PollEnds(t) == task[t].pc = "bits" /\ task'[t].pc \in AfterPoll

(* A phase is shown green or yellow only if it was so at some moment of the  *)
(* poll that shows it, although masks and bits are read one after the other  *)
(* while the signal changes.                                                 *)
ColoursWereSeen ==
  [][\A t \in Tasks, p \in Phases : PollEnds(t) =>
       /\ p \in status'.green => "green" \in seen[t][p]
       /\ p \in status'.yellow => "yellow" \in seen[t][p]]_vars

(* A phase that stood green throughout a poll is missing from its picture    *)
(* only if the mask of its group was not read.                               *)
NothingIsDropped ==
  [][\A t \in Tasks, p \in Phases :
       PollEnds(t) /\ seen[t][p] = {"green"} /\ p \notin status'.green =>
         task[t].got.greens[GroupOf(p)] = None]_vars

Verifies(t) == task'[t].pc = "verified" /\ task[t].pc # "verified"

(* A command is verified by a poll that ends only if the controller has run  *)
(* the pattern since it answered the SET, whatever other tasks have          *)
(* published meanwhile.                                                      *)
VerifiedWasRun ==
  [][\A t \in Callers : Verifies(t) /\ task[t].pc # "target" => task[t].want \in ran[t]]_vars

=============================================================================
