--------------------------- MODULE EquipmentProofs ---------------------------
(***************************************************************************)
(* Proofs about what is read from the equipment: the pictures of the       *)
(* signal that the driver makes (SiemensM60) and the verdicts on its       *)
(* cameras (MediaCheck).                                                   *)
(***************************************************************************)
EXTENDS MediaCheck, SiemensM60, ProfileListProofs, FiniteSetTheorems

-----------------------------------------------------------------------------
(* Masks and status bits                                                   *)

(* Eight numbers that are 0 or 1 are the bits of one number from 0 to 255:   *)
(* what 1 << bit picks from a mask is what was put there.                    *)
LEMMA BitsOfSum ==
  ASSUME NEW a \in 0..1, NEW b \in 0..1, NEW c \in 0..1, NEW d \in 0..1,
         NEW e \in 0..1, NEW f \in 0..1, NEW g \in 0..1, NEW h \in 0..1,
         NEW n, n = a + 2 * b + 4 * c + 8 * d + 16 * e + 32 * f + 64 * g + 128 * h
  PROVE  /\ n \in 0..255
         /\ Bit(n, 0) <=> a = 1
         /\ Bit(n, 1) <=> b = 1
         /\ Bit(n, 2) <=> c = 1
         /\ Bit(n, 3) <=> d = 1
         /\ Bit(n, 4) <=> e = 1
         /\ Bit(n, 5) <=> f = 1
         /\ Bit(n, 6) <=> g = 1
         /\ Bit(n, 7) <=> h = 1
<1>1. /\ (n \div 1) % 2 = a
      /\ (n \div 2) % 2 = b
      /\ (n \div 4) % 2 = c
      /\ (n \div 8) % 2 = d
      /\ (n \div 16) % 2 = e
      /\ (n \div 32) % 2 = f
      /\ (n \div 64) % 2 = g
      /\ (n \div 128) % 2 = h
  OBVIOUS
<1>2. 2^0 = 1 /\ 2^1 = 2 /\ 2^2 = 4 /\ 2^3 = 8 /\ 2^4 = 16 /\ 2^5 = 32 /\ 2^6 = 64 /\ 2^7 = 128
  OBVIOUS
<1> QED
  BY <1>1, <1>2 DEF Bit

(* There is a number with exactly the bits of a set.                         *)
LEMMA NumberOfBits ==
  ASSUME NEW S
  PROVE  \E n \in 0..255 : \A i \in 0..7 : Bit(n, i) <=> i \in S
<1> DEFINE b(i) == IF i \in S THEN 1 ELSE 0
           n == b(0) + 2 * b(1) + 4 * b(2) + 8 * b(3) + 16 * b(4) + 32 * b(5) + 64 * b(6) + 128 * b(7)
<1>1. \A i \in 0..7 : b(i) \in 0..1 /\ (b(i) = 1 <=> i \in S)
  OBVIOUS
<1> HIDE DEF b
<1>2. /\ n \in 0..255
      /\ Bit(n, 0) <=> b(0) = 1
      /\ Bit(n, 1) <=> b(1) = 1
      /\ Bit(n, 2) <=> b(2) = 1
      /\ Bit(n, 3) <=> b(3) = 1
      /\ Bit(n, 4) <=> b(4) = 1
      /\ Bit(n, 5) <=> b(5) = 1
      /\ Bit(n, 6) <=> b(6) = 1
      /\ Bit(n, 7) <=> b(7) = 1
  <2> HIDE DEF n
  <2>1. n = b(0) + 2 * b(1) + 4 * b(2) + 8 * b(3) + 16 * b(4) + 32 * b(5) + 64 * b(6) + 128 * b(7)
    BY DEF n
  <2> QED
    BY <1>1, <2>1, BitsOfSum
<1> HIDE DEF n
<1>3. \A i \in 0..7 : Bit(n, i) <=> i \in S
  <2>1. \A i \in 0..7 : i = 0 \/ i = 1 \/ i = 2 \/ i = 3 \/ i = 4 \/ i = 5 \/ i = 6 \/ i = 7
    OBVIOUS
  <2> QED
    BY <1>1, <1>2, <2>1
<1> QED
  BY <1>2, <1>3

(* The mask of a group tells which of its phases are green.                  *)
LEMMA MaskTells ==
  ASSUME NEW g \in Groups
  PROVE  /\ MaskOf(g) \in 0..255
         /\ \A i \in 0..7 : Bit(MaskOf(g), i) <=> Base(g) + i \in {p \in Phases : colour[p] = "green"}
<1> DEFINE S == {i \in 0..7 : Base(g) + i \in {p \in Phases : colour[p] = "green"}}
<1>1. \E n \in 0..255 : \A i \in 0..7 : Bit(n, i) <=> i \in S
  BY NumberOfBits
<1>2. \E n \in 0..255 :
        \A i \in 0..7 : Bit(n, i) <=> Base(g) + i \in {p \in Phases : colour[p] = "green"}
  BY <1>1
<1> QED
  BY <1>2 DEF MaskOf

(* The status bits of a phase tell its colour.                               *)
LEMMA BitsTell ==
  ASSUME NEW p \in Phases, colour[p] \in Colours
  PROVE  /\ BitsOf(p) \in {1, 2, 4}
         /\ Bit(BitsOf(p), 0) <=> colour[p] = "green"
         /\ Bit(BitsOf(p), 1) <=> colour[p] = "yellow"
<1>1. /\ (1 \div 2 ^ 0) % 2 = 1 /\ (2 \div 2 ^ 0) % 2 = 0 /\ (4 \div 2 ^ 0) % 2 = 0
      /\ (1 \div 2 ^ 1) % 2 = 0 /\ (2 \div 2 ^ 1) % 2 = 1 /\ (4 \div 2 ^ 1) % 2 = 0
  OBVIOUS
<1> QED
  BY <1>1 DEF BitsOf, Bit, Colours

-----------------------------------------------------------------------------
(* The inductive invariant                                                   *)

(* A mask that was read tells of each of its phases whether it was seen      *)
(* green; a phase that it leaves out was seen in another colour.             *)
MaskFits(mask, g, sight) ==
  mask # None =>
    \A i \in 0..7 :
      /\ Bit(mask, i) => Base(g) + i \in Phases /\ "green" \in sight[Base(g) + i]
      /\ ~Bit(mask, i) /\ Base(g) + i \in Phases => \E c \in sight[Base(g) + i] : c # "green"

(* A status that was read says green or yellow of a phase seen so.           *)
BitsFit(bits, p, sight) ==
  bits # None => /\ Bit(bits, 0) => "green" \in sight[p]
                 /\ Bit(bits, 1) => "yellow" \in sight[p]

(* What was read agrees with what was seen.                                  *)
Fits(got, sight) ==
  /\ \A g \in Groups : MaskFits(got.greens[g], g, sight)
  /\ \A p \in Phases : BitsFit(got.bits[p], p, sight)

(* A poll has seen the colours of now; without a poll nothing is seen and    *)
(* nothing read.                                                             *)
Sees(t) ==
  /\ task[t].pc \in Polling => \A p \in Phases : colour[p] \in seen[t][p]
  /\ task[t].pc \notin Polling => seen[t] = Unseen /\ task[t].got = Nothing

(* A command that polls remembers the pattern that runs, and the one it has  *)
(* read, since its SET.                                                      *)
Remembers(t) ==
  /\ task[t].pc \in AtRest \cup {"connect", "set"} => ran[t] = {}
  /\ task[t].pc = "set" => task[t].job = "command"
  /\ task[t].job = "command" /\ task[t].pc \in Polling \cup {"topoll"} =>
       /\ pattern \in ran[t]
       /\ task[t].got.pattern # None => task[t].got.pattern \in ran[t]

TaskOK(t) == Sees(t) /\ Fits(task[t].got, seen[t]) /\ Remembers(t)

M60IInv == TypeOK /\ \A t \in Tasks : TaskOK(t)

(* Nothing that was not read fits whatever was seen.                         *)
LEMMA NothingFits == \A sight : Fits(Nothing, sight)
BY DEF Fits, MaskFits, BitsFit, Nothing, NoMasks, NoBits

(* Nothing read and nothing seen are of their types.                         *)
LEMMA NothingIsFound == Nothing \in Found /\ Unseen \in [Phases -> SUBSET Colours]
BY DEF Nothing, Found, NoMasks, NoBits, Unseen

(* What was read fits also when more was seen since.                         *)
LEMMA FitsForLonger ==
  ASSUME NEW got, NEW sight, NEW longer,
         \A p \in Phases : sight[p] \subseteq longer[p],
         Fits(got, sight)
  PROVE  Fits(got, longer)
<1>1. ASSUME NEW g \in Groups PROVE MaskFits(got.greens[g], g, longer)
  BY DEF Fits, MaskFits
<1>2. ASSUME NEW p \in Phases PROVE BitsFit(got.bits[p], p, longer)
  BY DEF Fits, BitsFit
<1> QED
  BY <1>1, <1>2 DEF Fits

(* A mask that is read now fits.                                             *)
LEMMA MaskIsSeen ==
  ASSUME NEW g \in Groups, NEW sight, \A p \in Phases : colour[p] \in sight[p]
  PROVE  MaskOf(g) \in 0..255 \cup {None} /\ MaskFits(MaskOf(g), g, sight)
BY MaskTells DEF MaskFits

(* And so does a status.                                                     *)
LEMMA BitsAreSeen ==
  ASSUME NEW p \in Phases, NEW sight, colour[p] \in Colours, colour[p] \in sight[p]
  PROVE  BitsOf(p) \in {1, 2, 4, None} /\ BitsFit(BitsOf(p), p, sight)
<1>1. /\ BitsOf(p) \in {1, 2, 4}
      /\ Bit(BitsOf(p), 0) <=> colour[p] = "green"
      /\ Bit(BitsOf(p), 1) <=> colour[p] = "yellow"
  BY BitsTell
<1> HIDE DEF BitsOf
<1> QED
  BY <1>1 DEF BitsFit

(* The picture of readings that fit shows phases of the controller only.     *)
LEMMA PictureType ==
  ASSUME NEW got \in Found, NEW sight, Fits(got, sight)
  PROVE  Published(got) \in [online : BOOLEAN, pattern : Patterns \cup {None},
                             green : SUBSET Phases, yellow : SUBSET Phases]
<1>1. Decoded(got.greens) \subseteq Phases
  <2> SUFFICES ASSUME NEW g \in Groups, NEW p \in DecodePhaseGroupBits(got.greens[g], g)
               PROVE  p \in Phases
    BY DEF Decoded
  <2>1. /\ got.greens[g] # None /\ p \in Base(g)..(Base(g) + 7)
        /\ Bit(got.greens[g], p - Base(g))
    BY DEF DecodePhaseGroupBits
  <2>2. Base(g) \in Nat /\ p - Base(g) \in 0..7 /\ Base(g) + (p - Base(g)) = p
    BY <2>1 DEF Base
  <2> QED
    BY <2>1, <2>2 DEF Fits, MaskFits
<1> QED
  BY <1>1 DEF Published, Found

(* A poll that ended leaves the task at rest with nothing read.              *)
LEMMA EndedType ==
  ASSUME NEW t, NEW read
  PROVE  /\ Ended(t, read).pc \in AfterPoll
         /\ Ended(t, read) = [pc |-> Ended(t, read).pc, job |-> "loop", want |-> None,
                             got |-> Nothing, todo |-> Phases]
BY DEF Ended, Idle, AfterPoll

(* The record of one task.                                                   *)
TaskType == [pc : Pcs, job : {"loop", "snapshot", "command"},
             want : Patterns \cup {None}, got : Found, todo : SUBSET Phases]

(* What a step does not touch of a task stays in order.                      *)
LEMMA OthersStay ==
  ASSUME NEW t \in Tasks, TaskOK(t), UNCHANGED field,
         task'[t] = task[t], seen'[t] = seen[t], ran'[t] = ran[t]
  PROVE  TaskOK(t)'
BY DEF TaskOK, Sees, Remembers, Fits, MaskFits, BitsFit, field

(* The invariant holds before the first task.                                *)
LEMMA M60Begins == Init => M60IInv
<1> SUFFICES ASSUME Init PROVE M60IInv
  OBVIOUS
<1>1. Idle = [pc |-> "idle", job |-> "loop", want |-> None, got |-> Nothing, todo |-> Phases]
  BY DEF Idle
<1>2. TypeOK
  <2>1. Idle \in [pc : Pcs, job : {"loop", "snapshot", "command"},
                  want : Patterns \cup {None}, got : Found, todo : SUBSET Phases]
    BY <1>1, NothingIsFound DEF Pcs, AtRest
  <2>2. ~(Idle.want \in Patterns) /\ Idle.job # "command"
    BY <1>1, M60Assumption
  <2>3. task \in [Tasks -> [pc : Pcs, job : {"loop", "snapshot", "command"},
                          want : Patterns \cup {None}, got : Found, todo : SUBSET Phases]]
    BY <2>1 DEF Init
  <2>4. /\ seen \in [Tasks -> [Phases -> SUBSET Colours]] /\ ran \in [Tasks -> SUBSET Patterns]
        /\ changes \in 0..MaxChanges
    BY M60Assumption, NothingIsFound DEF Init
  <2> QED
    BY <2>2, <2>3, <2>4 DEF Init, TypeOK
<1>3. ASSUME NEW t \in Tasks PROVE TaskOK(t)
  BY <1>1, NothingFits DEF Init, TaskOK, Sees, Remembers, Polling
<1> QED
  BY <1>2, <1>3 DEF M60IInv

(* The start of a poll.                                                      *)
LEMMA PollStarts ==
  ASSUME M60IInv, NEW t \in Tasks, NEW next, StartOfPoll(t, next),
         next = [task EXCEPT ![t] = next[t]],
         \/ task[t].pc = "topoll" /\ next[t] = [task[t] EXCEPT !.pc = "target", !.got = Nothing]
         \/ next[t] = [Idle EXCEPT !.pc = "target"]
  PROVE  M60IInv'
<1>1. /\ next[t] \in [pc : {"target"}, job : {"loop", "snapshot", "command"},
                      want : Patterns \cup {None}, got : {Nothing}, todo : SUBSET Phases]
      /\ next[t].want \in Patterns <=> next[t].job = "command"
      /\ next[t].job = "command" => task[t].pc = "topoll" /\ task[t].job = "command"
  <2>1. CASE task[t].pc = "topoll" /\ next[t] = [task[t] EXCEPT !.pc = "target", !.got = Nothing]
    <3>1. task[t] \in [pc : Pcs, job : {"loop", "snapshot", "command"},
                       want : Patterns \cup {None}, got : Found, todo : SUBSET Phases]
      BY DEF M60IInv, TypeOK
    <3>2. task[t].want \in Patterns <=> task[t].job = "command"
      BY DEF M60IInv, TypeOK
    <3> QED
      BY <2>1, <3>1, <3>2
  <2>2. CASE next[t] = [Idle EXCEPT !.pc = "target"]
    BY <2>2, M60Assumption DEF Idle
  <2> QED
    BY <2>1, <2>2
<1>3. task' = [task EXCEPT ![t] = next[t]]
  BY DEF StartOfPoll
<1>4. TypeOK'
  BY <1>1, <1>3, NothingIsFound DEF M60IInv, TypeOK, StartOfPoll, field, Pcs, Polling
<1>5. TaskOK(t)'
  <2>1. task'[t] = next[t]
    BY <1>3 DEF M60IInv, TypeOK
  <2>2. Sees(t)'
    BY <1>1, <2>1 DEF M60IInv, TypeOK, StartOfPoll, Sees, Polling, field
  <2>3. Fits(task[t].got, seen[t])'
    BY <1>1, <2>1, NothingFits
  <2>4. Remembers(t)'
    BY <1>1, <2>1, M60Assumption
       DEF M60IInv, TypeOK, TaskOK, StartOfPoll, Remembers, Polling, AtRest, AfterPoll, Nothing, field
  <2> QED
    BY <2>2, <2>3, <2>4 DEF TaskOK
<1>6. ASSUME NEW u \in Tasks, u # t PROVE TaskOK(u)'
  BY <1>3, <1>6, OthersStay DEF M60IInv, TypeOK, StartOfPoll
<1> QED
  BY <1>4, <1>5, <1>6 DEF M60IInv

(* A task that comes to rest, or begins anew, with its histories dropped.    *)
LEMMA TaskRests ==
  ASSUME M60IInv, NEW t \in Tasks, NEW r, r.pc \in AtRest,
         r = [pc |-> r.pc, job |-> "loop", want |-> None, got |-> Nothing, todo |-> Phases],
         task' = [task EXCEPT ![t] = r], Forget(t),
         UNCHANGED <<field, described, changes>>,
         status' \in [online : BOOLEAN, pattern : Patterns \cup {None},
                      green : SUBSET Phases, yellow : SUBSET Phases]
  PROVE  M60IInv'
<1>1. TypeOK'
  BY M60Assumption, NothingIsFound DEF M60IInv, TypeOK, Forget, field, Pcs
<1>2. TaskOK(t)'
  <2>1. task'[t] = r /\ seen'[t] = Unseen /\ ran'[t] = {}
    BY DEF M60IInv, TypeOK, Forget
  <2>2. r.pc \notin Polling \cup {"set"} /\ r.job # "command" /\ r.got = Nothing
    BY DEF AtRest, AfterPoll, Polling
  <2> QED
    BY <2>1, <2>2, NothingFits DEF TaskOK, Sees, Remembers
<1>3. ASSUME NEW u \in Tasks, u # t PROVE TaskOK(u)'
  BY <1>3, OthersStay DEF M60IInv, TypeOK, Forget
<1> QED
  BY <1>1, <1>2, <1>3 DEF M60IInv

(* The last read of a poll, or its failure.                                  *)
LEMMA Publishes ==
  ASSUME M60IInv, NEW t \in Tasks, NEW got \in Found, Fits(got, seen[t]), Publish(t, got)
  PROVE  M60IInv'
<1> DEFINE r == Ended(t, got.pattern)
<1>1. /\ r.pc \in AtRest
      /\ r = [pc |-> r.pc, job |-> "loop", want |-> None, got |-> Nothing, todo |-> Phases]
  BY EndedType DEF AtRest
<1>2. Published(got) \in [online : BOOLEAN, pattern : Patterns \cup {None},
                          green : SUBSET Phases, yellow : SUBSET Phases]
  BY PictureType
<1> QED
  BY <1>1, <1>2, TaskRests DEF Publish

(* The task with what it has read by now.                                    *)
(* The records of a poll that goes on, with so much read.                    *)
GoingOn(t, got) ==
  [pc : Polling, job : {task[t].job}, want : {task[t].want}, got : {got}, todo : SUBSET Phases]

(* A read leaves the poll a poll, with what it found.                        *)
LEMMA ReadGoesOn ==
  ASSUME TypeOK, NEW t \in Tasks, NEW pc \in Polling, NEW got, Reads(t, pc, got)
  PROVE  /\ \E r \in GoingOn(t, got) : task' = [task EXCEPT ![t] = r]
         /\ UNCHANGED <<field, status, history, changes>>
<1> DEFINE r == [task[t] EXCEPT !.pc = pc, !.got = got]
<1>1. task[t] \in [pc : Pcs, job : {"loop", "snapshot", "command"},
                   want : Patterns \cup {None}, got : Found, todo : SUBSET Phases]
  BY DEF TypeOK
<1>2. r \in GoingOn(t, got)
  BY <1>1 DEF GoingOn
<1>3. task' = [task EXCEPT ![t] = r]
  BY DEF Reads, TypeOK
<1> QED
  BY <1>2, <1>3 DEF Reads

(* A read in the midst of a poll.                                            *)
LEMMA ReadsOn ==
  ASSUME M60IInv, NEW t \in Tasks, NEW got \in Found, task[t].pc \in Polling, Fits(got, seen[t]),
         \E r \in GoingOn(t, got) : task' = [task EXCEPT ![t] = r],
         got.pattern \in {task[t].got.pattern, pattern, None},
         described' \in BOOLEAN, UNCHANGED <<field, status, history, changes>>
  PROVE  M60IInv'
<1> PICK r \in GoingOn(t, got) : task' = [task EXCEPT ![t] = r]
  OBVIOUS
<1>1. /\ task'[t] = r
      /\ task[t].job \in {"loop", "snapshot", "command"} /\ task[t].want \in Patterns \cup {None}
      /\ task[t].want \in Patterns <=> task[t].job = "command"
  BY DEF M60IInv, TypeOK
<1>2. TypeOK'
  BY <1>1 DEF M60IInv, TypeOK, GoingOn, Pcs, field, history
<1>4. TaskOK(t)'
  <2>1. /\ task'[t].pc = r.pc /\ task'[t].got = got /\ task'[t].job = task[t].job
        /\ seen' = seen /\ ran' = ran /\ colour' = colour /\ pattern' = pattern
    BY <1>1 DEF GoingOn, history, field
  <2>2. r.pc \in Polling /\ r.pc \notin AtRest \cup {"connect", "set"} /\ r.pc # "topoll"
    BY DEF GoingOn, Polling, AtRest, AfterPoll
  <2>3. Sees(t)' /\ Fits(task[t].got, seen[t])'
    BY <2>1, <2>2 DEF M60IInv, TaskOK, Sees
  <2>4. Remembers(t)'
    BY <2>1, <2>2 DEF M60IInv, TaskOK, Remembers
  <2> QED
    BY <2>3, <2>4 DEF TaskOK
<1>3. ASSUME NEW u \in Tasks, u # t PROVE TaskOK(u)'
  BY <1>3, OthersStay DEF M60IInv, TypeOK, history
<1> QED
  BY <1>2, <1>3, <1>4 DEF M60IInv

(* The last reads of a poll: what they find fits, and is published when it   *)
(* is complete.                                                              *)
LEMMA LastReads ==
  ASSUME M60IInv, NEW t \in Tasks, ReadStatusBatch(t) \/ ReadPhaseStatus(t)
  PROVE  \E new \in Found :
           /\ Fits(new, seen[t]) /\ new.pattern = task[t].got.pattern
           /\ new.greens = task[t].got.greens
           /\ \/ Publish(t, new)
              \/ /\ \E s \in GoingOn(t, new) : task' = [task EXCEPT ![t] = s]
                 /\ UNCHANGED <<field, status, described, history, changes>>
<1> DEFINE got == task[t].got
<1>1. /\ got \in Found /\ got.greens \in [Groups -> 0..255 \cup {None}]
      /\ got.bits \in [Phases -> {1, 2, 4, None}] /\ got.pattern \in Patterns \cup {None}
      /\ task[t].todo \in SUBSET Phases /\ Fits(got, seen[t])
      /\ \A p \in Phases : colour[p] \in Colours
      /\ task[t] \in [pc : Pcs, job : {"loop", "snapshot", "command"},
                      want : Patterns \cup {None}, got : Found, todo : SUBSET Phases]
  BY DEF M60IInv, TypeOK, TaskOK, Found
<1>2. task[t].pc = "bits" /\ task[t].pc \in Polling
  BY DEF ReadStatusBatch, ReadPhaseStatus, Polling
<1>3. \A p \in Phases : colour[p] \in seen[t][p]
  BY <1>2 DEF M60IInv, TaskOK, Sees
<1>4. \A p \in Phases : BitsOf(p) \in {1, 2, 4, None} /\ BitsFit(BitsOf(p), p, seen[t])
  BY <1>1, <1>3, BitsAreSeen
<1>5. CASE ReadStatusBatch(t)
  <2> DEFINE all == [p \in Phases |-> BitsOf(p)]
             new == [got EXCEPT !.bits = all]
  <2>1. Publish(t, new)
    BY <1>5 DEF ReadStatusBatch
  <2>2. all \in [Phases -> {1, 2, 4, None}] /\ \A p \in Phases : BitsFit(all[p], p, seen[t])
    BY <1>4
  <2>3. new \in Found /\ Fits(new, seen[t]) /\ new.pattern = got.pattern /\ new.greens = got.greens
    <3> HIDE DEF all
    <3> QED
      BY <1>1, <2>2 DEF Found, Fits
  <2> HIDE DEF new
  <2> QED
    BY <2>1, <2>3
<1>6. CASE ReadPhaseStatus(t)
  <2> DEFINE p == Min(task[t].todo)
             rest == task[t].todo \ {p}
  <2>1. PICK r \in {BitsOf(p), None} :
          IF rest = {} THEN Publish(t, [got EXCEPT !.bits[p] = r])
          ELSE /\ task' = [task EXCEPT ![t].got = [got EXCEPT !.bits[p] = r], ![t].todo = rest]
               /\ UNCHANGED <<field, status, described, history, changes>>
    BY <1>6 DEF ReadPhaseStatus
  <2> HIDE DEF p
  <2> DEFINE bits == [got.bits EXCEPT ![p] = r]
             new == [got EXCEPT !.bits = bits]
  <2>2. bits \in [Phases -> {1, 2, 4, None}] /\ \A q \in Phases : BitsFit(bits[q], q, seen[t])
    <3>1. CASE p \in Phases
      <4>1. r \in {1, 2, 4, None} /\ BitsFit(r, p, seen[t])
        BY <1>4, <2>1, <3>1 DEF BitsFit
      <4> QED
        BY <1>1, <4>1 DEF Fits
    <3>2. CASE p \notin Phases
      BY <1>1, <3>2 DEF Fits
    <3> QED
      BY <3>1, <3>2
  <2>3. new \in Found /\ Fits(new, seen[t]) /\ new.pattern = got.pattern /\ new.greens = got.greens
    <3> HIDE DEF bits
    <3> QED
      BY <1>1, <2>2 DEF Found, Fits
  <2>4. [got EXCEPT !.bits[p] = r] = new
    BY <1>1 DEF Found
  <2> HIDE DEF new
  <2>5. CASE rest = {}
    BY <2>1, <2>3, <2>4, <2>5
  <2>6. CASE rest # {}
    <3>1. /\ task' = [task EXCEPT ![t].got = new, ![t].todo = rest]
          /\ UNCHANGED <<field, status, described, history, changes>>
      BY <2>1, <2>4, <2>6
    <3>2. \E s \in GoingOn(t, new) : task' = [task EXCEPT ![t] = s]
      <4>1. [task[t] EXCEPT !.got = new, !.todo = rest] \in GoingOn(t, new)
        BY <1>1, <1>2 DEF GoingOn
      <4> QED
        BY <3>1, <4>1 DEF M60IInv, TypeOK
    <3> QED
      BY <2>3, <3>1, <3>2
  <2> QED
    BY <2>5, <2>6
<1> QED
  BY <1>5, <1>6

(* Steps of a poll.                                                          *)
LEMMA PollsKeep ==
  ASSUME M60IInv, NEW t \in Tasks, PollSteps(t)
  PROVE  M60IInv'
<1> DEFINE got == task[t].got
<1>1. /\ got \in Found /\ got.greens \in [Groups -> 0..255 \cup {None}]
      /\ got.bits \in [Phases -> {1, 2, 4, None}] /\ got.pattern \in Patterns \cup {None}
      /\ task[t].todo \in SUBSET Phases /\ Fits(got, seen[t]) /\ pattern \in Patterns
      /\ \A p \in Phases : colour[p] \in Colours
  BY DEF M60IInv, TypeOK, TaskOK, Found
<1>2. /\ task[t] \in [pc : Pcs, job : {"loop", "snapshot", "command"},
                      want : Patterns \cup {None}, got : Found, todo : SUBSET Phases]
      /\ task[t].pc \in Polling => \A p \in Phases : colour[p] \in seen[t][p]
  BY DEF M60IInv, TypeOK, TaskOK, Sees
<1>3. CASE CallerPolls(t)
  <2>1. task' = [task EXCEPT ![t] = task'[t]]
        /\ task'[t] = [task[t] EXCEPT !.pc = "target", !.got = Nothing]
        /\ StartOfPoll(t, task') /\ task[t].pc = "topoll"
    BY <1>3 DEF CallerPolls, StartOfPoll, M60IInv, TypeOK
  <2> QED
    BY <2>1, PollStarts
<1>4. CASE PollRaises(t)
  <2> DEFINE r == Ended(t, status.pattern)
  <2>1. /\ r.pc \in AtRest
        /\ r = [pc |-> r.pc, job |-> "loop", want |-> None, got |-> Nothing, todo |-> Phases]
    BY EndedType DEF AtRest
  <2>2. status' \in [online : BOOLEAN, pattern : Patterns \cup {None},
                     green : SUBSET Phases, yellow : SUBSET Phases]
    BY <1>4 DEF PollRaises, M60IInv, TypeOK
  <2>3. task' = [task EXCEPT ![t] = r] /\ Forget(t) /\ UNCHANGED <<field, described, changes>>
    BY <1>4 DEF PollRaises
  <2> HIDE DEF r
  <2> QED
    BY <2>1, <2>2, <2>3, TaskRests
<1>5. CASE ReadSysDescr(t)
  <2>1. PICK answered \in BOOLEAN :
          /\ task[t].pc = "target" /\ described' = answered
          /\ Reads(t, "identity", [got EXCEPT !.answered = answered])
    BY <1>5 DEF ReadSysDescr
  <2> DEFINE new == [got EXCEPT !.answered = answered]
  <2>2. new \in Found /\ Fits(new, seen[t]) /\ new.pattern = got.pattern
    BY <1>1 DEF Found, Fits
  <2>3. \E s \in GoingOn(t, new) : task' = [task EXCEPT ![t] = s]
    BY <2>1, ReadGoesOn DEF M60IInv, Polling
  <2>4. UNCHANGED <<field, status, history, changes>> /\ "target" \in Polling /\ "identity" \in Polling
    BY <2>1 DEF Reads, Polling
  <2> HIDE DEF new
  <2> QED
    BY <1>1, <2>1, <2>2, <2>3, <2>4, ReadsOn
<1>6. CASE ReadIdentity(t)
  <2>1. PICK r \in {pattern, None}, unit \in BOOLEAN :
          Reads(t, "masks", [got EXCEPT !.pattern = r, !.answered = @ \/ unit \/ r # None])
    BY <1>6 DEF ReadIdentity
  <2> DEFINE new == [got EXCEPT !.pattern = r, !.answered = @ \/ unit \/ r # None]
  <2>2. new \in Found /\ Fits(new, seen[t]) /\ new.pattern = r
    <3>1. r \in Patterns \cup {None}
      BY <1>1, <2>1 DEF M60IInv, TypeOK
    <3>2. got.answered \in BOOLEAN
      BY <1>1 DEF Found
    <3> DEFINE yes == got.answered \/ unit \/ r # None
    <3>3. yes \in BOOLEAN /\ new = [got EXCEPT !.pattern = r, !.answered = yes]
      BY <3>2
    <3> HIDE DEF yes, new
    <3>4. new \in Found
      BY <1>1, <3>1, <3>3 DEF Found
    <3>5. new.pattern = r /\ new.greens = got.greens /\ new.bits = got.bits
      BY <1>1, <3>3 DEF Found
    <3> QED
      BY <1>1, <3>4, <3>5 DEF Fits
  <2>3. \E s \in GoingOn(t, new) : task' = [task EXCEPT ![t] = s]
    BY <2>1, ReadGoesOn DEF M60IInv, Polling
  <2>4. /\ UNCHANGED <<field, status, history, changes>> /\ described' \in BOOLEAN
        /\ task[t].pc \in Polling /\ "masks" \in Polling
    BY <1>6, <2>1 DEF ReadIdentity, Reads, Polling, M60IInv, TypeOK
  <2> HIDE DEF new
  <2> QED
    BY <1>1, <2>1, <2>2, <2>3, <2>4, ReadsOn
<1>7. CASE ReadMaskBatch(t)
  <2> DEFINE masks == [g \in Groups |-> MaskOf(g)]
             new == [got EXCEPT !.greens = masks]
  <2>1. /\ task[t].pc = "masks" /\ Reads(t, "bits", new) /\ described' = described
    BY <1>7 DEF ReadMaskBatch
  <2>2. task[t].pc \in Polling /\ "bits" \in Polling
    BY <2>1 DEF Polling
  <2>3. masks \in [Groups -> 0..255 \cup {None}]
        /\ \A g \in Groups : MaskFits(masks[g], g, seen[t])
    <3>1. \A p \in Phases : colour[p] \in seen[t][p]
      BY <1>2, <2>2
    <3>2. \A g \in Groups : MaskOf(g) \in 0..255 \cup {None} /\ MaskFits(MaskOf(g), g, seen[t])
      BY <3>1, MaskIsSeen
    <3> QED
      BY <3>2
  <2>4. new \in Found /\ Fits(new, seen[t]) /\ new.pattern = got.pattern
    <3> HIDE DEF masks
    <3> QED
      BY <1>1, <2>3 DEF Found, Fits
  <2>5. \E s \in GoingOn(t, new) : task' = [task EXCEPT ![t] = s]
    BY <2>1, ReadGoesOn DEF M60IInv, Polling
  <2>6. UNCHANGED <<field, status, history, changes>> /\ described' \in BOOLEAN
    BY <2>1 DEF Reads, M60IInv, TypeOK
  <2> HIDE DEF new
  <2> QED
    BY <1>1, <2>2, <2>4, <2>5, <2>6, ReadsOn
<1>8. CASE ReadMasks(t)
  <2>1. PICK g \in Groups, next \in {"mask2", "bits"} :
          task[t].pc \in {"masks", "mask2"} /\ ReadMask(t, g, task[t].pc, next)
    BY <1>8 DEF ReadMasks, ReadMask, Groups
  <2>2. PICK r \in {MaskOf(g), None} :
          Reads(t, next, [got EXCEPT !.greens[g] = r]) /\ described' = described
    BY <2>1 DEF ReadMask
  <2> DEFINE masks == [got.greens EXCEPT ![g] = r]
             new == [got EXCEPT !.greens = masks]
  <2>3. task[t].pc \in Polling /\ next \in Polling
    BY <2>1 DEF Polling
  <2>4. r \in 0..255 \cup {None} /\ MaskFits(r, g, seen[t])
    <3>1. \A p \in Phases : colour[p] \in seen[t][p]
      BY <1>2, <2>3
    <3>2. MaskOf(g) \in 0..255 \cup {None} /\ MaskFits(MaskOf(g), g, seen[t])
      BY <3>1, MaskIsSeen
    <3> QED
      BY <2>2, <3>2 DEF MaskFits
  <2>5. masks \in [Groups -> 0..255 \cup {None}]
        /\ \A h \in Groups : MaskFits(masks[h], h, seen[t])
    BY <1>1, <2>4 DEF Fits
  <2>6. new \in Found /\ Fits(new, seen[t]) /\ new.pattern = got.pattern
    <3> HIDE DEF masks
    <3> QED
      BY <1>1, <2>5 DEF Found, Fits
  <2>7. \E s \in GoingOn(t, new) : task' = [task EXCEPT ![t] = s]
    <3>1. [got EXCEPT !.greens[g] = r] = new
      BY <1>1 DEF Found
    <3> HIDE DEF new
    <3> QED
      BY <2>1, <2>2, <3>1, ReadGoesOn DEF M60IInv, Polling
  <2>8. UNCHANGED <<field, status, history, changes>> /\ described' \in BOOLEAN
    BY <2>2 DEF Reads, M60IInv, TypeOK
  <2> HIDE DEF new
  <2> QED
    BY <1>1, <2>3, <2>6, <2>7, <2>8, ReadsOn
<1>9. CASE ReadStatusBatch(t) \/ ReadPhaseStatus(t)
  <2>1. PICK new \in Found :
          /\ Fits(new, seen[t]) /\ new.pattern = got.pattern
          /\ \/ Publish(t, new)
             \/ /\ \E s \in GoingOn(t, new) : task' = [task EXCEPT ![t] = s]
                /\ UNCHANGED <<field, status, described, history, changes>>
    BY <1>9, LastReads
  <2>2. CASE Publish(t, new)
    BY <2>1, <2>2, Publishes
  <2>3. CASE ~Publish(t, new)
    <3>1. /\ \E s \in GoingOn(t, new) : task' = [task EXCEPT ![t] = s]
          /\ UNCHANGED <<field, status, described, history, changes>>
      BY <2>1, <2>3
    <3>2. task[t].pc \in Polling /\ described' \in BOOLEAN
      BY <1>9, <3>1 DEF ReadStatusBatch, ReadPhaseStatus, Polling, M60IInv, TypeOK
    <3> QED
      BY <1>1, <2>1, <3>1, <3>2, ReadsOn
  <2> QED
    BY <2>2, <2>3
<1> QED
  BY <1>3, <1>4, <1>5, <1>6, <1>7, <1>8, <1>9 DEF PollSteps

(* One task moves on; the signal and the other tasks stay.                   *)
LEMMA TaskMoves ==
  ASSUME M60IInv, NEW t \in Tasks, NEW r \in TaskType, task' = [task EXCEPT ![t] = r],
         r.want \in Patterns <=> r.job = "command",
         UNCHANGED <<field, described, history, changes>>,
         status' \in [online : BOOLEAN, pattern : Patterns \cup {None},
                      green : SUBSET Phases, yellow : SUBSET Phases],
         TaskOK(t)'
  PROVE  M60IInv'
<1>1. TypeOK'
  BY DEF M60IInv, TypeOK, TaskType, field, history
<1>2. ASSUME NEW u \in Tasks, u # t PROVE TaskOK(u)'
  BY <1>2, OthersStay DEF M60IInv, TypeOK, history
<1> QED
  BY <1>1, <1>2 DEF M60IInv

(* Another pattern runs, and every command that waits for its verification   *)
(* remembers it.                                                             *)
LEMMA PatternRuns ==
  ASSUME NEW t \in Tasks, NEW p, TaskOK(t), pattern' = p, colour' = colour,
         task'[t] = task[t], seen'[t] = seen[t],
         ran'[t] = IF ran[t] # {} THEN ran[t] \cup {p} ELSE {}
  PROVE  TaskOK(t)'
<1>1. Fits(task[t].got, seen[t])' /\ Sees(t)'
  BY DEF TaskOK, Sees, Unseen
<1>2. Remembers(t)'
  BY DEF TaskOK, Remembers
<1> QED
  BY <1>1, <1>2 DEF TaskOK

(* Steps of a loop, of a snapshot or of a command.                           *)
LEMMA TasksKeep ==
  ASSUME M60IInv,
         (\E t \in Loops : LoopPolls(t) \/ LoopCancelled(t)) \/ (\E t \in Callers : CallerSteps(t))
  PROVE  M60IInv'
<1>1. ASSUME NEW t \in Loops, LoopPolls(t) PROVE M60IInv'
  <2>1. /\ task' = [task EXCEPT ![t] = task'[t]]
        /\ task'[t] = [Idle EXCEPT !.pc = "target"]
        /\ StartOfPoll(t, task') /\ t \in Tasks
    BY <1>1 DEF LoopPolls, StartOfPoll, M60IInv, TypeOK, Tasks
  <2> QED
    BY <2>1, PollStarts
<1>2. ASSUME NEW t \in Loops, LoopCancelled(t) PROVE M60IInv'
  <2>1. Idle.pc \in AtRest
        /\ Idle = [pc |-> Idle.pc, job |-> "loop", want |-> None, got |-> Nothing, todo |-> Phases]
    BY DEF Idle, AtRest
  <2>2. t \in Tasks /\ status' \in [online : BOOLEAN, pattern : Patterns \cup {None},
                                   green : SUBSET Phases, yellow : SUBSET Phases]
    BY <1>2 DEF LoopCancelled, M60IInv, TypeOK, Tasks
  <2> QED
    BY <1>2, <2>1, <2>2, TaskRests DEF LoopCancelled
<1>3. ASSUME NEW t \in Callers, NEW job \in {"snapshot", "command"}, NEW want \in Patterns \cup {None},
             want \in Patterns <=> job = "command", Call(t, job, want)
      PROVE  M60IInv'
  <2> DEFINE r == [Idle EXCEPT !.pc = "connect", !.job = job, !.want = want]
  <2>1. task' = [task EXCEPT ![t] = r] /\ t \in Tasks /\ task'[t] = r
    BY <1>3 DEF Call, M60IInv, TypeOK, Tasks
  <2>2. r \in TaskType /\ r.pc = "connect" /\ r.job = job /\ r.want = want /\ r.got = Nothing
    BY NothingIsFound DEF Idle, TaskType, Pcs
  <2> HIDE DEF r
  <2>3. seen[t] = Unseen /\ ran[t] = {} /\ seen' = seen /\ ran' = ran
    BY <1>3, <2>1 DEF Call, M60IInv, TaskOK, Sees, Remembers, AtRest, AfterPoll, Polling, history
  <2>4. TaskOK(t)'
    <3>1. Fits(task[t].got, seen[t])'
      BY <2>1, <2>2, NothingFits
    <3> QED
      BY <2>1, <2>2, <2>3, <3>1 DEF TaskOK, Sees, Remembers, Polling, AtRest, AfterPoll
  <2>5. UNCHANGED <<field, described, history, changes, status>>
    BY <1>3 DEF Call
  <2>6. status \in [online : BOOLEAN, pattern : Patterns \cup {None},
                     green : SUBSET Phases, yellow : SUBSET Phases]
    BY DEF M60IInv, TypeOK
  <2> QED
    BY <1>3, <2>1, <2>2, <2>4, <2>5, <2>6, TaskMoves
<1>4. ASSUME NEW t \in Callers, ConnectOk(t) PROVE M60IInv'
  <2> DEFINE pc == IF task[t].job = "command" THEN "set" ELSE "topoll"
             r == [task[t] EXCEPT !.pc = pc]
  <2>1. /\ task' = [task EXCEPT ![t] = r] /\ t \in Tasks /\ task'[t] = r /\ task[t] \in TaskType
        /\ task[t].want \in Patterns <=> task[t].job = "command"
    BY <1>4 DEF ConnectOk, M60IInv, TypeOK, Tasks, TaskType
  <2>2. /\ r \in TaskType /\ r.pc = pc /\ r.job = task[t].job /\ r.want = task[t].want
        /\ r.got = task[t].got
    BY <2>1 DEF TaskType, Pcs
  <2>3. status' \in [online : BOOLEAN, pattern : Patterns \cup {None},
                     green : SUBSET Phases, yellow : SUBSET Phases]
    BY <1>4 DEF ConnectOk, M60IInv, TypeOK
  <2>4. /\ seen[t] = Unseen /\ ran[t] = {} /\ task[t].got = Nothing
        /\ seen' = seen /\ ran' = ran
    BY <1>4, <2>1 DEF ConnectOk, M60IInv, TaskOK, Sees, Remembers, Polling, history
  <2>5. TaskOK(t)'
    <3>0. /\ task'[t].pc \in {"set", "topoll"} /\ task'[t].got = Nothing
          /\ task'[t].pc = "set" => task'[t].job = "command"
          /\ task'[t].pc = "topoll" => task'[t].job # "command"
      <4>1. task'[t].pc = pc /\ task'[t].got = Nothing /\ task'[t].job = task[t].job
        <5> HIDE DEF r, pc
        <5> QED
          BY <2>1, <2>2, <2>4
      <4> QED
        BY <4>1
    <3>1. Fits(task[t].got, seen[t])'
      BY <3>0, NothingFits
    <3>2. Sees(t)'
      BY <3>0, <2>4 DEF Sees, Polling, Unseen
    <3>3. Remembers(t)'
      BY <3>0, <2>4 DEF Remembers, Polling, AtRest, AfterPoll
    <3> QED
      BY <3>1, <3>2, <3>3 DEF TaskOK
  <2>6. UNCHANGED <<field, described, history, changes>>
    BY <1>4 DEF ConnectOk
  <2> HIDE DEF r
  <2> QED
    BY <2>1, <2>2, <2>3, <2>5, <2>6, TaskMoves
<1>5. ASSUME NEW t \in Callers, ConnectFailed(t) PROVE M60IInv'
  <2>1. /\ Idle.pc \in AtRest /\ t \in Tasks
        /\ Idle = [pc |-> Idle.pc, job |-> "loop", want |-> None, got |-> Nothing, todo |-> Phases]
    BY DEF Idle, AtRest, Tasks
  <2>2. status' \in [online : BOOLEAN, pattern : Patterns \cup {None},
                     green : SUBSET Phases, yellow : SUBSET Phases]
    BY <1>5 DEF ConnectFailed, M60IInv, TypeOK
  <2>3. Forget(t)
    <3>1. seen[t] = Unseen /\ ran[t] = {} /\ seen' = seen /\ ran' = ran
      BY <1>5, <2>1 DEF ConnectFailed, M60IInv, TaskOK, Sees, Remembers, Polling, history
    <3> QED
      BY <3>1 DEF Forget, M60IInv, TypeOK
  <2> QED
    BY <1>5, <2>1, <2>2, <2>3, TaskRests DEF ConnectFailed
<1>6. ASSUME NEW t \in Callers, SetAnswered(t) PROVE M60IInv'
  <2>1. PICK p \in {pattern, task[t].want} :
          /\ pattern' = p
          /\ ran' = [u \in Tasks |-> IF u = t \/ ran[u] # {} THEN ran[u] \cup {p} ELSE {}]
    BY <1>6 DEF SetAnswered
  <2> DEFINE r == [task[t] EXCEPT !.pc = "topoll"]
  <2>2. /\ task' = [task EXCEPT ![t] = r] /\ t \in Tasks /\ task'[t] = r /\ task[t] \in TaskType
        /\ task[t].want \in Patterns <=> task[t].job = "command"
        /\ task[t].pc = "set" /\ seen' = seen /\ colour' = colour
    BY <1>6 DEF SetAnswered, M60IInv, TypeOK, Tasks, TaskType
  <2>3. /\ r \in TaskType /\ r.pc = "topoll" /\ r.job = task[t].job /\ r.want = task[t].want
        /\ r.got = task[t].got
    BY <2>2 DEF TaskType, Pcs
  <2> HIDE DEF r
  <2>4. /\ task[t].job = "command" /\ p \in Patterns
        /\ seen[t] = Unseen /\ task[t].got = Nothing
    BY <2>1, <2>2 DEF M60IInv, TypeOK, TaskOK, Sees, Remembers, Polling
  <2>5. TypeOK'
    <3>1. task' \in [Tasks -> TaskType] /\ \A u \in Tasks : task'[u].want \in Patterns <=> task'[u].job = "command"
      BY <2>2, <2>3 DEF M60IInv, TypeOK, TaskType
    <3>2. pattern' \in Patterns /\ ran' \in [Tasks -> SUBSET Patterns]
      BY <2>1, <2>4 DEF M60IInv, TypeOK
    <3> QED
      BY <1>6, <2>2, <3>1, <3>2 DEF SetAnswered, M60IInv, TypeOK, TaskType
  <2>6. TaskOK(t)'
    <3>1. task'[t].pc = "topoll" /\ task'[t].got = Nothing /\ pattern' \in ran'[t] /\ seen'[t] = Unseen
      BY <2>1, <2>2, <2>3, <2>4
    <3>2. Fits(task[t].got, seen[t])'
      BY <3>1, NothingFits
    <3>3. Sees(t)'
      BY <3>1 DEF Sees, Polling, Unseen
    <3>4. Remembers(t)'
      BY <3>1 DEF Remembers, Polling, AtRest, AfterPoll, Nothing
    <3> QED
      BY <3>2, <3>3, <3>4 DEF TaskOK
  <2>7. ASSUME NEW u \in Tasks, u # t PROVE TaskOK(u)'
    <3>1. /\ task'[u] = task[u] /\ seen'[u] = seen[u] /\ TaskOK(u)
          /\ ran'[u] = IF ran[u] # {} THEN ran[u] \cup {p} ELSE {}
      BY <2>1, <2>2, <2>7 DEF M60IInv, TypeOK
    <3> QED
      BY <2>1, <2>2, <3>1, PatternRuns
  <2> QED
    BY <2>5, <2>6, <2>7 DEF M60IInv
<1>7. ASSUME NEW t \in Callers, SetFails(t) PROVE M60IInv'
  <2>1. PICK p \in {pattern, task[t].want} : pattern' = p /\ Note(p)
    BY <1>7 DEF SetFails
  <2>2. /\ task' = [task EXCEPT ![t] = Idle] /\ t \in Tasks /\ task'[t] = Idle
        /\ Idle = [pc |-> "idle", job |-> "loop", want |-> None, got |-> Nothing, todo |-> Phases]
        /\ task[t].pc = "set" /\ seen' = seen /\ colour' = colour
    BY <1>7 DEF SetFails, M60IInv, TypeOK, Tasks, Idle
  <2>3. /\ Idle \in TaskType /\ Idle.want \notin Patterns /\ Idle.job # "command"
    BY <2>2, M60Assumption, NothingIsFound DEF TaskType, Pcs, AtRest
  <2>4. p \in Patterns /\ seen[t] = Unseen /\ ran[t] = {}
    BY <2>1, <2>2 DEF M60IInv, TypeOK, TaskOK, Sees, Remembers, Polling
  <2>5. TypeOK'
    BY <1>7, <2>1, <2>2, <2>3, <2>4 DEF SetFails, Note, M60IInv, TypeOK, TaskType
  <2>6. TaskOK(t)'
    <3>1. /\ task'[t].pc = "idle" /\ task'[t].got = Nothing /\ task'[t].job = "loop"
          /\ ran'[t] = {} /\ seen'[t] = Unseen
      BY <2>1, <2>2, <2>4 DEF Note
    <3>2. Fits(task[t].got, seen[t])'
      BY <3>1, NothingFits
    <3>3. Sees(t)'
      BY <3>1 DEF Sees, Polling, Unseen
    <3>4. Remembers(t)'
      BY <3>1 DEF Remembers
    <3> QED
      BY <3>2, <3>3, <3>4 DEF TaskOK
  <2>7. ASSUME NEW u \in Tasks, u # t PROVE TaskOK(u)'
    <3>1. /\ task'[u] = task[u] /\ seen'[u] = seen[u] /\ TaskOK(u)
          /\ ran'[u] = IF ran[u] # {} THEN ran[u] \cup {p} ELSE {}
      BY <2>1, <2>2, <2>7 DEF M60IInv, TypeOK, Note
    <3> QED
      BY <2>1, <2>2, <3>1, PatternRuns
  <2> QED
    BY <2>5, <2>6, <2>7 DEF M60IInv
<1>8. ASSUME NEW t \in Callers, CallerSteps(t) PROVE M60IInv'
  <2>1. ASSUME Call(t, "snapshot", None) PROVE M60IInv'
    BY <1>3, <2>1, M60Assumption
  <2>2. ASSUME NEW p \in Patterns, Call(t, "command", p) PROVE M60IInv'
    BY <1>3, <2>2
  <2> QED
    BY <1>4, <1>5, <1>6, <1>7, <1>8, <2>1, <2>2 DEF CallerSteps
<1> QED
  BY <1>1, <1>2, <1>8

(* Changes of the signal.                                                    *)
LEMMA SignalKeeps ==
  ASSUME M60IInv, Signal
  PROVE  M60IInv'
<1>1. ASSUME NEW p \in Phases, Change(p) PROVE M60IInv'
  <2>1. /\ colour' \in [Phases -> Colours] /\ colour'[p] \in Colours
        /\ \A q \in Phases : q # p => colour'[q] = colour[q]
    BY <1>1 DEF Change, M60IInv, TypeOK, NextColour, Colours
  <2>2. /\ pattern' = pattern /\ task' = task /\ ran' = ran /\ status' = status
        /\ described' = described /\ changes' \in 0..MaxChanges
    BY <1>1, M60Assumption DEF Change, M60IInv, TypeOK
  <2>3. \A t \in Tasks : seen'[t] = IF seen[t][p] = {} THEN seen[t]
                                    ELSE [seen[t] EXCEPT ![p] = @ \cup {colour'[p]}]
    BY <1>1 DEF Change
  <2>4. seen' \in [Tasks -> [Phases -> SUBSET Colours]]
    BY <1>1, <2>1 DEF Change, M60IInv, TypeOK
  <2>5. TypeOK'
    BY <2>1, <2>2, <2>4 DEF M60IInv, TypeOK
  <2>6. ASSUME NEW t \in Tasks PROVE TaskOK(t)'
    <3>0. /\ seen[t] \in [Phases -> SUBSET Colours]
          /\ \A q \in Phases : q # p => seen'[t][q] = seen[t][q]
          /\ seen'[t][p] = IF seen[t][p] = {} THEN {} ELSE seen[t][p] \cup {colour'[p]}
      <4>1. seen[t] \in [Phases -> SUBSET Colours]
        BY DEF M60IInv, TypeOK
      <4> QED
        BY <2>3, <4>1
    <3>1. \A q \in Phases : seen[t][q] \subseteq seen'[t][q]
      BY <3>0
    <3>2. Fits(task[t].got, seen[t])'
      <4>1. Fits(task[t].got, seen[t])
        BY DEF M60IInv, TaskOK
      <4> QED
        BY <2>2, <3>1, <4>1, FitsForLonger
    <3>3. Sees(t)'
      <4>1. CASE task[t].pc \in Polling
        <5>1. \A q \in Phases : colour[q] \in seen[t][q]
          BY <4>1 DEF M60IInv, TaskOK, Sees
        <5>2. \A q \in Phases : colour'[q] \in seen'[t][q]
          BY <2>1, <3>0, <3>1, <5>1
        <5> QED
          BY <2>2, <4>1, <5>2 DEF Sees
      <4>2. CASE task[t].pc \notin Polling
        <5>1. seen[t] = Unseen /\ task[t].got = Nothing
          BY <4>2 DEF M60IInv, TaskOK, Sees
        <5>2. seen'[t] = Unseen
          BY <2>3, <5>1 DEF Unseen
        <5> QED
          BY <2>2, <4>2, <5>1, <5>2 DEF Sees, Unseen
      <4> QED
        BY <4>1, <4>2
    <3>4. Remembers(t)'
      BY <2>2 DEF M60IInv, TaskOK, Remembers
    <3> QED
      BY <3>2, <3>3, <3>4 DEF TaskOK
  <2> QED
    BY <2>5, <2>6 DEF M60IInv
<1>2. ASSUME NEW p \in Patterns, ChangePattern(p) PROVE M60IInv'
  <2>1. /\ pattern' = p /\ task' = task /\ seen' = seen /\ status' = status /\ colour' = colour
        /\ described' = described /\ changes' \in 0..MaxChanges
        /\ ran' = [t \in Tasks |-> IF ran[t] = {} THEN {} ELSE ran[t] \cup {p}]
    BY <1>2, M60Assumption DEF ChangePattern, Note, M60IInv, TypeOK
  <2>2. TypeOK'
    BY <2>1 DEF M60IInv, TypeOK
  <2>3. ASSUME NEW t \in Tasks PROVE TaskOK(t)'
    <3>1. /\ ran'[t] = IF ran[t] # {} THEN ran[t] \cup {p} ELSE {}
          /\ task'[t] = task[t] /\ seen'[t] = seen[t] /\ TaskOK(t)
      BY <2>1 DEF M60IInv
    <3> QED
      BY <2>1, <3>1, PatternRuns
  <2> QED
    BY <2>2, <2>3 DEF M60IInv
<1> QED
  BY <1>1, <1>2 DEF Signal

-----------------------------------------------------------------------------
(* Theorems                                                                  *)

(* M60IInv holds at all times: the driver's readings agree with what the signal *)
(* showed meanwhile, and a command remembers the patterns since its SET.     *)
THEOREM PicturesHold == Spec => []M60IInv
<1>1. M60IInv /\ [Next]_vars => M60IInv'
  <2> SUFFICES ASSUME M60IInv, [Next]_vars PROVE M60IInv'
    OBVIOUS
  <2>1. CASE \E t \in Tasks : PollSteps(t)
    BY <2>1, PollsKeep
  <2>2. CASE UNCHANGED vars
    BY <2>2 DEF vars, field, history, M60IInv, TypeOK, TaskOK, Sees, Remembers, Fits, MaskFits, BitsFit
  <2> QED
    BY <2>1, <2>2, TasksKeep, SignalKeeps DEF Next
<1> QED
  BY <1>1, M60Begins, PTL DEF Spec

(* The state of the driver and of its tasks is of its type; the picture      *)
(* shows phases of the controller only (SiemensM60.poll).                    *)
THEOREM DriverTypes == Spec => []TypeOK
<1>1. M60IInv => TypeOK
  BY DEF M60IInv
<1> QED
  BY <1>1, PicturesHold, PTL

(* A task comes to its result by the last read of its poll, unless the poll  *)
(* could not begin.                                                          *)
LEMMA EndIsPublished ==
  ASSUME M60IInv, [Next]_vars, NEW t \in Tasks,
         task'[t].pc \in AfterPoll, task'[t].pc # task[t].pc, task[t].pc # "target"
  PROVE  \E got \in Found :
           /\ Fits(got, seen[t]) /\ got.greens = task[t].got.greens
           /\ got.pattern = task[t].got.pattern /\ Publish(t, got) /\ task[t].pc = "bits"
<1>1. task'[t].pc # task[t].pc /\ task'[t].pc \notin Polling \cup {"idle", "connect", "set", "topoll"}
  BY DEF AfterPoll, Polling
<1>2. ASSUME NEW u \in Tasks, NEW r, task' = [task EXCEPT ![u] = r],
             r.pc \in Polling \cup {"idle", "connect", "set", "topoll"}
      PROVE  FALSE
  <2>1. task'[t] = IF u = t THEN r ELSE task[t]
    BY <1>2 DEF M60IInv, TypeOK
  <2> QED
    BY <1>1, <1>2, <2>1
<1>3. ASSUME NEW u \in Tasks, PollSteps(u), ~(ReadStatusBatch(u) \/ ReadPhaseStatus(u))
      PROVE  FALSE
  <2>1. CASE PollRaises(u)
    <3>1. task[u].pc = "target" /\ task' = [task EXCEPT ![u] = Ended(u, status.pattern)]
      BY <2>1 DEF PollRaises
    <3> QED
      BY <1>1, <3>1 DEF M60IInv, TypeOK
  <2>2. CASE CallerPolls(u)
    BY <1>1, <2>2 DEF CallerPolls, StartOfPoll, Polling, M60IInv, TypeOK
  <2>3. CASE ReadSysDescr(u)
    BY <1>1, <2>3 DEF ReadSysDescr, Reads, Polling, M60IInv, TypeOK
  <2>4. CASE ReadIdentity(u)
    BY <1>1, <2>4 DEF ReadIdentity, Reads, Polling, M60IInv, TypeOK
  <2>5. CASE ReadMaskBatch(u)
    BY <1>1, <2>5 DEF ReadMaskBatch, Reads, Polling, M60IInv, TypeOK
  <2>6. CASE ReadMasks(u)
    <3>1. PICK next \in {"mask2", "bits"} : \E got : Reads(u, next, got)
      BY <2>6 DEF ReadMasks, ReadMask
    <3>2. next \in Polling
      BY DEF Polling
    <3> QED
      BY <1>2, <3>1, <3>2, ReadGoesOn DEF GoingOn, M60IInv
  <2> QED
    BY <1>3, <2>1, <2>2, <2>3, <2>4, <2>5, <2>6 DEF PollSteps
<1>4. ASSUME NEW u \in Tasks, ReadStatusBatch(u) \/ ReadPhaseStatus(u) PROVE u = t
  <2>1. PICK new \in Found :
          \/ Publish(u, new)
          \/ \E s \in GoingOn(u, new) : task' = [task EXCEPT ![u] = s]
    BY <1>4, LastReads
  <2>2. ASSUME Publish(u, new) PROVE u = t
    BY <1>1, <2>2 DEF Publish, M60IInv, TypeOK
  <2>3. ASSUME NEW s \in GoingOn(u, new), task' = [task EXCEPT ![u] = s] PROVE u = t
    BY <1>1, <2>3 DEF M60IInv, TypeOK
  <2> QED
    BY <2>1, <2>2, <2>3
<1>5. ~(\E u \in Loops : LoopPolls(u) \/ LoopCancelled(u))
  BY <1>1 DEF LoopPolls, StartOfPoll, LoopCancelled, Idle, Polling, M60IInv, TypeOK
<1>6. ASSUME NEW u \in Callers, CallerSteps(u) PROVE FALSE
  <2>1. ASSUME NEW job, NEW want, Call(u, job, want) PROVE FALSE
    <3>1. task' = [task EXCEPT ![u] = [Idle EXCEPT !.pc = "connect", !.job = job, !.want = want]]
      BY <2>1 DEF Call
    <3>2. [Idle EXCEPT !.pc = "connect", !.job = job, !.want = want].pc = "connect"
      BY DEF Idle
    <3> QED
      BY <1>2, <3>1, <3>2 DEF Tasks
  <2>2. CASE ConnectOk(u)
    BY <1>1, <2>2 DEF ConnectOk, M60IInv, TypeOK
  <2>3. CASE ConnectFailed(u) \/ SetFails(u)
    <3>1. Idle.pc = "idle" /\ task' = [task EXCEPT ![u] = Idle]
      BY <2>3 DEF ConnectFailed, SetFails, Idle
    <3> QED
      BY <1>2, <3>1 DEF Tasks
  <2>4. CASE SetAnswered(u)
    BY <1>1, <2>4 DEF SetAnswered, M60IInv, TypeOK
  <2> QED
    BY <1>6, <2>1, <2>2, <2>3, <2>4 DEF CallerSteps
<1>7. ~Signal /\ ~UNCHANGED vars
  BY <1>1 DEF Signal, Change, ChangePattern, vars
<1>8. ReadStatusBatch(t) \/ ReadPhaseStatus(t)
  BY <1>3, <1>4, <1>5, <1>6, <1>7 DEF Next
<1>9. PICK new \in Found :
        /\ Fits(new, seen[t]) /\ new.pattern = task[t].got.pattern
        /\ new.greens = task[t].got.greens
        /\ \/ Publish(t, new)
           \/ \E s \in GoingOn(t, new) : task' = [task EXCEPT ![t] = s]
  BY <1>8, LastReads
<1>10. ASSUME NEW s \in GoingOn(t, new), task' = [task EXCEPT ![t] = s] PROVE FALSE
  BY <1>2, <1>10 DEF GoingOn
<1> QED
  BY <1>8, <1>9, <1>10 DEF ReadStatusBatch, ReadPhaseStatus

(* A phase is shown green or yellow only if it was so at some moment of the  *)
(* poll that shows it (SiemensM60.poll, _read_phase_status).                 *)
THEOREM ShownColoursWereSeen == Spec => ColoursWereSeen
<1> DEFINE Step == \A t \in Tasks, p \in Phases : PollEnds(t) =>
                     /\ p \in status'.green => "green" \in seen[t][p]
                     /\ p \in status'.yellow => "yellow" \in seen[t][p]
<1>1. ASSUME M60IInv, [Next]_vars PROVE Step
  <2> SUFFICES ASSUME NEW t \in Tasks, NEW p \in Phases, PollEnds(t)
               PROVE  /\ p \in status'.green => "green" \in seen[t][p]
                      /\ p \in status'.yellow => "yellow" \in seen[t][p]
    OBVIOUS
  <2>1. PICK got \in Found : Fits(got, seen[t]) /\ status' = Published(got)
    BY <1>1, EndIsPublished DEF PollEnds, AfterPoll, Publish
  <2>2. ASSUME p \in status'.yellow PROVE "yellow" \in seen[t][p]
    BY <2>1, <2>2 DEF Published, StatusBit, Fits, BitsFit
  <2>3. ASSUME p \in status'.green PROVE "green" \in seen[t][p]
    <3>1. CASE ~Known(got.greens)
      BY <2>1, <2>3, <3>1 DEF Published, StatusBit, Fits, BitsFit
    <3>2. CASE Known(got.greens)
      <4>1. PICK g \in Groups : p \in DecodePhaseGroupBits(got.greens[g], g)
        BY <2>1, <2>3, <3>2 DEF Published, Decoded
      <4>2. /\ got.greens[g] # None /\ p \in Base(g)..(Base(g) + 7)
            /\ Bit(got.greens[g], p - Base(g))
        BY <4>1 DEF DecodePhaseGroupBits
      <4>3. Base(g) \in Nat /\ p - Base(g) \in 0..7 /\ Base(g) + (p - Base(g)) = p
        BY <4>2 DEF Base
      <4> QED
        BY <2>1, <4>2, <4>3 DEF Fits, MaskFits
    <3> QED
      BY <3>1, <3>2
  <2> QED
    BY <2>2, <2>3
<1> QED
  BY <1>1, PicturesHold, PTL DEF Spec, ColoursWereSeen

(* A phase that stood green throughout a poll is missing from its picture    *)
(* only if the mask of its group was not read (_decode_phase_group_bits).    *)
THEOREM GreensAreShown == Spec => NothingIsDropped
<1> DEFINE Step == \A t \in Tasks, p \in Phases :
                     PollEnds(t) /\ seen[t][p] = {"green"} /\ p \notin status'.green =>
                       task[t].got.greens[GroupOf(p)] = None
<1>1. ASSUME M60IInv, [Next]_vars PROVE Step
  <2> SUFFICES ASSUME NEW t \in Tasks, NEW p \in Phases, PollEnds(t), seen[t][p] = {"green"},
                      task[t].got.greens[GroupOf(p)] # None
               PROVE  p \in status'.green
    OBVIOUS
  <2>1. PICK got \in Found : /\ Fits(got, seen[t]) /\ status' = Published(got)
                            /\ got.greens = task[t].got.greens
    BY <1>1, EndIsPublished DEF PollEnds, AfterPoll, Publish
  <2> DEFINE g == GroupOf(p)
             i == p - Base(g)
  <2>2. g \in Groups /\ i \in 0..7 /\ Base(g) + i = p /\ p \in Base(g)..(Base(g) + 7)
    BY M60Assumption DEF GroupOf, Groups, Base
  <2> HIDE DEF g, i
  <2>3. got.greens[g] # None
    BY <2>1 DEF g
  <2>4. Bit(got.greens[g], i)
    BY <2>1, <2>2, <2>3 DEF Fits, MaskFits
  <2>5. p \in DecodePhaseGroupBits(got.greens[g], g)
    BY <2>2, <2>3, <2>4 DEF DecodePhaseGroupBits, i
  <2> QED
    BY <2>1, <2>2, <2>3, <2>5 DEF Published, Known, Decoded
<1> QED
  BY <1>1, PicturesHold, PTL DEF Spec, NothingIsDropped

(* A command is verified only if the controller ran the pattern since it     *)
(* answered the SET (CommandService.execute_command_result).                 *)
THEOREM VerifiedPatternsRan == Spec => VerifiedWasRun
<1> DEFINE Step == \A t \in Callers : Verifies(t) /\ task[t].pc # "target" => task[t].want \in ran[t]
<1>1. ASSUME M60IInv, [Next]_vars PROVE Step
  <2> SUFFICES ASSUME NEW t \in Callers, Verifies(t), task[t].pc # "target"
               PROVE  task[t].want \in ran[t]
    OBVIOUS
  <2>1. t \in Tasks /\ task'[t].pc = "verified" /\ task[t].pc # "verified"
    BY DEF Tasks, Verifies
  <2>2. task'[t].pc \in AfterPoll
    BY <2>1 DEF AfterPoll
  <2>3. PICK got \in Found : /\ got.pattern = task[t].got.pattern /\ Publish(t, got)
                            /\ task[t].pc = "bits"
    BY <1>1, <2>1, <2>2, EndIsPublished
  <2>4. Ended(t, got.pattern).pc = "verified"
    BY <1>1, <2>1, <2>3 DEF Publish, M60IInv, TypeOK
  <2>5. task[t].job = "command" /\ got.pattern = task[t].want
    BY <1>1, <2>1, <2>4 DEF Ended, Idle, M60IInv, TypeOK
  <2>6. got.pattern # None
    BY <1>1, <2>1, <2>5, M60Assumption DEF M60IInv, TypeOK
  <2> QED
    BY <1>1, <2>1, <2>3, <2>5, <2>6 DEF M60IInv, TaskOK, Remembers, Polling
<1> QED
  BY <1>1, PicturesHold, PTL DEF Spec, VerifiedWasRun

-----------------------------------------------------------------------------
(* The streams and the statuses on the page                                *)

(* The streams of a controller that is selected are streams, also when it is *)
(* the first profile that stands in for one that is not configured.          *)
LEMMA ConfigsType ==
  ASSUME MediaTypeOK, NEW d
  PROVE  Configs(d) \in Seq(Stream)
<1>1. <<>> \in Seq(Stream)
  BY EmptySeq
<1>2. ASSUME profiles # <<>> PROVE ProfileOf(profiles, SelectProfile(profiles, d)).streams \in Seq(Stream)
  <2> DEFINE Profile == [id : Ids, streams : Seq(Stream)]
             e == SelectProfile(profiles, d)
  <2>1. profiles \in Seq(Profile)
    BY <1>2, MediaAssumption DEF MediaTypeOK, Checks
  <2>a. ASSUME NEW p \in Profile PROVE p.streams \in Seq(Stream)
    OBVIOUS
  <2> HIDE DEF Profile
  <2>2. e \in Configured(profiles)
    <3>1. 1 \in DOMAIN profiles /\ Head(profiles) = profiles[1]
      BY <1>2, <2>1
    <3> QED
      BY <3>1 DEF SelectProfile, Configured
  <2>3. \E i \in DOMAIN profiles : profiles[i].id = e /\ IsFirst(profiles, i)
    BY <2>1, <2>2, FirstAndLastPlace
  <2>4. \E i \in DOMAIN profiles : ProfileOf(profiles, e) = profiles[i]
    BY <2>3 DEF ProfileOf
  <2>5. \A i \in DOMAIN profiles : profiles[i] \in Profile
    BY <2>1
  <2> QED
    BY <2>4, <2>5, <2>a
<1> QED
  BY <1>1, <1>2 DEF Configs

(* A status that is looked up is one of the list, with that id.              *)
LEMMA StatusIsFound ==
  ASSUME NEW list \in Seq(Status), NEW v \in Configured(list)
  PROVE  \E i \in DOMAIN list : StatusOf(list, v) = list[i] /\ list[i].id = v
BY FirstAndLastPlace DEF StatusOf

(* The statuses that are kept were there before.                             *)
LEMMA KeptType ==
  ASSUME NEW list \in Seq(Status), NEW streams \in Seq(Stream)
  PROVE  /\ Kept(list, streams) \in Seq(Status)
         /\ \A k \in DOMAIN Kept(list, streams) : \E i \in DOMAIN list : Kept(list, streams)[k] = list[i]
<1> DEFINE places == {i \in DOMAIN streams : streams[i].id \in Configured(list)}
           known == Entries(streams, places)
           T == {streams[i] : i \in places}
<1>1. known \in Seq(T)
  BY EntriesAreTheirs
<1>2. \A k \in DOMAIN known : known[k].id \in Configured(list)
  <2>1. \A t \in T : t.id \in Configured(list)
    OBVIOUS
  <2> HIDE DEF known, T
  <2>2. \A k \in DOMAIN known : known[k] \in T
    BY <1>1
  <2> QED
    BY <2>1, <2>2
<1>3. Kept(list, streams) = [k \in DOMAIN known |-> StatusOf(list, known[k].id)]
  BY DEF Kept
<1> HIDE DEF known
<1>4. \A k \in DOMAIN known : \E i \in DOMAIN list : StatusOf(list, known[k].id) = list[i]
  BY <1>2, StatusIsFound
<1>5. \A i \in DOMAIN list : list[i] \in Status
  OBVIOUS
<1>6. DOMAIN known = 1..Len(known) /\ Len(known) \in Nat
  BY <1>1
<1>7. [k \in DOMAIN known |-> StatusOf(list, known[k].id)] \in Seq(Status)
  BY <1>4, <1>5, <1>6, IsASeq
<1> QED
  BY <1>3, <1>4, <1>7
-----------------------------------------------------------------------------
(* The check of the cameras: its inductive invariant                       *)

(* The streams of the first n of the list whose cameras are asked.           *)
Asked(list, n) == {i \in DOMAIN list : i <= n /\ list[i].enabled}

(* How long the probes of the first n streams may take together.             *)
Allowed(list, n) == Timeout * Cardinality(Asked(list, n))

(* What a status says of its camera: heard to the end, it is online, unless  *)
(* its time was up or its line broke first.                                  *)
Heard(s) ==
  /\ s.verdict = "succeeded" => s.described
  /\ s.described => s.verdict \in {"succeeded", "timed out"} \/ s.broken

(* Only cameras that were heard count as online, on the page and in the      *)
(* check that is running.                                                    *)
AllHeard ==
  /\ \A i \in DOMAIN statuses : Heard(statuses[i])
  /\ \A i \in DOMAIN check.done : Heard(check.done[i])

(* The check goes through the streams of the page, one status each; one that *)
(* is asked is switched on.  Between probes nothing has been read.           *)
InStep ==
  /\ Len(check.done) <= Len(check.list)
  /\ \A i \in DOMAIN check.done : check.done[i].id = check.list[i].id
  /\ check.pc # "idle" => shown = check.list
  /\ Probing => Len(check.done) < Len(check.list) /\ Current.enabled
  /\ check.pc \in {"idle", "next", "connecting"} => check.reply = Refusal /\ check.got = 0
  /\ check.got <= HeadPieces + check.reply.body
  /\ check.pc = "body" => check.reply.ok
  /\ check.pc = "idle" => check.list = <<>>

(* Every probe that is over took a timeout at most, and the one that runs    *)
(* has what is left of its own.                                              *)
InTime ==
  /\ check.pc = "idle" => check.elapsed = 0
  /\ check.pc = "next" => check.elapsed <= Allowed(check.list, Len(check.done))
  /\ Probing => check.elapsed + check.left <= Allowed(check.list, Len(check.done) + 1)

MediaIInv == MediaTypeOK /\ AllHeard /\ InStep /\ InTime

(* The type of the check, field by field.                                    *)
CheckFields ==
  /\ check.pc \in {"idle", "next", "connecting", "head", "body"}
  /\ check.left \in 0..Timeout /\ check.elapsed \in Nat
  /\ check.reply \in Replies /\ check.got \in 0..(HeadPieces + MaxBody)
  /\ check.line \in {"open", "closed", "reset"}

CheckLists ==
  /\ check.list \in Seq(Stream) /\ check.done \in Seq(Status)
  /\ Len(check.done) \in Nat /\ Len(check.list) \in Nat
  /\ DOMAIN check.list = 1..Len(check.list) /\ DOMAIN check.done = 1..Len(check.done)

(* The check has the fields and the lists that its type says.                *)
LEMMA FieldTypes ==
  ASSUME MediaTypeOK
  PROVE  CheckFields /\ CheckLists
<1>1. check \in Checks
  BY DEF MediaTypeOK, Checks
<1>2. check.list \in Seq(Stream) /\ check.done \in Seq(Status)
  BY <1>1 DEF Checks
<1>3. /\ check.pc \in {"idle", "next", "connecting", "head", "body"}
      /\ check.left \in 0..Timeout /\ check.elapsed \in Nat
      /\ check.reply \in Replies /\ check.got \in 0..(HeadPieces + MaxBody)
      /\ check.line \in {"open", "closed", "reset"}
  BY <1>1 DEF Checks
<1> QED
  BY <1>2, <1>3, LenProperties DEF CheckFields, CheckLists

(* What a reply is made of.                                                  *)
LEMMA ReplyTypes ==
  /\ \A reply \in Replies : reply.ok \in BOOLEAN /\ reply.body \in 0..MaxBody
  /\ Refusal \in Replies /\ Refusal.ok = FALSE /\ Refusal.body = 0
<1>1. Refusal \in Replies /\ Refusal.ok = FALSE /\ Refusal.body = 0
  BY DEF Replies, Refusal
<1>2. 0 \in 0..MaxBody
  BY MediaAssumption
<1>3. ASSUME NEW n \in 0..MaxBody
      PROVE  Description(n).ok \in BOOLEAN /\ Description(n).body \in 0..MaxBody
  BY DEF Description
<1>4. ASSUME NEW reply \in Replies PROVE reply.ok \in BOOLEAN /\ reply.body \in 0..MaxBody
  <2>1. reply = Refusal \/ \E n \in 0..MaxBody : reply = Description(n)
    BY DEF Replies
  <2> QED
    BY <1>1, <1>2, <1>3, <2>1
<1> QED
  BY <1>1, <1>4

(* The cameras that are asked are so many, and one more camera that is       *)
(* switched on is one more.                                                  *)
LEMMA AskedOneMore ==
  ASSUME NEW list \in Seq(Stream), NEW n \in Nat, n < Len(list)
  PROVE  /\ Cardinality(Asked(list, n)) \in Nat
         /\ Cardinality(Asked(list, n + 1)) \in Nat
         /\ Cardinality(Asked(list, n)) <= Cardinality(Asked(list, n + 1))
         /\ list[n + 1].enabled =>
              Cardinality(Asked(list, n + 1)) = Cardinality(Asked(list, n)) + 1
<1>1. Len(list) \in Nat /\ DOMAIN list = 1..Len(list)
  BY LenProperties
<1>2. IsFiniteSet(1..Len(list))
  BY <1>1, FS_Interval
<1>3. /\ Asked(list, n) \subseteq 1..Len(list) /\ Asked(list, n + 1) \subseteq 1..Len(list)
      /\ Asked(list, n) \subseteq Asked(list, n + 1)
  BY <1>1 DEF Asked
<1>4. IsFiniteSet(Asked(list, n)) /\ IsFiniteSet(Asked(list, n + 1))
  BY <1>2, <1>3, FS_Subset
<1>5. /\ Cardinality(Asked(list, n)) \in Nat
      /\ Cardinality(Asked(list, n + 1)) \in Nat
      /\ Cardinality(Asked(list, n)) <= Cardinality(Asked(list, n + 1))
  BY <1>3, <1>4, FS_CardinalityType, FS_Subset
<1>6. ASSUME list[n + 1].enabled
      PROVE  Cardinality(Asked(list, n + 1)) = Cardinality(Asked(list, n)) + 1
  <2>1. Asked(list, n + 1) = Asked(list, n) \cup {n + 1}
    BY <1>1, <1>6 DEF Asked
  <2>2. n + 1 \notin Asked(list, n)
    BY DEF Asked
  <2> QED
    BY <1>4, <2>1, <2>2, FS_AddElement
<1> QED
  BY <1>5, <1>6

(* A camera that is switched on is allowed a timeout more.                   *)
LEMMA AllowedOneMore ==
  ASSUME NEW list \in Seq(Stream), NEW n \in Nat, n < Len(list)
  PROVE  /\ Allowed(list, n) \in Nat /\ Allowed(list, n + 1) \in Nat
         /\ Allowed(list, n) <= Allowed(list, n + 1)
         /\ list[n + 1].enabled => Allowed(list, n + 1) = Allowed(list, n) + Timeout
<1> DEFINE c == Cardinality(Asked(list, n))
           d == Cardinality(Asked(list, n + 1))
<1>1. c \in Nat /\ d \in Nat /\ c <= d /\ (list[n + 1].enabled => d = c + 1)
  BY AskedOneMore
<1>2. Allowed(list, n) = Timeout * c /\ Allowed(list, n + 1) = Timeout * d
  BY DEF Allowed
<1> HIDE DEF c, d
<1>3. \A t \in Nat : \A k \in Nat : t * k \in Nat /\ t * (k + 1) = t * k + t
  OBVIOUS
<1>4. \A t \in Nat : \A k, l \in Nat : t * (k + l) = t * k + t * l
  OBVIOUS
<1>5. PICK l \in Nat : d = c + l
  BY <1>1
<1>6. Timeout \in Nat
  BY MediaAssumption
<1>7. Timeout * c \in Nat /\ Timeout * d \in Nat /\ Timeout * l \in Nat
  BY <1>1, <1>3, <1>5, <1>6
<1>8. Timeout * d = Timeout * c + Timeout * l
  BY <1>1, <1>4, <1>5, <1>6
<1>9. d = c + 1 => Timeout * d = Timeout * c + Timeout
  BY <1>1, <1>3, <1>6
<1>10. Timeout * c <= Timeout * d
  <2> DEFINE x == Timeout * c
             y == Timeout * d
             z == Timeout * l
  <2>1. x \in Nat /\ z \in Nat /\ y = x + z
    BY <1>7, <1>8
  <2> HIDE DEF x, y, z
  <2>2. x <= y
    BY <2>1
  <2> QED
    BY <2>2 DEF x, y
<1> QED
  BY <1>1, <1>2, <1>7, <1>9, <1>10

-----------------------------------------------------------------------------
(* The steps                                                               *)

(* Streams without a check: nothing has been read and nothing is owed.       *)
LEMMA IdleIsInStep ==
  /\ IdleCheck.pc = "idle" /\ IdleCheck.list = <<>> /\ IdleCheck.done = <<>>
  /\ IdleCheck.elapsed = 0 /\ IdleCheck.reply = Refusal
  /\ IdleCheck.got = 0 /\ 0 <= HeadPieces + Refusal.body
  /\ IdleCheck \in Checks
<1>1. <<>> \in Seq(Stream) /\ <<>> \in Seq(Status)
  BY EmptySeq
<1>2. 0 \in 0..Timeout /\ 0 \in 0..(HeadPieces + MaxBody) /\ 0 \in Nat
  BY MediaAssumption
<1>3. 0 <= HeadPieces + Refusal.body
  BY MediaAssumption, ReplyTypes
<1> QED
  BY <1>1, <1>2, <1>3, ReplyTypes DEF IdleCheck, Checks

(* While nothing is checked the invariant is about the page alone.           *)
LEMMA PageSteps ==
  ASSUME MediaIInv, check.pc = "idle", check' = check, MediaTypeOK',
         \A i \in DOMAIN statuses' : \E j \in DOMAIN statuses : statuses'[i] = statuses[j]
  PROVE  MediaIInv'
<1>1. AllHeard'
  BY DEF MediaIInv, AllHeard
<1>2. InStep'
  BY DEF MediaIInv, InStep, Probing
<1>3. InTime'
  BY DEF MediaIInv, InTime, Probing
<1> QED
  BY <1>1, <1>2, <1>3 DEF MediaIInv

(* Statuses stay with the streams that are shown, and come from the page.    *)
LEMMA RefreshKeepsTypes ==
  ASSUME MediaTypeOK, NEW d, RefreshMediaState(d)
  PROVE  /\ shown' \in Seq(Stream) /\ statuses' \in Seq(Status)
         /\ \A i \in DOMAIN statuses' : \E j \in DOMAIN statuses : statuses'[i] = statuses[j]
<1>1. Configs(d) \in Seq(Stream)
  BY ConfigsType
<1>2. statuses \in Seq(Status)
  BY DEF MediaTypeOK, Checks
<1> QED
  BY <1>1, <1>2, KeptType DEF RefreshMediaState

(* Whoever is first in line leaves it.                                       *)
LEMMA ServesType ==
  ASSUME MediaTypeOK, NEW who, Serves(who)
  PROVE  queue' \in Seq(Handlers \cup {"live"}) /\ clicks' \in 0..MaxClicks /\ check.pc = "idle"
<1>1. queue \in Seq(Handlers \cup {"live"}) /\ queue # <<>>
  BY DEF MediaTypeOK, Checks, Serves
<1>2. Tail(queue) \in Seq(Handlers \cup {"live"})
  BY <1>1, HeadTailProperties
<1> QED
  BY <1>2 DEF MediaTypeOK, Checks, Serves

(* The operator's actions on the page.                                       *)
LEMMA HandlerKeeps ==
  ASSUME MediaIInv, Handler
  PROVE  MediaIInv'
<1>t. MediaTypeOK
  BY DEF MediaIInv
<1>s. statuses' = statuses => \A i \in DOMAIN statuses' : \E j \in DOMAIN statuses : statuses'[i] = statuses[j]
  OBVIOUS
<1>1. ASSUME NEW d \in Ids \cup {NoDevice}, SelectController(d) PROVE MediaIInv'
  <2>1. Serves("select") /\ RefreshMediaState(d) /\ check' = check
    BY <1>1 DEF SelectController
  <2>2. MediaTypeOK'
    BY <1>t, <1>1, <2>1, ServesType, RefreshKeepsTypes DEF SelectController, MediaTypeOK, Checks, config
  <2> QED
    BY <1>t, <2>1, <2>2, ServesType, RefreshKeepsTypes, PageSteps
<1>2. ASSUME NEW d \in Ids \cup {NoDevice}, LoadControllerProfile(d) PROVE MediaIInv'
  <2>1. Serves("load") /\ check' = check /\ statuses' = statuses
    BY <1>2 DEF LoadControllerProfile
  <2>2. MediaTypeOK'
    BY <1>t, <1>2, <2>1, ServesType DEF LoadControllerProfile, MediaTypeOK, Checks, config
  <2> QED
    BY <1>t, <1>s, <2>1, <2>2, ServesType, PageSteps
<1>3. ASSUME OpenIntersectionDetail PROVE MediaIInv'
  <2>1. Serves("open") /\ RefreshMediaState(selected) /\ check' = check
    BY <1>3 DEF OpenIntersectionDetail
  <2>2. MediaTypeOK'
    BY <1>t, <1>3, <2>1, ServesType, RefreshKeepsTypes DEF OpenIntersectionDetail, MediaTypeOK, Checks, config
  <2> QED
    BY <1>t, <2>1, <2>2, ServesType, RefreshKeepsTypes, PageSteps
<1>4. ASSUME UpdateDeviceProfilesJson PROVE MediaIInv'
  <2>1. Serves("edit") /\ check' = check /\ statuses' = statuses
    BY <1>4 DEF UpdateDeviceProfilesJson
  <2>2. MediaTypeOK'
    BY <1>t, <1>4, <2>1, ServesType DEF UpdateDeviceProfilesJson, MediaTypeOK, Checks
  <2> QED
    BY <1>t, <1>s, <2>1, <2>2, ServesType, PageSteps
<1>5. ASSUME LiveGoesOn PROVE MediaIInv'
  <2>1. Serves("live") /\ check' = check /\ statuses' = statuses
    BY <1>5 DEF LiveGoesOn
  <2>2. MediaTypeOK'
    BY <1>t, <1>5, <2>1, ServesType DEF LiveGoesOn, MediaTypeOK, Checks, config
  <2> QED
    BY <1>t, <1>s, <2>1, <2>2, ServesType, PageSteps
<1>6. ASSUME StartCheck PROVE MediaIInv'
  <2>1. Serves("check") /\ RefreshMediaState(selected) /\ shown' = Configs(selected)
    BY <1>6 DEF StartCheck, RefreshMediaState
  <2>2. /\ check'.list = Configs(selected) /\ check'.done = <<>> /\ check'.elapsed = 0
        /\ check'.reply = Refusal /\ check'.got = 0 /\ check'.pc \in {"idle", "next"}
        /\ check'.pc = "idle" => check'.list = <<>>
    BY <1>6, IdleIsInStep DEF StartCheck
  <2>3. Configs(selected) \in Seq(Stream)
    BY <1>t, ConfigsType
  <2>4. check' \in Checks
    BY <1>6, <2>3, IdleIsInStep DEF StartCheck, Checks
  <2>5. MediaTypeOK'
    BY <1>t, <1>6, <2>1, <2>4, ServesType, RefreshKeepsTypes DEF StartCheck, MediaTypeOK, Checks, config
  <2>6. AllHeard'
    <3>1. \A i \in DOMAIN statuses' : \E j \in DOMAIN statuses : statuses'[i] = statuses[j]
      BY <1>t, <2>1, RefreshKeepsTypes
    <3> QED
      BY <2>2, <3>1 DEF MediaIInv, AllHeard
  <2>7. InStep'
    <3>1. Len(check'.done) = 0 /\ DOMAIN check'.done = {}
      BY <2>2
    <3> QED
      BY <2>1, <2>2, <2>3, <3>1, IdleIsInStep DEF InStep, Probing
  <2>8. InTime'
    <3>1. Len(check'.done) = 0 /\ Asked(check'.list, 0) = {}
      BY <2>2, <2>3 DEF Asked
    <3>2. Cardinality(Asked(check'.list, Len(check'.done))) = 0 /\ Timeout * 0 = 0
      BY <3>1, FS_EmptySet, MediaAssumption
    <3>3. Allowed(check'.list, Len(check'.done)) = 0
      BY <3>2 DEF Allowed
    <3> QED
      BY <2>2, <3>3 DEF InTime, Probing
  <2> QED
    BY <2>5, <2>6, <2>7, <2>8 DEF MediaIInv
<1> QED
  BY <1>1, <1>2, <1>3, <1>4, <1>5, <1>6 DEF Handler

(* A step of the check alone that leaves it where it is in its list: what is *)
(* owed of the probe that runs.                                              *)
LEMMA ProbeGoesOn ==
  ASSUME MediaIInv, OnlyTheCheck, Probing,
         check' \in Checks,
         check'.pc \in {"connecting", "head", "body"},
         check'.list = check.list, check'.done = check.done,
         check'.pc = "connecting" => check'.reply = Refusal /\ check'.got = 0,
         check'.got <= HeadPieces + check'.reply.body,
         check'.pc = "body" => check'.reply.ok,
         check'.elapsed + check'.left = check.elapsed + check.left
  PROVE  MediaIInv'
<1>1. MediaTypeOK'
  BY DEF MediaIInv, MediaTypeOK, Checks, OnlyTheCheck, config
<1>2. AllHeard'
  BY DEF MediaIInv, AllHeard, OnlyTheCheck
<1>3. InStep'
  BY DEF MediaIInv, InStep, OnlyTheCheck, Probing, Current
<1>4. InTime'
  BY DEF MediaIInv, InTime, Probing
<1> QED
  BY <1>1, <1>2, <1>3, <1>4 DEF MediaIInv

(* The next entry of a list that another one goes along with.                *)
LEMMA NextEntry ==
  ASSUME NEW S, NEW list \in Seq(S), NEW T, NEW done \in Seq(T), Len(done) < Len(list)
  PROVE  list[Len(done) + 1] \in S
<1>1. Len(list) \in Nat /\ Len(done) \in Nat
  BY LenProperties
<1>2. Len(done) + 1 \in 1..Len(list)
  BY <1>1
<1> QED
  BY <1>2, ElementOfSeq

(* One more entry of a list that goes along with another.                    *)
LEMMA OneMoreEntry ==
  ASSUME NEW S, NEW list \in Seq(S), NEW T, NEW done \in Seq(T), Len(done) < Len(list), NEW s \in T,
         NEW more, more = Append(done, s)
  PROVE  /\ more \in Seq(T)
         /\ Len(more) = Len(done) + 1 /\ Len(done) + 1 <= Len(list)
         /\ \A i \in DOMAIN more :
              \/ i \in DOMAIN done /\ more[i] = done[i]
              \/ i = Len(done) + 1 /\ more[i] = s
<1>1. /\ Len(list) \in Nat /\ DOMAIN list = 1..Len(list)
      /\ Len(done) \in Nat /\ DOMAIN done = 1..Len(done)
  BY LenProperties
<1>2. Len(done) + 1 <= Len(list)
  BY <1>1
<1>3. /\ Append(done, s) \in Seq(T) /\ Len(Append(done, s)) = Len(done) + 1
      /\ DOMAIN Append(done, s) = 1..(Len(done) + 1)
      /\ \A i \in 1..Len(done) : Append(done, s)[i] = done[i]
      /\ Append(done, s)[Len(done) + 1] = s
  BY <1>1, AppendProperties
<1>4. \A i \in 1..(Len(done) + 1) : i \in 1..Len(done) \/ i = Len(done) + 1
  BY <1>1
<1> QED
  BY <1>1, <1>2, <1>3, <1>4

(* What a probe that runs may come to, by what was heard of the camera.      *)
Verdicts == {"succeeded", "failed", "timed out", "disabled"}

Justified(verdict) ==
  /\ verdict = "succeeded" => Described
  /\ Described => verdict \in {"succeeded", "timed out"} \/ check.line = "reset"

(* A stream gets its status.                                                 *)
LEMMA ConcludesKeeps ==
  ASSUME MediaIInv, NEW verdict, verdict \in Verdicts, Justified(verdict),
         Concludes(verdict), Len(check.done) < Len(check.list), check.pc # "idle",
         check.elapsed <= Allowed(check.list, Len(check.done) + 1)
  PROVE  MediaIInv'
<1> DEFINE s == [id |-> Current.id, verdict |-> verdict,
                 described |-> Described, broken |-> check.line = "reset"]
<1>1. CheckFields /\ CheckLists
  BY FieldTypes DEF MediaIInv
<1>0. check.list \in Seq(Stream) /\ check.done \in Seq(Status)
  BY <1>1 DEF CheckLists
<1>2. Current \in Stream /\ Current = check.list[Len(check.done) + 1]
  BY <1>0, NextEntry DEF Current
<1>3. s \in Status
  <2>1. Described \in BOOLEAN
    BY <1>1, ReplyTypes DEF Described, CheckFields
  <2>2. Current.id \in StreamIds
    BY <1>2 DEF Stream
  <2> QED
    BY <2>1, <2>2 DEF Status, Verdicts
<1>4. Heard(s) /\ s.id = check.list[Len(check.done) + 1].id
  BY <1>2 DEF Heard, Justified
<1> HIDE DEF s
<1> DEFINE more == Append(check.done, s)
<1>a. more = Append(check.done, s)
  BY DEF more
<1> HIDE DEF more
<1>5. /\ more \in Seq(Status) /\ Len(more) = Len(check.done) + 1
      /\ Len(check.done) + 1 <= Len(check.list)
      /\ \A i \in DOMAIN more : \/ i \in DOMAIN check.done /\ more[i] = check.done[i]
                                \/ i = Len(check.done) + 1 /\ more[i] = s
  BY <1>0, <1>3, <1>a, OneMoreEntry
<1>6. check' = [IdleCheck EXCEPT !.pc = "next", !.list = check.list, !.elapsed = check.elapsed,
                                 !.done = more]
  BY <1>a DEF Concludes, s
<1>7. /\ check'.pc = "next" /\ check'.list = check.list /\ check'.elapsed = check.elapsed
      /\ check'.done = more /\ check'.reply = Refusal /\ check'.got = 0
  BY <1>6, IdleIsInStep DEF IdleCheck, Checks
<1>8. check' \in Checks
  BY <1>1, <1>5, <1>6, IdleIsInStep DEF CheckFields, CheckLists, Checks
<1>9. OnlyTheCheck
  BY DEF Concludes
<1>10. MediaTypeOK'
  BY <1>8, <1>9 DEF MediaIInv, MediaTypeOK, Checks, OnlyTheCheck, config
<1>11. AllHeard'
  <2>1. \A i \in DOMAIN check'.done : Heard(check'.done[i])
    BY <1>4, <1>5, <1>7 DEF MediaIInv, AllHeard
  <2> QED
    BY <1>9, <2>1 DEF MediaIInv, AllHeard, OnlyTheCheck
<1>12. InStep'
  <2>1. \A i \in DOMAIN check'.done : check'.done[i].id = check'.list[i].id
    BY <1>4, <1>5, <1>7 DEF MediaIInv, InStep
  <2>2. Len(check'.done) <= Len(check'.list)
    BY <1>5, <1>7
  <2> QED
    BY <1>7, <1>9, <2>1, <2>2, IdleIsInStep DEF MediaIInv, InStep, OnlyTheCheck, Probing
<1>13. InTime'
  BY <1>5, <1>7 DEF InTime, Probing
<1> QED
  BY <1>10, <1>11, <1>12, <1>13 DEF MediaIInv

(* What runs out of time or fails has not taken longer than it may.          *)
LEMMA ProbeInTime ==
  ASSUME MediaIInv, Probing
  PROVE  /\ CheckFields /\ CheckLists /\ Len(check.done) < Len(check.list) /\ check.pc # "idle"
         /\ check.elapsed <= Allowed(check.list, Len(check.done) + 1)
<1>1. CheckFields /\ CheckLists /\ Len(check.done) < Len(check.list)
  BY FieldTypes DEF MediaIInv, InStep
<1>2. check.elapsed + check.left <= Allowed(check.list, Len(check.done) + 1)
  BY DEF MediaIInv, InTime
<1>3. Allowed(check.list, Len(check.done) + 1) \in Nat
  BY <1>1, AllowedOneMore DEF CheckLists
<1>4. check.elapsed \in Nat /\ check.left \in Nat
  BY <1>1, MediaAssumption DEF CheckFields
<1> QED
  BY <1>1, <1>2, <1>3, <1>4 DEF Probing

(* What the check does by itself.                                            *)
LEMMA ProbeKeeps ==
  ASSUME MediaIInv, Probe
  PROVE  MediaIInv'
<1>1. CheckFields /\ CheckLists /\ MediaTypeOK
  BY FieldTypes DEF MediaIInv
<1>2. ASSUME BeginProbe PROVE MediaIInv'
  <2>1. /\ check.pc = "next" /\ Len(check.done) < Len(check.list) /\ Current.enabled
        /\ check' = [check EXCEPT !.pc = "connecting", !.left = Timeout] /\ OnlyTheCheck
    BY <1>2 DEF BeginProbe
  <2>2. Timeout \in 0..Timeout
    BY MediaAssumption
  <2>3. check' \in Checks
    BY <1>1, <2>1, <2>2 DEF MediaTypeOK, Checks
  <2>4. /\ check'.pc = "connecting" /\ check'.left = Timeout /\ check'.list = check.list
        /\ check'.done = check.done /\ check'.elapsed = check.elapsed /\ check'.reply = check.reply
        /\ check'.got = check.got
    BY <1>1, <2>1 DEF MediaTypeOK, Checks
  <2>5. MediaTypeOK'
    BY <1>1, <2>1, <2>3 DEF MediaTypeOK, Checks, OnlyTheCheck, config
  <2>6. AllHeard'
    BY <2>1, <2>4 DEF MediaIInv, AllHeard, OnlyTheCheck
  <2>7. InStep'
    BY <2>1, <2>4 DEF MediaIInv, InStep, OnlyTheCheck, Probing, Current
  <2>8. InTime'
    <3>1. Allowed(check.list, Len(check.done) + 1) = Allowed(check.list, Len(check.done)) + Timeout
      BY <1>1, <2>1, AllowedOneMore DEF CheckLists, Current
    <3>2. check.elapsed <= Allowed(check.list, Len(check.done))
      BY <2>1 DEF MediaIInv, InTime
    <3>3. /\ Allowed(check.list, Len(check.done)) \in Nat
          /\ check.elapsed \in Nat /\ Timeout \in Nat
      BY <1>1, <2>1, AllowedOneMore, MediaAssumption DEF CheckFields, CheckLists
    <3>4. check.elapsed + Timeout <= Allowed(check.list, Len(check.done) + 1)
      BY <3>1, <3>2, <3>3
    <3> QED
      BY <2>4, <3>4 DEF InTime, Probing
  <2> QED
    BY <2>5, <2>6, <2>7, <2>8 DEF MediaIInv
<1>3. ASSUME SkipDisabled PROVE MediaIInv'
  <2>1. check.pc = "next" /\ Len(check.done) < Len(check.list) /\ Concludes("disabled")
    BY <1>3 DEF SkipDisabled
  <2>2. ~Described
    BY <2>1, ReplyTypes DEF MediaIInv, InStep, Described
  <2>3. check.elapsed <= Allowed(check.list, Len(check.done) + 1)
    <3>1. /\ Allowed(check.list, Len(check.done)) \in Nat
          /\ Allowed(check.list, Len(check.done) + 1) \in Nat
          /\ Allowed(check.list, Len(check.done)) <= Allowed(check.list, Len(check.done) + 1)
      BY <1>1, <2>1, AllowedOneMore DEF CheckLists
    <3>2. check.elapsed \in Nat /\ check.elapsed <= Allowed(check.list, Len(check.done))
      BY <1>1, <2>1 DEF MediaIInv, InTime, CheckFields
    <3> QED
      BY <3>1, <3>2
  <2> QED
    BY <2>1, <2>2, <2>3, ConcludesKeeps DEF Verdicts, Justified
<1>4. ASSUME ReadHead PROVE MediaIInv'
  <2>1. check.pc = "head" /\ check.got >= HeadPieces /\ Probing
    BY <1>4 DEF ReadHead, Probing
  <2>2. CASE ~check.reply.ok /\ Concludes("failed")
    BY <2>1, <2>2, ProbeInTime, ConcludesKeeps DEF Described, Verdicts, Justified
  <2>3. CASE check.reply.ok /\ check.reply.body = 0 /\ Concludes("succeeded")
    <3>1. check.got = HeadPieces
      <4>1. check.got <= HeadPieces + 0
        BY <2>3 DEF MediaIInv, InStep
      <4>2. HeadPieces \in Nat /\ MaxBody \in Nat /\ check.got \in 0..(HeadPieces + MaxBody)
        BY <1>1, MediaAssumption DEF CheckFields
      <4> QED
        BY <2>1, <4>1, <4>2
    <3>2. Described
      BY <2>3, <3>1, MediaAssumption DEF Described
    <3> QED
      BY <2>1, <2>3, <3>2, ProbeInTime, ConcludesKeeps DEF Verdicts, Justified
  <2>4. CASE check.reply.ok /\ check' = [check EXCEPT !.pc = "body"] /\ OnlyTheCheck
    <3>1. check' \in Checks
      BY <1>1, <2>4 DEF MediaTypeOK, Checks
    <3>2. /\ check'.pc = "body" /\ check'.left = check.left /\ check'.list = check.list
          /\ check'.done = check.done /\ check'.elapsed = check.elapsed /\ check'.reply = check.reply
          /\ check'.got = check.got
      BY <1>1, <2>4 DEF MediaTypeOK, Checks
    <3> QED
      <4>1. check'.got <= HeadPieces + check'.reply.body
        BY <3>2 DEF MediaIInv, InStep
      <4> QED
        BY <2>1, <2>4, <3>1, <3>2, <4>1, ProbeGoesOn
  <2> QED
    BY <1>4, <2>2, <2>3, <2>4 DEF ReadHead
<1>5. ASSUME ReadBody PROVE MediaIInv'
  <2>1. check.pc = "body" /\ Probing /\ check.got = HeadPieces + check.reply.body /\ Concludes("succeeded")
    BY <1>5 DEF ReadBody, Probing
  <2>2. Described
    BY <2>1 DEF MediaIInv, InStep, Described
  <2> QED
    BY <2>1, <2>2, ProbeInTime, ConcludesKeeps DEF Verdicts, Justified
<1>6. ASSUME ReadFails PROVE MediaIInv'
  <2>1. Probing /\ Concludes("failed")
    BY <1>6 DEF ReadFails, Probing
  <2>2. Described => check.line = "reset"
    <3>1. check.reply.body \in Nat /\ HeadPieces \in Nat /\ check.got \in Nat
      BY <1>1, ReplyTypes, MediaAssumption DEF CheckFields
    <3> QED
      BY <1>6, <3>1 DEF ReadFails, Described
  <2> QED
    BY <2>1, <2>2, ProbeInTime, ConcludesKeeps DEF Verdicts, Justified
<1>7. ASSUME TimeOut PROVE MediaIInv'
  <2>1. Probing /\ Concludes("timed out")
    BY <1>7 DEF TimeOut
  <2> QED
    BY <2>1, ProbeInTime, ConcludesKeeps DEF Verdicts, Justified
<1>8. ASSUME FinishCheck PROVE MediaIInv'
  <2>1. check.pc = "next" /\ statuses' = check.done /\ check' = IdleCheck
    BY <1>8 DEF FinishCheck
  <2>2. MediaTypeOK'
    BY <1>1, <1>8, <2>1, IdleIsInStep DEF FinishCheck, MediaTypeOK, Checks, config, CheckLists
  <2>3. AllHeard'
    BY <2>1, IdleIsInStep DEF MediaIInv, AllHeard
  <2>4. InStep' /\ InTime'
    <3>1. Len(check'.done) = 0 /\ Len(check'.list) = 0 /\ DOMAIN check'.done = {}
      BY <2>1, IdleIsInStep
    <3> QED
      BY <2>1, <3>1, IdleIsInStep DEF InStep, InTime, Probing
  <2> QED
    BY <2>2, <2>3, <2>4 DEF MediaIInv
<1> QED
  BY <1>2, <1>3, <1>4, <1>5, <1>6, <1>7, <1>8 DEF Probe

(* Waiting in line, an answer of the live loop, and what cameras do.         *)
LEMMA WorldKeeps ==
  ASSUME MediaIInv, World
  PROVE  MediaIInv'
<1>1. CheckFields /\ CheckLists /\ MediaTypeOK
  BY FieldTypes DEF MediaIInv
<1>2. ASSUME NEW handler \in Handlers \cup {"live"}, queue' = Append(queue, handler)
      PROVE  queue' \in Seq(Handlers \cup {"live"})
  <2>1. queue \in Seq(Handlers \cup {"live"})
    BY <1>1 DEF MediaTypeOK, Checks
  <2> QED
    BY <1>2, <2>1, AppendProperties
<1>3. ASSUME UNCHANGED <<config, selected, shown, statuses, check>>, MediaTypeOK' PROVE MediaIInv'
  <2>1. AllHeard' /\ InStep' /\ InTime'
    BY <1>3 DEF MediaIInv, AllHeard, InStep, InTime, Probing, Current
  <2> QED
    BY <1>3, <2>1 DEF MediaIInv
<1>4. ASSUME NEW handler \in Handlers, Ask(handler) PROVE MediaIInv'
  <2>1. clicks' \in 0..MaxClicks
    BY <1>1, <1>4, MediaAssumption DEF MediaTypeOK, Checks, Ask
  <2>2. queue' \in Seq(Handlers \cup {"live"})
    BY <1>2, <1>4 DEF Ask
  <2>3. MediaTypeOK'
    BY <1>1, <1>4, <2>1, <2>2 DEF MediaTypeOK, Checks, Ask, config
  <2> QED
    BY <1>3, <1>4, <2>3 DEF Ask
<1>5. ASSUME LivePollEnds PROVE MediaIInv'
  <2>1. queue' \in Seq(Handlers \cup {"live"})
    BY <1>2, <1>5 DEF LivePollEnds
  <2>2. MediaTypeOK'
    BY <1>1, <1>5, <2>1 DEF MediaTypeOK, Checks, LivePollEnds, config
  <2> QED
    BY <1>3, <1>5, <2>2 DEF LivePollEnds
<1>6. ASSUME NEW reply \in Replies, Connected(reply) PROVE MediaIInv'
  <2>1. check.pc = "connecting" /\ check' = [check EXCEPT !.pc = "head", !.reply = reply] /\ OnlyTheCheck
    BY <1>6 DEF Connected
  <2>2. check' \in Checks
    BY <1>1, <2>1 DEF MediaTypeOK, Checks
  <2>3. /\ check'.pc = "head" /\ check'.left = check.left /\ check'.list = check.list
        /\ check'.done = check.done /\ check'.elapsed = check.elapsed /\ check'.reply = reply
        /\ check'.got = check.got
    BY <1>1, <2>1 DEF MediaTypeOK, Checks
  <2>4. check'.got <= HeadPieces + check'.reply.body
    <3>1. check.got = 0
      BY <2>1 DEF MediaIInv, InStep
    <3>2. reply.body \in Nat /\ HeadPieces \in Nat
      BY ReplyTypes, MediaAssumption
    <3> QED
      BY <2>3, <3>1, <3>2
  <2> QED
    BY <2>1, <2>2, <2>3, <2>4, ProbeGoesOn DEF Probing
<1>7. ASSUME ConnectionRefused PROVE MediaIInv'
  <2>1. check.pc = "connecting" /\ Concludes("failed")
    BY <1>7 DEF ConnectionRefused
  <2>2. ~Described /\ Probing
    BY <2>1, ReplyTypes DEF MediaIInv, InStep, Described, Probing
  <2> QED
    BY <2>1, <2>2, ProbeInTime, ConcludesKeeps DEF Verdicts, Justified
<1>8. ASSUME PieceArrives PROVE MediaIInv'
  <2>1. /\ check.pc \in {"head", "body"} /\ check.got < HeadPieces + check.reply.body
        /\ check' = [check EXCEPT !.got = @ + 1] /\ OnlyTheCheck
    BY <1>8 DEF PieceArrives
  <2>2. /\ check'.pc = check.pc /\ check'.left = check.left /\ check'.list = check.list
        /\ check'.done = check.done /\ check'.elapsed = check.elapsed /\ check'.reply = check.reply
        /\ check'.got = check.got + 1
    BY <1>1, <2>1 DEF MediaTypeOK, Checks
  <2>3. check.got + 1 <= HeadPieces + check.reply.body /\ check.got + 1 \in 0..(HeadPieces + MaxBody)
    <3>1. check.reply.body \in 0..MaxBody
      BY <1>1, ReplyTypes DEF CheckFields
    <3>2. check.got \in 0..(HeadPieces + MaxBody) /\ HeadPieces \in Nat /\ MaxBody \in Nat
      BY <1>1, MediaAssumption DEF CheckFields
    <3>3. check.got < HeadPieces + check.reply.body
      BY <2>1
    <3> DEFINE g == check.got
               b == check.reply.body
    <3>4. g \in 0..(HeadPieces + MaxBody) /\ b \in 0..MaxBody /\ g < HeadPieces + b
      BY <3>1, <3>2, <3>3
    <3> HIDE DEF g, b
    <3>5. g + 1 <= HeadPieces + b /\ g + 1 \in 0..(HeadPieces + MaxBody)
      BY <3>2, <3>4
    <3> QED
      BY <3>5 DEF g, b
  <2>4. check' \in Checks
    BY <1>1, <2>1, <2>3 DEF MediaTypeOK, Checks
  <2>5. check'.pc = "body" => check'.reply.ok
    BY <2>2 DEF MediaIInv, InStep
  <2> QED
    BY <2>1, <2>2, <2>3, <2>4, <2>5, ProbeGoesOn DEF Probing
<1>9. ASSUME NEW how \in {"closed", "reset"}, LineEnds(how) PROVE MediaIInv'
  <2>1. /\ check.pc \in {"head", "body"}
        /\ check' = [check EXCEPT !.line = how] /\ OnlyTheCheck
    BY <1>9 DEF LineEnds
  <2>2. /\ check'.pc = check.pc /\ check'.left = check.left /\ check'.list = check.list
        /\ check'.done = check.done /\ check'.elapsed = check.elapsed /\ check'.reply = check.reply
        /\ check'.got = check.got
    BY <1>1, <2>1 DEF MediaTypeOK, Checks
  <2>3. check' \in Checks
    BY <1>1, <1>9, <2>1 DEF MediaTypeOK, Checks
  <2>4. (check'.pc = "body" => check'.reply.ok) /\ check'.got <= HeadPieces + check'.reply.body
    BY <2>2 DEF MediaIInv, InStep
  <2> QED
    BY <2>1, <2>2, <2>3, <2>4, ProbeGoesOn DEF Probing
<1> QED
  BY <1>4, <1>5, <1>6, <1>7, <1>8, <1>9 DEF World

(* Time passes: what the probe has left becomes what the check has taken.    *)
LEMMA TickKeeps ==
  ASSUME MediaIInv, Tick
  PROVE  MediaIInv'
<1>1. CheckFields /\ MediaTypeOK
  BY FieldTypes DEF MediaIInv
<1>2. /\ Probing /\ check.left > 0 /\ OnlyTheCheck
      /\ check' = [check EXCEPT !.left = @ - 1, !.elapsed = @ + 1]
  BY DEF Tick
<1>3. /\ check'.pc = check.pc /\ check'.list = check.list
      /\ check'.done = check.done /\ check'.reply = check.reply /\ check'.got = check.got
      /\ check'.left = check.left - 1 /\ check'.elapsed = check.elapsed + 1
  BY <1>1, <1>2 DEF MediaTypeOK, Checks
<1>4. /\ check.left - 1 \in 0..Timeout /\ check.elapsed + 1 \in Nat
      /\ (check.elapsed + 1) + (check.left - 1) = check.elapsed + check.left
  <2>1. Timeout \in Nat /\ check.left \in 0..Timeout /\ check.elapsed \in Nat /\ check.left > 0
    BY <1>1, <1>2, MediaAssumption DEF CheckFields
  <2> QED
    BY <2>1
<1>5. check' \in Checks
  BY <1>1, <1>2, <1>4 DEF MediaTypeOK, Checks
<1>6. /\ check'.pc = "connecting" => check'.reply = Refusal /\ check'.got = 0
      /\ check'.got <= HeadPieces + check'.reply.body
      /\ check'.pc = "body" => check'.reply.ok
  BY <1>3 DEF MediaIInv, InStep
<1> QED
  BY <1>2, <1>3, <1>4, <1>5, <1>6, ProbeGoesOn DEF Probing

-----------------------------------------------------------------------------
(* The theorems about the check                                            *)

(* The invariant holds when the page is opened.                              *)
LEMMA MediaBegins ==
  ASSUME MediaInit
  PROVE  MediaIInv
<1>1. <<>> \in Seq(Stream) /\ <<>> \in Seq(Status) /\ <<>> \in Seq(Handlers \cup {"live"})
  BY EmptySeq
<1>2. MediaTypeOK
  BY <1>1, IdleIsInStep, MediaAssumption DEF MediaInit, MediaTypeOK, Checks
<1>3. Len(check.done) = 0 /\ Len(check.list) = 0 /\ DOMAIN check.done = {} /\ DOMAIN statuses = {}
  BY IdleIsInStep DEF MediaInit
<1>4. AllHeard
  BY <1>3 DEF AllHeard
<1>5. InStep /\ InTime
  BY <1>3, IdleIsInStep DEF MediaInit, InStep, InTime, Probing
<1> QED
  BY <1>2, <1>4, <1>5 DEF MediaIInv

(* Every step keeps the invariant.                                           *)
LEMMA MediaStepKeeps ==
  ASSUME MediaIInv, [MediaNext]_mediaVars
  PROVE  MediaIInv'
<1>1. ASSUME UNCHANGED mediaVars PROVE MediaIInv'
  BY <1>1 DEF MediaIInv, MediaTypeOK, Checks, AllHeard, InStep, InTime, Probing, Current, mediaVars, config
<1> QED
  BY <1>1, HandlerKeeps, ProbeKeeps, WorldKeeps, TickKeeps DEF MediaNext

(* The check is in step with its streams, in time, and true to its cameras,  *)
(* for any profiles, any timeout and answers of any length.                  *)
THEOREM CheckHolds == MediaSpec => []MediaIInv
<1>1. MediaInit => MediaIInv
  BY MediaBegins
<1>2. MediaIInv /\ [MediaNext]_mediaVars => MediaIInv'
  BY MediaStepKeeps
<1> QED
  BY <1>1, <1>2, PTL DEF MediaSpec

(* The state of the check and of the page keeps its type.                    *)
THEOREM CheckTypes == MediaSpec => []MediaTypeOK
<1>1. MediaIInv => MediaTypeOK
  BY DEF MediaIInv
<1> QED
  BY <1>1, CheckHolds, PTL

(* A stream is online only if its camera described it completely, and a      *)
(* complete description counts unless time was up or the line broke.         *)
THEOREM OnlineMeansDescribed == MediaSpec => []VerdictsAreHeard
<1>1. ASSUME MediaIInv PROVE VerdictsAreHeard
  <2>1. \A i \in DOMAIN statuses : Heard(statuses[i])
    BY <1>1 DEF MediaIInv, AllHeard
  <2>2. \A i \in DOMAIN check.done : Heard(check.done[i])
    BY <1>1 DEF MediaIInv, AllHeard
  <2>3. ASSUME NEW i \in DOMAIN Rows, Rows[i] = "Online"
        PROVE  \E j \in DOMAIN statuses : statuses[j].id = shown[i].id /\ statuses[j].described
    <3>1. /\ shown[i].id \in Configured(statuses)
          /\ StatusOf(statuses, shown[i].id).verdict = "succeeded"
      BY <2>3 DEF Rows
    <3>2. statuses \in Seq(Status)
      BY <1>1 DEF MediaIInv, MediaTypeOK, Checks
    <3>3. PICK j \in DOMAIN statuses :
            StatusOf(statuses, shown[i].id) = statuses[j] /\ statuses[j].id = shown[i].id
      BY <3>1, <3>2, StatusIsFound
    <3> QED
      BY <2>1, <3>1, <3>3 DEF Heard
  <2> QED
    BY <2>1, <2>2, <2>3 DEF VerdictsAreHeard, Heard
<1> QED
  BY <1>1, CheckHolds, PTL

(* A check holds the session up for a timeout per camera that is on at most. *)
THEOREM ChecksEndInTime == MediaSpec => []CheckIsBounded
<1>1. ASSUME MediaIInv PROVE CheckIsBounded
  <2>1. CheckFields /\ CheckLists
    BY <1>1, FieldTypes DEF MediaIInv
  <2>2. {i \in DOMAIN check.list : i <= Len(check.done) + 1 /\ check.list[i].enabled}
          = Asked(check.list, Len(check.done) + 1)
    BY DEF Asked
  <2>3. CASE Probing
    BY <1>1, <2>2, <2>3, ProbeInTime DEF CheckIsBounded, Allowed
  <2>4. CASE check.pc = "next"
    <3>1. check.elapsed <= Allowed(check.list, Len(check.done)) /\ Len(check.done) <= Len(check.list)
      BY <1>1, <2>4 DEF MediaIInv, InTime, InStep
    <3>2. CASE Len(check.done) < Len(check.list)
      <4>1. /\ Allowed(check.list, Len(check.done)) \in Nat
            /\ Allowed(check.list, Len(check.done) + 1) \in Nat
            /\ Allowed(check.list, Len(check.done)) <= Allowed(check.list, Len(check.done) + 1)
        BY <2>1, <3>2, AllowedOneMore DEF CheckLists
      <4>2. check.elapsed \in Nat
        BY <2>1 DEF CheckFields
      <4>3. check.elapsed <= Allowed(check.list, Len(check.done) + 1)
        BY <3>1, <4>1, <4>2
      <4> QED
        BY <2>2, <4>3 DEF CheckIsBounded, Allowed
    <3>3. CASE Len(check.done) = Len(check.list)
      <4>1. Asked(check.list, Len(check.done) + 1) = Asked(check.list, Len(check.done))
        BY <2>1, <3>3 DEF Asked, CheckLists
      <4> QED
        BY <2>2, <3>1, <4>1 DEF CheckIsBounded, Allowed
    <3> QED
      BY <2>1, <3>1, <3>2, <3>3 DEF CheckLists
  <2>5. CASE check.pc = "idle"
    <3>1. check.elapsed = 0 /\ check.list = <<>>
      BY <1>1, <2>5 DEF MediaIInv, InTime, InStep
    <3>2. Asked(check.list, Len(check.done) + 1) = {}
      BY <3>1 DEF Asked
    <3>3. Cardinality({}) = 0 /\ Timeout * 0 = 0
      BY FS_EmptySet, MediaAssumption
    <3> DEFINE asked == {i \in DOMAIN check.list : i <= Len(check.done) + 1 /\ check.list[i].enabled}
    <3>4. asked = {}
      BY <2>2, <3>2
    <3> HIDE DEF asked
    <3>5. check.elapsed <= Timeout * Cardinality(asked)
      BY <3>1, <3>3, <3>4
    <3> QED
      BY <3>5 DEF CheckIsBounded, asked
  <2> QED
    BY <2>1, <2>3, <2>4, <2>5 DEF CheckFields, Probing
<1> QED
  BY <1>1, CheckHolds, PTL

(* A check that ends leaves a status of its own for every stream of the      *)
(* page, in their order.                                                     *)
THEOREM ChecksAnswerAll == MediaSpec => EveryStreamIsAnswered
<1> DEFINE Answered ==
             check.pc # "idle" /\ check'.pc = "idle" =>
               /\ shown' = check.list /\ statuses' = check.done
               /\ Len(statuses') = Len(shown')
               /\ \A i \in DOMAIN shown' : statuses'[i].id = shown'[i].id
<1>1. ASSUME MediaIInv, [MediaNext]_mediaVars PROVE [Answered]_mediaVars
  <2>1. CheckFields /\ CheckLists /\ MediaTypeOK
    BY <1>1, FieldTypes DEF MediaIInv
  <2>2. ASSUME check.pc # "idle", check'.pc = "idle" PROVE FinishCheck
    <3>1. check' # check
      BY <2>2
    <3>2. ~Handler /\ ~(\E handler \in Handlers : Ask(handler)) /\ ~LivePollEnds
      BY <2>2, <3>1 DEF Handler, SelectController, LoadControllerProfile, OpenIntersectionDetail,
         UpdateDeviceProfilesJson, StartCheck, LiveGoesOn, Serves, Ask, LivePollEnds
    <3>3. ASSUME NEW verdict, Concludes(verdict) PROVE FALSE
      BY <2>2, <3>3 DEF Concludes, IdleCheck
    <3>4. ~SkipDisabled /\ ~ReadBody /\ ~ReadFails /\ ~TimeOut /\ ~ConnectionRefused
      BY <3>3 DEF SkipDisabled, ReadBody, ReadFails, TimeOut, ConnectionRefused
    <3>5. ~BeginProbe /\ ~ReadHead
      BY <2>1, <2>2, <3>3 DEF BeginProbe, ReadHead, MediaTypeOK, Checks
    <3>6. ~Tick /\ ~PieceArrives
      BY <2>1, <2>2 DEF Tick, PieceArrives, MediaTypeOK, Checks
    <3>7. ASSUME NEW reply \in Replies, Connected(reply) PROVE FALSE
      BY <2>1, <2>2, <3>7 DEF Connected, MediaTypeOK, Checks
    <3>8. ASSUME NEW how \in {"closed", "reset"}, LineEnds(how) PROVE FALSE
      BY <2>1, <2>2, <3>8 DEF LineEnds, MediaTypeOK, Checks
    <3> QED
      BY <1>1, <3>1, <3>2, <3>4, <3>5, <3>6, <3>7, <3>8 DEF MediaNext, Probe, World, mediaVars
  <2>3. ASSUME FinishCheck PROVE Answered
    <3>1. /\ check.pc = "next" /\ Len(check.done) = Len(check.list)
          /\ statuses' = check.done /\ shown' = shown
      BY <2>3 DEF FinishCheck
    <3>2. shown = check.list /\ \A i \in DOMAIN check.done : check.done[i].id = check.list[i].id
      BY <1>1, <3>1 DEF MediaIInv, InStep
    <3>3. DOMAIN check.list = DOMAIN check.done
      BY <2>1, <3>1 DEF CheckLists
    <3> QED
      BY <3>1, <3>2, <3>3
  <2> QED
    BY <2>2, <2>3
<1> QED
  BY <1>1, CheckHolds, PTL DEF MediaSpec, EveryStreamIsAnswered

=============================================================================
