----------------------------- MODULE HandoffBroker -----------------------------
(***************************************************************************)
(* A broker that watches one inbox file, runs a command when a newer       *)
(* prompt is in it, and keeps what it handled last in a state file, so     *)
(* that it can be stopped and started again.                               *)
(*                                                                         *)
(* The author of the prompts is another program: it writes in place, so    *)
(* that the broker may read any prefix of a prompt, another one at every   *)
(* look, cut within a line and within the digits of a number too; and it   *)
(* may remove the file.                                                    *)
(* The broker may be stopped or die at any step; nothing starts it again   *)
(* by itself.                                                              *)
(***************************************************************************)
EXTENDS Integers, Sequences, FiniteSetsExt

CONSTANTS
  Prompts,     \* what may be written: sequences of lines
  None,        \* no value: Python's None
  MaxWrites,   \* bound of the model: prompts written or removed
  MaxCrashes   \* bound of the model: times the broker is stopped or dies

\* A line is a fence of the front matter, a version, any other text, or the
\* piece of a line that says nothing yet.  What a version line says begins with
\* digits, which have no leading zero, or not, and may go on with more: "12",
\* "12 draft", "draft".
Lines == [kind : {"fence", "version", "text", "piece"},
          digits : Nat \cup {None}, more : BOOLEAN]

\* FileSnapshot and the state file: the digest tells contents apart; here it is
\* the content.
Snapshots == [exists : BOOLEAN, version : Nat \cup {None}, digest : Seq(Lines)]

ASSUME BrokerAssumption ==
  /\ Prompts \subseteq Seq(Lines) /\ None \notin Nat \cup Seq(Lines) \cup Snapshots
  /\ MaxWrites \in Nat /\ MaxCrashes \in Nat

VARIABLES
  inbox,        \* the lines of the file, or None when there is none
  writing,      \* the prompt the author is writing, or None
  disk,         \* the state file: a snapshot, or None when there is none
  previous,     \* previous_snapshot
  current,      \* current_snapshot while its command runs
  pc,           \* where the broker is: down, waiting, running
  last,         \* history: the snapshot handed over or primed last, or None
  saved,        \* history: the one whose command was over, or that was primed
  writes, crashes

author == <<inbox, writing, writes>>
broker == <<disk, previous, current, pc>>
history == <<last, saved>>
vars == <<author, broker, history, crashes>>

-----------------------------------------------------------------------------
(* Snapshots                                                               *)

WindowLines == 40
Window(lines) == SubSeq(lines, 1, IF Len(lines) < WindowLines THEN Len(lines) ELSE WindowLines)

Versions(lines) == {i \in DOMAIN lines : lines[i].kind = "version"}

\* isdigit() and int(): what a version line says is a number, or is none.
Number(line) == IF line.more THEN None ELSE line.digits

\* Faulty: a later line overrides an earlier one.
LastVersion(lines) == Number(lines[Max(Versions(lines))])

\* The number of the first version line, for lines that have one.
FirstVersion(lines) == Number(lines[Min(Versions(lines))])

\* The front matter: what follows a fence in the first line, to the next fence.
FrontMatter(lines) ==
  IF lines = <<>> \/ lines[1].kind # "fence" THEN <<>>
  ELSE LET fences == {i \in 2..Len(lines) : lines[i].kind = "fence"}
       IN  SubSeq(lines, 2, IF fences = {} THEN Len(lines) ELSE Min(fences) - 1)

\* A version of the front matter counts before any other, with a number or not.
ExtractVersion(content) ==
  LET window == Window(content)
      matter == FrontMatter(window)
  IN  IF Versions(matter) # {} THEN FirstVersion(matter)
      ELSE IF Versions(window) # {} THEN FirstVersion(window) ELSE None

NoFile == [exists |-> FALSE, version |-> None, digest |-> <<>>]

Snapshot(file) ==
  IF file = None THEN NoFile
  ELSE [exists |-> TRUE, version |-> ExtractVersion(file), digest |-> file]

ShouldTrigger(now, before) ==
  /\ now.exists
  /\ \/ ~before.exists
     \/ IF now.version # None /\ before.version # None THEN now.version > before.version
        ELSE now.digest # before.digest

-----------------------------------------------------------------------------
(* The author                                                              *)

\* What digits read as when some or none of them are cut off: 12 as 1 or 12.
\* Bound of the model: a number has at most MaxDigits digits more than one.
MaxDigits == 8
Heads(d) == {d} \cup {m \in 1..d : \E k \in 1..MaxDigits : m = d \div (10 ^ k)}

Piece == [kind |-> "piece", digits |-> None, more |-> FALSE]
CutVersion(d) == [kind |-> "version", digits |-> d, more |-> FALSE]

\* A line that is cut: it says nothing, or it is a version line already, that
\* has none, some or all of its digits and not what comes after them.
Cuts(line) ==
  {Piece} \cup
  (IF line.kind # "version" THEN {}
   ELSE {CutVersion(d) : d \in {None} \cup (IF line.digits = None THEN {} ELSE Heads(line.digits))})

\* The prefixes of a prompt, cut between two lines or within one.
Torn(p) ==
  LET cutAt(n) == {SubSeq(p, 1, n)} \cup {Append(SubSeq(p, 1, n), cut) : cut \in Cuts(p[n + 1])}
  IN  UNION {cutAt(n) : n \in 0..(Len(p) - 1)}

\* Of two prefixes of one prompt, the first is the shorter.
Shorter(t, u) ==
  \/ Len(t) < Len(u)
  \/ Len(t) = Len(u) /\ t # u /\ t[Len(t)] \in Cuts(u[Len(u)])

Begin(p) ==
  /\ writes < MaxWrites /\ writing = None
  /\ writes' = writes + 1 /\ writing' = p
  /\ inbox' \in Torn(p)
  /\ UNCHANGED <<broker, history, crashes>>

Continue ==
  /\ writing # None
  /\ \E t \in Torn(writing) : Shorter(inbox, t) /\ inbox' = t
  /\ UNCHANGED <<broker, history, crashes, writing, writes>>

Finish ==
  /\ writing # None
  /\ inbox' = writing /\ writing' = None
  /\ UNCHANGED <<broker, history, crashes, writes>>

Remove ==
  /\ writes < MaxWrites /\ writing = None /\ inbox # None
  /\ writes' = writes + 1 /\ inbox' = None
  /\ UNCHANGED <<broker, history, crashes, writing>>

-----------------------------------------------------------------------------
(* The broker                                                              *)

\* What is in the inbox when there is no state file counts as handled.
Prime(now) ==
  /\ previous' = now
  /\ IF now.exists THEN disk' = now /\ last' = now /\ saved' = now
     ELSE UNCHANGED <<disk, history>>


Start ==
  /\ pc = "down" /\ pc' = "waiting"
  /\ IF disk = None THEN Prime(Snapshot(inbox))
     ELSE previous' = disk /\ UNCHANGED <<disk, history>>
  /\ UNCHANGED <<author, crashes, current>>

\* The command is given the snapshot and may run for any time.
Dispatch ==
  /\ pc = "waiting"
  /\ LET now == Snapshot(inbox)
     IN  /\ ShouldTrigger(now, previous)
         /\ current' = now /\ last' = now
  /\ pc' = "running"
  /\ UNCHANGED <<author, crashes, disk, previous, saved>>

\* Faulty: what is in the inbox after the command counts as handled.
SaveInbox ==
  /\ pc = "running" /\ pc' = "waiting"
  /\ disk' = Snapshot(inbox) /\ previous' = Snapshot(inbox) /\ saved' = last
  /\ UNCHANGED <<author, crashes, current, last>>

\* After the command, whatever it returned; the file is replaced as a whole.
Save ==
  /\ pc = "running" /\ pc' = "waiting"
  /\ disk' = current /\ previous' = current /\ saved' = last
  /\ UNCHANGED <<author, crashes, current, last>>

Down ==
  /\ pc' = "down"
  /\ UNCHANGED <<author, disk, previous, current, history>>

\* It is stopped, during the command or between two looks.
Crash ==
  /\ crashes < MaxCrashes /\ crashes' = crashes + 1
  /\ pc # "down"
  /\ Down

\* The file goes between exists() and read_text(), or a torn one does not decode.
LookRaises ==
  /\ pc = "waiting" /\ (inbox = None \/ writing # None)
  /\ crashes < MaxCrashes /\ crashes' = crashes + 1
  /\ Down

Init ==
  /\ inbox \in {None} \cup Prompts /\ writing = None
  /\ disk = None /\ previous = NoFile /\ current = NoFile /\ pc = "down"
  /\ last = None /\ saved = None
  /\ writes = 0 /\ crashes = 0

Next ==
  \/ \E p \in Prompts : Begin(p)
  \/ Continue \/ Finish \/ Remove
  \/ Start \/ Dispatch \/ Save \/ Crash \/ LookRaises

\* A broker that runs looks again, its command returns, and the author finishes.
Fairness == WF_vars(Dispatch) /\ WF_vars(Save) /\ WF_vars(Finish)

Spec == Init /\ [][Next]_vars /\ Fairness

-----------------------------------------------------------------------------
(* Properties                                                              *)

TypeOK ==
  /\ inbox \in Seq(Lines) \cup {None} /\ writing \in Prompts \cup {None}
  /\ \A s \in {disk, last, saved} : s = None \/ s \in Snapshots
  /\ previous \in Snapshots /\ current \in Snapshots
  /\ pc \in {"down", "waiting", "running"}

\* Two prompts with numbers go by the numbers, all others by what is in them.
Newer(a, b) ==
  IF a.version # None /\ b.version # None THEN a.version > b.version ELSE a.digest # b.digest

(* A prompt with a number that is read while it is written is taken for one   *)
(* without, for an older one, whose number is cut off its own, or for itself:  *)
(* no beginning is newer than the whole, which would then never be handed      *)
(* over.                                                                       *)
TornPromptsAreNoNewer ==
  writing # None /\ ExtractVersion(writing) # None /\ ExtractVersion(inbox) # None
    => ExtractVersion(inbox) <= ExtractVersion(writing)

(* A restart finds in the state file the last prompt whose command was over, *)
(* or that was primed, whatever was cut off since.                           *)
RestartsKnow == disk = saved

(* A prompt is handed over only if it is newer than the one before it, over  *)
(* restarts too; only after one whose command or save was cut off may one    *)
(* follow that is not.                                                       *)
HandoversAreNewer ==
  [][pc = "waiting" /\ pc' = "running" =>
       last # saved \/ last = None \/ Newer(last', last)]_vars


=============================================================================
