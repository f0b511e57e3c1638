------------------------------ MODULE MediaCheck ------------------------------
(***************************************************************************)
(* The video feeds of the selected controller and the check of their       *)
(* health.  The check asks the cameras one after the other with an RTSP    *)
(* DESCRIBE each, and is an ordinary event handler: it holds the session's *)
(* lock until the last camera has answered or run out of time.  Whatever   *)
(* else wants the session, the live loop's answer included, waits in line. *)
(*                                                                         *)
(* A camera's answer travels in pieces, of which so many make up the head  *)
(* and as many as the head announces make up the body.  Time is counted    *)
(* while a probe runs, and nowhere else.                                   *)
(***************************************************************************)
EXTENDS ProfileLists, FiniteSets

CONSTANTS
  Ids,          \* device ids of profiles
  NoDevice,     \* the empty id
  StreamIds,    \* ids of media streams
  TypedLists,   \* bound of the model: profile lists typed as JSON
  Timeout,      \* timeout_seconds of a stream, in units of the model
  HeadPieces,   \* pieces that make up the head of an answer
  MaxBody,      \* bound of the model: pieces of a body
  MaxClicks     \* bound of the model: operator actions

Stream == [id : StreamIds, enabled : BOOLEAN]

ASSUME MediaAssumption ==
  /\ NoDevice \notin Ids
  /\ TypedLists \subseteq Seq([id : Ids, streams : Seq(Stream)])
  /\ Timeout \in Nat \ {0} /\ HeadPieces \in Nat \ {0}
  /\ MaxBody \in Nat /\ MaxClicks \in Nat

VARIABLES
  profiles,   \* device_profiles_json, parsed; empty when it does not parse
  parses,     \* whether it parses, with every stream in it
  selected,   \* selected_device_id
  shown,      \* selected_controller_media_streams
  statuses,   \* selected_controller_media_statuses
  check,      \* the check that is running, and its probe
  live,       \* the live loop: "polling", or "waiting" with an answer
  queue,      \* who waits for the session's lock, in order
  clicks      \* operator actions so far

config == <<profiles, parses>>
mediaVars == <<config, selected, shown, statuses, check, live, queue, clicks>>

\* What a camera answers: a description of so many pieces, or a head that is not
\* a success, is too large, or cannot be made out.
Description(pieces) == [ok |-> TRUE, body |-> pieces]
Refusal == [ok |-> FALSE, body |-> 0]
Replies == {Description(n) : n \in 0..MaxBody} \cup {Refusal}

IdleCheck == [pc   |-> "idle", list |-> <<>>, done |-> <<>>, left |-> 0, elapsed |-> 0,
              reply |-> Refusal, got |-> 0, line |-> "open"]

Probing == check.pc \in {"connecting", "head", "body"}

-----------------------------------------------------------------------------
(* The streams on the page                                                 *)

\* The streams of the selected controller: none without a selection, without
\* profiles, or when one of them does not parse.
Configs(d) ==
  IF d = NoDevice \/ ~parses \/ profiles = <<>> THEN <<>>
  ELSE ProfileOf(profiles, SelectProfile(profiles, d)).streams

\* Statuses are looked up by stream id; of two with one id the last counts.
StatusOf(list, v) ==
  list[CHOOSE i \in DOMAIN list : list[i].id = v /\ \A j \in DOMAIN list : list[j].id = v => j <= i]

\* The statuses that stay when these streams are shown.
Kept(list, streams) ==
  LET known == Entries(streams, {i \in DOMAIN streams : streams[i].id \in Configured(list)})
  IN  [i \in DOMAIN known |-> StatusOf(list, known[i].id)]

RefreshMediaState(d) ==
  /\ shown' = Configs(d)
  /\ statuses' = Kept(statuses, Configs(d))

\* The label of every row.
Rows ==
  [i \in DOMAIN shown |->
     IF shown[i].id \notin Configured(statuses) THEN "Not Checked"
     ELSE IF StatusOf(statuses, shown[i].id).verdict = "succeeded" THEN "Online" ELSE "Offline"]

-----------------------------------------------------------------------------
(* What waits for the session's lock                                       *)

Handlers == {"select", "open", "load", "edit", "check"}

\* The operator asks for something.
Ask(handler) ==
  /\ clicks < MaxClicks /\ clicks' = clicks + 1
  /\ queue' = Append(queue, handler)
  /\ UNCHANGED <<config, selected, shown, statuses, check, live>>

\* The live loop's poll ended; it needs the lock to go on.
LivePollEnds ==
  /\ live = "polling" /\ live' = "waiting"
  /\ queue' = Append(queue, "live")
  /\ UNCHANGED <<config, selected, shown, statuses, check, clicks>>

\* The first in line has the lock: no check holds it.
Serves(who) ==
  /\ check.pc = "idle"
  /\ queue # <<>> /\ Head(queue) = who
  /\ queue' = Tail(queue)
  /\ UNCHANGED clicks

LiveGoesOn ==
  /\ Serves("live")
  /\ live' = "polling"
  /\ UNCHANGED <<config, selected, shown, statuses, check>>

\* A row, a marker of the map, or the field in the header.
SelectController(d) ==
  /\ Serves("select")
  /\ selected' = d
  /\ RefreshMediaState(d)
  /\ UNCHANGED <<config, check, live>>

OpenIntersectionDetail ==
  /\ Serves("open")
  /\ RefreshMediaState(selected)
  /\ UNCHANGED <<config, selected, check, live>>

\* Loading, saving or deleting a profile moves the selection, and so does a
\* refresh of the fleet; the streams on the page stay as they are.
LoadControllerProfile(d) ==
  /\ Serves("load")
  /\ selected' = d
  /\ UNCHANGED <<config, shown, statuses, check, live>>

UpdateDeviceProfilesJson ==
  /\ Serves("edit")
  /\ \/ parses' = TRUE /\ profiles' \in TypedLists
     \/ parses' = FALSE /\ profiles' = <<>>
  /\ UNCHANGED <<selected, shown, statuses, check, live>>

\* The check keeps the lock when there is anything to check.
StartCheck ==
  /\ Serves("check")
  /\ RefreshMediaState(selected)
  /\ check' = IF Configs(selected) = <<>> THEN IdleCheck
              ELSE [IdleCheck EXCEPT !.pc = "next", !.list = Configs(selected)]
  /\ UNCHANGED <<config, selected, live>>

-----------------------------------------------------------------------------
(* The check, stream by stream                                             *)

Current == check.list[Len(check.done) + 1]

\* The camera said all that it announced, and that it has the stream.
Described == check.reply.ok /\ check.got = HeadPieces + check.reply.body

OnlyTheCheck == UNCHANGED <<config, selected, shown, statuses, live, queue, clicks>>

\* Faulty: a probe that failed ends the check, and its streams stay unchecked.
ConcludesOrRaises(verdict) ==
  /\ IF verdict \in {"succeeded", "disabled"}
     THEN /\ check' = [IdleCheck EXCEPT
                         !.pc = "next", !.list = check.list, !.elapsed = check.elapsed,
                         !.done = Append(check.done,
                                    [id  |-> Current.id, verdict |-> verdict,
                                     described |-> Described, broken |-> check.line = "reset"])]
          /\ UNCHANGED statuses
     ELSE check' = IdleCheck /\ statuses' = <<>>
  /\ UNCHANGED <<config, selected, shown, live, queue, clicks>>

\* The current stream has its status, whatever came of its probe.  Whether the
\* camera had said all, and whether its connection broke, is for the properties.
Concludes(verdict) ==
  /\ check' = [IdleCheck EXCEPT
                 !.pc = "next", !.list = check.list, !.elapsed = check.elapsed,
                 !.done = Append(check.done,
                            [id  |-> Current.id, verdict |-> verdict,
                             described |-> Described, broken |-> check.line = "reset"])]
  /\ OnlyTheCheck

\* The next stream's turn.  A camera that is switched off is not asked.
BeginProbe ==
  /\ check.pc = "next" /\ Len(check.done) < Len(check.list)
  /\ Current.enabled
  /\ check' = [check EXCEPT !.pc = "connecting", !.left = Timeout]
  /\ OnlyTheCheck

SkipDisabled ==
  /\ check.pc = "next" /\ Len(check.done) < Len(check.list)
  /\ ~Current.enabled
  /\ Concludes("disabled")

\* Faulty: every stage has its own timeout and the probe has none.
ConnectedWithFullTimeout(reply) ==
  /\ check.pc = "connecting"
  /\ check' = [check EXCEPT !.pc = "head", !.reply = reply, !.left = Timeout]
  /\ OnlyTheCheck

\* The connection is there and the request is sent; what the camera is going to
\* say is not known to the probe yet.
Connected(reply) ==
  /\ check.pc = "connecting"
  /\ check' = [check EXCEPT !.pc = "head", !.reply = reply]
  /\ OnlyTheCheck

ConnectionRefused == check.pc = "connecting" /\ Concludes("failed")

\* Faulty: a head that says the stream is there is enough.
ReadHeadOnly ==
  /\ check.pc = "head" /\ check.got >= HeadPieces
  /\ Concludes(IF check.reply.ok THEN "succeeded" ELSE "failed")

\* The head is complete and read at once.  One that is malformed or too large,
\* and an answer that is not a success, raise.
ReadHead ==
  /\ check.pc = "head" /\ check.got >= HeadPieces
  /\ \/ ~check.reply.ok /\ Concludes("failed")
     \/ check.reply.ok /\ check.reply.body = 0 /\ Concludes("succeeded")
     \/ /\ check.reply.ok /\ check.reply.body > 0
        /\ check' = [check EXCEPT !.pc = "body"]
        /\ OnlyTheCheck

ReadBody ==
  /\ check.pc = "body" /\ check.got = HeadPieces + check.reply.body
  /\ Concludes("succeeded")

\* The camera hung up before the part that is being read was complete, or the
\* connection broke, in which case it does not matter what had arrived.
ReadFails ==
  /\ \/ check.pc = "head" /\ check.line = "closed" /\ check.got < HeadPieces
     \/ check.pc = "body" /\ check.line = "closed" /\ check.got < HeadPieces + check.reply.body
     \/ check.pc \in {"head", "body"} /\ check.line = "reset"
  /\ Concludes("failed")

\* Faulty: only the connection is waited for with a timeout.
TimeOutWhileConnecting ==
  /\ check.pc = "connecting" /\ check.left = 0
  /\ Concludes("timed out")

\* The time of the whole probe is up, at whichever stage it is.
TimeOut ==
  /\ Probing /\ check.left = 0
  /\ Concludes("timed out")

\* The statuses of this check take the place of the earlier ones.
FinishCheck ==
  /\ check.pc = "next" /\ Len(check.done) = Len(check.list)
  /\ statuses' = check.done
  /\ check' = IdleCheck
  /\ UNCHANGED <<config, selected, shown, live, queue, clicks>>

-----------------------------------------------------------------------------
(* The camera, the network and the time                                    *)

PieceArrives ==
  /\ check.pc \in {"head", "body"} /\ check.line = "open"
  /\ check.got < HeadPieces + check.reply.body
  /\ check' = [check EXCEPT !.got = @ + 1]
  /\ OnlyTheCheck

LineEnds(how) ==
  /\ check.pc \in {"head", "body"} /\ check.line = "open"
  /\ check' = [check EXCEPT !.line = how]
  /\ OnlyTheCheck

\* The event loop runs a timer when it is due, not later.
Tick ==
  /\ Probing /\ check.left > 0
  /\ check' = [check EXCEPT !.left = @ - 1, !.elapsed = @ + 1]
  /\ OnlyTheCheck

-----------------------------------------------------------------------------

MediaInit ==
  /\ profiles \in TypedLists /\ parses = TRUE
  /\ selected \in Ids \cup {NoDevice}
  /\ shown = <<>> /\ statuses = <<>>
  /\ check = IdleCheck
  /\ live = "polling"
  /\ queue = <<>>
  /\ clicks = 0

\* Steps that come because the event loop runs what is ready and time passes.
Handler ==
  \/ \E d \in Ids \cup {NoDevice} : SelectController(d) \/ LoadControllerProfile(d)
  \/ OpenIntersectionDetail
  \/ UpdateDeviceProfilesJson
  \/ StartCheck
  \/ LiveGoesOn

Probe == BeginProbe \/ SkipDisabled \/ ReadHead \/ ReadBody \/ ReadFails \/ TimeOut \/ FinishCheck

\* What cameras do and when the live loop's poll ends is up to them.
World ==
  \/ \E handler \in Handlers : Ask(handler)
  \/ LivePollEnds
  \/ \E reply \in Replies : Connected(reply)
  \/ ConnectionRefused
  \/ PieceArrives
  \/ \E how \in {"closed", "reset"} : LineEnds(how)

MediaNext == Handler \/ Probe \/ Tick \/ World

Fairness == WF_mediaVars(Handler) /\ WF_mediaVars(Probe) /\ WF_mediaVars(Tick)

MediaSpec == MediaInit /\ [][MediaNext]_mediaVars /\ Fairness

-----------------------------------------------------------------------------
(* Properties                                                              *)

Status == [id : StreamIds, verdict : {"succeeded", "failed", "timed out", "disabled"},
           described : BOOLEAN, broken : BOOLEAN]

Checks ==
  [pc : {"idle", "next", "connecting", "head", "body"}, list : Seq(Stream), done : Seq(Status),
   left : 0..Timeout, elapsed : Nat, reply : Replies, got : 0..(HeadPieces + MaxBody),
   line : {"open", "closed", "reset"}]

MediaTypeOK ==
  /\ profiles \in TypedLists \cup {<<>>} /\ parses \in BOOLEAN
  /\ selected \in Ids \cup {NoDevice}
  /\ shown \in Seq(Stream) /\ statuses \in Seq(Status)
  /\ check \in Checks
  /\ live \in {"polling", "waiting"}
  /\ queue \in Seq(Handlers \cup {"live"})
  /\ clicks \in 0..MaxClicks

\* However an answer is cut into pieces, and whatever happens to its line, a
\* stream is online on the page only if its camera described it completely; and
\* a complete description that came to nothing was met by the end of the probe's
\* time or by a broken line.
VerdictsAreHeard ==
  /\ \A list \in {statuses, check.done} : \A i \in DOMAIN list :
       LET s == list[i] IN
       /\ s.verdict = "succeeded" => s.described
       /\ s.described => s.verdict \in {"succeeded", "timed out"} \/ s.broken
  /\ \A i \in DOMAIN Rows : Rows[i] = "Online" =>
       \E j \in DOMAIN statuses : statuses[j].id = shown[i].id /\ statuses[j].described

\* A check keeps the session waiting for one timeout per camera that is switched
\* on at most, wherever in their answers the cameras get stuck.
CheckIsBounded ==
  check.elapsed <= Timeout * Cardinality({i \in DOMAIN check.list :
                                            i <= Len(check.done) + 1 /\ check.list[i].enabled})

\* When a check ends every stream it was for has a status of its own, made by
\* this check, and they are the streams on the page: one camera that fails spoils
\* nothing for the others.
EveryStreamIsAnswered ==
  [][check.pc # "idle" /\ check'.pc = "idle" =>
       /\ shown' = check.list /\ statuses' = check.done
       /\ Len(statuses') = Len(shown')
       /\ \A i \in DOMAIN shown' : statuses'[i].id = shown'[i].id]_mediaVars

\* Cameras that hang, and however many checks are asked for, do not stop the
\* live updates for good: an answer that waits for the session gets it.
LiveUpdatesGoOn == live = "waiting" ~> live = "polling"

=============================================================================
