----------------------------- MODULE FleetRefresh -----------------------------
(***************************************************************************)
(* The monitor of one operator's session: the controller that is selected, *)
(* the panel that shows it, the cache of statuses behind the fleet's cards *)
(* and map, and the two kinds of background loop that fill them.           *)
(*                                                                         *)
(* An event handler of the session holds the session's lock from start to  *)
(* end and is one step.  A background loop holds it only inside its `async *)
(* with self` blocks: it reads its instructions in one step, polls without *)
(* the lock, and applies the results in another, and handlers and other    *)
(* loops run in between.  Waiters for the lock are served in order, so     *)
(* that a loop that ends its last block drops its flag before any loop     *)
(* that is asked for afterwards can look at it: one step here.             *)
(*                                                                         *)
(* Most handlers, and every result of a poll, redraw the table of the      *)
(* configuration page, and putting it in order raises when the order is by *)
(* address and the addresses are not comparable: what was written until    *)
(* then stays, the rest of the step is left out, and a loop ends.  Whether *)
(* the table can be put in order is one bit here; addresses, filters and   *)
(* sort keys are in ControllerPages.                                       *)
(*                                                                         *)
(* What an operator types into the profile form is an input of the action  *)
(* that reads it, except for the two fields that other handlers read.  The *)
(* panel is the controller it describes and whether that one is online; a  *)
(* poll that raises and an answer that says offline are the same where the *)
(* code makes them the same.                                               *)
(***************************************************************************)
EXTENDS ProfileLists, FiniteSets

CONSTANTS
  Ids,           \* device ids of profiles
  NoDevice,      \* the empty id
  SingleDevice,  \* the id that stands in when there are no profiles at all
  LiveLoops,     \* tasks of selected_controller_live_refresh_loop
  FleetLoops,    \* tasks of auto_refresh_loop
  MaxProfiles,   \* bound of the model: length of a list typed as JSON
  MaxClicks      \* bound of the model: operator actions

ASSUME FleetAssumption ==
  /\ NoDevice \notin Ids /\ SingleDevice \notin Ids /\ NoDevice # SingleDevice
  /\ MaxProfiles \in Nat /\ MaxClicks \in Nat

VARIABLES
  profiles,      \* device_profiles_json, parsed; empty when it does not parse
  parses,        \* whether it parses
  sortable,      \* whether the table can be put in order
  numbers,       \* whether port, timeout and retries of the single controller are numbers
  selected,      \* selected_device_id
  form,          \* controller_profile_original_device_id and the checkbox
  detail,        \* monitor_view = "intersection"
  enabled,       \* auto_refresh_enabled
  panel,         \* the selected controller's live fields and the top bar
  cache,         \* fleet_status_by_id: whether each controller in it is online
  live,          \* the tasks of the live loop
  liveRunning,   \* selected_controller_live_refresh_running
  fleet,         \* the tasks of the fleet loop
  fleetRunning,  \* auto_refresh_running
  clicks         \* operator actions so far

config == <<profiles, parses, sortable>>
loops == <<live, liveRunning, fleet, fleetRunning>>
fleetVars == <<config, numbers, selected, form, detail, enabled, panel, cache, loops, clicks>>

Profile == [id : Ids, polling : BOOLEAN]
Polled == Ids \cup {SingleDevice}
Lists == UNION {[1..n -> Profile] : n \in 0..MaxProfiles}

NoPanel == [of |-> NoDevice, online |-> FALSE]

IdleLive == [pc |-> "idle", sel |-> NoDevice, target |-> NoDevice]
IdleFleet == [pc |-> "idle", sel |-> NoDevice, list |-> <<>>]

\* The task that the next request starts; which one makes no difference.
Free(tasks) == CHOOSE t \in DOMAIN tasks : tasks[t].pc = "idle"

\* Loops that are past their guard.
LiveActive == {l \in LiveLoops : live[l].pc \in {"checking", "polling"}}
FleetActive ==
  {f \in FleetLoops : fleet[f].pc \in {"checking", "capturing", "refused", "polling"}}

\* Who is polled for the selection; without profiles, the address of the form.
ResolveTarget(list, d) == IF list = <<>> THEN SingleDevice ELSE SelectProfile(list, d)

-----------------------------------------------------------------------------
(* Handlers of the session                                                 *)

\* Addresses change with the list; without one there is nothing to compare.
Rearranged == sortable' \in BOOLEAN /\ (profiles' = <<>> => sortable')

\* What a text of the list can hold.
Typed ==
  /\ \/ parses' = TRUE /\ profiles' \in Lists
     \/ parses' = FALSE /\ profiles' = <<>>
  /\ Rearranged

\* The panel is emptied when another controller is chosen.
ResetPanel(d) == panel' = IF d # selected THEN NoPanel ELSE panel

\* Loading a profile also selects it; an unknown id leaves the form alone.
FormOf(list, d) ==
  IF d \in Configured(list)
  THEN [original |-> d, polling |-> ProfileOf(list, d).polling]
  ELSE form

\* Live updates follow the checkbox of the form, and a task is asked for when
\* they are on.
LiveRefreshEvent(polling) ==
  /\ enabled' = polling
  /\ IF polling
     THEN /\ \E l \in LiveLoops : live[l].pc = "idle"
          /\ live' = [live EXCEPT ![Free(live)] = [IdleLive EXCEPT !.pc = "starting"]]
     ELSE UNCHANGED live
  /\ UNCHANGED <<liveRunning, fleet, fleetRunning>>

\* A row, a marker of the map, or a selection the map left in local storage;
\* what is drawn may be the list of an earlier refresh.  The selection is made
\* before the profile is loaded, which draws the table first.
SelectController(d) ==
  /\ d \in Configured(profiles) \cup DOMAIN cache
  /\ ResetPanel(d)
  /\ selected' = d
  /\ detail' = TRUE
  /\ IF sortable THEN form' = FormOf(profiles, d) /\ LiveRefreshEvent(form'.polling)
                 ELSE UNCHANGED <<form, enabled, loops>>
  /\ UNCHANGED <<config, cache>>

\* The text field in the monitor's header, which takes any id.
UpdateSelectedDeviceId(d) ==
  /\ ResetPanel(d)
  /\ selected' = d
  /\ UNCHANGED <<config, form, detail, enabled, cache, loops>>

\* The address of the single controller; a text that is no number is kept.
UpdateConnectionForm ==
  /\ numbers' = ~numbers
  /\ UNCHANGED <<config, selected, form, detail, enabled, panel, cache, loops>>

BackToDashboard ==
  /\ detail' = FALSE
  /\ UNCHANGED <<config, selected, form, enabled, panel, cache, loops>>

LoadControllerProfile(d) ==
  /\ d \in Configured(profiles) /\ sortable
  /\ form' = FormOf(profiles, d)
  /\ selected' = d
  /\ UNCHANGED <<config, detail, enabled, panel, cache, loops>>

NewControllerProfile ==
  /\ form' = [original |-> NoDevice, polling |-> TRUE]
  /\ UNCHANGED <<config, selected, detail, enabled, panel, cache, loops>>

\* d and polling are what the form holds, whose address must be a literal.
SaveControllerProfile(d, polling) ==
  /\ parses
  /\ LET kept == IF form.original \notin {NoDevice, d} THEN Remove(profiles, form.original)
                                                       ELSE profiles
     IN  profiles' = Upsert(kept, [id |-> d, polling |-> polling])
  /\ sortable' \in BOOLEAN /\ (Len(profiles') = 1 => sortable')
  /\ form' = [original |-> d, polling |-> polling]
  /\ selected' = d
  /\ UNCHANGED <<parses, detail, enabled, panel, cache, loops>>

\* d is what the form holds, which counts when no profile was loaded.
DeleteControllerProfile(d) ==
  LET target == IF form.original = NoDevice THEN d ELSE form.original IN
  /\ parses /\ target \in Configured(profiles)
  /\ profiles' = Remove(profiles, target)
  /\ Rearranged /\ (sortable => sortable')
  /\ selected' = IF selected = target THEN NoDevice ELSE selected
  /\ form' = [original |-> NoDevice, polling |-> TRUE]
  /\ UNCHANGED <<parses, detail, enabled, panel, cache, loops>>

\* The switch of the monitor, which acts on the profile in the form.  Live
\* updates follow once the table is drawn.
UpdateControllerProfilePollingEnabled(v) ==
  LET target == IF form.original = NoDevice THEN selected ELSE form.original IN
  /\ parses /\ target \in Configured(profiles)
  /\ profiles' = WithPolling(profiles, target, v)
  /\ form' = [form EXCEPT !.polling = v]
  /\ IF sortable THEN LiveRefreshEvent(v) ELSE UNCHANGED <<enabled, loops>>
  /\ UNCHANGED <<parses, sortable, selected, detail, panel, cache>>

\* d and polling are what the form holds, saved or not.
OpenSelectedControllerStatus(d, polling) ==
  /\ ResetPanel(d)
  /\ selected' = d
  /\ detail' = TRUE
  /\ form' = [form EXCEPT !.polling = polling]
  /\ LiveRefreshEvent(polling)
  /\ UNCHANGED <<config, cache>>

UpdateDeviceProfilesJson ==
  /\ Typed
  /\ UNCHANGED <<selected, form, detail, enabled, panel, cache, loops>>

\* The filters and the sort keys of the table.
ArrangeTable ==
  /\ profiles # <<>>
  /\ sortable' = ~sortable
  /\ UNCHANGED <<profiles, parses, selected, form, detail, enabled, panel, cache, loops>>

\* The page is loaded again, its session kept.  Its list is the one that is
\* stored, where there is one; a table that cannot be drawn ends the handler,
\* with a loop or without.  d is what the form holds.
InitializeControllerProfiles(d) ==
  /\ UNCHANGED config \/ Typed
  /\ LET hint == CASE selected # NoDevice      -> selected
                   [] form.original # NoDevice -> form.original
                   [] OTHER                    -> d
         chosen == SelectProfile(profiles', hint)
     IN  IF profiles' = <<>> \/ ~sortable'
         THEN UNCHANGED <<selected, form>>
         ELSE selected' = chosen /\ form' = FormOf(profiles', chosen)
  /\ fleetRunning' = IF sortable' THEN FALSE ELSE fleetRunning
  /\ IF enabled /\ sortable'
     THEN /\ \E f \in FleetLoops : fleet[f].pc = "idle"
          /\ fleet' = [fleet EXCEPT ![Free(fleet)] = [IdleFleet EXCEPT !.pc = "starting"]]
     ELSE UNCHANGED fleet
  /\ UNCHANGED <<detail, enabled, panel, cache, live, liveRunning>>

-----------------------------------------------------------------------------
(* The live loop of the selected controller                                *)

LiveGoto(l, pc) == live' = [live EXCEPT ![l] = [IdleLive EXCEPT !.pc = pc]]

\* Faulty: the flag is raised and not looked at.
LiveStartUnguarded(l) ==
  /\ live[l].pc = "starting"
  /\ LiveGoto(l, "checking")
  /\ liveRunning' = TRUE
  /\ UNCHANGED <<config, selected, form, detail, enabled, panel, cache, fleet, fleetRunning>>

\* Only one task goes past its guard.
LiveStart(l) ==
  /\ live[l].pc = "starting"
  /\ LiveGoto(l, IF liveRunning THEN "idle" ELSE "checking")
  /\ liveRunning' = TRUE
  /\ UNCHANGED <<config, selected, form, detail, enabled, panel, cache, fleet, fleetRunning>>

\* Faulty: the loop goes on when live updates are off.
LiveWantedAlways == selected # NoDevice /\ detail /\ parses /\ numbers

\* The single controller is read from its form even when the list has another
\* one to poll: a text that is no number ends the loop as well.
LiveWanted == enabled /\ selected # NoDevice /\ detail /\ parses /\ numbers

\* A cycle begins: whom to poll is settled under the lock, or the task ends.
LiveCheck(l) ==
  /\ live[l].pc = "checking"
  /\ \/ /\ LiveWanted
        /\ live' = [live EXCEPT ![l] = [pc     |-> "polling", sel |-> selected,
                                        target |-> ResolveTarget(profiles, selected)]]
        /\ UNCHANGED liveRunning
     \/ /\ ~LiveWanted
        /\ LiveGoto(l, "idle")
        /\ liveRunning' = FALSE
  /\ UNCHANGED <<config, selected, form, detail, enabled, panel, cache, fleet, fleetRunning>>

\* The panel and the cache are written.  Then the table is drawn, or the loop
\* ends there.
Show(l, online) ==
  /\ panel' = [of |-> live[l].target, online |-> online]
  /\ cache' = [d \in DOMAIN cache \cup {live[l].target} |->
                 IF d = live[l].target THEN online ELSE cache[d]]
  /\ LiveGoto(l, IF sortable THEN "checking" ELSE "idle")
  /\ liveRunning' = (sortable /\ liveRunning)

\* Faulty: every answer is applied.
LiveApplyAlways(l, online) ==
  /\ live[l].pc = "polling"
  /\ Show(l, online)
  /\ UNCHANGED <<config, selected, form, detail, enabled, fleet, fleetRunning>>

\* Faulty: a late answer ends the loop, break in place of continue.
LiveApplyOrEnd(l, online) ==
  /\ live[l].pc = "polling"
  /\ \/ selected = live[l].sel /\ Show(l, online)
     \/ /\ selected # live[l].sel
        /\ LiveGoto(l, "idle")
        /\ liveRunning' = FALSE
        /\ UNCHANGED <<panel, cache>>
  /\ UNCHANGED <<config, selected, form, detail, enabled, fleet, fleetRunning>>

\* The poll answered.  An answer for a controller that is no longer selected
\* is dropped.
LiveApply(l, online) ==
  /\ live[l].pc = "polling"
  /\ \/ selected = live[l].sel /\ Show(l, online)
     \/ /\ selected # live[l].sel
        /\ LiveGoto(l, "checking")
        /\ UNCHANGED <<panel, cache, liveRunning>>
  /\ UNCHANGED <<config, selected, form, detail, enabled, fleet, fleetRunning>>

\* The poll raised: only notices change.
LiveFail(l) ==
  /\ live[l].pc = "polling"
  /\ LiveGoto(l, "checking")
  /\ UNCHANGED <<config, selected, form, detail, enabled, panel, cache, liveRunning,
                 fleet, fleetRunning>>

-----------------------------------------------------------------------------
(* The fleet loop                                                          *)

FleetGoto(f, pc) == fleet' = [fleet EXCEPT ![f] = [IdleFleet EXCEPT !.pc = pc]]

FleetStart(f) ==
  /\ fleet[f].pc = "starting"
  /\ FleetGoto(f, IF fleetRunning THEN "idle" ELSE "checking")
  /\ fleetRunning' = TRUE
  /\ UNCHANGED <<config, selected, form, detail, enabled, panel, cache, live, liveRunning>>

FleetCheck(f) ==
  /\ fleet[f].pc = "checking"
  /\ FleetGoto(f, IF enabled THEN "capturing" ELSE "idle")
  /\ fleetRunning' = IF enabled THEN fleetRunning ELSE FALSE
  /\ UNCHANGED <<config, selected, form, detail, enabled, panel, cache, live, liveRunning>>

\* The profiles and the selection are read without the lock.
FleetCapture(f) ==
  /\ fleet[f].pc = "capturing"
  /\ fleet' = [fleet EXCEPT ![f] =
                 [pc   |-> IF parses THEN "polling" ELSE "refused", list |-> profiles,
                  sel  |-> IF profiles = <<>> THEN NoDevice ELSE SelectProfile(profiles, selected)]]
  /\ UNCHANGED <<config, selected, form, detail, enabled, panel, cache, live, liveRunning,
                 fleetRunning>>

\* The list did not parse: nothing is polled, and no table is drawn.
FleetRefused(f) ==
  /\ fleet[f].pc = "refused"
  /\ cache' = <<>>
  /\ FleetGoto(f, "checking")
  /\ UNCHANGED <<config, selected, form, detail, enabled, panel, live, liveRunning, fleetRunning>>

\* Every controller of the list was polled in turn; one whose polling is off
\* counts as offline.
Results(list) ==
  {r \in [Configured(list) -> BOOLEAN] :
     \A d \in Configured(list) : (\A i \in DOMAIN list : list[i].id = d => ~list[i].polling) => ~r[d]}

\* The loop goes on, or ends where the table could not be drawn.
FleetGoOn(f) ==
  /\ FleetGoto(f, IF sortable THEN "checking" ELSE "idle")
  /\ fleetRunning' = (sortable /\ fleetRunning)

\* Faulty: the panel of the selection is left as it was.
FleetCommitWithoutPanel(f) ==
  /\ fleet[f].pc = "polling"
  /\ cache' \in Results(fleet[f].list)
  /\ selected' = IF fleet[f].list = <<>> THEN selected ELSE fleet[f].sel
  /\ FleetGoOn(f)
  /\ UNCHANGED <<config, form, detail, enabled, panel, live, liveRunning>>

\* The result is written in one block: the selection that was read before the
\* polls, the cache, and, unless the table stops it, the panel of that
\* selection.
FleetCommit(f) ==
  /\ fleet[f].pc = "polling"
  /\ LET list == fleet[f].list
         sel  == fleet[f].sel
     IN  \E results \in Results(list) :
           /\ cache' = results
           /\ selected' = IF list = <<>> THEN selected ELSE sel
           /\ panel' = IF list = <<>> \/ ~sortable THEN panel
                       ELSE [of |-> sel, online |-> results[sel]]
  /\ FleetGoOn(f)
  /\ UNCHANGED <<config, form, detail, enabled, live, liveRunning>>

-----------------------------------------------------------------------------

FleetInit ==
  /\ profiles \in Lists /\ parses = TRUE /\ sortable = TRUE /\ numbers = TRUE
  /\ selected = NoDevice
  /\ form = [original |-> NoDevice, polling |-> TRUE]
  /\ detail = FALSE
  /\ enabled = FALSE
  /\ panel = NoPanel
  /\ cache = <<>>
  /\ live = [l \in LiveLoops |-> IdleLive] /\ liveRunning = FALSE
  /\ fleet = [f \in FleetLoops |-> IdleFleet] /\ fleetRunning = FALSE
  /\ clicks = 0

Handler ==
  \/ \E d \in Ids \cup {NoDevice} : UpdateSelectedDeviceId(d)
  \/ \E d \in Ids : \/ SelectController(d)
                    \/ LoadControllerProfile(d)
                    \/ DeleteControllerProfile(d)
                    \/ InitializeControllerProfiles(d)
  \/ \E d \in Ids, b \in BOOLEAN : \/ SaveControllerProfile(d, b)
                                   \/ OpenSelectedControllerStatus(d, b)
  \/ \E b \in BOOLEAN : UpdateControllerProfilePollingEnabled(b)
  \/ BackToDashboard
  \/ NewControllerProfile
  \/ UpdateDeviceProfilesJson
  \/ ArrangeTable

Operator ==
  /\ clicks < MaxClicks /\ clicks' = clicks + 1
  /\ \/ Handler /\ UNCHANGED numbers
     \/ UpdateConnectionForm

LiveStep(l) ==
  /\ LiveStart(l) \/ LiveCheck(l) \/ (\E b \in BOOLEAN : LiveApply(l, b)) \/ LiveFail(l)
  /\ UNCHANGED <<numbers, clicks>>

FleetStep(f) ==
  /\ \/ FleetStart(f) \/ FleetCheck(f)
     \/ FleetCapture(f) \/ FleetRefused(f) \/ FleetCommit(f)
  /\ UNCHANGED <<numbers, clicks>>

FleetNext ==
  \/ Operator
  \/ \E l \in LiveLoops : LiveStep(l)
  \/ \E f \in FleetLoops : FleetStep(f)

\* Tasks are scheduled, polls end, and sleeps are finite.  It is enough that
\* some task of each kind goes on.
Fairness ==
  /\ WF_fleetVars(\E l \in LiveLoops : LiveStep(l))
  /\ WF_fleetVars(\E f \in FleetLoops : FleetStep(f))

FleetSpec == FleetInit /\ [][FleetNext]_fleetVars /\ Fairness

-----------------------------------------------------------------------------
(* Properties                                                              *)

FleetTypeOK ==
  /\ profiles \in Seq(Profile) /\ parses \in BOOLEAN
  /\ sortable \in BOOLEAN /\ numbers \in BOOLEAN
  /\ selected \in Ids \cup {NoDevice}
  /\ form \in [original : Ids \cup {NoDevice}, polling : BOOLEAN]
  /\ detail \in BOOLEAN /\ enabled \in BOOLEAN
  /\ panel \in [of : Polled \cup {NoDevice}, online : BOOLEAN]
  /\ DOMAIN cache \subseteq Polled /\ \A d \in DOMAIN cache : cache[d] \in BOOLEAN
  /\ live \in [LiveLoops -> [pc     : {"idle", "starting", "checking", "polling"},
                             sel    : Ids \cup {NoDevice},
                             target : Polled \cup {NoDevice}]]
  /\ fleet \in [FleetLoops -> [pc   : {"idle", "starting", "checking", "capturing", "refused",
                                       "polling"},
                               sel  : Ids \cup {NoDevice},
                               list : Seq(Profile)]]
  /\ liveRunning \in BOOLEAN /\ fleetRunning \in BOOLEAN /\ clicks \in Nat

\* However often live updates are asked for, and whatever ends a loop, one task
\* at most polls the selected controller, and the flag that keeps a second one
\* out is up exactly while it does: it is never left up without a loop, which
\* would end live updates for the rest of the session.
OneLiveLoop ==
  /\ \A l, m \in LiveActive : l = m
  /\ liveRunning <=> LiveActive # {}

\* The fleet's flag has no such exclusion behind it (a page load takes it down
\* and starts another task), but it too is never up without a loop.
FleetFlagHasALoop == fleetRunning => FleetActive # {}

\* The two flags tell the truth about the loops they stand for (the guards at
\* the head of selected_controller_live_refresh_loop and auto_refresh_loop,
\* and what takes the flags down).
FlagsAreTrue == OneLiveLoop /\ FleetFlagHasALoop

\* While a controller is in the panel and in the cache, both say online or both
\* do not.
Agree == panel.of \in DOMAIN cache \ {NoDevice} => panel.online = cache[panel.of]

\* A refresh of the fleet ends between the two, at a table it cannot draw.
BreaksOff == ~sortable /\ \E f \in FleetLoops : fleet[f].pc = "polling" /\ fleet'[f].pc = "idle"

\* The top bar and the fleet's cards, which two loops and the handlers write,
\* come to contradict each other in one way only: a refresh wrote the cards and
\* broke off before the top bar.  Whatever then writes the top bar, an answer
\* of the live loop, a refresh that gets through or another selection, puts
\* them right, also when that answer breaks off in its turn.
TopBarAgreesWithCards ==
  [][/\ Agree /\ ~Agree' => BreaksOff
     /\ panel' # panel => Agree']_fleetVars

\* A poll that was sent for one selection changes nothing once another one is
\* made, not even the fleet's cards.
LateAnswersAreDropped ==
  [][\A l \in LiveLoops :
       live[l].pc = "polling" /\ live'[l].pc # "polling" /\ selected # live[l].sel
         => UNCHANGED <<panel, cache, selected>>]_fleetVars

\* When live updates are off for good, every loop comes to its end.
LoopsEnd ==
  (<>[]~enabled) => <>[](LiveActive = {} /\ FleetActive = {})

\* A live loop goes over to the controller that is selected: while live updates
\* are on, the detail page shows a controller, and the form of the single one
\* holds numbers, a task that was started comes to poll that one, also when it
\* was polling another when the selection moved.  Only a table that cannot be
\* drawn ends it before.
LiveLoopFollows ==
  LiveWanted /\ (\E l \in LiveLoops : live[l].pc # "idle")
    ~> \/ ~LiveWanted \/ ~sortable
       \/ \E l \in LiveLoops : live[l].pc = "polling" /\ live[l].sel = selected

=============================================================================
