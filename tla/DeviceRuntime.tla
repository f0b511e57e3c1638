----------------------------- MODULE DeviceRuntime -----------------------------
(***************************************************************************)
(* The process-wide registry of device objects and their polling loops.    *)
(*                                                                         *)
(* DeviceRuntimeService keeps one long-lived device per runtime key, with  *)
(* the configuration it was made from.  A device may run a polling loop, an *)
(* asyncio task that its _polling_task names.  Every browser session works *)
(* on the same registry from its own copy of the controller profiles: it   *)
(* asks for devices with its own configurations, and drops the keys that   *)
(* its own copy does not list.  The copies meet only in the application    *)
(* setting that each session writes whole and reads when it is opened.     *)
(*                                                                         *)
(* Handlers of one session are serialized by its state lock, held through  *)
(* the awaits of a start.  Its background refreshes are not: they read the *)
(* profiles once and use them controller by controller while handlers run. *)
(* A device object is reused here when nothing refers to it any more.      *)
(***************************************************************************)
EXTENDS Integers, FiniteSets

CONSTANTS
  Sessions,   \* browser sessions
  Keys,       \* runtime keys, device_type::device_id
  Configs,    \* key -> the configurations (address, timeouts) it may be given
  Devices,    \* bound of the model: device objects alive at once
  MaxSweeps,  \* bound of the model: background refreshes at once
  MaxOrphans, \* bound of the model: loops running without an entry
  None        \* Python's None

ASSUME RuntimeAssumption ==
  /\ None \notin Keys /\ None \notin Devices
  /\ \A k \in Keys : None \notin Configs[k]
  /\ MaxOrphans \in Nat /\ MaxSweeps \in Nat

VARIABLES
  saved,     \* the profile list in the application settings
  profiles,  \* session -> its device_profiles_json
  entry,     \* RUNTIME._entries: key -> device, or None
  config,    \* key -> the configuration its device was made from, or None
  polling,   \* device -> its _polling_task, and the loops it really runs
  held,      \* session -> the device a start of its own is connecting to
  todo,      \* session -> the controllers this start has still to do
  sweep      \* session -> the profiles a background refresh has still to use

vars == <<saved, profiles, entry, config, polling, held, todo, sweep>>
registry == <<entry, config, polling>>

\* A profile list: the configuration of every listed controller.
AllConfigs == UNION {Configs[k] : k \in Keys}
ProfileList == {list \in [Keys -> AllConfigs \cup {None}] :
                  \A k \in Keys : list[k] \in Configs[k] \cup {None}}
Listed(list) == {k \in Keys : list[k] # None}
Nothing == [k \in Keys |-> None]

Registered(d) == \E k \in Keys : entry[k] = d
Running(d) == polling[d].loops > 0
Orphans == {d \in Devices : Running(d) /\ ~Registered(d)}

-----------------------------------------------------------------------------
(* DeviceRuntimeService and Device                                         *)

\* stop_polling on the devices of D, p being the polling before: the loop a
\* handle names is cancelled and the handle cleared.
StopPolling(p, D) ==
  [d \in Devices |-> IF d \in D /\ p[d].task
                     THEN [task |-> FALSE, loops |-> p[d].loops - 1] ELSE p[d]]

\* Faulty: the handle is overwritten without looking at it.
StartPollingAgain(d) == [polling EXCEPT ![d] = [task |-> TRUE, loops |-> @.loops + 1]]

\* start_managed_polling after connect() has returned True: unless its loop is
\* running already, the device gets one.  Nothing is awaited in between.
StartPolling(d) ==
  IF polling[d].task THEN polling
  ELSE [polling EXCEPT ![d] = [task |-> TRUE, loops |-> @.loops + 1]]

\* An object nothing refers to stands for the one Device.create makes.
Unused(d) ==
  /\ ~Registered(d) /\ ~Running(d)
  /\ \A s \in Sessions : held[s] # d
NewDevice == CHOOSE d \in Devices : Unused(d)

Reusable(k, c) == entry[k] # None /\ config[k] = c

\* Faulty: the replaced device is left polling.
ReplaceRunning(p, k, c, d) ==
  \/ Reusable(k, c) /\ d = entry[k] /\ polling' = p /\ UNCHANGED <<entry, config>>
  \/ /\ ~Reusable(k, c)
     /\ Unused(d) /\ d = NewDevice
     /\ entry' = [entry EXCEPT ![k] = d]
     /\ config' = [config EXCEPT ![k] = c]
     /\ polling' = p

\* get_or_create returns d: the device of the key if it was made from an equal
\* configuration, else a new one, after stopping the one it replaces.
GetOrCreate(p, k, c, d) ==
  \/ Reusable(k, c) /\ d = entry[k] /\ polling' = p /\ UNCHANGED <<entry, config>>
  \/ /\ ~Reusable(k, c)
     /\ Unused(d) /\ d = NewDevice
     /\ entry' = [entry EXCEPT ![k] = d]
     /\ config' = [config EXCEPT ![k] = c]
     /\ polling' = StopPolling(p, {entry[k]})

\* The entries whose keys the list does not have are deleted.
Retain(list) ==
  /\ entry' = [k \in Keys |-> IF k \in Listed(list) THEN entry[k] ELSE None]
  /\ config' = [k \in Keys |-> IF k \in Listed(list) THEN config[k] ELSE None]

\* Device.create raises for a device type that has no driver, which no device of
\* the key can have had; in the model also when the pool of Devices is used up.
MayRaise(k) == entry[k] = None \/ \A d \in Devices : ~Unused(d)

\* Faulty: the listed controllers start afresh as well.
DropAll(list) ==
  /\ entry' = Nothing /\ config' = Nothing
  /\ polling' = StopPolling(polling, {entry[k] : k \in Keys})

\* sync_runtime_registry: keys the list does not have are dropped and their
\* devices stopped (retain_only).
Sync(list) ==
  /\ Retain(list)
  /\ polling' = StopPolling(polling, {entry[k] : k \in Keys \ Listed(list)})

-----------------------------------------------------------------------------
(* Starting and stopping managed polling                                   *)

\* No start is in progress: the session's lock is free.
Idle(s) == held[s] = None

\* What _selected_device_target may resolve to: a listed controller or, when
\* none is listed, whatever the connection form says.
Targets(s) ==
  IF Listed(profiles[s]) = {} THEN UNION {{k} \X Configs[k] : k \in Keys}
  ELSE {<<k, profiles[s][k]>> : k \in Listed(profiles[s])}

\* s awaits the connection of d, with `rest` left to do.
Await(s, d, rest) ==
  /\ held' = [held EXCEPT ![s] = d]
  /\ todo' = [todo EXCEPT ![s] = rest]
  /\ UNCHANGED <<saved, profiles, sweep>>

StartSelected(s) ==
  /\ Idle(s)
  /\ \E target \in Targets(s), d \in Devices :
       GetOrCreate(polling, target[1], target[2], d) /\ Await(s, d, {})

\* start_fleet_managed_polling, when an administrator asks for it.
StartFleet(s) ==
  /\ Idle(s)
  /\ \E k \in Listed(profiles[s]), d \in Devices :
       GetOrCreate(polling, k, profiles[s][k], d) /\ Await(s, d, Listed(profiles[s]) \ {k})

\* One controller is done, with p the polling now: on to the next one, if any.  A
\* controller without a driver raises and ends the start for the rest as well.
GoOn(s, p) ==
  \/ /\ todo[s] = {}
     /\ polling' = p
     /\ Await(s, None, {})
     /\ UNCHANGED <<entry, config>>
  \/ \E k \in todo[s], d \in Devices :
       GetOrCreate(p, k, profiles[s][k], d) /\ Await(s, d, todo[s] \ {k})
  \/ /\ \E k \in todo[s] : MayRaise(k)
     /\ polling' = p
     /\ Await(s, None, {})
     /\ UNCHANGED <<entry, config>>

\* connect() has returned True or False.  Beyond MaxOrphans loops that no entry
\* names, further devices that lost their entry fail to connect.
Connected(s) ==
  /\ ~Idle(s)
  /\ Registered(held[s]) \/ Cardinality(Orphans) < MaxOrphans
  /\ GoOn(s, StartPolling(held[s]))

ConnectFailed(s) == ~Idle(s) /\ GoOn(s, polling)

\* get_existing looks the key up whatever the configuration.
StopSelected(s) ==
  /\ Idle(s)
  /\ \E target \in Targets(s) : polling' = StopPolling(polling, {entry[target[1]]})
  /\ UNCHANGED <<saved, profiles, entry, config, held, todo, sweep>>

StopFleet(s) ==
  /\ Idle(s)
  /\ polling' = StopPolling(polling, {entry[k] : k \in Listed(profiles[s])})
  /\ UNCHANGED <<saved, profiles, entry, config, held, todo, sweep>>

-----------------------------------------------------------------------------
(* Editing the controller profiles                                         *)

\* The list becomes the session's copy and overwrites the application setting.
Store(s, list) ==
  /\ Idle(s)
  /\ profiles' = [profiles EXCEPT ![s] = list]
  /\ saved' = list
  /\ UNCHANGED <<held, todo, sweep>>

\* save_controller_profile: the profile replaces the one of its key, and the
\* one it was loaded from when it has been renamed.
SaveProfile(s) ==
  \E original \in Keys, k \in Keys : \E c \in Configs[k] :
    LET list == [profiles[s] EXCEPT ![original] = None, ![k] = c]
    IN  Store(s, list) /\ Sync(list)

DeleteProfile(s) ==
  \E k \in Listed(profiles[s]) :
    LET list == [profiles[s] EXCEPT ![k] = None]
    IN  Store(s, list) /\ Sync(list)

\* update_controller_profile_polling_enabled rewrites the list as it is: the
\* flag is not part of a configuration.
TogglePolling(s) ==
  /\ Listed(profiles[s]) # {}
  /\ Store(s, profiles[s])
  /\ Sync(profiles[s])

\* update_device_profiles_json: any list may be typed in; nothing is synced.
EditJson(s) == \E list \in ProfileList : Store(s, list) /\ UNCHANGED registry

\* initialize_controller_profiles: the page is opened or reloaded.
Initialize(s) ==
  /\ Idle(s)
  /\ profiles' = [profiles EXCEPT ![s] = saved]
  /\ Sync(saved)
  /\ UNCHANGED <<saved, held, todo, sweep>>

-----------------------------------------------------------------------------
(* Reading the devices                                                     *)

\* A snapshot, connection check or command of s on its selected controller: the
\* registry is asked for the device before the first await.
Use(s) ==
  /\ Idle(s)
  /\ \E target \in Targets(s), d \in Devices : GetOrCreate(polling, target[1], target[2], d)
  /\ UNCHANGED <<saved, profiles, held, todo, sweep>>

Sweeping == {s \in Sessions : sweep[s] # Nothing}

\* refresh_fleet_status, from the page or from auto_refresh_loop: it syncs the
\* registry and captures the enabled controllers.
BeginSweep(s) ==
  /\ sweep[s] = Nothing /\ Cardinality(Sweeping) < MaxSweeps
  /\ \E enabled \in SUBSET Listed(profiles[s]) :
       sweep' = [sweep EXCEPT ![s] = [k \in Keys |-> IF k \in enabled THEN profiles[s][k] ELSE None]]
  /\ Sync(profiles[s])
  /\ UNCHANGED <<saved, profiles, held, todo>>

\* selected_controller_live_refresh_loop captures its target and lets the
\* session's lock go.
BeginLiveRefresh(s) ==
  /\ Idle(s) /\ sweep[s] = Nothing /\ Cardinality(Sweeping) < MaxSweeps
  /\ \E target \in Targets(s) :
       sweep' = [sweep EXCEPT ![s] = [Nothing EXCEPT ![target[1]] = target[2]]]
  /\ UNCHANGED <<saved, profiles, registry, held, todo>>

\* The refresh comes to a controller it captured; one that raises is shown as an
\* error and the refresh goes on.
SweepOne(s) ==
  /\ \E k \in Listed(sweep[s]) :
       /\ \/ \E d \in Devices : GetOrCreate(polling, k, sweep[s][k], d)
          \/ MayRaise(k) /\ UNCHANGED registry
       /\ sweep' = [sweep EXCEPT ![s][k] = None]
  /\ UNCHANGED <<saved, profiles, held, todo>>

-----------------------------------------------------------------------------
Init ==
  /\ saved \in ProfileList
  /\ profiles = [s \in Sessions |-> saved]
  /\ entry = Nothing
  /\ config = Nothing
  /\ polling = [d \in Devices |-> [task |-> FALSE, loops |-> 0]]
  /\ held = [s \in Sessions |-> None]
  /\ todo = [s \in Sessions |-> {}]
  /\ sweep = [s \in Sessions |-> Nothing]

Next ==
  \E s \in Sessions :
    \/ StartSelected(s) \/ StartFleet(s) \/ Connected(s) \/ ConnectFailed(s)
    \/ StopSelected(s) \/ StopFleet(s)
    \/ SaveProfile(s) \/ DeleteProfile(s) \/ TogglePolling(s) \/ EditJson(s) \/ Initialize(s)
    \/ Use(s) \/ BeginSweep(s) \/ BeginLiveRefresh(s) \/ SweepOne(s)

Spec == Init /\ [][Next]_vars

-----------------------------------------------------------------------------
(* Properties                                                              *)

\* Every variable has its type.
TypeOK ==
  /\ saved \in ProfileList
  /\ profiles \in [Sessions -> ProfileList]
  /\ entry \in [Keys -> Devices \cup {None}]
  /\ config \in ProfileList
  /\ polling \in [Devices -> [task : BOOLEAN, loops : Nat]]
  /\ held \in [Sessions -> Devices \cup {None}]
  /\ todo \in [Sessions -> SUBSET Keys]
  /\ sweep \in [Sessions -> ProfileList]

\* A device runs at most one polling loop, and the one its _polling_task names,
\* however many sessions start it at once: stop_polling, which only knows the
\* handle, always silences the device.
HandlesNameTheLoops ==
  \A d \in Devices : polling[d].loops = IF polling[d].task THEN 1 ELSE 0

\* A device leaves the registry silent: whether its profile was deleted, synced
\* away by another session or got another configuration, its loop is stopped in
\* the same step, as nothing could find it afterwards.
SilentWhenDropped ==
  \A d \in Devices : Registered(d) /\ ~Registered(d)' => ~Running(d)'

LeavesSilently == [][SilentWhenDropped]_vars

\* Everybody's copy of the profiles, the stored one and the refreshes under way
\* have the same configuration c for controller k.
Agreed(k, c) ==
  /\ saved[k] = c
  /\ \A s \in Sessions : profiles[s][k] = c /\ sweep[s][k] \in {c, None}

\* The managed polling of a controller on which all agree is only ended by an
\* operator's stop: not by page loads, refreshes, commands, starts, or edits of
\* other controllers, in any session.
EndsByStopOnly ==
  \A k \in Keys : \A c \in Configs[k] :
    /\ Agreed(k, c) /\ Agreed(k, c)'
    /\ Reusable(k, c) /\ Running(entry[k])
    => \/ entry'[k] = entry[k] /\ Running(entry[k])'
       \/ \E s \in Sessions : StopSelected(s) \/ StopFleet(s)

PollingSurvives == [][EndsByStopOnly]_vars

\* Every polling loop belongs to a registered device, which is what the list of
\* active poll sessions shows and the stop commands look up.
RunningLoopsAreListed == Orphans = {}

================================================================================
