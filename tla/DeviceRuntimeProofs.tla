-------------------------- MODULE DeviceRuntimeProofs --------------------------
(***************************************************************************)
(* Proofs about DeviceRuntime, for any sessions, controllers and           *)
(* configurations.  The invariant says that handles tell the truth about   *)
(* loops, that keys do not share devices, and that a start in progress     *)
(* only has listed controllers left.  Every action is either a use of the  *)
(* registry (GetOrCreate) or a sync of it (Sync), whose effects two lemmas *)
(* state once.                                                             *)
(***************************************************************************)
EXTENDS DeviceRuntime, TLAPS

\* Polling handles and loops p in which no loop runs without a handle.
Sound(p) ==
  /\ p \in [Devices -> [task : BOOLEAN, loops : Nat]]
  /\ \A d \in Devices : p[d].loops = IF p[d].task THEN 1 ELSE 0

\* Two controllers never share a device object.
OwnDevices == \A j, k \in Keys : entry[j] # None /\ entry[j] = entry[k] => j = k

\* A start in progress has only listed controllers left to do.
TodoIsListed ==
  \A s \in Sessions : /\ todo[s] \subseteq Listed(profiles[s])
                      /\ Idle(s) => todo[s] = {}

IInv == TypeOK /\ HandlesNameTheLoops /\ OwnDevices /\ TodoIsListed

\* What a step does to the registry alone.
RegistryInv ==
  /\ entry \in [Keys -> Devices \cup {None}]
  /\ config \in ProfileList
  /\ Sound(polling)
  /\ OwnDevices

-----------------------------------------------------------------------------
(* Lemmas about the registry                                               *)

\* Stopping devices silences them and touches no other.
LEMMA StopPollingEffect ==
  ASSUME NEW p, Sound(p), NEW D
  PROVE  /\ Sound(StopPolling(p, D))
         /\ \A d \in Devices : IF d \in D THEN StopPolling(p, D)[d].loops = 0
                               ELSE StopPolling(p, D)[d] = p[d]
  BY DEF Sound, StopPolling

\* Starting a device leaves no second loop and ends none.
LEMMA StartPollingEffect ==
  ASSUME Sound(polling), NEW d \in Devices
  PROVE  /\ Sound(StartPolling(d))
         /\ \A e \in Devices : StartPolling(d)[e].loops >= polling[e].loops
  BY DEF Sound, StartPolling

\* A profile list with one entry rewritten is a profile list.
LEMMA RewrittenList ==
  ASSUME NEW list \in ProfileList, NEW k \in Keys, NEW c \in Configs[k] \cup {None}
  PROVE  [list EXCEPT ![k] = c] \in ProfileList
  BY DEF ProfileList, AllConfigs

\* get_or_create keeps the registry in order, lets a device go only silent, and
\* ends the polling of no controller but its own under another configuration.
LEMMA GetOrCreateEffect ==
  ASSUME RuntimeAssumption, RegistryInv, NEW STATE p, Sound(p),
         \A e \in Devices : p[e].loops >= polling[e].loops,
         NEW k \in Keys, NEW STATE c, c \in Configs[k], NEW d \in Devices,
         GetOrCreate(p, k, c, d)
  PROVE  /\ RegistryInv' /\ SilentWhenDropped
         /\ \A j \in Keys : \A b : Reusable(j, b) /\ Running(entry[j]) /\ (j = k => b = c) =>
              entry'[j] = entry[j] /\ Running(entry[j])'
<1>1. CASE Reusable(k, c) /\ polling' = p /\ UNCHANGED <<entry, config>>
  <2>1. RegistryInv' BY <1>1 DEF RegistryInv, OwnDevices, Sound
  <2>2. SilentWhenDropped BY <1>1 DEF SilentWhenDropped, Registered
  <2>3. \A j \in Keys : Running(entry[j]) /\ entry[j] # None => Running(entry[j])'
    BY <1>1 DEF RegistryInv, Running, Sound
  <2> QED BY <1>1, <2>1, <2>2, <2>3 DEF Reusable
<1>2. CASE /\ ~Reusable(k, c) /\ Unused(d)
           /\ entry' = [entry EXCEPT ![k] = d]
           /\ config' = [config EXCEPT ![k] = c]
           /\ polling' = StopPolling(p, {entry[k]})
  <2>0. /\ \A e \in Devices : IF e = entry[k] THEN polling'[e].loops = 0
                              ELSE polling'[e] = p[e]
        /\ Sound(polling)'
    BY <1>2, StopPollingEffect DEF Sound
  <2>1. RegistryInv'
    <3>1. config' \in ProfileList BY <1>2, RewrittenList DEF RegistryInv
    <3>2. OwnDevices' BY <1>2 DEF RegistryInv, OwnDevices, Unused, Registered
    <3> QED BY <1>2, <2>0, <3>1, <3>2 DEF RegistryInv
  <2>2. SilentWhenDropped
    <3>1. ASSUME NEW e \in Devices, Registered(e), ~Registered(e)'
          PROVE  ~Running(e)'
      <4>1. PICK j \in Keys : entry[j] = e BY <3>1 DEF Registered
      <4>2. entry'[j] # e BY <3>1, <4>1 DEF Registered
      <4>3. j = k BY <1>2, <4>1, <4>2 DEF RegistryInv
      <4> QED BY <2>0, <4>1, <4>3 DEF Running
    <3> QED BY <3>1 DEF SilentWhenDropped
  <2>3. ASSUME NEW j \in Keys, NEW b, Reusable(j, b), Running(entry[j]), j = k => b = c
        PROVE  entry'[j] = entry[j] /\ Running(entry[j])'
    <3>1. j # k BY <1>2, <2>3
    <3>2. entry'[j] = entry[j] BY <1>2, <3>1 DEF RegistryInv
    <3>3. entry[j] \in Devices /\ entry[j] # entry[k]
      BY <2>3, <3>1 DEF RegistryInv, Reusable, OwnDevices
    <3>4. polling'[entry[j]] = p[entry[j]] BY <2>0, <3>3
    <3> QED BY <2>3, <3>2, <3>3, <3>4 DEF Running, RegistryInv, Sound
  <2> QED BY <2>1, <2>2, <2>3
<1> QED BY <1>1, <1>2 DEF GetOrCreate

\* A sync keeps the registry in order, drops devices silently, and ends the
\* polling of no controller on the list.
LEMMA SyncEffect ==
  ASSUME RuntimeAssumption, RegistryInv, NEW STATE list, list \in ProfileList, Sync(list)
  PROVE  /\ RegistryInv' /\ SilentWhenDropped
         /\ \A k \in Listed(list) : \A c : Reusable(k, c) /\ Running(entry[k]) =>
              entry'[k] = entry[k] /\ Running(entry[k])'
<1> DEFINE Dropped == {entry[k] : k \in Keys \ Listed(list)}
<1>0. /\ entry' = [k \in Keys |-> IF k \in Listed(list) THEN entry[k] ELSE None]
      /\ config' = [k \in Keys |-> IF k \in Listed(list) THEN config[k] ELSE None]
      /\ polling' = StopPolling(polling, Dropped)
  BY DEF Sync, Retain
<1>1. /\ \A d \in Devices : IF d \in Dropped THEN polling'[d].loops = 0
                            ELSE polling'[d] = polling[d]
      /\ Sound(polling)'
  BY <1>0, StopPollingEffect DEF RegistryInv, Sound
<1>2. RegistryInv'
  <2>1. config' \in ProfileList BY <1>0 DEF RegistryInv, ProfileList
  <2>2. OwnDevices' BY <1>0 DEF RegistryInv, OwnDevices
  <2> QED BY <1>0, <1>1, <2>1, <2>2 DEF RegistryInv
<1>3. SilentWhenDropped
  BY <1>0, <1>1 DEF SilentWhenDropped, Registered, Running, RegistryInv
<1>4. ASSUME NEW k \in Listed(list), NEW c, Reusable(k, c), Running(entry[k])
      PROVE  entry'[k] = entry[k] /\ Running(entry[k])'
  <2>1. k \in Keys /\ entry[k] \in Devices BY <1>4 DEF Listed, Reusable, RegistryInv
  <2>2. entry[k] \notin Dropped BY <1>4, <2>1 DEF RegistryInv, OwnDevices, Reusable
  <2> QED BY <1>0, <1>1, <1>4, <2>1, <2>2 DEF Running
<1> QED BY <1>2, <1>3, <1>4

-----------------------------------------------------------------------------
(* The inductive invariant                                                 *)

\* What every step achieves besides keeping the invariant.
StepProperties == SilentWhenDropped /\ EndsByStopOnly

LEMMA InvariantSplits == IInv <=> /\ RegistryInv /\ TodoIsListed
                                  /\ saved \in ProfileList
                                  /\ profiles \in [Sessions -> ProfileList]
                                  /\ held \in [Sessions -> Devices \cup {None}]
                                  /\ todo \in [Sessions -> SUBSET Keys]
                                  /\ sweep \in [Sessions -> ProfileList]
  BY DEF IInv, RegistryInv, TypeOK, HandlesNameTheLoops, Sound

LEMMA InvariantComposes ==
  ASSUME RegistryInv', TodoIsListed', saved' \in ProfileList,
         profiles' \in [Sessions -> ProfileList],
         held' \in [Sessions -> Devices \cup {None}],
         todo' \in [Sessions -> SUBSET Keys],
         sweep' \in [Sessions -> ProfileList]
  PROVE  IInv'
  BY DEF IInv, RegistryInv, TypeOK, HandlesNameTheLoops, Sound

\* The empty list, and the configurations of listed controllers.
LEMMA ListFacts ==
  ASSUME RuntimeAssumption
  PROVE  /\ Nothing \in ProfileList
         /\ \A list \in ProfileList, k \in Keys : list[k] \in Configs[k] \cup {None}
  BY DEF RuntimeAssumption, ProfileList, Nothing, AllConfigs

\* What _selected_device_target resolves to is a key with a configuration for
\* it, the agreed one when there is an agreed one.
LEMMA TargetFacts ==
  ASSUME RuntimeAssumption, IInv, NEW s \in Sessions, NEW target \in Targets(s)
  PROVE  /\ target[1] \in Keys /\ target[2] \in Configs[target[1]]
         /\ \A c \in Configs[target[1]] : Agreed(target[1], c) => target[2] = c
<1>0. profiles[s] \in ProfileList BY DEF IInv, TypeOK
<1>1. CASE Listed(profiles[s]) = {}
  <2>1. \A k \in Keys : profiles[s][k] = None BY <1>1 DEF Listed
  <2>2. PICK k \in Keys : target \in {k} \X Configs[k] BY <1>1 DEF Targets
  <2> QED BY <2>1, <2>2 DEF Agreed, RuntimeAssumption
<1>2. CASE Listed(profiles[s]) # {}
  <2>1. PICK k \in Listed(profiles[s]) : target = <<k, profiles[s][k]>>
    BY <1>2 DEF Targets
  <2> QED BY <1>0, <2>1, ListFacts DEF Agreed, Listed
<1> QED BY <1>1, <1>2

LEMMA InitInvariant == ASSUME RuntimeAssumption, Init PROVE IInv
<1>1. RegistryInv
  BY ListFacts DEF Init, RegistryInv, Sound, OwnDevices, Nothing
<1> QED BY <1>1, ListFacts, InvariantSplits DEF Init, TodoIsListed, Idle

\* A step that uses the registry, on p the polling of the moment, with the
\* agreed configuration where there is one.
LEMMA UseStep ==
  ASSUME RuntimeAssumption, IInv, NEW STATE p, Sound(p),
         \A e \in Devices : p[e].loops >= polling[e].loops,
         NEW k \in Keys, NEW STATE c, c \in Configs[k], NEW d \in Devices,
         GetOrCreate(p, k, c, d),
         \A b \in Configs[k] : Agreed(k, b) => c = b
  PROVE  RegistryInv' /\ StepProperties
<1>1. RegistryInv BY InvariantSplits
<1>2. /\ RegistryInv' /\ SilentWhenDropped
      /\ \A j \in Keys : \A b : Reusable(j, b) /\ Running(entry[j]) /\ (j = k => b = c) =>
           entry'[j] = entry[j] /\ Running(entry[j])'
  BY <1>1, GetOrCreateEffect
<1>3. EndsByStopOnly BY <1>2 DEF EndsByStopOnly
<1> QED BY <1>2, <1>3 DEF StepProperties

\* A step that syncs the registry with a list that has the agreed controllers.
LEMMA SyncStep ==
  ASSUME RuntimeAssumption, IInv, NEW STATE list, list \in ProfileList, Sync(list),
         \A k \in Keys : \A b \in Configs[k] : Agreed(k, b) /\ Agreed(k, b)' => k \in Listed(list)
  PROVE  RegistryInv' /\ StepProperties
<1>1. RegistryInv BY InvariantSplits
<1>2. /\ RegistryInv' /\ SilentWhenDropped
      /\ \A k \in Listed(list) : \A c : Reusable(k, c) /\ Running(entry[k]) =>
           entry'[k] = entry[k] /\ Running(entry[k])'
  BY <1>1, SyncEffect
<1>3. EndsByStopOnly BY <1>2 DEF EndsByStopOnly
<1> QED BY <1>2, <1>3 DEF StepProperties

\* A step that leaves the entries alone and ends no loop.
LEMMA QuietStep ==
  ASSUME RuntimeAssumption, IInv, Sound(polling)', UNCHANGED <<entry, config>>,
         \A e \in Devices : polling'[e].loops >= polling[e].loops
  PROVE  RegistryInv' /\ StepProperties
<1>0. RegistryInv BY InvariantSplits
<1>1. RegistryInv' BY <1>0 DEF RegistryInv, OwnDevices
<1>2. SilentWhenDropped BY DEF SilentWhenDropped, Registered
<1>3. \A k \in Keys : entry[k] # None /\ Running(entry[k]) => Running(entry[k])'
  BY <1>0 DEF RegistryInv, Running, Sound
<1>4. EndsByStopOnly BY <1>3 DEF EndsByStopOnly, Reusable
<1> QED BY <1>1, <1>2, <1>4 DEF StepProperties

\* One controller of a start is done, its loop started or not.
LEMMA GoOnStep ==
  ASSUME RuntimeAssumption, IInv, NEW s \in Sessions, NEW STATE p, Sound(p),
         \A e \in Devices : p[e].loops >= polling[e].loops, GoOn(s, p)
  PROVE  IInv' /\ StepProperties
<1>0. /\ profiles \in [Sessions -> ProfileList] /\ todo \in [Sessions -> SUBSET Keys]
      /\ held \in [Sessions -> Devices \cup {None}] /\ TodoIsListed
      /\ saved \in ProfileList /\ sweep \in [Sessions -> ProfileList]
  BY DEF IInv, TypeOK
<1>1. CASE polling' = p /\ UNCHANGED <<entry, config>> /\ Await(s, None, {})
  <2>1. RegistryInv' /\ StepProperties
    <3>1. Sound(polling)' BY <1>1 DEF Sound
    <3> QED BY <1>1, <3>1, QuietStep
  <2>2. TodoIsListed' BY <1>0, <1>1 DEF Await, TodoIsListed, Idle, Listed
  <2> QED BY <1>0, <1>1, <2>1, <2>2, InvariantComposes DEF Await
<1>2. ASSUME NEW k \in todo[s], NEW d \in Devices,
             GetOrCreate(p, k, profiles[s][k], d), Await(s, d, todo[s] \ {k})
      PROVE  IInv' /\ StepProperties
  <2>1. k \in Keys /\ profiles[s][k] \in Configs[k]
    BY <1>0, ListFacts DEF TodoIsListed, Listed
  <2>2. \A b \in Configs[k] : Agreed(k, b) => profiles[s][k] = b BY DEF Agreed
  <2>3. RegistryInv' /\ StepProperties BY <1>2, <2>1, <2>2, UseStep
  <2>4. TodoIsListed' BY <1>0, <1>2 DEF Await, TodoIsListed, Idle, Listed, RuntimeAssumption
  <2> QED BY <1>0, <1>2, <2>3, <2>4, InvariantComposes DEF Await
<1> QED BY <1>1, <1>2 DEF GoOn

\* An edit of the profiles, stored and followed by a sync.
LEMMA EditStep ==
  ASSUME RuntimeAssumption, IInv, NEW s \in Sessions,
         NEW STATE list, list \in ProfileList, Store(s, list), Sync(list)
  PROVE  IInv' /\ StepProperties
<1>0. /\ profiles \in [Sessions -> ProfileList] /\ todo \in [Sessions -> SUBSET Keys]
      /\ held \in [Sessions -> Devices \cup {None}] /\ TodoIsListed
      /\ saved \in ProfileList /\ sweep \in [Sessions -> ProfileList]
  BY DEF IInv, TypeOK
<1>1. \A k \in Keys : \A b \in Configs[k] : Agreed(k, b)' => k \in Listed(list)
  BY <1>0 DEF Agreed, Store, Listed, RuntimeAssumption
<1>2. RegistryInv' /\ StepProperties BY <1>1, SyncStep
<1>3. TodoIsListed' BY <1>0 DEF Store, TodoIsListed, Idle, Listed
<1> QED BY <1>0, <1>2, <1>3, InvariantComposes DEF Store

LEMMA NextKeeps ==
  ASSUME RuntimeAssumption, IInv, [Next]_vars
  PROVE  IInv' /\ StepProperties
<1>0. /\ profiles \in [Sessions -> ProfileList] /\ saved \in ProfileList
      /\ sweep \in [Sessions -> ProfileList] /\ held \in [Sessions -> Devices \cup {None}]
      /\ todo \in [Sessions -> SUBSET Keys]
      /\ RegistryInv /\ TodoIsListed /\ Sound(polling)
      /\ \A e \in Devices : polling[e].loops >= polling[e].loops
  BY InvariantSplits DEF RegistryInv, Sound
<1>1. ASSUME NEW s \in Sessions, StartSelected(s) PROVE IInv' /\ StepProperties
  <2>1. PICK target \in Targets(s), d \in Devices :
          GetOrCreate(polling, target[1], target[2], d) /\ Await(s, d, {})
    BY <1>1 DEF StartSelected
  <2>2. RegistryInv' /\ StepProperties
    <3>1. /\ target[1] \in Keys /\ target[2] \in Configs[target[1]]
          /\ \A b \in Configs[target[1]] : Agreed(target[1], b) => target[2] = b
      BY TargetFacts
    <3> DEFINE k == target[1]  c == target[2]
    <3>2. k \in Keys /\ c \in Configs[k] /\ GetOrCreate(polling, k, c, d) BY <2>1, <3>1
    <3>3. \A b \in Configs[k] : Agreed(k, b) => c = b BY <3>1
    <3> HIDE DEF k, c
    <3> QED BY <1>0, <3>2, <3>3, UseStep
  <2>3. TodoIsListed' BY <1>0, <2>1 DEF Await, TodoIsListed, Idle, Listed
  <2> QED BY <1>0, <2>1, <2>2, <2>3, InvariantComposes DEF Await
<1>2. ASSUME NEW s \in Sessions, StartFleet(s) PROVE IInv' /\ StepProperties
  <2>1. PICK k \in Listed(profiles[s]), d \in Devices :
          /\ GetOrCreate(polling, k, profiles[s][k], d)
          /\ Await(s, d, Listed(profiles[s]) \ {k})
    BY <1>2 DEF StartFleet
  <2>2. k \in Keys /\ profiles[s][k] \in Configs[k] BY <1>0, ListFacts DEF Listed
  <2>3. \A b \in Configs[k] : Agreed(k, b) => profiles[s][k] = b BY DEF Agreed
  <2>4. RegistryInv' /\ StepProperties BY <1>0, <2>1, <2>2, <2>3, UseStep
  <2>5. TodoIsListed' BY <1>0, <2>1 DEF Await, TodoIsListed, Idle, Listed, RuntimeAssumption
  <2>6. todo' \in [Sessions -> SUBSET Keys] BY <1>0, <2>1 DEF Await, Listed
  <2> QED BY <1>0, <2>1, <2>4, <2>5, <2>6, InvariantComposes DEF Await
<1>3. ASSUME NEW s \in Sessions, Connected(s) PROVE IInv' /\ StepProperties
  <2>1. held[s] \in Devices BY <1>0, <1>3 DEF Connected, Idle
  <2> QED BY <1>0, <1>3, <2>1, StartPollingEffect, GoOnStep DEF Connected
<1>4. ASSUME NEW s \in Sessions, ConnectFailed(s) PROVE IInv' /\ StepProperties
  BY <1>0, <1>4, GoOnStep DEF ConnectFailed
<1>5. ASSUME NEW s \in Sessions, NEW D, polling' = StopPolling(polling, D),
             UNCHANGED <<saved, profiles, entry, config, held, todo, sweep>>,
             StopSelected(s) \/ StopFleet(s)
      PROVE  IInv' /\ StepProperties
  <2>1. Sound(polling)' BY <1>0, <1>5, StopPollingEffect DEF Sound
  <2>2. RegistryInv' BY <1>0, <1>5, <2>1 DEF RegistryInv, OwnDevices
  <2>3. SilentWhenDropped BY <1>5 DEF SilentWhenDropped, Registered
  <2>4. EndsByStopOnly BY <1>5 DEF EndsByStopOnly
  <2>5. TodoIsListed' BY <1>0, <1>5 DEF TodoIsListed, Idle, Listed
  <2> QED BY <1>0, <1>5, <2>2, <2>3, <2>4, <2>5, InvariantComposes DEF StepProperties
<1>6. ASSUME NEW s \in Sessions, StopSelected(s) PROVE IInv' /\ StepProperties
  BY <1>5, <1>6 DEF StopSelected
<1>7. ASSUME NEW s \in Sessions, StopFleet(s) PROVE IInv' /\ StepProperties
  BY <1>5, <1>7 DEF StopFleet
<1>8. ASSUME NEW s \in Sessions, SaveProfile(s) PROVE IInv' /\ StepProperties
  <2>1. PICK original \in Keys, k \in Keys : \E c \in Configs[k] :
          LET list == [profiles[s] EXCEPT ![original] = None, ![k] = c]
          IN  Store(s, list) /\ Sync(list)
    BY <1>8 DEF SaveProfile
  <2>2. PICK c \in Configs[k] :
          LET list == [profiles[s] EXCEPT ![original] = None, ![k] = c]
          IN  Store(s, list) /\ Sync(list)
    BY <2>1
  <2> DEFINE list == [profiles[s] EXCEPT ![original] = None, ![k] = c]
  <2>3. list \in ProfileList BY <1>0 DEF ProfileList, AllConfigs
  <2> HIDE DEF list
  <2>4. Store(s, list) /\ Sync(list) BY <2>2 DEF list
  <2> QED BY <2>3, <2>4, EditStep
<1>9. ASSUME NEW s \in Sessions, DeleteProfile(s) PROVE IInv' /\ StepProperties
  <2>1. PICK k \in Listed(profiles[s]) :
          LET list == [profiles[s] EXCEPT ![k] = None]
          IN  Store(s, list) /\ Sync(list)
    BY <1>9 DEF DeleteProfile
  <2> DEFINE list == [profiles[s] EXCEPT ![k] = None]
  <2>2. list \in ProfileList BY <1>0 DEF ProfileList, AllConfigs
  <2> HIDE DEF list
  <2>3. Store(s, list) /\ Sync(list) BY <2>1 DEF list
  <2> QED BY <2>2, <2>3, EditStep
<1>10. ASSUME NEW s \in Sessions, TogglePolling(s) PROVE IInv' /\ StepProperties
  BY <1>0, <1>10, EditStep DEF TogglePolling
<1>11. ASSUME NEW s \in Sessions, EditJson(s) PROVE IInv' /\ StepProperties
  <2>1. PICK list \in ProfileList : Store(s, list) /\ UNCHANGED registry
    BY <1>11 DEF EditJson
  <2>2. RegistryInv' /\ StepProperties
    <3>1. UNCHANGED <<entry, config>> /\ Sound(polling)' BY <1>0, <2>1 DEF registry, Sound
    <3>2. \A e \in Devices : polling'[e].loops >= polling[e].loops BY <1>0, <2>1 DEF registry
    <3> QED BY <3>1, <3>2, QuietStep
  <2>3. TodoIsListed' BY <1>0, <2>1 DEF Store, TodoIsListed, Idle, Listed
  <2> QED BY <1>0, <2>1, <2>2, <2>3, InvariantComposes DEF Store
<1>12. ASSUME NEW s \in Sessions, Initialize(s) PROVE IInv' /\ StepProperties
  <2>1. \A k \in Keys : \A b \in Configs[k] : Agreed(k, b) => k \in Listed(saved)
    BY DEF Agreed, Listed, RuntimeAssumption
  <2>2. RegistryInv' /\ StepProperties BY <1>0, <1>12, <2>1, SyncStep DEF Initialize
  <2>3. TodoIsListed' BY <1>0, <1>12 DEF Initialize, TodoIsListed, Idle, Listed
  <2> QED BY <1>0, <1>12, <2>2, <2>3, InvariantComposes DEF Initialize
<1>13. ASSUME NEW s \in Sessions, Use(s) PROVE IInv' /\ StepProperties
  <2>1. PICK target \in Targets(s), d \in Devices :
          GetOrCreate(polling, target[1], target[2], d)
    BY <1>13 DEF Use
  <2>2. RegistryInv' /\ StepProperties
    <3>1. /\ target[1] \in Keys /\ target[2] \in Configs[target[1]]
          /\ \A b \in Configs[target[1]] : Agreed(target[1], b) => target[2] = b
      BY TargetFacts
    <3> DEFINE k == target[1]  c == target[2]
    <3>2. k \in Keys /\ c \in Configs[k] /\ GetOrCreate(polling, k, c, d) BY <2>1, <3>1
    <3>3. \A b \in Configs[k] : Agreed(k, b) => c = b BY <3>1
    <3> HIDE DEF k, c
    <3> QED BY <1>0, <3>2, <3>3, UseStep
  <2>3. TodoIsListed' BY <1>0, <1>13 DEF Use, TodoIsListed, Idle, Listed
  <2> QED BY <1>0, <1>13, <2>2, <2>3, InvariantComposes DEF Use
<1>14. ASSUME NEW s \in Sessions, BeginSweep(s) PROVE IInv' /\ StepProperties
  <2>1. PICK enabled \in SUBSET Listed(profiles[s]) :
          sweep' = [sweep EXCEPT ![s] = [k \in Keys |-> IF k \in enabled THEN profiles[s][k] ELSE None]]
    BY <1>14 DEF BeginSweep
  <2>2. sweep' \in [Sessions -> ProfileList] BY <1>0, <2>1 DEF ProfileList
  <2>3. \A k \in Keys : \A b \in Configs[k] : Agreed(k, b) => k \in Listed(profiles[s])
    BY DEF Agreed, Listed, RuntimeAssumption
  <2>4. RegistryInv' /\ StepProperties BY <1>0, <1>14, <2>3, SyncStep DEF BeginSweep
  <2>5. TodoIsListed' BY <1>0, <1>14 DEF BeginSweep, TodoIsListed, Idle, Listed
  <2> QED BY <1>0, <1>14, <2>2, <2>4, <2>5, InvariantComposes DEF BeginSweep
<1>15. ASSUME NEW s \in Sessions, BeginLiveRefresh(s) PROVE IInv' /\ StepProperties
  <2>1. PICK target \in Targets(s) :
          sweep' = [sweep EXCEPT ![s] = [Nothing EXCEPT ![target[1]] = target[2]]]
    BY <1>15 DEF BeginLiveRefresh
  <2>2. sweep' \in [Sessions -> ProfileList]
    BY <1>0, <2>1, TargetFacts, ListFacts, RewrittenList
  <2>3. RegistryInv' /\ StepProperties
    <3>1. UNCHANGED registry BY <1>15 DEF BeginLiveRefresh
    <3>2. UNCHANGED <<entry, config>> /\ Sound(polling)' BY <1>0, <3>1 DEF registry, Sound
    <3>3. \A e \in Devices : polling'[e].loops >= polling[e].loops BY <1>0, <3>1 DEF registry
    <3> QED BY <3>2, <3>3, QuietStep
  <2>4. TodoIsListed' BY <1>0, <1>15 DEF BeginLiveRefresh, TodoIsListed, Idle, Listed
  <2> QED BY <1>0, <1>15, <2>2, <2>3, <2>4, InvariantComposes DEF BeginLiveRefresh
<1>16. ASSUME NEW s \in Sessions, SweepOne(s) PROVE IInv' /\ StepProperties
  <2>1. PICK k \in Listed(sweep[s]) :
          /\ \/ \E d \in Devices : GetOrCreate(polling, k, sweep[s][k], d)
             \/ MayRaise(k) /\ UNCHANGED registry
          /\ sweep' = [sweep EXCEPT ![s][k] = None]
    BY <1>16 DEF SweepOne
  <2>2. k \in Keys /\ sweep[s][k] \in Configs[k] BY <1>0, ListFacts DEF Listed
  <2>3. sweep' \in [Sessions -> ProfileList] BY <1>0, <2>1, <2>2, RewrittenList
  <2>4. \A b \in Configs[k] : Agreed(k, b) => sweep[s][k] = b
    BY <2>1 DEF Agreed, Listed
  <2>5. RegistryInv' /\ StepProperties
    <3>1. ASSUME NEW d \in Devices, GetOrCreate(polling, k, sweep[s][k], d)
          PROVE  RegistryInv' /\ StepProperties
      BY <1>0, <2>2, <2>4, <3>1, UseStep
    <3>2. CASE UNCHANGED registry
      <4>1. UNCHANGED <<entry, config>> /\ Sound(polling)' BY <1>0, <3>2 DEF registry, Sound
      <4>2. \A e \in Devices : polling'[e].loops >= polling[e].loops BY <1>0, <3>2 DEF registry
      <4> QED BY <4>1, <4>2, QuietStep
    <3> QED BY <2>1, <3>1, <3>2
  <2>6. TodoIsListed' BY <1>0, <1>16 DEF SweepOne, TodoIsListed, Idle, Listed
  <2> QED BY <1>0, <1>16, <2>3, <2>5, <2>6, InvariantComposes DEF SweepOne
<1>17. CASE UNCHANGED vars
  <2>1. UNCHANGED <<entry, config>> /\ Sound(polling)' BY <1>0, <1>17 DEF vars, Sound
  <2>2. \A e \in Devices : polling'[e].loops >= polling[e].loops BY <1>0, <1>17 DEF vars
  <2>3. RegistryInv' /\ StepProperties BY <2>1, <2>2, QuietStep
  <2>4. TodoIsListed' BY <1>0, <1>17 DEF vars, TodoIsListed, Idle, Listed
  <2> QED BY <1>0, <1>17, <2>3, <2>4, InvariantComposes DEF vars
<1> QED
  BY <1>1, <1>2, <1>3, <1>4, <1>6, <1>7, <1>8, <1>9, <1>10, <1>11, <1>12, <1>13,
     <1>14, <1>15, <1>16, <1>17 DEF Next

-----------------------------------------------------------------------------
(* Theorems                                                                *)

LEMMA IInvInvariant == Spec => []IInv
<1>1. Init => IInv BY RuntimeAssumption, InitInvariant
<1>2. IInv /\ [Next]_vars => IInv' BY RuntimeAssumption, NextKeeps
<1> QED BY <1>1, <1>2, PTL DEF Spec

\* In every reachable state every variable has its type.
THEOREM TypeCorrect == Spec => []TypeOK
<1>1. IInv => TypeOK BY DEF IInv
<1> QED BY <1>1, IInvInvariant, PTL

\* However many sessions start a device at once, it runs no loop but the one
\* that stop_polling can cancel.
THEOREM HandlesAreTrue == Spec => []HandlesNameTheLoops
<1>1. IInv => HandlesNameTheLoops BY DEF IInv
<1> QED BY <1>1, IInvInvariant, PTL

\* Two controllers never share a device object.
THEOREM DevicesAreNotShared == Spec => []OwnDevices
<1>1. IInv => OwnDevices BY DEF IInv
<1> QED BY <1>1, IInvInvariant, PTL

\* A device that leaves the registry, by replacement or by a sync, is silent.
THEOREM DroppedDevicesAreSilent == Spec => LeavesSilently
<1>1. IInv /\ [Next]_vars => [SilentWhenDropped]_vars
  BY RuntimeAssumption, NextKeeps DEF StepProperties
<1> QED BY <1>1, IInvInvariant, PTL DEF Spec, LeavesSilently

\* Where all copies of the profiles agree on a controller, only an operator's
\* stop ends its managed polling.
THEOREM AgreedPollingSurvives == Spec => PollingSurvives
<1>1. IInv /\ [Next]_vars => [EndsByStopOnly]_vars
  BY RuntimeAssumption, NextKeeps DEF StepProperties
<1> QED BY <1>1, IInvInvariant, PTL DEF Spec, PollingSurvives

=============================================================================
