------------------------ MODULE ControllerPagesProofs ------------------------
(***************************************************************************)
(* Proofs about ControllerPages, for any lists of profiles, any addresses  *)
(* and any number of handlers.                                             *)
(*                                                                         *)
(* Each of the three invariants is inductive by itself: a step either      *)
(* draws a page from the list, the settings and the statuses as it leaves  *)
(* them, or leaves the page and all of these alone, or says that the page  *)
(* is behind.  How lists are filtered and ordered does not matter.         *)
(***************************************************************************)
EXTENDS ControllerPages, ProfileListProofs

-----------------------------------------------------------------------------
(* Drawing                                                                 *)

\* A table that was drawn is the one that is due.
LEMMA TableIsDrawn ==
  ASSUME SyncRows, CanSort
  PROVE  RowsFollow'
<1> DEFINE due == Sorted(Visible(profiles', view'), view')
<1>1. rows' = DisplayRows(due, statuses')
  BY DEF SyncRows, RowsOf
<1>2. DOMAIN rows' = DOMAIN due
  BY <1>1 DEF DisplayRows
<1>3. ASSUME NEW i \in DOMAIN due
      PROVE  /\ rows'[i].id = due[i].id /\ rows'[i].ip = due[i].ip
             /\ rows'[i].placed = due[i].placed /\ rows'[i].polling = due[i].polling
  <2>1. rows'[i] = DisplayRow(due[i], statuses')
    BY <1>1, <1>3 DEF DisplayRows
  <2> QED  BY <2>1 DEF DisplayRow
<1> QED  BY <1>1, <1>2, <1>3 DEF RowsFollow

\* A table that is not due is no one's business.
LEMMA NoTableIsDue ==
  ASSUME ~CanSort
  PROVE  RowsFollow'
BY DEF CanSort, RowsFollow

\* A handler that draws the table, or tries to, leaves it as it is due.
LEMMA TableIsSynced ==
  ASSUME SyncRows
  PROVE  RowsFollow'
BY TableIsDrawn, NoTableIsDue

\* Cards show the status of their controllers, whatever list they are drawn from.
LEMMA CardsTell ==
  ASSUME NEW list, NEW filter, NEW known, NEW i \in DOMAIN CardsOf(list, filter, known)
  PROVE  CardsOf(list, filter, known)[i].status = known[CardsOf(list, filter, known)[i].id]
<1>1. i \in DOMAIN ByMapping(list, filter)
  BY DEF CardsOf, DisplayRows
<1>2. CardsOf(list, filter, known)[i] = DisplayRow(ByMapping(list, filter)[i], known)
  BY <1>1 DEF CardsOf, DisplayRows
<1> QED  BY <1>2 DEF DisplayRow

\* So do markers.
LEMMA MarkersTell ==
  ASSUME NEW list, NEW known, NEW chosen, NEW i \in DOMAIN MarkersOf(list, known, chosen)
  PROVE  MarkersOf(list, known, chosen)[i].status = known[MarkersOf(list, known, chosen)[i].id]
<1>1. i \in DOMAIN ByMapping(list, "mapped")
  BY DEF MarkersOf
<1>2. MarkersOf(list, known, chosen)[i] = MarkerOf(ByMapping(list, "mapped")[i], known, chosen)
  BY <1>1 DEF MarkersOf
<1> QED  BY <1>2 DEF MarkerOf

CardsAgree == \A i \in DOMAIN cards : cards[i].status = statuses[cards[i].id]
MarkersAgree == \A i \in DOMAIN markers : markers[i].status = statuses[markers[i].id]

\* Cards that were drawn, or stay while the statuses do, agree with them.
LEMMA CardsStayInStep ==
  ASSUME NEW list, DrawCards(list) \/ (CardsAgree /\ UNCHANGED <<cards, statuses>>)
  PROVE  CardsAgree'
<1>1. CASE DrawCards(list)
  BY <1>1, CardsTell DEF DrawCards, CardsAgree
<1>2. CASE CardsAgree /\ UNCHANGED <<cards, statuses>>
  BY <1>2 DEF CardsAgree
<1> QED  BY <1>1, <1>2

\* So do markers.
LEMMA MarkersStayInStep ==
  ASSUME NEW list, DrawMap(list) \/ (MarkersAgree /\ UNCHANGED <<map, statuses>>)
  PROVE  MarkersAgree'
<1>1. CASE DrawMap(list)
  BY <1>1, MarkersTell DEF DrawMap, MarkersAgree
<1>2. CASE MarkersAgree /\ UNCHANGED <<map, statuses>>
  BY <1>2 DEF MarkersAgree, map
<1> QED  BY <1>1, <1>2

-----------------------------------------------------------------------------
(* What a step does to the pages                                           *)

TableStep ==
  \/ SyncRows
  \/ /\ UNCHANGED <<profiles, view, rows>>
     /\ "table" \notin behind' => "table" \notin behind /\ UNCHANGED statuses

CardsStep ==
  \/ \E list : DrawCards(list) /\ ("fleet" \notin behind' => list = profiles')
  \/ /\ UNCHANGED <<cards, statuses>>
     /\ "fleet" \notin behind' => "fleet" \notin behind /\ UNCHANGED <<profiles, mapping>>

MapStep ==
  \/ \E list : DrawMap(list) /\ ("fleet" \notin behind' => list = profiles')
  \/ /\ UNCHANGED <<map, statuses>>
     /\ "fleet" \notin behind' => "fleet" \notin behind /\ UNCHANGED <<profiles, selected>>

PagesStep == TableStep /\ CardsStep /\ MapStep

\* The ghost of a handler that tries the table.
LEMMA BehindAfter ==
  ASSUME NEW fleet \in BOOLEAN, Behind(fleet)
  PROVE  /\ "fleet" \in behind' <=> fleet
         /\ "table" \in behind' => "table" \in behind
BY DEF Behind, Pages

\* The ghost of one that leaves cards and map as they follow or do not.
LEMMA BehindStays ==
  ASSUME Behind("fleet" \in behind)
  PROVE  "fleet" \in behind' <=> "fleet" \in behind
BY DEF Behind, Pages

\* A handler that draws all pages draws them, or stops at the table.
LEMMA AllPagesDrawn ==
  ASSUME DrawPages, UNCHANGED statuses
  PROVE  PagesStep
<1>0. SyncRows /\ Behind(~CanSort)
  BY DEF DrawPages
<1>1. TableStep
  BY <1>0 DEF TableStep
<1>2. "fleet" \in behind' <=> ~CanSort
  BY <1>0, BehindAfter
<1>3. CASE CanSort
  <2>1. DrawCards(profiles') /\ DrawMap(profiles')
    BY <1>3 DEF DrawPages
  <2> QED  BY <1>1, <2>1 DEF PagesStep, CardsStep, MapStep
<1>4. CASE ~CanSort
  <2>1. UNCHANGED <<cards, map>>
    BY <1>4 DEF DrawPages
  <2> QED  BY <1>1, <1>2, <1>4, <2>1 DEF PagesStep, CardsStep, MapStep
<1> QED  BY <1>3, <1>4

\* Loading a profile draws the map again when it changes the selection.
LEMMA LoadingDraws ==
  ASSUME NEW d, LoadProfile(d), UNCHANGED <<profiles, statuses, mapping, cards>>
  PROVE  PagesStep
<1>0. SyncRows /\ Behind("fleet" \in behind)
  BY DEF LoadProfile
<1>1. "fleet" \in behind' <=> "fleet" \in behind
  BY <1>0, BehindStays
<1>2. TableStep /\ CardsStep
  BY <1>0, <1>1 DEF TableStep, CardsStep
<1>3. MapStep
  <2>1. CASE CanSort /\ d \in Configured(profiles')
    BY <2>1 DEF LoadProfile, MapStep
  <2>2. CASE ~(CanSort /\ d \in Configured(profiles'))
    BY <1>1, <2>2 DEF LoadProfile, MapStep
  <2> QED  BY <2>1, <2>2
<1> QED  BY <1>2, <1>3 DEF PagesStep

\* Changing a filter or the order draws the table only.
LEMMA ViewChangeDraws ==
  ASSUME NEW v, ChangeView(v)
  PROVE  PagesStep
<1>1. "fleet" \in behind' <=> "fleet" \in behind
  BY BehindStays DEF ChangeView
<1> QED  BY <1>1 DEF ChangeView, PagesStep, TableStep, CardsStep, MapStep, config

\* Each handler, and each answer of the live loop.
LEMMA HandlersDraw ==
  ASSUME Handler
  PROVE  PagesStep
<1>1. CASE UpdateDeviceProfilesJson
  BY <1>1, AllPagesDrawn DEF UpdateDeviceProfilesJson
<1>2. CASE \E d \in Ids, read \in BOOLEAN : InitializeControllerProfiles(d, read)
  BY <1>2, AllPagesDrawn DEF InitializeControllerProfiles
<1>3. CASE \E query \in Ids \cup {NoDevice} : UpdateFilterText(query)
  BY <1>3, ViewChangeDraws DEF UpdateFilterText
<1>4. CASE \E filter \in Filters : UpdateMappingFilter(filter)
  BY <1>4, ViewChangeDraws DEF UpdateMappingFilter
<1>5. CASE \E filter \in Filters : UpdateFleetStatusMappingFilter(filter)
  BY <1>5 DEF UpdateFleetStatusMappingFilter, PagesStep, TableStep, CardsStep, MapStep, config
<1>6. CASE \E key \in SortKeys : UpdateSortKey(key)
  BY <1>6, ViewChangeDraws DEF UpdateSortKey, ToggleSortDirection
<1>7. CASE ToggleSortDirection
  BY <1>7, ViewChangeDraws DEF ToggleSortDirection
<1>8. CASE OpenConfiguration
  BY <1>8, ViewChangeDraws DEF OpenConfiguration
<1>9. CASE NewControllerProfile
  <2>1. "fleet" \in behind' <=> "fleet" \in behind
    BY <1>9, BehindStays DEF NewControllerProfile
  <2> QED  BY <1>9, <2>1 DEF NewControllerProfile, FormOnly, PagesStep, TableStep, CardsStep,
                         MapStep, config
<1>10. CASE OpenCreationDialog
  BY <1>10 DEF OpenCreationDialog, FormOnly, PagesStep, TableStep, CardsStep, MapStep, config
<1>11. CASE \E d \in Shown : LoadControllerProfile(d)
  BY <1>11, LoadingDraws DEF LoadControllerProfile, config
<1>12. CASE \E d \in OnFleetPage : OpenControllerProfileEditor(d)
  BY <1>12, LoadingDraws DEF OpenControllerProfileEditor, config
<1>13. CASE \E d \in OnFleetPage : SelectController(d)
  <2> PICK d \in OnFleetPage : SelectController(d)
    BY <1>13
  <2>1. "fleet" \in behind' <=> ("fleet" \in behind \/ ~CanSort)
    BY BehindAfter DEF SelectController
  <2>2. TableStep /\ CardsStep
    BY <2>1 DEF SelectController, TableStep, CardsStep, config
  <2>3. MapStep
    <3>1. CASE CanSort
      BY <3>1 DEF SelectController, MapStep, config
    <3>2. CASE ~CanSort
      BY <2>1, <3>2 DEF SelectController, MapStep, config
    <3> QED  BY <3>1, <3>2
  <2> QED  BY <2>2, <2>3 DEF PagesStep
<1>14. CASE \E f \in Forms : SaveControllerProfile(f)
  BY <1>14, AllPagesDrawn DEF SaveControllerProfile
<1>15. CASE \E d \in Ids : DeleteControllerProfile(d)
  BY <1>15, AllPagesDrawn DEF DeleteControllerProfile
<1>16. CASE \E d \in Ids : OpenSelectedControllerStatus(d)
  BY <1>16 DEF OpenSelectedControllerStatus, UpdateSelectedDeviceId, PagesStep, TableStep, CardsStep,
            MapStep, config
<1>17. CASE \E v \in BOOLEAN : UpdateControllerProfilePollingEnabled(v)
  BY <1>17, AllPagesDrawn DEF UpdateControllerProfilePollingEnabled
<1>18. CASE \E d \in Ids \cup {NoDevice} : UpdateSelectedDeviceId(d)
  BY <1>18 DEF UpdateSelectedDeviceId, PagesStep, TableStep, CardsStep, MapStep, config
<1>19. CASE BackToDashboard
  BY <1>19 DEF BackToDashboard, PagesStep, TableStep, CardsStep, MapStep, config
<1>20. CASE \E d \in Ids, status \in {"Online", "Offline"} : CacheDeviceStatus(d, status)
  BY <1>20 DEF CacheDeviceStatus, PagesStep, TableStep, CardsStep, MapStep, config
<1> QED
  BY <1>1, <1>2, <1>3, <1>4, <1>5, <1>6, <1>7, <1>8, <1>9, <1>10, <1>11, <1>12, <1>13, <1>14,
     <1>15, <1>16, <1>17, <1>18, <1>19, <1>20 DEF Handler

\* Each step of a refresh.
LEMMA RefreshDraws ==
  ASSUME RefreshStep
  PROVE  PagesStep
<1>1. CASE RefreshBegin
  BY <1>1 DEF RefreshBegin, PagesStep, TableStep, CardsStep, MapStep, config
<1>2. CASE \E answered \in BOOLEAN : RefreshCommit(answered)
  <2> PICK answered \in BOOLEAN : RefreshCommit(answered)
    BY <1>2
  <2> DEFINE drawn == IF answered /\ refresh.list # <<>> /\ CanSort THEN profiles ELSE refresh.list
  <2>1. DrawCards(drawn) /\ DrawMap(drawn) /\ Behind(drawn # profiles) /\ SyncRows
    BY DEF RefreshCommit
  <2>2. "fleet" \in behind' <=> drawn # profiles
    BY <2>1, BehindAfter
  <2>3. profiles' = profiles
    BY DEF RefreshCommit, config
  <2> HIDE DEF drawn
  <2> QED  BY <2>1, <2>2, <2>3 DEF PagesStep, TableStep, CardsStep, MapStep
<1>3. CASE RefreshFailed
  <2>1. DrawCards(<<>>) /\ DrawMap(<<>>) /\ UNCHANGED <<profiles, view, rows>>
    BY <1>3 DEF RefreshFailed, config
  <2>2. "table" \in behind' /\ ("fleet" \notin behind' => <<>> = profiles')
    BY <1>3 DEF RefreshFailed, config
  <2> QED  BY <2>1, <2>2 DEF PagesStep, TableStep, CardsStep, MapStep
<1> QED  BY <1>1, <1>2, <1>3 DEF RefreshStep

\* Every step, or none at all.
LEMMA StepsDraw ==
  ASSUME [Next]_vars
  PROVE  PagesStep
<1>1. CASE Next
  BY <1>1, HandlersDraw, RefreshDraws DEF Next
<1>2. CASE UNCHANGED vars
  BY <1>2 DEF vars, config, PagesStep, TableStep, CardsStep, MapStep
<1> QED  BY <1>1, <1>2

-----------------------------------------------------------------------------
(* The three invariants                                                    *)

IInv == RowsFollow /\ PagesFollow /\ StatusesAgree

\* The pages of a session that begins show its list, which is empty.
LEMMA PagesBegin ==
  ASSUME Init
  PROVE  IInv
<1>1. RowsFollow
  <2> DEFINE due == Sorted(Visible(profiles, view), view)
  <2>1. rows = DisplayRows(due, statuses)
    BY DEF Init, RowsOf
  <2>2. DOMAIN rows = DOMAIN due
    BY <2>1 DEF DisplayRows
  <2>3. ASSUME NEW i \in DOMAIN due
        PROVE  /\ rows[i].id = due[i].id /\ rows[i].ip = due[i].ip
               /\ rows[i].placed = due[i].placed /\ rows[i].polling = due[i].polling
    <3>1. rows[i] = DisplayRow(due[i], statuses)
      BY <2>1, <2>3 DEF DisplayRows
    <3> QED  BY <3>1 DEF DisplayRow
  <2> QED  BY <2>1, <2>2, <2>3 DEF RowsFollow
<1>2. PagesFollow
  BY DEF Init, PagesFollow
<1>3. StatusesAgree
  BY CardsTell, MarkersTell DEF Init, StatusesAgree
<1> QED  BY <1>1, <1>2, <1>3 DEF IInv

\* A table that a step draws, or leaves alone with all that it shows, follows.
LEMMA TableFollows ==
  ASSUME RowsFollow, TableStep
  PROVE  RowsFollow'
<1>1. CASE SyncRows
  BY <1>1, TableIsSynced
<1>2. CASE /\ UNCHANGED <<profiles, view, rows>>
           /\ "table" \notin behind' => "table" \notin behind /\ UNCHANGED statuses
  BY <1>2 DEF RowsFollow
<1> QED  BY <1>1, <1>2 DEF TableStep

\* So do cards and map.
LEMMA FleetFollows ==
  ASSUME PagesFollow, CardsStep, MapStep
  PROVE  PagesFollow'
<1> SUFFICES ASSUME "fleet" \notin behind'
             PROVE  /\ cards' = CardsOf(profiles', mapping', statuses')
                    /\ markers' = MarkersOf(profiles', statuses', selected')
                    /\ unplaced' = UnplacedOf(profiles')
  BY DEF PagesFollow
<1>1. cards' = CardsOf(profiles', mapping', statuses')
  BY DEF CardsStep, DrawCards, PagesFollow
<1>2. markers' = MarkersOf(profiles', statuses', selected') /\ unplaced' = UnplacedOf(profiles')
  BY DEF MapStep, DrawMap, PagesFollow, map
<1> QED  BY <1>1, <1>2

\* Cards and map stay in step with the statuses.
LEMMA StatusesStay ==
  ASSUME StatusesAgree, CardsStep, MapStep
  PROVE  StatusesAgree'
<1>1. CardsAgree /\ MarkersAgree
  BY DEF StatusesAgree, CardsAgree, MarkersAgree
<1>2. CardsAgree'
  BY <1>1, CardsStayInStep DEF CardsStep
<1>3. MarkersAgree'
  BY <1>1, MarkersStayInStep DEF MapStep
<1> QED  BY <1>2, <1>3 DEF StatusesAgree, CardsAgree, MarkersAgree

\* No step breaks one of the three.
LEMMA PagesStay ==
  ASSUME IInv, [Next]_vars
  PROVE  IInv'
BY StepsDraw, TableFollows, FleetFollows, StatusesStay DEF IInv, PagesStep

\* All three hold throughout.
THEOREM PagesHold == Spec => []IInv
BY PagesBegin, PagesStay, PTL DEF Spec

\* The table of the configuration page is the session's list under its filters
\* and its order, for any lists and any addresses.
THEOREM TableFollowsTheList == Spec => []RowsFollow
<1>1. IInv => RowsFollow
  BY DEF IInv
<1> QED  BY <1>1, PagesHold, PTL

\* Cards and map show the session's list unless they are known to be behind.
THEOREM FleetPagesFollowTheList == Spec => []PagesFollow
<1>1. IInv => PagesFollow
  BY DEF IInv
<1> QED  BY <1>1, PagesHold, PTL

\* Cards and map never contradict each other about a controller.
THEOREM PagesAgreeOnStatuses == Spec => []StatusesAgree
<1>1. IInv => StatusesAgree
  BY DEF IInv
<1> QED  BY <1>1, PagesHold, PTL

-----------------------------------------------------------------------------
(* Lists of profiles                                                       *)

\* Removing entries leaves profiles, and so does each of the filters.
LEMMA FilterType ==
  ASSUME NEW list \in Seq(Profile)
  PROVE  /\ \A d : Remove(list, d) \in Seq(Profile)
         /\ \A filter : ByMapping(list, filter) \in Seq(Profile)
BY GatheringIsTyped DEF ByMapping

\* A list with one profile replaced or added is one of profiles.
LEMMA UpsertType ==
  ASSUME NEW list \in Seq(Profile), NEW p \in Profile
  PROVE  Upsert(list, p) \in Seq(Profile)
BY UpsertIsTyped

\* So is a list with the polling of one profile switched.
LEMMA WithPollingType ==
  ASSUME NEW list \in Seq(Profile), NEW d, NEW v \in BOOLEAN
  PROVE  WithPolling(list, d, v) \in Seq(Profile)
<1>1. \A q \in Profile : [q EXCEPT !.polling = v] \in Profile
  BY DEF Profile
<1> QED  BY <1>1, SwitchIsTyped

\* What is selected of a list that is not empty is in it.
LEMMA SelectIsConfigured ==
  ASSUME NEW list \in Seq(Profile), list # <<>>, NEW d
  PROVE  SelectProfile(list, d) \in Configured(list) /\ Configured(list) \subseteq Ids
<1>1. \A i \in DOMAIN list : list[i] \in Profile
  OBVIOUS
<1>2. \A q \in Profile : q.id \in Ids
  BY DEF Profile
<1>3. Configured(list) \subseteq Ids
  BY <1>1, <1>2 DEF Configured
<1> QED  BY <1>3, SelectionIsConfigured

\* A profile of a list, looked up by its id.
LEMMA ProfileOfType ==
  ASSUME NEW list \in Seq(Profile), NEW d \in Configured(list)
  PROVE  ProfileOf(list, d) \in Profile
BY LookupIsTyped

\* The ids on cards and markers are those of the list they are drawn from.
LEMMA DrawnIds ==
  ASSUME OnFleetPage \subseteq Ids, NEW list \in Seq(Profile), NEW other \in Seq(Profile),
         DrawCards(list) \/ UNCHANGED cards, DrawMap(other) \/ UNCHANGED map
  PROVE  OnFleetPage' \subseteq Ids
<1>1. \A of \in Seq(Profile) : \A filter : \A i \in DOMAIN ByMapping(of, filter) :
        ByMapping(of, filter)[i].id \in Ids
  <2> TAKE of \in Seq(Profile)
  <2> TAKE filter
  <2> DEFINE kept == ByMapping(of, filter)
  <2>1. kept \in Seq(Profile)
    BY FilterType
  <2> HIDE DEF kept
  <2>2. \A i \in DOMAIN kept : kept[i] \in Profile
    BY <2>1
  <2> QED  BY <2>2 DEF kept, Profile
<1>2. ASSUME NEW i \in DOMAIN cards' PROVE cards'[i].id \in Ids
  <2>1. CASE DrawCards(list)
    <3> DEFINE kept == ByMapping(list, mapping')
    <3>1. i \in DOMAIN kept /\ cards'[i] = DisplayRow(kept[i], statuses')
      BY <1>2, <2>1 DEF DrawCards, CardsOf, DisplayRows
    <3>2. kept[i].id \in Ids
      BY <1>1, <3>1
    <3> QED  BY <3>1, <3>2 DEF DisplayRow
  <2>2. CASE UNCHANGED cards
    BY <1>2, <2>2 DEF OnFleetPage
  <2> QED  BY <2>1, <2>2
<1>3. ASSUME NEW i \in DOMAIN markers' PROVE markers'[i].id \in Ids
  <2>1. CASE DrawMap(other)
    <3> DEFINE kept == ByMapping(other, "mapped")
    <3>1. i \in DOMAIN kept /\ markers'[i] = MarkerOf(kept[i], statuses', selected')
      BY <1>3, <2>1 DEF DrawMap, MarkersOf
    <3>2. kept[i].id \in Ids
      BY <1>1, <3>1
    <3> QED  BY <3>1, <3>2 DEF MarkerOf
  <2>2. CASE UNCHANGED map
    BY <1>3, <2>2 DEF OnFleetPage, map
  <2> QED  BY <2>1, <2>2
<1> QED  BY <1>2, <1>3 DEF OnFleetPage

-----------------------------------------------------------------------------
(* Types                                                                   *)

Known == Ids \cup {NoDevice}
Views == [query : Known, mapping : Filters, key : SortKeys, desc : BOOLEAN]
Texts == [list : Seq(Profile), parses : BOOLEAN]
Refreshes == [pc : {"idle", "polling"}, list : Seq(Profile), parsed : BOOLEAN, sel : Known]

ListTypes == profiles \in Seq(Profile) /\ parses \in BOOLEAN /\ stored \in Texts
                 /\ hand \in {"none", "form", "text", "load"}
ChoiceTypes == original \in Known /\ selected \in Known /\ statuses \in [Ids -> Statuses]
                 /\ view \in Views /\ mapping \in Filters
RestTypes == refresh \in Refreshes /\ behind \subseteq Pages /\ edits \in Nat

\* The type invariant needs that what can be clicked is the id of a controller.
TypeIInv == ListTypes /\ ChoiceTypes /\ RestTypes /\ OnFleetPage \subseteq Ids

\* Its parts are the type invariant.
LEMMA TypesAreTypes ==
  ASSUME TypeIInv
  PROVE  TypeOK
BY DEF TypeIInv, TypeOK, ListTypes, ChoiceTypes, RestTypes, Known, Views, Texts, Refreshes

\* What a handler leaves in the settings table is a text.
LEMMA PersistedType ==
  ASSUME profiles' \in Seq(Profile), parses' \in BOOLEAN, stored \in Texts,
         Persist \/ UNCHANGED stored
  PROVE  stored' \in Texts
BY DEF Persist, Texts

\* A handler that draws all pages leaves the ids on them controllers.
LEMMA DrawnPagesType ==
  ASSUME DrawPages, OnFleetPage \subseteq Ids, profiles' \in Seq(Profile)
  PROVE  OnFleetPage' \subseteq Ids /\ behind' \subseteq Pages
<1>1. DrawCards(profiles') \/ UNCHANGED cards
  BY DEF DrawPages
<1>2. DrawMap(profiles') \/ UNCHANGED map
  BY DEF DrawPages
<1>3. behind' \subseteq Pages
  BY DEF DrawPages, Behind
<1> QED  BY <1>1, <1>2, <1>3, DrawnIds

\* So does one that loads a profile, and it leaves the selection one.
LEMMA LoadedType ==
  ASSUME NEW d \in Known, LoadProfile(d), UNCHANGED cards, OnFleetPage \subseteq Ids,
         profiles' \in Seq(Profile), original \in Known, selected \in Known
  PROVE  /\ OnFleetPage' \subseteq Ids /\ behind' \subseteq Pages
         /\ original' \in Known /\ selected' \in Known
<1>1. DrawMap(profiles') \/ UNCHANGED map
  BY DEF LoadProfile
<1>2. behind' \subseteq Pages /\ original' \in Known /\ selected' \in Known
  BY DEF LoadProfile, Behind
<1> QED  BY <1>1, <1>2, DrawnIds

\* Changing a filter or the order touches neither the fleet page nor the list.
LEMMA ViewChangeTypes ==
  ASSUME TypeIInv, NEW v \in Views, ChangeView(v)
  PROVE  ListTypes' /\ ChoiceTypes' /\ behind' \subseteq Pages /\ OnFleetPage' \subseteq Ids
<1>1. ListTypes'
  BY DEF ChangeView, config, TypeIInv, ListTypes
<1>2. ChoiceTypes'
  BY DEF ChangeView, TypeIInv, ChoiceTypes
<1>3. OnFleetPage' \subseteq Ids
  BY DEF ChangeView, map, TypeIInv, OnFleetPage
<1>4. behind' \subseteq Pages
  BY DEF ChangeView, Behind
<1> QED  BY <1>1, <1>2, <1>3, <1>4

\* The settings of the table, one changed.
LEMMA ViewTypes ==
  ASSUME view \in Views
  PROVE  /\ \A query \in Known : [view EXCEPT !.query = query] \in Views
         /\ \A filter \in Filters : [view EXCEPT !.mapping = filter] \in Views
         /\ [view EXCEPT !.desc = ~@] \in Views
         /\ \A key \in SortKeys : [view EXCEPT !.key = key, !.desc = FALSE] \in Views
         /\ [view EXCEPT !.query = NoDevice, !.mapping = "all"] \in Views
<1>1. view.desc \in BOOLEAN
  BY DEF Views
<1>2. [view EXCEPT !.desc = ~@] \in Views
  <2> DEFINE turned == ~view.desc
  <2>1. turned \in BOOLEAN
    OBVIOUS
  <2>2. [view EXCEPT !.desc = ~@] = [view EXCEPT !.desc = turned]
    OBVIOUS
  <2> HIDE DEF turned
  <2>3. [view EXCEPT !.desc = turned] \in Views
    BY <2>1 DEF Views
  <2> QED  BY <2>2, <2>3
<1>3. NoDevice \in Known /\ "all" \in Filters
  BY DEF Known, Filters
<1>4. [view EXCEPT !.query = NoDevice, !.mapping = "all"] \in Views
  BY <1>3 DEF Views
<1>5. \A query \in Known : [view EXCEPT !.query = query] \in Views
  BY DEF Views
<1>6. \A filter \in Filters : [view EXCEPT !.mapping = filter] \in Views
  BY DEF Views
<1>7. \A key \in SortKeys : [view EXCEPT !.key = key, !.desc = FALSE] \in Views
  BY DEF Views
<1> QED  BY <1>2, <1>4, <1>5, <1>6, <1>7

\* What a handler must leave; edits and the refresh are not its own.
Left == ListTypes' /\ ChoiceTypes' /\ behind' \subseteq Pages /\ OnFleetPage' \subseteq Ids

\* A handler that writes the list and draws all pages.
LEMMA EditTypes ==
  ASSUME TypeIInv, profiles' \in Seq(Profile), parses' \in BOOLEAN, hand' \in {"form", "text", "load", "none"},
         Persist \/ UNCHANGED stored, DrawPages, original' \in Known, selected' \in Known,
         UNCHANGED <<statuses, view, mapping>>
  PROVE  Left
<1>1. stored' \in Texts
  BY PersistedType DEF TypeIInv, ListTypes
<1>2. OnFleetPage' \subseteq Ids /\ behind' \subseteq Pages
  BY DrawnPagesType DEF TypeIInv
<1>3. ListTypes'
  BY <1>1 DEF ListTypes
<1>4. ChoiceTypes'
  BY DEF TypeIInv, ChoiceTypes
<1> QED  BY <1>2, <1>3, <1>4 DEF Left

\* A handler that loads a profile and changes no list.
LEMMA LoadTypes ==
  ASSUME TypeIInv, NEW d \in Known, LoadProfile(d), view' \in Views,
         UNCHANGED <<config, statuses, mapping, cards>>
  PROVE  Left
<1>1. ListTypes' /\ profiles' \in Seq(Profile)
  BY DEF config, TypeIInv, ListTypes
<1>2. /\ OnFleetPage' \subseteq Ids /\ behind' \subseteq Pages
      /\ original' \in Known /\ selected' \in Known
  BY <1>1, LoadedType DEF TypeIInv, ChoiceTypes
<1>3. ChoiceTypes'
  BY <1>2 DEF TypeIInv, ChoiceTypes
<1> QED  BY <1>1, <1>2, <1>3 DEF Left

\* A handler that changes no list and perhaps the selection, the statuses or a filter.
LEMMA DrawTypes ==
  ASSUME TypeIInv, UNCHANGED config, DrawCards(profiles) \/ UNCHANGED cards,
         DrawMap(profiles) \/ UNCHANGED map,
         original' \in Known, selected' \in Known, statuses' \in [Ids -> Statuses],
         view' \in Views, mapping' \in Filters, behind' \subseteq Pages
  PROVE  Left
<1>1. ListTypes' /\ profiles \in Seq(Profile)
  BY DEF config, TypeIInv, ListTypes
<1>2. OnFleetPage' \subseteq Ids
  BY <1>1, DrawnIds DEF TypeIInv
<1>3. ChoiceTypes'
  BY DEF ChoiceTypes
<1> QED  BY <1>1, <1>2, <1>3 DEF Left

\* The profile that is saved, with the streams of the one it replaces.
Saved(f) == [id |-> f.id, ip |-> f.ip, placed |-> f.placed, polling |-> f.polling,
             streams |-> StreamsKept(f)]

\* It is a profile.
LEMMA SavedType ==
  ASSUME TypeIInv, NEW f \in Forms
  PROVE  Saved(f) \in Profile
<1>1. profiles \in Seq(Profile)
  BY DEF TypeIInv, ListTypes
<1>2. StreamsKept(f) \in StreamSets
  <2>1. CASE profiles = <<>>
    BY <2>1, PagesAssumption DEF StreamsKept
  <2>2. CASE profiles # <<>>
    <3> DEFINE q == ProfileOf(profiles, SelectProfile(profiles, TargetOf(f.id)))
    <3>1. q \in Profile
      BY <1>1, <2>2, SelectIsConfigured, ProfileOfType
    <3>2. StreamsKept(f) = q.streams
      BY <2>2 DEF StreamsKept
    <3> HIDE DEF q
    <3> QED  BY <3>1, <3>2 DEF Profile
  <2> QED  BY <2>1, <2>2
<1>3. f.id \in Ids /\ f.ip \in Addresses /\ f.placed \in BOOLEAN /\ f.polling \in BOOLEAN
  BY DEF Forms, Addresses
<1> QED  BY <1>2, <1>3 DEF Saved, Profile

\* The list after a profile was saved: the one it was loaded under is taken
\* out when that has another id.
Others(f) == IF original \in {NoDevice, f.id} THEN profiles ELSE Remove(profiles, original)

\* What saving a profile does to the list.
LEMMA SavingWrites ==
  ASSUME NEW f \in Forms, SaveControllerProfile(f)
  PROVE  profiles' = Upsert(Others(f), Saved(f)) /\ original' = f.id
BY DEF SaveControllerProfile, Others, Saved

\* Saving a profile leaves a list of profiles.
LEMMA SaveTypes ==
  ASSUME TypeIInv, NEW f \in Forms, SaveControllerProfile(f)
  PROVE  Left
<1>1. Others(f) \in Seq(Profile)
  BY FilterType DEF Others, TypeIInv, ListTypes
<1>2. profiles' \in Seq(Profile)
  BY <1>1, SavedType, SavingWrites, UpsertType
<1>3. f.id \in Known
  BY DEF Forms, Known
<1> QED  BY <1>2, <1>3, EditTypes DEF SaveControllerProfile, TypeIInv, ListTypes

\* What can be typed, and what is stored, is a list of profiles.
LEMMA TypedListsType ==
  ASSUME NEW list \in TypedLists
  PROVE  list \in Seq(Profile)
BY PagesAssumption DEF Profile, Addresses

\* Handlers leave their own variables as they should be.
LEMMA HandlersType ==
  ASSUME TypeIInv, Handler
  PROVE  Left
<1>0. /\ profiles \in Seq(Profile) /\ parses \in BOOLEAN /\ stored \in Texts
      /\ hand \in {"none", "form", "text", "load"} /\ <<>> \in Seq(Profile)
      /\ original \in Known /\ selected \in Known /\ statuses \in [Ids -> Statuses]
      /\ view \in Views /\ mapping \in Filters /\ behind \subseteq Pages
      /\ OnFleetPage \subseteq Ids /\ NoDevice \in Known /\ Ids \subseteq Known
  BY DEF TypeIInv, ListTypes, ChoiceTypes, RestTypes, Known
<1>1. CASE UpdateDeviceProfilesJson
  <2>1. profiles' \in Seq(Profile) /\ parses' \in BOOLEAN
    BY <1>0, <1>1, TypedListsType DEF UpdateDeviceProfilesJson
  <2>2. Persist \/ UNCHANGED stored
    BY <1>1 DEF UpdateDeviceProfilesJson
  <2> QED  BY <1>0, <1>1, <2>1, <2>2, EditTypes DEF UpdateDeviceProfilesJson
<1>2. CASE \E d \in Ids, read \in BOOLEAN : InitializeControllerProfiles(d, read)
  <2> PICK d \in Ids, read \in BOOLEAN : InitializeControllerProfiles(d, read)
    BY <1>2
  <2>1. profiles' \in Seq(Profile) /\ parses' \in BOOLEAN /\ hand' \in {"form", "text", "load", "none"}
    BY <1>0 DEF InitializeControllerProfiles, Texts
  <2>2. original' \in Known /\ selected' \in Known
    <3> DEFINE hint == IF selected # NoDevice THEN selected ELSE TargetOf(d)
               chosen == SelectProfile(profiles', hint)
    <3>1. \/ profiles' # <<>> /\ original' = chosen /\ selected' = chosen
          \/ UNCHANGED <<original, selected>>
      BY DEF InitializeControllerProfiles
    <3>2. profiles' # <<>> => chosen \in Ids
      BY <2>1, SelectIsConfigured
    <3> HIDE DEF chosen
    <3> QED  BY <1>0, <3>1, <3>2
  <2> QED  BY <1>0, <2>1, <2>2, EditTypes DEF InitializeControllerProfiles
<1>3. ASSUME NEW v \in Views, ChangeView(v) PROVE Left
  BY <1>3, ViewChangeTypes DEF Left
<1>4. CASE \E query \in Ids \cup {NoDevice} : UpdateFilterText(query)
  BY <1>0, <1>3, <1>4, ViewTypes DEF UpdateFilterText, Known
<1>5. CASE \E filter \in Filters : UpdateMappingFilter(filter)
  BY <1>0, <1>3, <1>5, ViewTypes DEF UpdateMappingFilter
<1>6. CASE \E filter \in Filters : UpdateFleetStatusMappingFilter(filter)
  BY <1>0, <1>6, DrawTypes DEF UpdateFleetStatusMappingFilter
<1>7. ToggleSortDirection => Left
  BY <1>0, <1>3, ViewTypes DEF ToggleSortDirection
<1>8. CASE \E key \in SortKeys : UpdateSortKey(key)
  BY <1>0, <1>3, <1>7, <1>8, ViewTypes DEF UpdateSortKey
<1>9. CASE OpenConfiguration
  BY <1>0, <1>3, <1>9 DEF OpenConfiguration
<1>10. CASE NewControllerProfile
  <2>1. behind' \subseteq Pages
    BY <1>10 DEF NewControllerProfile, Behind
  <2> QED  BY <1>0, <1>10, <2>1, DrawTypes DEF NewControllerProfile, FormOnly
<1>11. CASE OpenCreationDialog
  BY <1>0, <1>11, DrawTypes DEF OpenCreationDialog, FormOnly
<1>12. CASE \E d \in Shown : LoadControllerProfile(d)
  <2> PICK d \in Shown : LoadControllerProfile(d)
    BY <1>12
  <2>1. CASE d \in Known
    BY <1>0, <2>1, LoadTypes DEF LoadControllerProfile
  <2>2. CASE d \notin Known
    <3>1. profiles' = profiles /\ d \notin Configured(profiles)
      BY <1>0, <2>2, SelectIsConfigured DEF LoadControllerProfile, config, Known, Configured
    <3>2. UNCHANGED <<original, selected, map>> /\ behind' \subseteq Pages
      BY <3>1 DEF LoadControllerProfile, LoadProfile, Behind
    <3> QED  BY <1>0, <3>2, DrawTypes DEF LoadControllerProfile
  <2> QED  BY <2>1, <2>2
<1>13. CASE \E d \in OnFleetPage : OpenControllerProfileEditor(d)
  BY <1>0, <1>13, LoadTypes, ViewTypes DEF OpenControllerProfileEditor
<1>14. CASE \E d \in OnFleetPage : SelectController(d)
  <2> PICK d \in OnFleetPage : SelectController(d)
    BY <1>14
  <2>1. profiles' = profiles /\ behind' \subseteq Pages /\ selected' \in Known
    BY <1>0 DEF SelectController, config, Behind
  <2>2. original' \in Known /\ (DrawMap(profiles) \/ UNCHANGED map)
    BY <1>0, <2>1 DEF SelectController
  <2> QED  BY <1>0, <2>1, <2>2, DrawTypes DEF SelectController
<1>15. CASE \E f \in Forms : SaveControllerProfile(f)
  BY <1>15, SaveTypes
<1>16. CASE \E d \in Ids : DeleteControllerProfile(d)
  <2>1. profiles' \in Seq(Profile)
    BY <1>0, <1>16, FilterType DEF DeleteControllerProfile
  <2> QED  BY <1>0, <1>16, <2>1, EditTypes DEF DeleteControllerProfile
<1>17. CASE \E d \in Ids : OpenSelectedControllerStatus(d)
  BY <1>0, <1>17, DrawTypes DEF OpenSelectedControllerStatus, UpdateSelectedDeviceId
<1>18. CASE \E v \in BOOLEAN : UpdateControllerProfilePollingEnabled(v)
  <2>1. profiles' \in Seq(Profile)
    BY <1>0, <1>18, WithPollingType DEF UpdateControllerProfilePollingEnabled
  <2> QED  BY <1>0, <1>18, <2>1, EditTypes DEF UpdateControllerProfilePollingEnabled
<1>19. CASE \E d \in Ids \cup {NoDevice} : UpdateSelectedDeviceId(d)
  BY <1>0, <1>19, DrawTypes DEF UpdateSelectedDeviceId, Known
<1>20. CASE BackToDashboard
  BY <1>0, <1>20, DrawTypes DEF BackToDashboard
<1>21. CASE \E d \in Ids, status \in {"Online", "Offline"} : CacheDeviceStatus(d, status)
  <2> PICK d \in Ids, status \in {"Online", "Offline"} : CacheDeviceStatus(d, status)
    BY <1>21
  <2>1. statuses' \in [Ids -> Statuses] /\ behind' \subseteq Pages
    BY <1>0 DEF CacheDeviceStatus, Behind, Statuses
  <2> QED  BY <1>0, <2>1, DrawTypes DEF CacheDeviceStatus
<1> QED
  BY <1>1, <1>2, <1>4, <1>5, <1>6, <1>7, <1>8, <1>9, <1>10, <1>11, <1>12, <1>13, <1>14,
     <1>15, <1>16, <1>17, <1>18, <1>19, <1>20, <1>21 DEF Handler

\* So do the steps of a refresh.
LEMMA RefreshType ==
  ASSUME TypeIInv, RefreshStep
  PROVE  Left /\ refresh' \in Refreshes
<1>0. /\ profiles \in Seq(Profile) /\ parses \in BOOLEAN /\ <<>> \in Seq(Profile)
      /\ original \in Known /\ selected \in Known /\ statuses \in [Ids -> Statuses]
      /\ view \in Views /\ mapping \in Filters /\ behind \subseteq Pages
      /\ refresh.list \in Seq(Profile) /\ refresh.sel \in Known
      /\ NoDevice \in Known /\ Ids \subseteq Known /\ OnFleetPage \subseteq Ids
  BY DEF TypeIInv, ListTypes, ChoiceTypes, RestTypes, Refreshes, Known
<1>1. NoRefresh \in Refreshes
  BY <1>0 DEF NoRefresh, Refreshes
<1>2. CASE RefreshBegin
  <2>1. Left
    BY <1>0, <1>2, DrawTypes DEF RefreshBegin
  <2> DEFINE sel == IF profiles = <<>> THEN NoDevice ELSE SelectProfile(profiles, selected)
  <2>2. sel \in Known
    BY <1>0, SelectIsConfigured
  <2>3. refresh' = [pc |-> "polling", list |-> profiles, parsed |-> parses, sel |-> sel]
    BY <1>2 DEF RefreshBegin
  <2> HIDE DEF sel
  <2> QED  BY <1>0, <2>1, <2>2, <2>3 DEF Refreshes
<1>3. CASE \E answered \in BOOLEAN : RefreshCommit(answered)
  <2> PICK answered \in BOOLEAN : RefreshCommit(answered)
    BY <1>3
  <2> DEFINE drawn == IF answered /\ refresh.list # <<>> /\ CanSort THEN profiles ELSE refresh.list
  <2>1. DrawCards(drawn) /\ DrawMap(drawn) /\ Behind(drawn # profiles) /\ drawn \in Seq(Profile)
    BY <1>0 DEF RefreshCommit
  <2> HIDE DEF drawn
  <2>2. OnFleetPage' \subseteq Ids
    BY <1>0, <2>1, DrawnIds
  <2>3. behind' \subseteq Pages
    BY <2>1 DEF Behind
  <2>4. statuses' \in [Ids -> Statuses]
    BY DEF RefreshCommit, Results
  <2>5. selected' \in Known /\ UNCHANGED <<config, original, view, mapping>>
    BY <1>0 DEF RefreshCommit
  <2>6. ListTypes'
    BY <2>5 DEF TypeIInv, ListTypes, config
  <2>7. ChoiceTypes'
    BY <1>0, <2>4, <2>5 DEF ChoiceTypes
  <2>8. refresh' = NoRefresh
    BY DEF RefreshCommit
  <2> QED  BY <1>1, <2>2, <2>3, <2>6, <2>7, <2>8 DEF Left
<1>4. CASE RefreshFailed
  <2>1. DrawCards(<<>>) /\ DrawMap(<<>>)
    BY <1>4 DEF RefreshFailed
  <2>2. OnFleetPage' \subseteq Ids
    BY <1>0, <2>1, DrawnIds
  <2>3. statuses' \in [Ids -> Statuses] /\ behind' \subseteq Pages
    BY <1>4 DEF RefreshFailed, Statuses, Pages
  <2>4. UNCHANGED <<config, original, selected, view, mapping>>
    BY <1>4 DEF RefreshFailed
  <2>5. ListTypes'
    BY <2>4 DEF TypeIInv, ListTypes, config
  <2>6. ChoiceTypes'
    BY <1>0, <2>3, <2>4 DEF ChoiceTypes
  <2>7. refresh' = NoRefresh
    BY <1>4 DEF RefreshFailed
  <2> QED  BY <1>1, <2>2, <2>3, <2>5, <2>6, <2>7 DEF Left
<1> QED  BY <1>2, <1>3, <1>4 DEF RefreshStep

\* No step breaks the types.
LEMMA TypesStay ==
  ASSUME TypeIInv, [Next]_vars
  PROVE  TypeIInv'
<1>1. CASE Handler
  <2>1. refresh' \in Refreshes /\ edits' \in Nat
    BY <1>1 DEF Handler, TypeIInv, RestTypes
  <2> QED  BY <1>1, <2>1, HandlersType DEF Left, TypeIInv, RestTypes
<1>2. CASE RefreshStep
  <2>1. edits' \in Nat
    BY <1>2 DEF RefreshStep, TypeIInv, RestTypes
  <2> QED  BY <1>2, <2>1, RefreshType DEF Left, TypeIInv, RestTypes
<1>3. CASE UNCHANGED vars
  BY <1>3 DEF vars, config, map, TypeIInv, ListTypes, ChoiceTypes, RestTypes, OnFleetPage
<1> QED  BY <1>1, <1>2, <1>3 DEF Next

\* A session begins with types that hold.
LEMMA TypesBegin ==
  ASSUME Init
  PROVE  TypeIInv
<1>1. <<>> \in Seq(Profile) /\ NoDevice \in Known
  BY DEF Known
<1>2. ListTypes
  <2>1. \A list \in TypedLists : list \in Seq(Profile)
    BY TypedListsType
  <2> QED  BY <1>1, <2>1 DEF Init, ListTypes, Texts
<1>3. ChoiceTypes
  BY <1>1 DEF Init, ChoiceTypes, Statuses, Views, Filters, SortKeys
<1>4. RestTypes
  BY <1>1 DEF Init, RestTypes, Refreshes, NoRefresh
<1>5. \A filter : ByMapping(<<>>, filter) = <<>>
  BY EntriesOfNone DEF ByMapping
<1>6. cards = <<>> /\ markers = <<>>
  BY <1>5 DEF Init, CardsOf, DisplayRows, MarkersOf
<1> QED  BY <1>2, <1>3, <1>4, <1>6 DEF TypeIInv, OnFleetPage

\* Types hold throughout, for any lists that are typed.
THEOREM TypesHold == Spec => []TypeIInv
BY TypesBegin, TypesStay, PTL DEF Spec

\* The list stays one of profiles, the selection and the form name a controller
\* or none, and the pages show ids of controllers only.
THEOREM PagesTypes == Spec => []TypeOK
BY TypesHold, TypesAreTypes, PTL

-----------------------------------------------------------------------------
(* What edits do to lists                                                  *)

\* Lists whose entries have the same ids, one by one: the first entry of an id
\* is at the same place in both.
LEMMA SameIds ==
  ASSUME NEW list \in Seq(Profile), NEW other \in Seq(Profile), DOMAIN other = DOMAIN list,
         \A i \in DOMAIN list : other[i].id = list[i].id
  PROVE  /\ Configured(other) = Configured(list)
         /\ NamesOnce(list) => NamesOnce(other)
         /\ \A d \in Configured(list) :
              \E i \in DOMAIN list : /\ list[i].id = d /\ IsFirst(list, i)
                                     /\ ProfileOf(list, d) = list[i] /\ ProfileOf(other, d) = other[i]
<1>1. Configured(other) = Configured(list)
  BY DEF Configured
<1>2. NamesOnce(list) => NamesOnce(other)
  BY DEF NamesOnce
<1>3. ASSUME NEW d \in Configured(list)
      PROVE  \E i \in DOMAIN list : /\ list[i].id = d /\ IsFirst(list, i)
                                    /\ ProfileOf(list, d) = list[i] /\ ProfileOf(other, d) = other[i]
  <2>1. PICK i \in DOMAIN list : list[i].id = d /\ IsFirst(list, i)
    BY FirstAndLastPlace
  <2>2. DOMAIN list = 1..Len(list) /\ Len(list) \in Nat
    BY LenProperties
  <2>3. \A j \in 1..(i - 1) : j \in DOMAIN list
    BY <2>2
  <2>4. IsFirst(other, i)
    BY <2>1, <2>3 DEF IsFirst
  <2>5. ProfileOf(list, d) = list[i]
    BY <2>1, FirstIsTheProfile
  <2>6. ProfileOf(other, d) = other[i]
    BY <2>1, <2>4, FirstIsTheProfile
  <2> QED  BY <2>1, <2>5, <2>6
<1> QED  BY <1>1, <1>2, <1>3

\* A list with one more at its end.
LEMMA Longer ==
  ASSUME NEW list \in Seq(Profile), NEW p \in Profile
  PROVE  LET longer == Append(list, p) IN
           /\ longer \in Seq(Profile) /\ Len(list) \in Nat
           /\ DOMAIN list = 1..Len(list) /\ DOMAIN longer = 1..(Len(list) + 1)
           /\ \A i \in DOMAIN list : longer[i] = list[i]
           /\ longer[Len(list) + 1] = p
           /\ Configured(longer) = Configured(list) \cup {p.id}
           /\ \A i \in DOMAIN list : IsFirst(longer, i) <=> IsFirst(list, i)
           /\ IsFirst(longer, Len(list) + 1) <=> p.id \notin Configured(list)
<1> DEFINE longer == Append(list, p)
           N == Len(list)
<1>1. /\ longer \in Seq(Profile) /\ N \in Nat /\ DOMAIN list = 1..N /\ DOMAIN longer = 1..(N + 1)
      /\ \A i \in DOMAIN list : longer[i] = list[i]
      /\ longer[N + 1] = p
  <2>1. longer \in Seq(Profile) /\ Len(longer) = N + 1 /\ longer[N + 1] = p
    BY AppendProperties
  <2>2. N \in Nat /\ DOMAIN list = 1..N /\ \A i \in 1..N : longer[i] = list[i]
    BY AppendProperties, LenProperties
  <2>3. DOMAIN longer = 1..(N + 1)
    BY <2>1, LenProperties
  <2> QED  BY <2>1, <2>2, <2>3
<1> HIDE DEF longer, N
<1>2. Configured(longer) = Configured(list) \cup {p.id}
  <2>1. DOMAIN longer = DOMAIN list \cup {N + 1}
    BY <1>1
  <2> QED  BY <1>1, <2>1 DEF Configured
<1>3. ASSUME NEW i \in DOMAIN list
      PROVE  IsFirst(longer, i) <=> IsFirst(list, i)
  <2>1. \A j \in 1..(i - 1) : j \in DOMAIN list
    BY <1>1
  <2> QED  BY <1>1, <2>1 DEF IsFirst
<1>4. IsFirst(longer, N + 1) <=> p.id \notin Configured(list)
  <2>1. 1..((N + 1) - 1) = DOMAIN list
    BY <1>1
  <2> QED  BY <1>1, <2>1 DEF IsFirst, Configured
<1> QED  BY <1>1, <1>2, <1>3, <1>4 DEF longer, N

\* Leaving ids out of a list with one more at its end.
LEMMA WithoutLonger ==
  ASSUME NEW list \in Seq(Profile), NEW p \in Profile, NEW ds
  PROVE  Without(Append(list, p), ds) =
           IF p.id \notin ds THEN Append(Without(list, ds), p) ELSE Without(list, ds)
<1> DEFINE longer == Append(list, p)
           places == {i \in DOMAIN list : list[i].id \notin ds}
           others == {i \in DOMAIN longer : longer[i].id \notin ds}
<1>1. /\ Len(list) \in Nat /\ DOMAIN list = 1..Len(list) /\ DOMAIN longer = 1..(Len(list) + 1)
      /\ \A i \in DOMAIN list : longer[i] = list[i]
      /\ longer[Len(list) + 1] = p
  BY Longer
<1> HIDE DEF longer
<1>2. \A i \in DOMAIN list : i \in places <=> i \in others
  BY <1>1
<1>3. Len(list) + 1 \in others <=> p.id \notin ds
  BY <1>1
<1> HIDE DEF places, others
<1>4. Entries(longer, others) =
        IF Len(list) + 1 \in others THEN Append(Entries(list, places), p) ELSE Entries(list, places)
  BY <1>2, EntriesOfAppend DEF longer
<1> QED  BY <1>3, <1>4 DEF Without, longer, places, others

\* Lists that differ only in entries whose ids are left out.
LEMMA SameWithout ==
  ASSUME NEW list \in Seq(Profile), NEW other \in Seq(Profile), DOMAIN other = DOMAIN list,
         NEW ds, \A i \in DOMAIN list : /\ other[i].id = list[i].id
                                        /\ list[i].id \notin ds => other[i] = list[i]
  PROVE  Without(other, ds) = Without(list, ds)
<1> DEFINE places == {i \in DOMAIN list : list[i].id \notin ds}
           others == {i \in DOMAIN other : other[i].id \notin ds}
<1>1. ASSUME NEW i \in DOMAIN list
      PROVE  (i \in places <=> i \in others) /\ (i \in places => list[i] = other[i])
  <2>1. i \in places <=> list[i].id \notin ds
    OBVIOUS
  <2>2. i \in others <=> other[i].id \notin ds
    OBVIOUS
  <2> HIDE DEF places, others
  <2> QED  BY <2>1, <2>2
<1>2. Len(other) = Len(list)
  <2>1. /\ Len(list) \in Nat /\ DOMAIN list = 1..Len(list)
        /\ Len(other) \in Nat /\ DOMAIN other = 1..Len(other)
    BY LenProperties
  <2> QED  BY <2>1
<1> HIDE DEF places, others
<1>3. Entries(list, places) = Entries(other, others)
  BY <1>1, <1>2, SameEntries
<1> QED  BY <1>3 DEF Without, places, others

\* What is left of a list, up to some place, without an id: the other ids that
\* were there, each under its first entry.
Remains(list, n, d, q) ==
  /\ q \in Seq(Profile)
  /\ Configured(q) = {list[i].id : i \in 1..n} \ {d}
  /\ \A i \in DOMAIN q : IsFirst(q, i) => \E j \in 1..n : IsFirst(list, j) /\ list[j] = q[i]
  /\ NamesOnce(list) => NamesOnce(q)

\* One place further.
LEMMA RemainsOneMore ==
  ASSUME NEW list \in Seq(Profile), NEW n \in DOMAIN list, NEW d, NEW q, Remains(list, n - 1, d, q)
  PROVE  Remains(list, n, d, IF list[n].id # d THEN Append(q, list[n]) ELSE q)
<1> DEFINE earlier == {list[i].id : i \in 1..(n - 1)}
           sofar == {list[i].id : i \in 1..n}
           N == Len(q)
           longer == Append(q, list[n])
<1>1. /\ n \in Nat /\ n \in 1..n /\ 1..n = (1..(n - 1)) \cup {n} /\ list[n] \in Profile
      /\ \A j \in 1..(n - 1) : j \in 1..n /\ j \in DOMAIN list /\ j # n
  <2>1. DOMAIN list = 1..Len(list) /\ Len(list) \in Nat
    BY LenProperties
  <2> QED  BY <2>1
<1>2. sofar = earlier \cup {list[n].id}
  BY <1>1
<1>3. q \in Seq(Profile) /\ Configured(q) = earlier \ {d}
  BY DEF Remains
<1>4. \A i \in DOMAIN q : IsFirst(q, i) => \E j \in 1..n : IsFirst(list, j) /\ list[j] = q[i]
  BY <1>1 DEF Remains
<1>5. CASE list[n].id = d
  BY <1>2, <1>3, <1>4, <1>5 DEF Remains
<1>6. CASE list[n].id # d
  <2>1. /\ longer \in Seq(Profile) /\ N \in Nat
        /\ DOMAIN q = 1..N /\ DOMAIN longer = 1..(N + 1)
        /\ \A i \in DOMAIN q : longer[i] = q[i]
        /\ longer[N + 1] = list[n]
        /\ Configured(longer) = Configured(q) \cup {list[n].id}
        /\ \A i \in DOMAIN q : IsFirst(longer, i) <=> IsFirst(q, i)
        /\ IsFirst(longer, N + 1) <=> list[n].id \notin Configured(q)
    BY <1>1, <1>3, Longer
  <2> HIDE DEF longer, N
  <2>2. Configured(longer) = sofar \ {d}
    BY <1>2, <1>3, <1>6, <2>1
  <2>3. list[n].id \notin Configured(q) => IsFirst(list, n)
    BY <1>3, <1>6 DEF IsFirst
  <2>4. ASSUME NEW i \in DOMAIN longer, IsFirst(longer, i)
        PROVE  \E j \in 1..n : IsFirst(list, j) /\ list[j] = longer[i]
    <3>1. CASE i \in DOMAIN q
      BY <1>4, <2>1, <2>4, <3>1
    <3>2. CASE i = N + 1
      BY <1>1, <2>1, <2>3, <2>4, <3>2
    <3> QED  BY <2>1, <3>1, <3>2
  <2>5. ASSUME NamesOnce(list) PROVE NamesOnce(longer)
    <3>1. NamesOnce(q)
      BY <2>5 DEF Remains
    <3>2. list[n].id \notin earlier
      BY <1>1, <2>5 DEF NamesOnce
    <3>3. \A i \in DOMAIN q : q[i].id # list[n].id
      BY <1>3, <3>2 DEF Configured
    <3>4. \A i \in DOMAIN longer : i \in DOMAIN q \/ i = N + 1
      BY <2>1
    <3> QED  BY <2>1, <3>1, <3>3, <3>4 DEF NamesOnce
  <2> QED  BY <1>6, <2>1, <2>2, <2>4, <2>5 DEF Remains, longer
<1> QED  BY <1>5, <1>6

\* What is left when a profile is removed: the others, each under its first
\* entry, in their order.
LEMMA RemovalLeaves ==
  ASSUME NEW list \in Seq(Profile), NEW d
  PROVE  Remains(list, Len(list), d, Remove(list, d))
<1> DEFINE places == {i \in DOMAIN list : list[i].id # d}
<1>1. PICK f : Gathers(f, list, places) /\ Entries(list, places) = f[Len(list)]
  BY Gathered
<1>2. DOMAIN list = 1..Len(list) /\ Len(list) \in Nat
  BY LenProperties
<1>3. \A n \in DOMAIN list : n \in places <=> list[n].id # d
  OBVIOUS
<1> HIDE DEF places
<1> DEFINE Failing == {n \in 0..Len(list) : ~Remains(list, n, d, f[n])}
<1>4. 0 \notin Failing
  <2>1. f[0] = <<>> /\ <<>> \in Seq(Profile) /\ DOMAIN <<>> = {}
    BY <1>1, EmptySeq DEF Gathers
  <2>2. Remains(list, 0, d, <<>>)
    BY <2>1 DEF Remains, Configured, NamesOnce
  <2> QED  BY <2>1, <2>2
<1>5. ASSUME NEW m \in 1..Len(list), m - 1 \notin Failing PROVE m \notin Failing
  <2>1. m - 1 \in 0..Len(list) /\ m \in DOMAIN list
    BY <1>2
  <2>2. Remains(list, m - 1, d, f[m - 1])
    BY <1>5, <2>1
  <2>3. Remains(list, m, d, IF list[m].id # d THEN Append(f[m - 1], list[m]) ELSE f[m - 1])
    BY <2>1, <2>2, RemainsOneMore
  <2>4. f[m] = IF list[m].id # d THEN Append(f[m - 1], list[m]) ELSE f[m - 1]
    BY <1>1, <1>3, <2>1 DEF Gathers
  <2> QED  BY <2>3, <2>4
<1> HIDE DEF Failing
<1>6. Failing \in SUBSET (0..Len(list))
  BY DEF Failing
<1>7. Failing = {}
  BY <1>2, <1>4, <1>5, <1>6, NoFirstFailure
<1>8. Len(list) \in 0..Len(list)
  BY <1>2
<1>9. Remains(list, Len(list), d, f[Len(list)])
  BY <1>7, <1>8 DEF Failing
<1> QED  BY <1>1, <1>9 DEF Remove, places

\* Removing a profile leaves the other ids what they were.
LEMMA RemovalKeeps ==
  ASSUME NEW list \in Seq(Profile), NEW d
  PROVE  /\ Configured(Remove(list, d)) = Configured(list) \ {d}
         /\ NamesOnce(list) => NamesOnce(Remove(list, d))
         /\ \A e \in Configured(Remove(list, d)) : ProfileOf(Remove(list, d), e) = ProfileOf(list, e)
<1> DEFINE q == Remove(list, d)
<1>1. Remains(list, Len(list), d, q)
  BY RemovalLeaves
<1>2. DOMAIN list = 1..Len(list)
  BY LenProperties
<1> HIDE DEF q
<1>3. Configured(q) = Configured(list) \ {d} /\ (NamesOnce(list) => NamesOnce(q)) /\ q \in Seq(Profile)
  BY <1>1, <1>2 DEF Remains, Configured
<1>4. ASSUME NEW e \in Configured(q) PROVE ProfileOf(q, e) = ProfileOf(list, e)
  <2>1. PICK i \in DOMAIN q : q[i].id = e /\ IsFirst(q, i)
    BY <1>3, FirstAndLastPlace
  <2>2. PICK j \in DOMAIN list : IsFirst(list, j) /\ list[j] = q[i]
    BY <1>1, <1>2, <2>1 DEF Remains
  <2>3. ProfileOf(q, q[i].id) = q[i]
    BY <1>3, <2>1, FirstIsTheProfile
  <2>4. ProfileOf(list, list[j].id) = list[j]
    BY <2>2, FirstIsTheProfile
  <2> QED  BY <2>1, <2>2, <2>3, <2>4
<1> QED  BY <1>3, <1>4 DEF q

\* Removing one of the ids that are left out anyway makes no difference.
LEMMA RemovedWithout ==
  ASSUME NEW list \in Seq(Profile), NEW ds, NEW d \in ds
  PROVE  Without(Remove(list, d), ds) = Without(list, ds)
<1> DEFINE kept == {i \in DOMAIN list : list[i].id # d}
           places == {i \in DOMAIN list : list[i].id \notin ds}
<1>1. PICK f : Gathers(f, list, kept) /\ Entries(list, kept) = f[Len(list)]
  BY Gathered
<1>2. PICK g : Gathers(g, list, places) /\ Entries(list, places) = g[Len(list)]
  BY Gathered
<1>3. DOMAIN list = 1..Len(list) /\ Len(list) \in Nat /\ \A n \in DOMAIN list : list[n] \in Profile
  BY LenProperties
<1>4. \A n \in DOMAIN list : (n \in kept <=> list[n].id # d) /\ (n \in places <=> list[n].id \notin ds)
  OBVIOUS
<1>5. \A n \in 0..Len(list) : f[n] \in Seq(Profile)
  BY <1>1, <1>3, GatheredType
<1> HIDE DEF kept, places
<1> DEFINE Failing == {n \in 0..Len(list) : Without(f[n], ds) # g[n]}
<1>6. 0 \notin Failing
  <2>1. f[0] = <<>> /\ g[0] = <<>>
    BY <1>1, <1>2 DEF Gathers
  <2>2. Without(<<>>, ds) = <<>>
    BY EntriesOfNone DEF Without
  <2> QED  BY <2>1, <2>2
<1>7. ASSUME NEW m \in 1..Len(list), m - 1 \notin Failing PROVE m \notin Failing
  <2>1. m - 1 \in 0..Len(list) /\ m \in DOMAIN list /\ list[m] \in Profile
    BY <1>3
  <2>2. Without(f[m - 1], ds) = g[m - 1] /\ f[m - 1] \in Seq(Profile)
    BY <1>5, <1>7, <2>1
  <2>3. Without(Append(f[m - 1], list[m]), ds) =
          IF list[m].id \notin ds THEN Append(g[m - 1], list[m]) ELSE g[m - 1]
    BY <2>1, <2>2, WithoutLonger
  <2>4. f[m] = IF list[m].id # d THEN Append(f[m - 1], list[m]) ELSE f[m - 1]
    BY <1>1, <1>4, <2>1 DEF Gathers
  <2>5. g[m] = IF list[m].id \notin ds THEN Append(g[m - 1], list[m]) ELSE g[m - 1]
    BY <1>2, <1>4, <2>1 DEF Gathers
  <2> QED  BY <2>2, <2>3, <2>4, <2>5
<1> HIDE DEF Failing
<1>8. Failing \in SUBSET (0..Len(list))
  BY DEF Failing
<1>9. Failing = {}
  BY <1>3, <1>6, <1>7, <1>8, NoFirstFailure
<1>10. Len(list) \in 0..Len(list)
  BY <1>3
<1>11. Without(f[Len(list)], ds) = g[Len(list)]
  BY <1>9, <1>10 DEF Failing
<1> QED  BY <1>1, <1>2, <1>11 DEF Remove, Without, kept, places

\* Writing a profile leaves the other ids what they were.
LEMMA UpsertKeeps ==
  ASSUME NEW list \in Seq(Profile), NEW p \in Profile
  PROVE  LET q == Upsert(list, p) IN
           /\ q \in Seq(Profile)
           /\ Configured(q) = Configured(list) \cup {p.id}
           /\ NamesOnce(list) => NamesOnce(q)
           /\ ProfileOf(q, p.id) = p
           /\ \A e \in Configured(q) \ {p.id} : ProfileOf(q, e) = ProfileOf(list, e)
           /\ \A ds : p.id \in ds => Without(q, ds) = Without(list, ds)
<1> DEFINE q == Upsert(list, p)
           replaced == [i \in DOMAIN list |-> IF list[i].id = p.id /\ IsFirst(list, i) THEN p ELSE list[i]]
           longer == Append(list, p)
<1>1. q \in Seq(Profile)
  BY UpsertType
<1>2. CASE p.id \in Configured(list)
  <2>1. q = replaced
    BY <1>2 DEF Upsert
  <2>2. /\ replaced \in Seq(Profile) /\ DOMAIN replaced = DOMAIN list
        /\ \A i \in DOMAIN list : /\ replaced[i].id = list[i].id
                                  /\ list[i].id # p.id => replaced[i] = list[i]
                                  /\ list[i].id = p.id /\ IsFirst(list, i) => replaced[i] = p
    BY <1>1, <2>1
  <2> HIDE DEF replaced, q
  <2>3. /\ Configured(replaced) = Configured(list)
        /\ NamesOnce(list) => NamesOnce(replaced)
        /\ \A d \in Configured(list) :
             \E i \in DOMAIN list : /\ list[i].id = d /\ IsFirst(list, i)
                                    /\ ProfileOf(list, d) = list[i]
                                    /\ ProfileOf(replaced, d) = replaced[i]
    BY <2>2, SameIds
  <2>4. ProfileOf(replaced, p.id) = p
    <3>1. PICK i \in DOMAIN list : /\ list[i].id = p.id /\ IsFirst(list, i)
                                   /\ ProfileOf(replaced, p.id) = replaced[i]
      BY <1>2, <2>3
    <3>2. replaced[i] = p
      BY <2>2, <3>1
    <3> QED  BY <3>1, <3>2
  <2>5. ASSUME NEW e \in Configured(list) \ {p.id} PROVE ProfileOf(replaced, e) = ProfileOf(list, e)
    <3>1. PICK i \in DOMAIN list : /\ list[i].id = e /\ ProfileOf(list, e) = list[i]
                                   /\ ProfileOf(replaced, e) = replaced[i]
      BY <2>3
    <3>2. replaced[i] = list[i]
      BY <2>2, <3>1
    <3> QED  BY <3>1, <3>2
  <2>6. ASSUME NEW ds, p.id \in ds PROVE Without(replaced, ds) = Without(list, ds)
    <3>1. \A i \in DOMAIN list : /\ replaced[i].id = list[i].id
                                 /\ list[i].id \notin ds => replaced[i] = list[i]
      BY <2>2, <2>6
    <3> QED  BY <2>2, <3>1, SameWithout
  <2> QED  BY <1>1, <1>2, <2>1, <2>3, <2>4, <2>5, <2>6 DEF q
<1>3. CASE p.id \notin Configured(list)
  <2>1. q = longer
    BY <1>3 DEF Upsert
  <2>2. /\ longer \in Seq(Profile) /\ Len(list) \in Nat
        /\ DOMAIN list = 1..Len(list) /\ DOMAIN longer = 1..(Len(list) + 1)
        /\ \A i \in DOMAIN list : longer[i] = list[i]
        /\ longer[Len(list) + 1] = p
        /\ Configured(longer) = Configured(list) \cup {p.id}
        /\ \A i \in DOMAIN list : IsFirst(longer, i) <=> IsFirst(list, i)
        /\ IsFirst(longer, Len(list) + 1) <=> p.id \notin Configured(list)
    BY Longer
  <2>3. \A ds : p.id \in ds => Without(longer, ds) = Without(list, ds)
    BY WithoutLonger
  <2> HIDE DEF longer, q
  <2>4. ProfileOf(longer, p.id) = p
    <3>1. Len(list) + 1 \in DOMAIN longer /\ longer[Len(list) + 1].id = p.id
      BY <2>2
    <3>2. ProfileOf(longer, longer[Len(list) + 1].id) = longer[Len(list) + 1]
      BY <1>3, <2>2, <3>1, FirstIsTheProfile
    <3> QED  BY <2>2, <3>1, <3>2
  <2>5. ASSUME NEW e \in Configured(list) PROVE ProfileOf(longer, e) = ProfileOf(list, e)
    <3>1. PICK i \in DOMAIN list : list[i].id = e /\ IsFirst(list, i)
      BY FirstAndLastPlace
    <3>2. i \in DOMAIN longer /\ longer[i] = list[i] /\ IsFirst(longer, i)
      BY <2>2, <3>1
    <3>3. ProfileOf(longer, longer[i].id) = longer[i]
      BY <2>2, <3>2, FirstIsTheProfile
    <3>4. ProfileOf(list, list[i].id) = list[i]
      BY <3>1, FirstIsTheProfile
    <3> QED  BY <3>1, <3>2, <3>3, <3>4
  <2>6. NamesOnce(list) => NamesOnce(longer)
    <3>1. \A i \in DOMAIN list : list[i].id # p.id
      BY <1>3 DEF Configured
    <3>2. \A i \in DOMAIN longer : i \in DOMAIN list \/ i = Len(list) + 1
      BY <2>2
    <3> QED  BY <2>2, <3>1, <3>2 DEF NamesOnce
  <2> QED  BY <1>1, <2>1, <2>2, <2>3, <2>4, <2>5, <2>6 DEF q
<1> QED  BY <1>2, <1>3

\* Switching the polling of a profile leaves ids and streams what they were.
LEMMA WithPollingKeeps ==
  ASSUME NEW list \in Seq(Profile), NEW d, NEW v \in BOOLEAN
  PROVE  LET q == WithPolling(list, d, v) IN
           /\ Configured(q) = Configured(list)
           /\ NamesOnce(list) => NamesOnce(q)
           /\ \A e \in Configured(list) : ProfileOf(q, e).streams = ProfileOf(list, e).streams
           /\ \A ds : d \in ds => Without(q, ds) = Without(list, ds)
<1> DEFINE q == WithPolling(list, d, v)
<1>1. q \in Seq(Profile)
  BY WithPollingType
<1>2. \A p \in Profile : /\ [p EXCEPT !.polling = v].id = p.id
                         /\ [p EXCEPT !.polling = v].streams = p.streams
  BY DEF Profile
<1>3. \A i \in DOMAIN list : list[i] \in Profile
  OBVIOUS
<1>4. DOMAIN q = DOMAIN list
  BY DEF WithPolling
<1>5. \A i \in DOMAIN list : q[i] = IF list[i].id = d THEN [list[i] EXCEPT !.polling = v] ELSE list[i]
  BY DEF WithPolling
<1> HIDE DEF q
<1>6. \A i \in DOMAIN list : /\ q[i].id = list[i].id /\ q[i].streams = list[i].streams
                             /\ list[i].id # d => q[i] = list[i]
  BY <1>2, <1>3, <1>5
<1>7. /\ Configured(q) = Configured(list)
      /\ NamesOnce(list) => NamesOnce(q)
      /\ \A e \in Configured(list) :
           \E i \in DOMAIN list : /\ list[i].id = e /\ IsFirst(list, i)
                                  /\ ProfileOf(list, e) = list[i] /\ ProfileOf(q, e) = q[i]
  BY <1>1, <1>4, <1>6, SameIds
<1>8. ASSUME NEW e \in Configured(list) PROVE ProfileOf(q, e).streams = ProfileOf(list, e).streams
  <2>1. PICK i \in DOMAIN list : ProfileOf(list, e) = list[i] /\ ProfileOf(q, e) = q[i]
    BY <1>7
  <2>2. q[i].streams = list[i].streams
    BY <1>6
  <2> QED  BY <2>1, <2>2
<1>9. ASSUME NEW ds, d \in ds PROVE Without(q, ds) = Without(list, ds)
  <2>1. \A i \in DOMAIN list : q[i].id = list[i].id /\ (list[i].id \notin ds => q[i] = list[i])
    BY <1>6, <1>9
  <2> QED  BY <1>1, <1>4, <2>1, SameWithout
<1> QED  BY <1>7, <1>8, <1>9 DEF q

-----------------------------------------------------------------------------
(* Edits through the form                                                  *)

\* What an edit through the form must not do.
OneIsTouched == OthersStay /\ StreamsStay /\ (NamesOnce(profiles) => NamesOnce(profiles'))

\* An edit takes out at most the profile that was loaded, then writes one.
LEMMA SaveTouchesOne ==
  ASSUME TypeIInv, NEW f \in Forms, SaveControllerProfile(f)
  PROVE  OneIsTouched
<1> DEFINE others == Others(f)
           p == Saved(f)
<1>1. /\ profiles \in Seq(Profile) /\ original \in Known /\ f.id \in Ids /\ NoDevice \notin Ids
      /\ p \in Profile /\ p.id = f.id /\ p.streams = StreamsKept(f)
      /\ profiles' = Upsert(others, p) /\ original' = f.id
  <2>1. p \in Profile /\ profiles' = Upsert(others, p) /\ original' = f.id
    BY SavedType, SavingWrites
  <2>2. p.id = f.id /\ p.streams = StreamsKept(f)
    BY DEF Saved
  <2> QED  BY <2>1, <2>2, PagesAssumption DEF TypeIInv, ListTypes, ChoiceTypes, Forms
<1> DEFINE d == IF original = NoDevice THEN f.id ELSE original
<1>2. d \in Ids
  BY <1>1 DEF Known
<1>3. /\ others \in Seq(Profile)
      /\ NamesOnce(profiles) => NamesOnce(others)
      /\ Configured(others) \subseteq Configured(profiles)
      /\ \A e \in Configured(others) : ProfileOf(others, e) = ProfileOf(profiles, e)
      /\ Without(others, {d, f.id}) = Without(profiles, {d, f.id})
  <2>1. CASE original \in {NoDevice, f.id}
    BY <1>1, <2>1 DEF Others
  <2>2. CASE original \notin {NoDevice, f.id}
    <3>1. others = Remove(profiles, original) /\ original \in {d, f.id}
      BY <2>2 DEF Others
    <3>2. Remove(profiles, original) \in Seq(Profile)
      BY <1>1, FilterType
    <3>3. Without(Remove(profiles, original), {d, f.id}) = Without(profiles, {d, f.id})
      BY <1>1, <3>1, RemovedWithout
    <3>4. /\ Configured(Remove(profiles, original)) \subseteq Configured(profiles)
          /\ NamesOnce(profiles) => NamesOnce(Remove(profiles, original))
          /\ \A e \in Configured(Remove(profiles, original)) :
               ProfileOf(Remove(profiles, original), e) = ProfileOf(profiles, e)
      BY <1>1, RemovalKeeps
    <3> HIDE DEF others, d
    <3> QED  BY <3>1, <3>2, <3>3, <3>4
  <2> QED  BY <2>1, <2>2
<1> HIDE DEF others, p
<1>4. /\ Configured(profiles') = Configured(others) \cup {f.id}
      /\ NamesOnce(others) => NamesOnce(profiles')
      /\ ProfileOf(profiles', f.id) = p
      /\ \A e \in Configured(profiles') \ {f.id} : ProfileOf(profiles', e) = ProfileOf(others, e)
      /\ Without(profiles', {d, f.id}) = Without(others, {d, f.id})
  <2> DEFINE q == Upsert(others, p)
  <2>1. /\ Configured(q) = Configured(others) \cup {p.id}
        /\ NamesOnce(others) => NamesOnce(q)
        /\ ProfileOf(q, p.id) = p
        /\ \A e \in Configured(q) \ {p.id} : ProfileOf(q, e) = ProfileOf(others, e)
        /\ \A ds : p.id \in ds => Without(q, ds) = Without(others, ds)
    BY <1>1, <1>3, UpsertKeeps
  <2> HIDE DEF q
  <2>2. profiles' = q
    BY <1>1 DEF q
  <2>3. p.id \in {d, f.id}
    BY <1>1
  <2> QED  BY <1>1, <2>1, <2>2, <2>3
<1>5. OthersStay
  <2>1. Without(profiles', {d, original'}) = Without(profiles, {d, original'})
    BY <1>1, <1>3, <1>4
  <2> QED  BY <1>2, <2>1 DEF OthersStay
<1>6. StreamsStay
  <2> SUFFICES ASSUME NEW e \in Configured(profiles'),
                      (IF e = original' THEN TargetOf(e) ELSE e) \in Configured(profiles)
               PROVE  ProfileOf(profiles', e).streams =
                        ProfileOf(profiles, IF e = original' THEN TargetOf(e) ELSE e).streams
    BY DEF StreamsStay
  <2>1. CASE e = f.id
    <3>1. profiles # <<>> /\ TargetOf(f.id) \in Configured(profiles)
      BY <1>1, <2>1 DEF Configured
    <3>2. StreamsKept(f) = ProfileOf(profiles, TargetOf(f.id)).streams
      BY <3>1 DEF StreamsKept, SelectProfile
    <3> QED  BY <1>1, <1>4, <2>1, <3>2
  <2>2. CASE e # f.id
    <3>1. e \in Configured(others)
      BY <1>4, <2>2
    <3> QED  BY <1>1, <1>3, <1>4, <2>2, <3>1
  <2> QED  BY <2>1, <2>2
<1> QED  BY <1>3, <1>4, <1>5, <1>6 DEF OneIsTouched

\* Deleting a profile takes out the one that was loaded.
LEMMA DeleteTouchesOne ==
  ASSUME TypeIInv, NEW d \in Ids, DeleteControllerProfile(d)
  PROVE  OneIsTouched
<1> DEFINE t == TargetOf(d)
<1>1. /\ profiles \in Seq(Profile) /\ t \in Configured(profiles)
      /\ profiles' = Remove(profiles, t) /\ original' = NoDevice
  BY DEF DeleteControllerProfile, TypeIInv, ListTypes
<1>2. Configured(profiles) \subseteq Ids /\ NoDevice \notin Ids
  <2>1. \A i \in DOMAIN profiles : profiles[i] \in Profile
    BY <1>1
  <2>2. \A q \in Profile : q.id \in Ids
    BY DEF Profile
  <2> QED  BY <2>1, <2>2, PagesAssumption DEF Configured
<1>3. original # NoDevice => t = original
  BY DEF TargetOf
<1> HIDE DEF t
<1>4. /\ Configured(profiles') = Configured(profiles) \ {t}
      /\ NamesOnce(profiles) => NamesOnce(profiles')
      /\ \A e \in Configured(profiles') : ProfileOf(profiles', e) = ProfileOf(profiles, e)
  BY <1>1, RemovalKeeps
<1>5. OthersStay
  <2>1. t \in {t, original'}
    OBVIOUS
  <2>2. Without(profiles', {t, original'}) = Without(profiles, {t, original'})
    BY <1>1, <2>1, RemovedWithout
  <2> QED  BY <1>1, <1>2, <1>3, <2>2 DEF OthersStay
<1>6. StreamsStay
  BY <1>1, <1>2, <1>4 DEF StreamsStay
<1> QED  BY <1>4, <1>5, <1>6 DEF OneIsTouched

\* The switch of the monitor touches the profile in the form.
LEMMA SwitchTouchesOne ==
  ASSUME TypeIInv, NEW v \in BOOLEAN, UpdateControllerProfilePollingEnabled(v)
  PROVE  OneIsTouched
<1> DEFINE t == TargetOf(selected)
<1>1. /\ profiles \in Seq(Profile) /\ t \in Configured(profiles)
      /\ profiles' = WithPolling(profiles, t, v) /\ original' = original
  BY DEF UpdateControllerProfilePollingEnabled, TypeIInv, ListTypes
<1>2. Configured(profiles) \subseteq Ids /\ NoDevice \notin Ids
  <2>1. \A i \in DOMAIN profiles : profiles[i] \in Profile
    BY <1>1
  <2>2. \A q \in Profile : q.id \in Ids
    BY DEF Profile
  <2> QED  BY <2>1, <2>2, PagesAssumption DEF Configured
<1>3. original # NoDevice => t = original
  BY DEF TargetOf
<1> HIDE DEF t
<1>4. /\ Configured(profiles') = Configured(profiles)
      /\ NamesOnce(profiles) => NamesOnce(profiles')
      /\ \A e \in Configured(profiles) :
           ProfileOf(profiles', e).streams = ProfileOf(profiles, e).streams
      /\ \A ds : t \in ds => Without(profiles', ds) = Without(profiles, ds)
  <2> DEFINE q == WithPolling(profiles, t, v)
  <2>1. /\ Configured(q) = Configured(profiles)
        /\ NamesOnce(profiles) => NamesOnce(q)
        /\ \A e \in Configured(profiles) : ProfileOf(q, e).streams = ProfileOf(profiles, e).streams
        /\ \A ds : t \in ds => Without(q, ds) = Without(profiles, ds)
    BY <1>1, WithPollingKeeps
  <2> HIDE DEF q
  <2>2. profiles' = q
    BY <1>1 DEF q
  <2> QED  BY <2>1, <2>2
<1>5. OthersStay
  <2>1. Without(profiles', {t, original'}) = Without(profiles, {t, original'})
    BY <1>4
  <2> QED  BY <1>1, <1>2, <1>3, <2>1 DEF OthersStay
<1>6. StreamsStay
  <2>1. \A e \in Configured(profiles) : e = original' => TargetOf(e) = e
    BY <1>1 DEF TargetOf
  <2> QED  BY <1>4, <2>1 DEF StreamsStay
<1> QED  BY <1>4, <1>5, <1>6 DEF OneIsTouched

\* No other step writes the list through the form.
LEMMA OnlyThreeEdit ==
  ASSUME Handler, profiles' # profiles, hand' = "form"
  PROVE  \/ \E f \in Forms : SaveControllerProfile(f)
         \/ \E d \in Ids : DeleteControllerProfile(d)
         \/ \E v \in BOOLEAN : UpdateControllerProfilePollingEnabled(v)
<1>1. ASSUME NEW v, ChangeView(v) PROVE FALSE
  BY <1>1 DEF ChangeView, config
<1> QED
  BY <1>1 DEF Handler, UpdateDeviceProfilesJson, InitializeControllerProfiles, UpdateFilterText,
     UpdateMappingFilter, UpdateFleetStatusMappingFilter, UpdateSortKey, ToggleSortDirection,
     OpenConfiguration, NewControllerProfile, OpenCreationDialog, FormOnly, LoadControllerProfile,
     OpenControllerProfileEditor, SelectController, OpenSelectedControllerStatus,
     UpdateSelectedDeviceId, BackToDashboard, CacheDeviceStatus, config

\* An edit through the form changes one controller, for any lists, also those
\* that name an id more than once.
THEOREM EditsTouchOneOnly == Spec => EditsTouchOne
<1>1. ASSUME TypeIInv, [Next]_vars
      PROVE  [profiles' # profiles /\ hand' = "form" => OneIsTouched]_vars
  <2> SUFFICES ASSUME Next, profiles' # profiles, hand' = "form"
               PROVE  OneIsTouched
    BY <1>1
  <2>1. Handler
    BY DEF Next, RefreshStep, RefreshBegin, RefreshCommit, RefreshFailed, config
  <2>2. CASE \E f \in Forms : SaveControllerProfile(f)
    BY <1>1, <2>2, SaveTouchesOne
  <2>3. CASE \E d \in Ids : DeleteControllerProfile(d)
    BY <1>1, <2>3, DeleteTouchesOne
  <2>4. CASE \E v \in BOOLEAN : UpdateControllerProfilePollingEnabled(v)
    BY <1>1, <2>4, SwitchTouchesOne
  <2> QED  BY <2>1, <2>2, <2>3, <2>4, OnlyThreeEdit
<1>2. ASSUME [profiles' # profiles /\ hand' = "form" => OneIsTouched]_vars
      PROVE  [profiles' # profiles /\ hand' = "form" =>
                /\ OthersStay /\ StreamsStay
                /\ NamesOnce(profiles) => NamesOnce(profiles')]_vars
  BY <1>2 DEF OneIsTouched
<1> QED  BY <1>1, <1>2, TypesHold, PTL DEF Spec, EditsTouchOne

=============================================================================
