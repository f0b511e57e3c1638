--------------------------- MODULE ControllerPages ---------------------------
(***************************************************************************)
(* The controllers of one operator's session and the pages that show them. *)
(*                                                                         *)
(* The session holds one list of profiles as JSON text.  The table of the  *)
(* configuration page, the cards of the fleet page and the markers of the  *)
(* map are not computed from it when they are looked at: each is a field   *)
(* of its own, which a handler draws again when it sees fit.  A handler    *)
(* runs from start to end under the session's lock and is one step; what   *)
(* it has assigned stays when it raises.  A refresh of the fleet reads the *)
(* list and the selection in one step and draws in a later one, and        *)
(* handlers run in between.                                                *)
(*                                                                         *)
(* What the operator types into the form is an input of the handler that   *)
(* reads it.  A profile is its id, its address, whether it has             *)
(* coordinates, whether it is polled, and its media streams; ports, names, *)
(* credentials, wording and colours are left out.                          *)
(***************************************************************************)
EXTENDS ProfileLists, FiniteSets

CONSTANTS
  Ids,          \* device ids, as numbers in the order of their text
  NoDevice,     \* the empty id
  V4, V6,       \* address literals, as numbers in the order of the addresses
  HostNames,    \* addresses that are no literals
  StreamSets,   \* lists of media streams
  NoStreams,    \* the empty one
  TypedLists,   \* bound of the model: the lists that are typed as JSON
  MaxEdits      \* bound of the model: handlers, and answers of the live loop

ASSUME PagesAssumption ==
  /\ Ids \subseteq Nat /\ NoDevice \in Nat \ Ids
  /\ V4 \subseteq Nat /\ V6 \subseteq Nat /\ HostNames \subseteq Nat
  /\ NoStreams \in StreamSets
  /\ TypedLists \subseteq Seq([id : Ids, ip : V4 \cup V6 \cup HostNames, placed : BOOLEAN,
                               polling : BOOLEAN, streams : StreamSets])
  /\ MaxEdits \in Nat

VARIABLES
  profiles,   \* device_profiles_json, parsed; empty when it does not parse
  parses,     \* whether it parses
  stored,     \* the text in the settings table: [list, parses]
  original,   \* controller_profile_original_device_id
  selected,   \* selected_device_id
  statuses,   \* fleet_status_by_id: what each id is shown as
  view,       \* the filters and the order of the table
  mapping,    \* fleet_status_mapping_filter, of the cards
  rows,       \* controller_profile_rows
  cards,      \* fleet_status_cards
  markers,    \* fleet_map_markers
  unplaced,   \* fleet_unmapped_device_ids
  refresh,    \* the task of refresh_fleet_status
  behind,     \* history: pages that may show another list, or earlier statuses
  hand,       \* history: what wrote the list last
  edits       \* how many of them so far

config == <<profiles, parses, stored, hand>>
map == <<markers, unplaced>>
vars == <<config, original, selected, statuses, view, mapping, rows, cards, map, refresh,
          behind, edits>>

Addresses == V4 \cup V6 \cup HostNames
Profile == [id : Ids, ip : Addresses, placed : BOOLEAN, polling : BOOLEAN, streams : StreamSets]
Statuses == {"Unknown", "Online", "Offline"}
Filters == {"all", "mapped", "unmapped"}
Pages == {"table", "fleet"}
SortKeys == {"device_id", "ip_address"}

-----------------------------------------------------------------------------
(* What the pages show of a list                                           *)

ByMapping(list, filter) ==
  Entries(list, {i \in DOMAIN list : \/ filter = "all"
                                     \/ filter = "mapped" /\ list[i].placed
                                     \/ filter = "unmapped" /\ ~list[i].placed})

\* The text that is searched for is one that a single id contains.
ByText(list, query) == Entries(list, {i \in DOMAIN list : query \in {NoDevice, list[i].id}})

Visible(list, v) == ByMapping(ByText(list, v.query), v.mapping)

\* Addresses of the two families, and names, cannot be compared.
Comparable(list) ==
  LET ips == {list[i].ip : i \in DOMAIN list} IN ips \subseteq V4 \/ ips \subseteq V6

Sortable(list, v) == v.key = "ip_address" => Comparable(Visible(list, v))

\* Whether p comes before q: by address and then id, or by id.
Precedes(p, q, v) ==
  LET Less(a, b) == IF v.desc THEN b < a ELSE a < b
  IN  \/ v.key = "ip_address" /\ Less(p.ip, q.ip)
      \/ (v.key = "ip_address" => p.ip = q.ip) /\ Less(p.id, q.id)

\* The order is stable, also downwards.
Sorted(list, v) ==
  LET Before(j, i) == \/ Precedes(list[j], list[i], v)
                      \/ ~Precedes(list[i], list[j], v) /\ j < i
      Place(i) == Cardinality({j \in DOMAIN list : Before(j, i)}) + 1
  IN  [k \in DOMAIN list |-> list[CHOOSE i \in DOMAIN list : Place(i) = k]]

DisplayRow(p, known) ==
  [id |-> p.id, ip |-> p.ip, placed |-> p.placed, polling |-> p.polling, status |-> known[p.id]]

DisplayRows(list, known) == [i \in DOMAIN list |-> DisplayRow(list[i], known)]

MarkerOf(p, known, chosen) ==
  [id |-> p.id, polling |-> p.polling, status |-> known[p.id], isSelected |-> p.id = chosen]

MarkersOf(list, known, chosen) ==
  LET placed == ByMapping(list, "mapped")
  IN  [i \in DOMAIN placed |-> MarkerOf(placed[i], known, chosen)]

UnplacedOf(list) == LET bare == ByMapping(list, "unmapped") IN [i \in DOMAIN bare |-> bare[i].id]

RowsOf(list, v, known) == DisplayRows(Sorted(Visible(list, v), v), known)
CardsOf(list, filter, known) == DisplayRows(ByMapping(list, filter), known)

-----------------------------------------------------------------------------
(* What handlers have in common                                            *)

\* Whether the table can be drawn; when it cannot, the handler ends there.
CanSort == Sortable(profiles', view')

\* The table is drawn from the list, or left when it cannot be.
SyncRows == rows' = IF CanSort THEN RowsOf(profiles', view', statuses') ELSE rows

DrawCards(list) == cards' = CardsOf(list, mapping', statuses')

DrawMap(list) ==
  /\ markers' = MarkersOf(list, statuses', selected')
  /\ unplaced' = UnplacedOf(list)

\* Which pages may show something else afterwards.
Behind(fleet) ==
  behind' = {p \in Pages : IF p = "table" THEN p \in behind /\ ~CanSort ELSE fleet}

\* Faulty: the map is left as it was.
DrawPagesButMap ==
  /\ SyncRows
  /\ IF CanSort THEN DrawCards(profiles') ELSE UNCHANGED cards
  /\ UNCHANGED map
  /\ Behind(~CanSort)

\* Table, cards and map, in this order, so that what comes after a table that
\* cannot be drawn is left as it was.
DrawPages ==
  /\ SyncRows
  /\ IF CanSort
     THEN DrawCards(profiles') /\ DrawMap(profiles')
     ELSE UNCHANGED <<cards, map>>
  /\ Behind(~CanSort)

\* The settings table takes the text or fails, which nobody is told.
Persist == stored' \in {[list |-> profiles', parses |-> parses'], stored}

\* Loading a profile draws the table and then, if there is such a profile,
\* selects it and draws the map.
LoadProfile(d) ==
  /\ SyncRows /\ Behind("fleet" \in behind)
  /\ IF CanSort /\ d \in Configured(profiles')
     THEN original' = d /\ selected' = d /\ DrawMap(profiles')
     ELSE UNCHANGED <<original, selected, map>>

\* Faulty: what the monitor shows is edited, not what the form does.
TargetBySelection(d) == IF selected = NoDevice THEN d ELSE selected

\* The profile that the form edits: the one that was loaded, or else d.
TargetOf(d) == IF original = NoDevice THEN d ELSE original

FormOnly == UNCHANGED <<config, selected, statuses, view, mapping, cards, map>>

-----------------------------------------------------------------------------
(* The configuration page                                                  *)

\* The text field of the list.  A list whose table cannot be drawn is not stored.
UpdateDeviceProfilesJson ==
  /\ \/ profiles' \in TypedLists /\ parses' = TRUE
     \/ profiles' = <<>> /\ parses' = FALSE
  /\ hand' = "text"
  /\ UNCHANGED <<original, selected, statuses, view, mapping>>
  /\ IF CanSort THEN Persist ELSE UNCHANGED stored
  /\ DrawPages

\* The page is loaded.  Where the settings table has nothing, or cannot be
\* read, the session keeps its list.  d is what the form holds.
InitializeControllerProfiles(d, read) ==
  /\ IF read THEN profiles' = stored.list /\ parses' = stored.parses /\ hand' = "load"
             ELSE UNCHANGED <<profiles, parses, hand>>
  /\ UNCHANGED <<stored, statuses, view, mapping>>
  /\ LET hint   == IF selected # NoDevice THEN selected ELSE TargetOf(d)
         chosen == SelectProfile(profiles', hint)
     IN  IF CanSort /\ profiles' # <<>>
         THEN original' = chosen /\ selected' = chosen
         ELSE UNCHANGED <<original, selected>>
  /\ DrawPages

ChangeView(v) ==
  /\ view' = v
  /\ UNCHANGED <<config, original, selected, statuses, mapping, cards, map>>
  /\ SyncRows /\ Behind("fleet" \in behind)

UpdateFilterText(query) == ChangeView([view EXCEPT !.query = query])

UpdateMappingFilter(filter) == ChangeView([view EXCEPT !.mapping = filter])

ToggleSortDirection == ChangeView([view EXCEPT !.desc = ~@])

\* The same key once more turns the order round.
UpdateSortKey(key) ==
  IF key = view.key THEN ToggleSortDirection
                    ELSE ChangeView([view EXCEPT !.key = key, !.desc = FALSE])

\* The page is opened from the menu.
OpenConfiguration == ChangeView(view)

NewControllerProfile ==
  /\ original' = NoDevice
  /\ FormOnly
  /\ SyncRows /\ Behind("fleet" \in behind)

\* The dialog of the map: the form is emptied, nothing is drawn.
OpenCreationDialog ==
  /\ original' = NoDevice
  /\ FormOnly
  /\ UNCHANGED <<rows, behind>>

LoadControllerProfile(d) ==
  /\ UNCHANGED <<config, statuses, view, mapping, cards>>
  /\ LoadProfile(d)

\* From a card of the fleet page: the filters are cleared first.
OpenControllerProfileEditor(d) ==
  /\ view' = [view EXCEPT !.query = NoDevice, !.mapping = "all"]
  /\ UNCHANGED <<config, statuses, mapping, cards>>
  /\ LoadProfile(d)

\* The forms that are taken: an id, and an address that is a literal.
Forms == [id : Ids, ip : V4 \cup V6, placed : BOOLEAN, polling : BOOLEAN]

\* The form has no streams: those of the profile that was loaded are kept.
\* Where there is none, select_profile falls back to the first of the list.
StreamsKept(f) ==
  IF profiles = <<>> THEN NoStreams
  ELSE ProfileOf(profiles, SelectProfile(profiles, TargetOf(f.id))).streams

\* A profile that was loaded under another id is renamed, and replaces the one
\* that has the new id.
SaveControllerProfile(f) ==
  /\ parses
  /\ LET others == IF original \in {NoDevice, f.id} THEN profiles ELSE Remove(profiles, original)
     IN  profiles' = Upsert(others, [id |-> f.id, ip |-> f.ip, placed |-> f.placed,
                                     polling |-> f.polling, streams |-> StreamsKept(f)])
  /\ hand' = "form"
  /\ original' = f.id /\ selected' = f.id
  /\ UNCHANGED <<parses, statuses, view, mapping>>
  /\ Persist
  /\ DrawPages

\* d is what the form holds, which counts when no profile was loaded.
DeleteControllerProfile(d) ==
  /\ parses /\ TargetOf(d) \in Configured(profiles)
  /\ profiles' = Remove(profiles, TargetOf(d))
  /\ hand' = "form"
  /\ selected' = IF selected = TargetOf(d) THEN NoDevice ELSE selected
  /\ original' = NoDevice
  /\ UNCHANGED <<parses, statuses, view, mapping>>
  /\ Persist
  /\ DrawPages

\* The switch of the monitor, which acts on the profile in the form.
UpdateControllerProfilePollingEnabled(v) ==
  /\ parses /\ TargetOf(selected) \in Configured(profiles)
  /\ profiles' = WithPolling(profiles, TargetOf(selected), v)
  /\ hand' = "form"
  /\ UNCHANGED <<parses, original, selected, statuses, view, mapping>>
  /\ Persist
  /\ DrawPages

-----------------------------------------------------------------------------
(* The monitor and the fleet page                                          *)

\* Any id can be typed here.
UpdateSelectedDeviceId(d) ==
  /\ selected' = d
  /\ UNCHANGED <<config, original, statuses, view, mapping, rows, cards, behind>>
  /\ DrawMap(profiles)

\* d is what the form holds, saved or not.
OpenSelectedControllerStatus(d) == UpdateSelectedDeviceId(d)

\* A card or a marker.  The selection is made before the profile is loaded.
SelectController(d) ==
  /\ selected' = d
  /\ UNCHANGED <<config, statuses, view, mapping, cards>>
  /\ SyncRows
  /\ IF CanSort
     THEN /\ original' = IF d \in Configured(profiles) THEN d ELSE original
          /\ DrawMap(profiles)
     ELSE UNCHANGED <<original, map>>
  /\ Behind("fleet" \in behind \/ ~CanSort)

BackToDashboard ==
  /\ UNCHANGED <<config, original, selected, statuses, view, mapping, rows>>
  /\ DrawCards(profiles) /\ DrawMap(profiles)
  /\ behind' = behind \ {"fleet"}

UpdateFleetStatusMappingFilter(filter) ==
  /\ mapping' = filter
  /\ UNCHANGED <<config, original, selected, statuses, view, rows, map, behind>>
  /\ DrawCards(profiles)

-----------------------------------------------------------------------------
(* What polls bring                                                        *)

\* Faulty: the table is left as it was.
CacheDeviceStatusForFleet(d, status) ==
  /\ selected # NoDevice
  /\ statuses' = [statuses EXCEPT ![d] = status]
  /\ UNCHANGED <<config, original, selected, view, mapping, rows>>
  /\ DrawCards(profiles) /\ DrawMap(profiles)
  /\ Behind(FALSE)

\* The live loop's answer is cached and drawn from the list as it is now; the
\* id was resolved before the poll.
CacheDeviceStatus(d, status) ==
  /\ selected # NoDevice
  /\ statuses' = [statuses EXCEPT ![d] = status]
  /\ UNCHANGED <<config, original, selected, view, mapping>>
  /\ DrawCards(profiles) /\ DrawMap(profiles)
  /\ SyncRows /\ Behind(FALSE)

NoRefresh == [pc |-> "idle", list |-> <<>>, parsed |-> TRUE, sel |-> NoDevice]

\* The list and the selection are read without the lock.
RefreshBegin ==
  /\ refresh.pc = "idle"
  /\ refresh' = [pc |-> "polling", list |-> profiles, parsed |-> parses,
                 sel |-> IF profiles = <<>> THEN NoDevice ELSE SelectProfile(profiles, selected)]
  /\ UNCHANGED <<config, original, selected, statuses, view, mapping, rows, cards, map, behind>>

\* What the polls of a list can answer; one that is not polled counts as offline.
Results(list) ==
  {r \in [Ids -> Statuses] :
     \A d \in Ids : IF d \notin Configured(list)              THEN r[d] = "Unknown"
                    ELSE IF \E i \in DOMAIN list : list[i].id = d /\ list[i].polling
                    THEN r[d] # "Unknown" ELSE r[d] = "Offline"}

\* Faulty: the pages are left alone when the list was edited meanwhile.
RefreshCommitUnlessEdited(answered) ==
  /\ refresh.pc = "polling" /\ refresh.parsed
  /\ statuses' \in Results(refresh.list)
  /\ selected' = IF refresh.list = <<>> THEN selected ELSE refresh.sel
  /\ (~answered /\ refresh.list # <<>> => statuses'[refresh.sel] = "Offline")
  /\ UNCHANGED <<config, original, view, mapping>>
  /\ IF profiles = refresh.list
     THEN DrawCards(profiles) /\ DrawMap(profiles)
     ELSE UNCHANGED <<cards, map>>
  /\ Behind(profiles # refresh.list)
  /\ SyncRows
  /\ refresh' = NoRefresh

\* The result is drawn from the list that was polled; an answer of the selected
\* controller is then cached, and drawn from the list as it is now.  Without
\* it, its poll raised, the pages stay as the polled list left them.  An empty
\* list leaves the selection alone.
RefreshCommit(answered) ==
  /\ refresh.pc = "polling" /\ refresh.parsed
  /\ statuses' \in Results(refresh.list)
  /\ selected' = IF refresh.list = <<>> THEN selected ELSE refresh.sel
  /\ (~answered /\ refresh.list # <<>> => statuses'[refresh.sel] = "Offline")
  /\ UNCHANGED <<config, original, view, mapping>>
  /\ LET drawn == IF answered /\ refresh.list # <<>> /\ CanSort THEN profiles ELSE refresh.list
     IN  /\ DrawCards(drawn) /\ DrawMap(drawn)
         /\ Behind(drawn # profiles)
  /\ SyncRows
  /\ refresh' = NoRefresh

\* The list did not parse: the fleet's pages are emptied.
RefreshFailed ==
  /\ refresh.pc = "polling" /\ ~refresh.parsed
  /\ statuses' = [d \in Ids |-> "Unknown"]
  /\ UNCHANGED <<config, original, selected, view, mapping, rows>>
  /\ DrawCards(<<>>) /\ DrawMap(<<>>)
  /\ behind' = {"table"} \cup (IF profiles = <<>> THEN {} ELSE {"fleet"})
  /\ refresh' = NoRefresh

-----------------------------------------------------------------------------

\* A session begins without controllers, its pages empty, until it is loaded.
Init ==
  /\ profiles = <<>> /\ parses = TRUE /\ hand = "none"
  /\ stored \in [list : TypedLists, parses : {TRUE}]
  /\ original = NoDevice /\ selected = NoDevice
  /\ statuses = [d \in Ids |-> "Unknown"]
  /\ view = [query |-> NoDevice, mapping |-> "all", key |-> "device_id", desc |-> FALSE]
  /\ mapping = "all"
  /\ rows = RowsOf(profiles, view, statuses)
  /\ cards = CardsOf(profiles, mapping, statuses)
  /\ markers = MarkersOf(profiles, statuses, selected)
  /\ unplaced = UnplacedOf(profiles)
  /\ refresh = NoRefresh
  /\ behind = {}
  /\ edits = 0

Shown == {rows[i].id : i \in DOMAIN rows}
OnFleetPage == {cards[i].id : i \in DOMAIN cards} \cup {markers[i].id : i \in DOMAIN markers}

Handler ==
  /\ edits < MaxEdits /\ edits' = edits + 1
  /\ UNCHANGED refresh
  /\ \/ UpdateDeviceProfilesJson
     \/ \E d \in Ids, read \in BOOLEAN : InitializeControllerProfiles(d, read)
     \/ \E query \in Ids \cup {NoDevice} : UpdateFilterText(query)
     \/ \E filter \in Filters : \/ UpdateMappingFilter(filter)
                                \/ UpdateFleetStatusMappingFilter(filter)
     \/ \E key \in SortKeys : UpdateSortKey(key)
     \/ ToggleSortDirection
     \/ OpenConfiguration
     \/ NewControllerProfile
     \/ OpenCreationDialog
     \/ \E d \in Shown : LoadControllerProfile(d)
     \/ \E d \in OnFleetPage : OpenControllerProfileEditor(d) \/ SelectController(d)
     \/ \E f \in Forms : SaveControllerProfile(f)
     \/ \E d \in Ids : DeleteControllerProfile(d) \/ OpenSelectedControllerStatus(d)
     \/ \E v \in BOOLEAN : UpdateControllerProfilePollingEnabled(v)
     \/ \E d \in Ids \cup {NoDevice} : UpdateSelectedDeviceId(d)
     \/ BackToDashboard
     \/ \E d \in Ids, status \in {"Online", "Offline"} : CacheDeviceStatus(d, status)

RefreshStep ==
  /\ UNCHANGED edits
  /\ \/ RefreshBegin
     \/ \E answered \in BOOLEAN : RefreshCommit(answered)
     \/ RefreshFailed

Next == Handler \/ RefreshStep

Spec == Init /\ [][Next]_vars

-----------------------------------------------------------------------------
(* Properties                                                              *)

TypeOK ==
  /\ profiles \in Seq(Profile) /\ parses \in BOOLEAN
  /\ stored \in [list : Seq(Profile), parses : BOOLEAN]
  /\ original \in Ids \cup {NoDevice} /\ selected \in Ids \cup {NoDevice}
  /\ statuses \in [Ids -> Statuses]
  /\ view \in [query : Ids \cup {NoDevice}, mapping : Filters, key : SortKeys, desc : BOOLEAN]
  /\ mapping \in Filters
  /\ refresh \in [pc : {"idle", "polling"}, list : Seq(Profile), parsed : BOOLEAN,
                  sel : Ids \cup {NoDevice}]
  /\ behind \subseteq Pages /\ hand \in {"none", "form", "text", "load"} /\ edits \in Nat

\* The table of the configuration page is the session's list under the page's
\* filters and order, with the statuses that are known, whichever handler or
\* poll wrote one of these last: none of them forgets to draw it.  Left out are
\* lists that cannot be put in order, and statuses while the pages are behind.
RowsFollow ==
  Sortable(profiles, view) =>
    LET due == Sorted(Visible(profiles, view), view) IN
      /\ DOMAIN rows = DOMAIN due
      /\ \A i \in DOMAIN due : /\ rows[i].id = due[i].id /\ rows[i].ip = due[i].ip
                               /\ rows[i].placed = due[i].placed
                               /\ rows[i].polling = due[i].polling
      /\ "table" \notin behind => rows = DisplayRows(due, statuses)

\* The cards and the map show the session's list, its selection and the known
\* statuses, unless a refresh drew a list that had been edited during its
\* polls, or a handler stopped at a table it could not draw; what comes next
\* puts them right.
PagesFollow ==
  "fleet" \notin behind =>
    /\ cards = CardsOf(profiles, mapping, statuses)
    /\ markers = MarkersOf(profiles, statuses, selected)
    /\ unplaced = UnplacedOf(profiles)

\* Cards and map never contradict each other about a controller, even when
\* they are behind: both show the status that is known.
StatusesAgree ==
  /\ \A i \in DOMAIN cards : cards[i].status = statuses[cards[i].id]
  /\ \A i \in DOMAIN markers : markers[i].status = statuses[markers[i].id]

Without(list, ds) == Entries(list, {i \in DOMAIN list : list[i].id \notin ds})
NamesOnce(list) == \A i, j \in DOMAIN list : list[i].id = list[j].id => i = j

OthersStay ==
  \E d \in Ids : /\ original # NoDevice => d = original
                 /\ Without(profiles', {d, original'}) = Without(profiles, {d, original'})

\* Media streams are not in the form.
StreamsStay ==
  \A d \in Configured(profiles') :
    LET from == IF d = original' THEN TargetOf(d) ELSE d
    IN  from \in Configured(profiles)
          => ProfileOf(profiles', d).streams = ProfileOf(profiles, from).streams

\* An edit through the form changes the controller it was opened for and the
\* one it is saved as, and no other: the others keep their fields and their
\* order, ids that were named once are named once afterwards, and the streams,
\* of which the form knows nothing, stay with their controller, also under a
\* new id (save_controller_profile, delete_controller_profile).
EditsTouchOne ==
  [][profiles' # profiles /\ hand' = "form" =>
       /\ OthersStay /\ StreamsStay
       /\ NamesOnce(profiles) => NamesOnce(profiles')]_vars

=============================================================================
