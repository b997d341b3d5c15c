---------------------------- MODULE IncidentReads ----------------------------
(***************************************************************************)
(* GET /incidents beside the writers of the incident store: the handler    *)
(* reads the list and the active incident in two calls, each under the     *)
(* store's mutex, with nothing held in between.                            *)
(*                                                                         *)
(* List sorts by creation time, newest first; the order is a function of   *)
(* the incidents it shows, up to ties, and is left out.                    *)
(***************************************************************************)
EXTENDS IncidentStore

VARIABLE reader         \* where the request stands, and what it has read

readVars == <<storeVars, reader>>

NoIncident == [id |-> << >>]

Shown == {incidents[id] : id \in DOMAIN incidents}

Idle == [pc |-> "idle"]

ReadInit == Init /\ reader = Idle

\* Store.List: a copy of every incident.
ListIncidents ==
    /\ reader.pc # "listed"
    /\ reader' = [pc |-> "listed", items |-> Shown]
    /\ UNCHANGED storeVars

\* Mutant of MostRecent: decided incidents are not skipped.
MostRecentOfAll ==
    IF Shown = {} THEN {NoIncident}
    ELSE {inc \in Shown : \A other \in Shown : other.created <= inc.created}

\* Mutant of MostRecent: the comparison is the wrong way round.
LeastRecent ==
    LET active == {inc \in Shown : inc.status = "active"} IN
    IF active = {} THEN {NoIncident}
    ELSE {inc \in active : \A other \in active : other.created >= inc.created}

\* What Store.Active may return: the active incident created last.  Of several
\* created at the same time it is the one that the iteration over the map comes
\* to first, which may be any.
MostRecent ==
    LET active == {inc \in Shown : inc.status = "active"} IN
    IF active = {} THEN {NoIncident}
    ELSE {inc \in active : \A other \in active : other.created <= inc.created}

\* Store.Active, and the response with both.
AnswerIncidents ==
    /\ reader.pc = "listed"
    /\ \E inc \in MostRecent :
           reader' = [pc |-> "answered", items |-> reader.items, active |-> inc]
    /\ UNCHANGED storeVars

ReadNext ==
    \/ Next /\ UNCHANGED reader
    \/ ListIncidents
    \/ AnswerIncidents

ReadSpec == ReadInit /\ [][ReadNext]_readVars

-----------------------------------------------------------------------------

\* Whatever is reported and decided between the two reads of GET /incidents, the
\* response does not contradict itself by naming as active an incident that its
\* own list shows as decided.  (The reverse does happen: the list may show active
\* incidents in a response that names none.)
ActiveNotShownClosed ==
    reader.pc = "answered" =>
        \A inc \in reader.items : inc.id = reader.active.id => inc.status = "active"

\* An incident that the list shows active, newer than the one the response names
\* or in a response that names none, is no longer active in the store: what the
\* response leaves out of the active field needs no attention.
ActiveIsMostRecent ==
    reader.pc = "answered" =>
        \A inc \in reader.items :
            /\ inc.status = "active"
            /\ reader.active = NoIncident \/ inc.created > reader.active.created
            => incidents[inc.id].status # "active"

=============================================================================
