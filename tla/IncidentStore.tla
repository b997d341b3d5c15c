---------------------------- MODULE IncidentStore ----------------------------
(***************************************************************************)
(* internal/incidents/store.go: the in-memory incident store and its       *)
(* recurrence rules.  Every method holds the store's mutex from its first  *)
(* to its last line, so each is one atomic action.  The callers pass the   *)
(* time of day, which they read before they take the mutex: the times of   *)
(* successive calls come in no particular order.                           *)
(*                                                                         *)
(* Left out of an incident: severity, root cause, affected devices and the *)
(* other fields that Upsert copies from the candidate and nobody changes.  *)
(* Left out of a decision: the actor, which is stored and returned as is.  *)
(***************************************************************************)
EXTENDS Naturals, Sequences, FiniteSets, Storage

CONSTANTS
    Keys,               \* occurrence keys: root cause + ":" + hostname
    Times,              \* clock readings
    Digest(_, _, _),    \* first 6 hex digits of SHA-1 over key:sequence:time
    MaxOccurrences,     \* bound: occurrences of one key
    MaxDecisions        \* bound: decisions in all

ASSUME StoreConstants ==
    /\ Times \subseteq Nat
    /\ MaxOccurrences \in Nat
    /\ MaxDecisions \in Nat

VARIABLES
    incidents,          \* map: ID -> incident
    byOccurrence,       \* map: key -> IDs of its occurrences, oldest first
    decisions           \* map: ID -> decisions on it, oldest first

storeVars == <<incidents, byOccurrence, decisions>>

Verdicts == {"resolved", "ignored"}
Statuses == {"active"} \cup Verdicts

Decision == [status : Verdicts, at : Times]

\* An incident as it is kept under ID id.
IncidentAt(id) ==
    [id : {id}, key : Keys, seq : Nat \ {0}, status : Statuses,
     created : Times, updated : Times]

\* NewIncidentID: the digest is cut to 24 bits, the sequence is not.
NewIncidentID(key, seq, now) == <<Digest(key, seq, now), seq>>

-----------------------------------------------------------------------------

\* NewStore.
Init ==
    /\ incidents = << >>
    /\ byOccurrence = [k \in Keys |-> << >>]
    /\ decisions = << >>

\* Mutant of Ongoing: looks at the first occurrence instead of the latest.
OngoingFirst(key) ==
    LET history == byOccurrence[key] IN
    /\ history # << >>
    /\ incidents[history[1]].status = "active"

\* The latest occurrence of key is still active, so a new report of the same
\* fault is a duplicate.
Ongoing(key) ==
    LET history == byOccurrence[key] IN
    /\ history # << >>
    /\ history[Len(history)] \in DOMAIN incidents
    /\ incidents[history[Len(history)]].status = "active"

\* Mutant of Occurrence: one sequence for all keys.
OccurrenceGlobalSeq(key, now) ==
    LET seq == Cardinality(DOMAIN incidents) + 1 IN
    [id |-> NewIncidentID(key, seq, now), key |-> key, seq |-> seq,
     status |-> "active", created |-> now, updated |-> now]

\* The incident Upsert creates for key.
Occurrence(key, now) ==
    LET seq == Len(byOccurrence[key]) + 1 IN
    [id |-> NewIncidentID(key, seq, now), key |-> key, seq |-> seq,
     status |-> "active", created |-> now, updated |-> now]

\* Mutant of Create: links the occurrence and forgets to store it.
CreateUnstored(key, now) ==
    /\ ~Ongoing(key)
    /\ byOccurrence' = [byOccurrence EXCEPT ![key] = Append(@, Occurrence(key, now).id)]
    /\ UNCHANGED <<incidents, decisions>>

\* The part of Upsert that returns created = true.
Create(key, now) ==
    LET inc == Occurrence(key, now) IN
    /\ ~Ongoing(key)
    /\ incidents' = Put(incidents, inc.id, inc)
    /\ byOccurrence' = [byOccurrence EXCEPT ![key] = Append(@, inc.id)]
    /\ UNCHANGED decisions

Upsert(key, now) ==
    \/ Ongoing(key) /\ UNCHANGED storeVars
    \/ Create(key, now)

\* The decisions recorded on id, the empty slice where the map has no entry.
Trail(id) == IF id \in DOMAIN decisions THEN decisions[id] ELSE << >>

\* Mutant of Decide: only the decision that closes an incident is recorded.
DecideOnce(id, status, now) ==
    /\ id \in DOMAIN incidents
    /\ incidents' = [incidents EXCEPT
                        ![id] = [@ EXCEPT !.status = status, !.updated = now]]
    /\ decisions' = IF incidents[id].status = "active"
                    THEN Put(decisions, id, <<[status |-> status, at |-> now]>>)
                    ELSE decisions
    /\ UNCHANGED byOccurrence

\* Mutant of Decide: the new decision replaces the trail.
DecideOverwriting(id, status, now) ==
    /\ id \in DOMAIN incidents
    /\ incidents' = [incidents EXCEPT
                        ![id] = [@ EXCEPT !.status = status, !.updated = now]]
    /\ decisions' = Put(decisions, id, <<[status |-> status, at |-> now]>>)
    /\ UNCHANGED byOccurrence

\* Decide on a known ID; an unknown one is answered with an error and leaves
\* the store alone.
Decide(id, status, now) ==
    /\ id \in DOMAIN incidents
    /\ incidents' = [incidents EXCEPT
                        ![id] = [@ EXCEPT !.status = status, !.updated = now]]
    /\ decisions' = Put(decisions, id,
                        Append(Trail(id), [status |-> status, at |-> now]))
    /\ UNCHANGED byOccurrence

\* How many decisions the store holds.
Decided ==
    Cardinality(UNION {{id} \X DOMAIN decisions[id] : id \in DOMAIN decisions})

Next ==
    \/ \E key \in Keys, now \in Times :
           Len(byOccurrence[key]) < MaxOccurrences /\ Upsert(key, now)
    \/ \E id \in DOMAIN incidents, status \in Verdicts, now \in Times :
           Decided < MaxDecisions /\ Decide(id, status, now)

Spec == Init /\ [][Next]_storeVars

-----------------------------------------------------------------------------

\* Every reference inside the store leads somewhere: the histories hold IDs of
\* incidents that exist, and only existing incidents have decisions.
TypeOK ==
    /\ \A id \in DOMAIN incidents : incidents[id] \in IncidentAt(id)
    /\ byOccurrence \in [Keys -> Seq(DOMAIN incidents)]
    /\ DOMAIN decisions \subseteq DOMAIN incidents
    /\ decisions \in [DOMAIN decisions -> Seq(Decision)]

\* No two digests of different keys at the same sequence number agree.  SHA-1
\* cut to 24 bits does not guarantee it; what depends on it says so.
NoCollision ==
    \A k1, k2 \in Keys, n \in 1..MaxOccurrences, t1, t2 \in Times :
        Digest(k1, n, t1) = Digest(k2, n, t2) => k1 = k2

\* "full history is preserved via the OccurrenceKey linkage": the n-th entry of
\* a key's history is that key's occurrence number n, and every incident in the
\* store is found in the history of its key under its own number.
LinkedHistory ==
    /\ \A k \in Keys : \A n \in 1..Len(byOccurrence[k]) :
           LET inc == incidents[byOccurrence[k][n]] IN inc.key = k /\ inc.seq = n
    /\ \A id \in DOMAIN incidents :
           LET inc == incidents[id] IN
           /\ inc.seq <= Len(byOccurrence[inc.key])
           /\ byOccurrence[inc.key][inc.seq] = id

\* "a currently-active occurrence is not duplicated": whatever the order of
\* reports and decisions, a key has at most one active incident, though Upsert
\* looks only at the last one.
AtMostOneActive ==
    \A i, j \in DOMAIN incidents :
        /\ incidents[i].key = incidents[j].key
        /\ incidents[i].status = "active"
        /\ incidents[j].status = "active"
        => i = j

\* The status and the time shown on an incident are those of the last entry of
\* its audit trail; an incident nobody decided on is active and unchanged since
\* its creation.
StatusFollowsTrail ==
    \A id \in DOMAIN incidents :
        LET inc == incidents[id] IN
        IF Trail(id) = << >>
        THEN inc.status = "active" /\ inc.updated = inc.created
        ELSE Trail(id)[Len(Trail(id))] = [status |-> inc.status, at |-> inc.updated]

\* Nothing is rewritten: an incident stays in the store, keeps its key and its
\* number, and never becomes active again once decided; a recorded decision
\* stays where it is in the audit trail.
NothingErased ==
    [][ \A id \in DOMAIN incidents :
            /\ id \in DOMAIN incidents'
            /\ incidents'[id].key = incidents[id].key
            /\ incidents'[id].seq = incidents[id].seq
            /\ incidents[id].status # "active" => incidents'[id].status # "active"
            /\ \A i \in DOMAIN Trail(id) :
                   i \in DOMAIN Trail(id)' /\ Trail(id)'[i] = Trail(id)[i] ]_storeVars

-----------------------------------------------------------------------------

\* Each occurrence as the sequence of verdicts its audit trail records.
VerdictsOn(id) == [i \in 1..Len(Trail(id)) |-> Trail(id)[i].status]

Log == INSTANCE IncidentLog WITH
    log <- [k \in Keys |->
               [n \in 1..Len(byOccurrence[k]) |-> VerdictsOn(byOccurrence[k][n])]]

\* The store implements the abstract incident log: whether Upsert may open a new
\* occurrence is decided by the status field of the latest one, in the log by
\* the verdicts on all of them.
ImplementsLog == Log!Spec

=============================================================================
