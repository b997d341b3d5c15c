------------------------ MODULE IncidentReadsProofs --------------------------
(***************************************************************************)
(* Proofs about IncidentReads: what GET /incidents answers, although the   *)
(* store changes between its two reads, for any keys, clock readings and   *)
(* bounds.                                                                 *)
(***************************************************************************)
EXTENDS IncidentReads, IncidentStoreProofs

\* What the reader has listed is out of date in one way only: an incident it
\* shows active may have been decided since.
Remembered ==
    reader.pc \in {"listed", "answered"} =>
        \A inc \in reader.items :
            /\ inc.id \in DOMAIN incidents
            /\ incidents[inc.id].created = inc.created
            /\ inc.status # "active" => incidents[inc.id].status # "active"

ReadInv ==
    /\ IInv
    /\ Remembered
    /\ ActiveNotShownClosed
    /\ ActiveIsMostRecent

-----------------------------------------------------------------------------

\* No step of the store takes an incident away, changes when it was created or
\* reopens it.
LEMMA StepKeeps ==
    ASSUME NoCollision, IInv, [Next]_storeVars, NEW id \in DOMAIN incidents
    PROVE  /\ id \in DOMAIN incidents'
           /\ incidents'[id].created = incidents[id].created
           /\ incidents[id].status # "active" => incidents'[id].status # "active"
<1>1. ASSUME UNCHANGED storeVars
      PROVE  /\ id \in DOMAIN incidents'
             /\ incidents'[id].created = incidents[id].created
             /\ incidents[id].status # "active" => incidents'[id].status # "active"
  BY <1>1 DEF storeVars
<1>2. ASSUME NEW key \in Keys, NEW now \in Times,
             Len(byOccurrence[key]) < MaxOccurrences, Create(key, now)
      PROVE  id \in DOMAIN incidents' /\ incidents'[id] = incidents[id]
  <2>1. Occurrence(key, now).id \notin DOMAIN incidents
    BY <1>2, FreshID DEF IInv
  <2> QED
    BY <1>2, <2>1 DEF Create, Put
<1>3. ASSUME NEW x \in DOMAIN incidents, NEW status \in Verdicts, NEW now \in Times,
             Decide(x, status, now)
      PROVE  /\ id \in DOMAIN incidents'
             /\ incidents'[id].created = incidents[id].created
             /\ incidents[id].status # "active" => incidents'[id].status # "active"
  <2>1. incidents[x] \in IncidentAt(x) /\ status # "active"
    BY <1>3 DEF IInv, TypeOK, Verdicts
  <2> QED
    BY <1>3, <2>1 DEF Decide, IncidentAt
<1> QED
  BY <1>1, <1>2, <1>3 DEF Next, Upsert

\* A writer's step leaves a response that has been read as true as it was.
LEMMA WriterInv ==
    ASSUME NoCollision, ReadInv, [Next]_storeVars, UNCHANGED reader
    PROVE  ReadInv'
<1>1. IInv'
  BY NextInv DEF ReadInv
<1>2. Remembered'
  <2> SUFFICES ASSUME reader.pc \in {"listed", "answered"}, NEW inc \in reader.items
               PROVE  /\ inc.id \in DOMAIN incidents'
                      /\ incidents'[inc.id].created = inc.created
                      /\ inc.status # "active" => incidents'[inc.id].status # "active"
    BY DEF Remembered
  <2> QED
    BY StepKeeps DEF ReadInv, Remembered
<1>3. ActiveNotShownClosed'
  BY DEF ReadInv, ActiveNotShownClosed
<1>4. ActiveIsMostRecent'
  <2> SUFFICES ASSUME reader.pc = "answered", NEW inc \in reader.items,
                      inc.status = "active",
                      reader.active = NoIncident \/ inc.created > reader.active.created
               PROVE  incidents'[inc.id].status # "active"
    BY DEF ActiveIsMostRecent, NoIncident
  <2>1. inc.id \in DOMAIN incidents
    BY DEF ReadInv, Remembered
  <2>2. incidents[inc.id].status # "active"
    BY DEF ReadInv, ActiveIsMostRecent
  <2> QED
    BY <2>1, <2>2, StepKeeps DEF ReadInv
<1> QED
  BY <1>1, <1>2, <1>3, <1>4 DEF ReadInv

\* The first read establishes that the list is up to date.
LEMMA ListInv ==
    ASSUME ReadInv, ListIncidents
    PROVE  ReadInv'
<1>1. IInv'
  BY DEF ReadInv, ListIncidents, storeVars, IInv, TypeOK, LinkedHistory, OnlyLastActive,
         IDsDetermined, StatusFollowsTrail, Trail
<1>2. reader' = [pc |-> "listed", items |-> Shown] /\ incidents' = incidents
  BY DEF ListIncidents, storeVars
<1>3. \A inc \in Shown : inc.id \in DOMAIN incidents /\ incidents[inc.id] = inc
  BY DEF Shown, ReadInv, IInv, TypeOK, IncidentAt
<1> QED
  BY <1>1, <1>2, <1>3 DEF ReadInv, Remembered, ActiveNotShownClosed, ActiveIsMostRecent

\* The second read finds only incidents that the list did not show as decided,
\* and misses no newer one that is still active.
LEMMA AnswerInv ==
    ASSUME ReadInv, AnswerIncidents
    PROVE  ReadInv'
<1>1. IInv'
  BY DEF ReadInv, AnswerIncidents, storeVars, IInv, TypeOK, LinkedHistory, OnlyLastActive,
         IDsDetermined, StatusFollowsTrail, Trail
<1>2. PICK named \in MostRecent :
          reader' = [pc |-> "answered", items |-> reader.items, active |-> named]
  BY DEF AnswerIncidents
<1>3. reader.pc = "listed" /\ incidents' = incidents
  BY DEF AnswerIncidents, storeVars
<1>4. \A x \in Shown : x.id \in DOMAIN incidents /\ incidents[x.id] = x
  BY DEF Shown, ReadInv, IInv, TypeOK, IncidentAt
<1>5. \A id \in DOMAIN incidents : id # << >> /\ incidents[id] \in Shown
                                   /\ incidents[id].created \in Nat
  <2>1. ASSUME NEW id \in DOMAIN incidents PROVE id # << >>
    <3>1. id = <<Digest(incidents[id].key, incidents[id].seq, incidents[id].created),
                 incidents[id].seq>>
      BY DEF ReadInv, IInv, IDsDetermined, NewIncidentID
    <3>2. 1 \in DOMAIN id
      BY <3>1
    <3>3. DOMAIN << >> = {}
      OBVIOUS
    <3> QED
      BY <3>2, <3>3
  <2>2. \A id \in DOMAIN incidents : incidents[id].created \in Nat
    BY StoreConstants DEF ReadInv, IInv, TypeOK, IncidentAt
  <2> QED
    BY <2>1, <2>2 DEF Shown
<1>6. Remembered'
  BY <1>2, <1>3 DEF ReadInv, Remembered
<1>7. ASSUME NEW inc \in reader.items
      PROVE  /\ inc.id = named.id => inc.status = "active"
             /\ /\ inc.status = "active"
                /\ named = NoIncident \/ inc.created > named.created
                => incidents[inc.id].status # "active"
  <2>1. /\ inc.id \in DOMAIN incidents
        /\ incidents[inc.id].created = inc.created
        /\ inc.status # "active" => incidents[inc.id].status # "active"
    BY <1>3, <1>7 DEF ReadInv, Remembered
  <2> DEFINE active == {x \in Shown : x.status = "active"}
  <2>2. CASE active = {}
    <3>1. named = NoIncident
      BY <1>2, <2>2 DEF MostRecent
    <3>2. inc.id # named.id
      BY <1>5, <2>1, <3>1 DEF NoIncident
    <3>3. incidents[inc.id].status # "active"
      BY <1>5, <2>1, <2>2
    <3> QED
      BY <3>2, <3>3
  <2>3. CASE active # {}
    <3>1. named \in active /\ \A other \in active : other.created <= named.created
      BY <1>2, <2>3 DEF MostRecent
    <3>2. named.id \in DOMAIN incidents /\ incidents[named.id].status = "active"
          /\ named # NoIncident /\ named.created \in Nat
      BY <1>4, <1>5, <3>1 DEF NoIncident
    <3>3. inc.id = named.id => inc.status = "active"
      BY <2>1, <3>2
    <3>4. ASSUME inc.created > named.created PROVE incidents[inc.id].status # "active"
      <4> SUFFICES ASSUME incidents[inc.id].status = "active" PROVE FALSE
        OBVIOUS
      <4>1. incidents[inc.id] \in active
        BY <1>5, <2>1
      <4>2. inc.created <= named.created /\ inc.created \in Nat
        BY <1>5, <2>1, <3>1, <4>1
      <4> QED
        BY <3>2, <3>4, <4>2
    <3> QED
      BY <3>2, <3>3, <3>4
  <2> QED
    BY <2>2, <2>3
<1>8. ActiveNotShownClosed'
  BY <1>2, <1>7 DEF ActiveNotShownClosed
<1>9. ActiveIsMostRecent'
  <2> SUFFICES ASSUME NEW inc \in reader.items, inc.status = "active",
                      named = NoIncident \/ inc.created > named.created
               PROVE  incidents[inc.id].status # "active"
    BY <1>2, <1>3 DEF ActiveIsMostRecent, NoIncident
  <2> QED
    BY <1>7
<1> QED
  BY <1>1, <1>6, <1>8, <1>9 DEF ReadInv

\* The invariant of the store and of what has been read of it.
THEOREM ReadInvariant == ASSUME NoCollision PROVE ReadSpec => []ReadInv
<1>1. ReadInit => ReadInv
  <2> SUFFICES ASSUME ReadInit PROVE ReadInv
    OBVIOUS
  <2>1. IInv
    BY InitInv DEF ReadInit
  <2>2. reader.pc = "idle"
    BY DEF ReadInit, Idle
  <2> QED
    BY <2>1, <2>2 DEF ReadInv, Remembered, ActiveNotShownClosed, ActiveIsMostRecent
<1>2. ReadInv /\ [ReadNext]_readVars => ReadInv'
  <2> SUFFICES ASSUME ReadInv, [ReadNext]_readVars PROVE ReadInv'
    OBVIOUS
  <2>1. CASE [Next]_storeVars /\ UNCHANGED reader
    BY <2>1, WriterInv
  <2> QED
    BY <2>1, ListInv, AnswerInv DEF ReadNext, readVars
<1> QED
  BY <1>1, <1>2, PTL DEF ReadSpec

\* A response of GET /incidents never names as active an incident that its own
\* list shows as decided, whatever is decided between the two reads.
THEOREM ReadActiveNotShownClosed ==
    ASSUME NoCollision PROVE ReadSpec => []ActiveNotShownClosed
<1>1. ReadInv => ActiveNotShownClosed
  BY DEF ReadInv
<1> QED
  BY <1>1, ReadInvariant, PTL

\* An active incident of the list that a response passes over for an older one, or
\* for none, has been decided by the time the response is made, and for good.
THEOREM ReadActiveIsMostRecent ==
    ASSUME NoCollision PROVE ReadSpec => []ActiveIsMostRecent
<1>1. ReadInv => ActiveIsMostRecent
  BY DEF ReadInv
<1> QED
  BY <1>1, ReadInvariant, PTL

=============================================================================
