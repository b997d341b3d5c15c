------------------------ MODULE IncidentStoreProofs --------------------------
(***************************************************************************)
(* Proofs about IncidentStore, for any set of keys, any clock readings and *)
(* any bounds.  What rests on IDs being different has NoCollision among    *)
(* its assumptions.                                                        *)
(***************************************************************************)
EXTENDS IncidentStore, SequenceTheorems, TLAPS

\* Only the last occurrence of a key may be active, and an ID is the one its
\* incident's key, number and creation time determine: what Upsert's look at the
\* last entry of the history, and its unconditional write to the map, rely on.
OnlyLastActive ==
    \A id \in DOMAIN incidents :
        incidents[id].status = "active"
            => incidents[id].seq = Len(byOccurrence[incidents[id].key])

IDsDetermined ==
    \A id \in DOMAIN incidents :
        /\ incidents[id].seq <= MaxOccurrences
        /\ id = NewIncidentID(incidents[id].key, incidents[id].seq,
                              incidents[id].created)

IInv ==
    /\ TypeOK
    /\ LinkedHistory
    /\ OnlyLastActive
    /\ IDsDetermined
    /\ StatusFollowsTrail

-----------------------------------------------------------------------------

\* What one map assignment does.
LEMMA PutFacts ==
    ASSUME NEW m, NEW k, NEW v
    PROVE  /\ DOMAIN Put(m, k, v) = DOMAIN m \cup {k}
           /\ Put(m, k, v)[k] = v
           /\ \A x \in DOMAIN m : x # k => Put(m, k, v)[x] = m[x]
BY DEF Put

\* The ID Upsert gives to a new occurrence is not in use.
LEMMA FreshID ==
    ASSUME NoCollision, TypeOK, LinkedHistory, IDsDetermined,
           NEW key \in Keys, NEW now \in Times,
           Len(byOccurrence[key]) < MaxOccurrences
    PROVE  Occurrence(key, now).id \notin DOMAIN incidents
<1> DEFINE n == Len(byOccurrence[key]) + 1
           id == NewIncidentID(key, n, now)
<1>1. n \in 1..MaxOccurrences
  BY StoreConstants DEF TypeOK
<1>2. SUFFICES ASSUME id \in DOMAIN incidents PROVE FALSE
  BY DEF Occurrence
<1> DEFINE inc == incidents[id]
<1>3. inc \in IncidentAt(id)
  BY <1>2 DEF TypeOK
<1>4. id = NewIncidentID(inc.key, inc.seq, inc.created)
  BY <1>2 DEF IDsDetermined
<1>5. inc.seq = n /\ Digest(inc.key, n, inc.created) = Digest(key, n, now)
  BY <1>4 DEF NewIncidentID
<1>6. inc.key = key
  BY <1>1, <1>3, <1>5 DEF NoCollision, IncidentAt
<1>7. inc.seq <= Len(byOccurrence[key])
  BY <1>2, <1>6 DEF LinkedHistory
<1> QED
  BY <1>5, <1>7 DEF TypeOK

-----------------------------------------------------------------------------

\* NewStore's empty maps satisfy the invariant.
LEMMA InitInv == Init => IInv
<1> SUFFICES ASSUME Init PROVE IInv
  OBVIOUS
<1>1. DOMAIN incidents = {} /\ DOMAIN decisions = {}
  BY DEF Init
<1>2. TypeOK
  BY <1>1 DEF Init, TypeOK
<1> QED
  BY <1>1, <1>2 DEF Init, IInv, LinkedHistory, OnlyLastActive, IDsDetermined,
                    StatusFollowsTrail

\* Upsert, where it creates an occurrence, preserves the invariant.
LEMMA CreateInv ==
    ASSUME NoCollision, IInv, NEW key \in Keys, NEW now \in Times,
           Len(byOccurrence[key]) < MaxOccurrences, Create(key, now)
    PROVE  IInv'
<1> DEFINE inc == Occurrence(key, now)
           id == inc.id
           n == Len(byOccurrence[key]) + 1
<1>0. /\ inc = [id |-> id, key |-> key, seq |-> n, status |-> "active",
                created |-> now, updated |-> now]
      /\ id = NewIncidentID(key, n, now)
  BY DEF Occurrence
<1>1. byOccurrence[key] \in Seq(DOMAIN incidents) /\ n \in Nat \ {0} /\ n <= MaxOccurrences
  BY StoreConstants DEF IInv, TypeOK
<1>2. id \notin DOMAIN incidents
  BY FreshID DEF IInv
<1>3. /\ DOMAIN incidents' = DOMAIN incidents \cup {id}
      /\ incidents'[id] = inc
      /\ \A x \in DOMAIN incidents : incidents'[x] = incidents[x]
  BY <1>2 DEF Create, Put
<1>4. /\ decisions' = decisions
      /\ byOccurrence' = [byOccurrence EXCEPT ![key] = Append(@, id)]
  BY DEF Create
<1> HIDE DEF inc, id, n
<1>5. /\ Len(byOccurrence'[key]) = n
      /\ byOccurrence'[key][n] = id
      /\ \A i \in 1..Len(byOccurrence[key]) : byOccurrence'[key][i] = byOccurrence[key][i]
      /\ \A k \in Keys : k # key => byOccurrence'[k] = byOccurrence[k]
  BY <1>1, <1>4 DEF IInv, TypeOK, n
<1>6. TypeOK'
  <2>1. \A x \in DOMAIN incidents' : incidents'[x] \in IncidentAt(x)
    BY <1>0, <1>1, <1>3 DEF IInv, TypeOK, IncidentAt, Statuses
  <2>2. byOccurrence' \in [Keys -> Seq(DOMAIN incidents')]
    <3>1. \A k \in Keys : byOccurrence[k] \in Seq(DOMAIN incidents')
      BY <1>3 DEF IInv, TypeOK
    <3>2. Append(byOccurrence[key], id) \in Seq(DOMAIN incidents')
      BY <1>3, <3>1
    <3> QED
      BY <1>4, <3>1, <3>2 DEF IInv, TypeOK
  <2> QED
    BY <1>3, <1>4, <2>1, <2>2 DEF IInv, TypeOK
<1>7. LinkedHistory'
  <2>1. ASSUME NEW k \in Keys, NEW i \in 1..Len(byOccurrence'[k])
        PROVE  /\ incidents'[byOccurrence'[k][i]].key = k
               /\ incidents'[byOccurrence'[k][i]].seq = i
    <3>1. CASE k = key /\ i = n
      BY <1>0, <1>3, <1>5, <3>1
    <3>2. CASE k # key \/ i # n
      <4>1. i \in 1..Len(byOccurrence[k]) /\ byOccurrence'[k][i] = byOccurrence[k][i]
        BY <1>1, <1>5, <3>2 DEF n
      <4>2. byOccurrence[k][i] \in DOMAIN incidents
        BY <4>1 DEF IInv, TypeOK
      <4> QED
        BY <1>3, <4>1, <4>2 DEF IInv, LinkedHistory
    <3> QED
      BY <3>1, <3>2
  <2>2. ASSUME NEW x \in DOMAIN incidents'
        PROVE  /\ incidents'[x].seq <= Len(byOccurrence'[incidents'[x].key])
               /\ byOccurrence'[incidents'[x].key][incidents'[x].seq] = x
    <3>1. CASE x = id
      BY <1>0, <1>1, <1>3, <1>5, <3>1
    <3>2. CASE x # id
      <4>1. /\ x \in DOMAIN incidents
            /\ incidents'[x] = incidents[x]
            /\ incidents[x].key \in Keys
            /\ incidents[x].seq \in Nat \ {0}
        BY <1>3, <3>2 DEF IInv, TypeOK, IncidentAt
      <4>2. /\ incidents[x].seq <= Len(byOccurrence[incidents[x].key])
            /\ byOccurrence[incidents[x].key][incidents[x].seq] = x
        BY <4>1 DEF IInv, LinkedHistory
      <4>3. Len(byOccurrence[incidents[x].key]) \in Nat
        BY <4>1 DEF IInv, TypeOK
      <4> QED
        BY <1>1, <1>5, <4>1, <4>2, <4>3 DEF n
    <3> QED
      BY <3>1, <3>2
  <2> QED
    BY <2>1, <2>2 DEF LinkedHistory
<1>8. OnlyLastActive'
  <2> SUFFICES ASSUME NEW x \in DOMAIN incidents', incidents'[x].status = "active"
               PROVE  incidents'[x].seq = Len(byOccurrence'[incidents'[x].key])
    BY DEF OnlyLastActive
  <2>1. CASE x = id
    BY <1>0, <1>3, <1>5, <2>1
  <2>2. CASE x # id
    <3>1. /\ x \in DOMAIN incidents
          /\ incidents'[x] = incidents[x]
          /\ incidents[x].key \in Keys
          /\ incidents[x].seq \in Nat \ {0}
          /\ incidents[x].seq = Len(byOccurrence[incidents[x].key])
          /\ byOccurrence[incidents[x].key][incidents[x].seq] = x
      BY <1>3, <2>2 DEF IInv, TypeOK, IncidentAt, OnlyLastActive, LinkedHistory
    <3>2. incidents[x].key # key
      <4> SUFFICES ASSUME incidents[x].key = key PROVE FALSE
        OBVIOUS
      <4>1. Ongoing(key)
        BY <1>1, <3>1 DEF Ongoing
      <4> QED
        BY <4>1 DEF Create
    <3> QED
      BY <1>5, <3>1, <3>2
  <2> QED
    BY <2>1, <2>2
<1>9. IDsDetermined'
  BY <1>0, <1>1, <1>3 DEF IInv, IDsDetermined
<1>10. StatusFollowsTrail'
  <2>1. \A x : Trail(x)' = Trail(x)
    BY <1>4 DEF Trail
  <2>2. Trail(id) = << >>
    BY <1>2 DEF Trail, IInv, TypeOK
  <2> QED
    BY <1>0, <1>3, <2>1, <2>2 DEF IInv, StatusFollowsTrail
<1> QED
  BY <1>6, <1>7, <1>8, <1>9, <1>10 DEF IInv

\* Decide preserves the invariant.
LEMMA DecideInv ==
    ASSUME IInv, NEW id \in DOMAIN incidents, NEW status \in Verdicts,
           NEW now \in Times, Decide(id, status, now)
    PROVE  IInv'
<1>1. /\ DOMAIN incidents' = DOMAIN incidents
      /\ incidents'[id] = [incidents[id] EXCEPT !.status = status, !.updated = now]
      /\ \A x \in DOMAIN incidents : x # id => incidents'[x] = incidents[x]
      /\ byOccurrence' = byOccurrence
  BY DEF Decide
<1>2. incidents[id] \in IncidentAt(id)
  BY DEF IInv, TypeOK
<1>3. /\ incidents'[id].key = incidents[id].key
      /\ incidents'[id].seq = incidents[id].seq
      /\ incidents'[id].created = incidents[id].created
      /\ incidents'[id].status = status
      /\ incidents'[id].updated = now
      /\ incidents'[id] \in IncidentAt(id)
  BY <1>1, <1>2 DEF IncidentAt, Statuses
<1>4. \A x \in DOMAIN incidents :
         /\ incidents'[x].key = incidents[x].key
         /\ incidents'[x].seq = incidents[x].seq
         /\ incidents'[x].created = incidents[x].created
  BY <1>1, <1>3
<1> DEFINE d == [status |-> status, at |-> now]
<1>5. /\ DOMAIN decisions' = DOMAIN decisions \cup {id}
      /\ decisions'[id] = Append(Trail(id), d)
      /\ \A x \in DOMAIN decisions : x # id => decisions'[x] = decisions[x]
      /\ decisions' = [x \in DOMAIN decisions' |-> decisions'[x]]
  BY PutFacts DEF Decide, Put
<1>6. /\ Trail(id) \in Seq(Decision)
      /\ d \in Decision
      /\ Append(Trail(id), d) \in Seq(Decision)
  <2>1. d \in Decision
    BY DEF Decision
  <2>2. Trail(id) \in Seq(Decision)
    <3>1. CASE id \in DOMAIN decisions
      BY <3>1 DEF IInv, TypeOK, Trail
    <3>2. CASE id \notin DOMAIN decisions
      BY <3>2 DEF Trail
    <3> QED
      BY <3>1, <3>2
  <2> QED
    BY <2>1, <2>2
<1>7. TypeOK'
  <2>1. \A x \in DOMAIN incidents' : incidents'[x] \in IncidentAt(x)
    BY <1>1, <1>3 DEF IInv, TypeOK
  <2>2. decisions' \in [DOMAIN decisions' -> Seq(Decision)]
    <3>1. \A x \in DOMAIN decisions' : decisions'[x] \in Seq(Decision)
      BY <1>5, <1>6 DEF IInv, TypeOK
    <3> QED
      BY <1>5, <3>1
  <2>3. DOMAIN decisions' \subseteq DOMAIN incidents'
    BY <1>1, <1>5 DEF IInv, TypeOK
  <2> QED
    BY <1>1, <2>1, <2>2, <2>3 DEF IInv, TypeOK
<1>8. LinkedHistory'
  <2>1. \A k \in Keys : \A n \in 1..Len(byOccurrence[k]) :
            byOccurrence[k][n] \in DOMAIN incidents
    BY DEF IInv, TypeOK
  <2> QED
    BY <1>1, <1>4, <2>1 DEF IInv, LinkedHistory
<1>9. OnlyLastActive'
  BY <1>1, <1>3, <1>4 DEF IInv, OnlyLastActive, Verdicts
<1>10. IDsDetermined'
  BY <1>1, <1>4 DEF IInv, IDsDetermined, NewIncidentID
<1>11. StatusFollowsTrail'
  <2>1. Trail(id)' = Append(Trail(id), d)
    BY <1>5 DEF Trail
  <2>2. \A x : x # id => Trail(x)' = Trail(x)
    BY <1>5 DEF Trail
  <2>3. Trail(id)' # << >> /\ Trail(id)'[Len(Trail(id)')] = d
    BY <1>6, <2>1
  <2>4. ASSUME NEW x \in DOMAIN incidents', x # id
        PROVE  IF Trail(x)' = << >>
               THEN incidents'[x].status = "active" /\ incidents'[x].updated = incidents'[x].created
               ELSE Trail(x)'[Len(Trail(x)')]
                       = [status |-> incidents'[x].status, at |-> incidents'[x].updated]
    BY <1>1, <2>2, <2>4 DEF IInv, StatusFollowsTrail
  <2> QED
    BY <1>1, <1>3, <2>3, <2>4 DEF StatusFollowsTrail
<1> QED
  BY <1>7, <1>8, <1>9, <1>10, <1>11 DEF IInv

\* Every step of the store preserves the invariant.
LEMMA NextInv == ASSUME NoCollision PROVE IInv /\ [Next]_storeVars => IInv'
<1> SUFFICES ASSUME IInv, [Next]_storeVars PROVE IInv'
  OBVIOUS
<1>1. CASE UNCHANGED storeVars
  BY <1>1 DEF storeVars, IInv, TypeOK, LinkedHistory, OnlyLastActive, IDsDetermined,
              StatusFollowsTrail, Trail
<1>2. ASSUME NEW key \in Keys, NEW now \in Times,
             Len(byOccurrence[key]) < MaxOccurrences, Upsert(key, now)
      PROVE  IInv'
  BY <1>1, <1>2, CreateInv DEF Upsert
<1>3. ASSUME NEW id \in DOMAIN incidents, NEW status \in Verdicts, NEW now \in Times,
             Decide(id, status, now)
      PROVE  IInv'
  BY <1>3, DecideInv
<1> QED
  BY <1>1, <1>2, <1>3 DEF Next

\* Two active incidents of a key would both be its last occurrence.
LEMMA InvAtMostOneActive == IInv => AtMostOneActive
<1> SUFFICES ASSUME IInv, NEW i \in DOMAIN incidents, NEW j \in DOMAIN incidents,
                    incidents[i].key = incidents[j].key,
                    incidents[i].status = "active", incidents[j].status = "active"
             PROVE  i = j
  BY DEF AtMostOneActive
<1>1. incidents[i].seq = incidents[j].seq
  BY DEF IInv, OnlyLastActive
<1> QED
  BY <1>1 DEF IInv, LinkedHistory

\* The strengthened invariant holds in every reachable state of the store.
THEOREM StoreInvariant == ASSUME NoCollision PROVE Spec => []IInv
<1>1. Init => IInv
  BY InitInv
<1>2. IInv /\ [Next]_storeVars => IInv'
  BY NextInv
<1> QED
  BY <1>1, <1>2, PTL DEF Spec

\* References inside the store never dangle, whatever Upsert and Decide do.
THEOREM StoreTypeOK == ASSUME NoCollision PROVE Spec => []TypeOK
<1>1. IInv => TypeOK
  BY DEF IInv
<1> QED
  BY <1>1, StoreInvariant, PTL

\* A key has at most one active incident, whatever the order of reports and
\* decisions and however often it recurs.
THEOREM StoreAtMostOneActive == ASSUME NoCollision PROVE Spec => []AtMostOneActive
<1>1. IInv => AtMostOneActive
  BY InvAtMostOneActive
<1> QED
  BY <1>1, StoreInvariant, PTL

\* The history of a key lists its occurrences 1, 2, ... and leaves none out.
THEOREM StoreLinkedHistory == ASSUME NoCollision PROVE Spec => []LinkedHistory
<1>1. IInv => LinkedHistory
  BY DEF IInv
<1> QED
  BY <1>1, StoreInvariant, PTL

\* The status of an incident is the one its audit trail ends with.
THEOREM StoreStatusFollowsTrail == ASSUME NoCollision PROVE Spec => []StatusFollowsTrail
<1>1. IInv => StatusFollowsTrail
  BY DEF IInv
<1> QED
  BY <1>1, StoreInvariant, PTL

\* Neither Upsert nor Decide erases an incident, reopens one or rewrites an
\* audit trail.
THEOREM StoreNothingErased == ASSUME NoCollision PROVE Spec => NothingErased
<1> DEFINE Kept(id) ==
        /\ id \in DOMAIN incidents'
        /\ incidents'[id].key = incidents[id].key
        /\ incidents'[id].seq = incidents[id].seq
        /\ incidents[id].status # "active" => incidents'[id].status # "active"
        /\ \A i \in DOMAIN Trail(id) :
               i \in DOMAIN Trail(id)' /\ Trail(id)'[i] = Trail(id)[i]
<1>1. ASSUME IInv, Next, NEW x \in DOMAIN incidents PROVE Kept(x)
  <2>1. ASSUME UNCHANGED storeVars PROVE Kept(x)
    BY <2>1 DEF storeVars, Trail
  <2>2. ASSUME NEW key \in Keys, NEW now \in Times,
               Len(byOccurrence[key]) < MaxOccurrences, Create(key, now)
        PROVE  Kept(x)
    <3>1. Occurrence(key, now).id \notin DOMAIN incidents
      BY <1>1, <2>2, FreshID DEF IInv
    <3>2. x \in DOMAIN incidents' /\ incidents'[x] = incidents[x]
      BY <1>1, <2>2, <3>1 DEF Create, Put
    <3>3. Trail(x)' = Trail(x)
      BY <2>2 DEF Create, Trail
    <3> QED
      BY <3>2, <3>3
  <2>3. ASSUME NEW id \in DOMAIN incidents, NEW status \in Verdicts, NEW now \in Times,
               Decide(id, status, now)
        PROVE  Kept(x)
    <3>1. /\ x \in DOMAIN incidents'
          /\ incidents'[x].key = incidents[x].key
          /\ incidents'[x].seq = incidents[x].seq
          /\ incidents'[x].status = IF x = id THEN status ELSE incidents[x].status
      <4>1. incidents[id] \in IncidentAt(id)
        BY <1>1 DEF IInv, TypeOK
      <4> QED
        BY <1>1, <2>3, <4>1 DEF Decide, IncidentAt
    <3>2. CASE x # id
      BY <2>3, <3>1, <3>2 DEF Decide, Trail, Put
    <3>3. CASE x = id
      <4>1. Trail(x)' = Append(Trail(x), [status |-> status, at |-> now])
        BY <2>3, <3>3 DEF Decide, Trail, Put
      <4>2. Trail(x) \in Seq(Decision)
        <5>1. CASE x \in DOMAIN decisions
          BY <1>1, <5>1 DEF IInv, TypeOK, Trail
        <5>2. CASE x \notin DOMAIN decisions
          BY <5>2 DEF Trail
        <5> QED
          BY <5>1, <5>2
      <4>3. [status |-> status, at |-> now] \in Decision
        BY <2>3 DEF Decision
      <4>4. \A i \in DOMAIN Trail(x) :
                i \in DOMAIN Trail(x)' /\ Trail(x)'[i] = Trail(x)[i]
        BY <4>1, <4>2, <4>3
      <4>5. status # "active"
        BY <2>3 DEF Verdicts
      <4> QED
        BY <3>1, <3>3, <4>4, <4>5
    <3> QED
      BY <3>2, <3>3
  <2> QED
    BY <1>1, <2>1, <2>2, <2>3 DEF Next, Upsert
<1>2. IInv /\ [Next]_storeVars => [\A id \in DOMAIN incidents : Kept(id)]_storeVars
  BY <1>1
<1> QED
  BY <1>2, StoreInvariant, PTL DEF Spec, NothingErased

-----------------------------------------------------------------------------

\* The log of one key under the refinement mapping.
LogOf(k) ==
    [n \in 1..Len(byOccurrence[k]) |-> VerdictsOn(byOccurrence[k][n])]

\* A function on 1..n is a sequence of length n.
LEMMA FunctionIsSeq ==
    ASSUME NEW S, NEW n \in Nat, NEW f \in [1..n -> S]
    PROVE  f \in Seq(S) /\ Len(f) = n
BY SeqDef

\* The verdicts on an incident are as many as its decisions, and the log of a
\* key has as many occurrences as its history.
LogTyped ==
    /\ \A id : /\ Trail(id) \in Seq(Decision)
               /\ VerdictsOn(id) \in Seq(Verdicts)
               /\ Len(VerdictsOn(id)) = Len(Trail(id))
    /\ \A k \in Keys : /\ byOccurrence[k] \in Seq(DOMAIN incidents)
                       /\ LogOf(k) \in Seq(Seq(Verdicts))
                       /\ Len(LogOf(k)) = Len(byOccurrence[k])

\* The invariant gives the refinement mapping its types.
LEMMA LogTypes == IInv => LogTyped
<1> SUFFICES ASSUME IInv PROVE LogTyped
  OBVIOUS
<1>1. ASSUME NEW id
      PROVE  /\ Trail(id) \in Seq(Decision)
             /\ VerdictsOn(id) \in Seq(Verdicts)
             /\ Len(VerdictsOn(id)) = Len(Trail(id))
  <2>1. Trail(id) \in Seq(Decision)
    <3>1. CASE id \in DOMAIN decisions
      BY <3>1 DEF IInv, TypeOK, Trail
    <3>2. CASE id \notin DOMAIN decisions
      BY <3>2 DEF Trail
    <3> QED
      BY <3>1, <3>2
  <2>2. Len(Trail(id)) \in Nat /\ \A i \in 1..Len(Trail(id)) : Trail(id)[i].status \in Verdicts
    <3>1. Len(Trail(id)) \in Nat /\ \A i \in 1..Len(Trail(id)) : Trail(id)[i] \in Decision
      BY <2>1
    <3> QED
      BY <3>1 DEF Decision
  <2>3. VerdictsOn(id) \in [1..Len(Trail(id)) -> Verdicts]
    BY <2>2 DEF VerdictsOn
  <2> QED
    BY <2>1, <2>2, <2>3, FunctionIsSeq
<1>2. ASSUME NEW k \in Keys
      PROVE  /\ byOccurrence[k] \in Seq(DOMAIN incidents)
             /\ LogOf(k) \in Seq(Seq(Verdicts))
             /\ Len(LogOf(k)) = Len(byOccurrence[k])
  <2>1. byOccurrence[k] \in Seq(DOMAIN incidents) /\ Len(byOccurrence[k]) \in Nat
    BY DEF IInv, TypeOK
  <2>2. LogOf(k) \in [1..Len(byOccurrence[k]) -> Seq(Verdicts)]
    BY <1>1 DEF LogOf
  <2> QED
    BY <2>1, <2>2, FunctionIsSeq
<1> QED
  BY <1>1, <1>2 DEF LogTyped

\* The same after a step.
LEMMA LogTypesNext == IInv' => LogTyped'
BY LogTypes, PTL

\* An occurrence is open in the log exactly when its incident is active.
LEMMA OpenIffActive ==
    ASSUME IInv, NEW id \in DOMAIN incidents
    PROVE  VerdictsOn(id) = << >> <=> incidents[id].status = "active"
<1>1. Trail(id) \in Seq(Decision) /\ VerdictsOn(id) \in Seq(Verdicts)
      /\ Len(VerdictsOn(id)) = Len(Trail(id))
  BY LogTypes DEF LogTyped
<1>2. VerdictsOn(id) = << >> <=> Trail(id) = << >>
  BY <1>1
<1>3. ASSUME Trail(id) # << >> PROVE incidents[id].status # "active"
  <2>1. Len(Trail(id)) \in 1..Len(Trail(id))
    BY <1>1, <1>3
  <2>2. Trail(id)[Len(Trail(id))] \in Decision
    BY <1>1, <2>1
  <2>3. Trail(id)[Len(Trail(id))]
            = [status |-> incidents[id].status, at |-> incidents[id].updated]
    BY <1>3 DEF IInv, StatusFollowsTrail
  <2> QED
    BY <2>2, <2>3 DEF Decision, Verdicts
<1>4. Trail(id) = << >> => incidents[id].status = "active"
  BY DEF IInv, StatusFollowsTrail
<1> QED
  BY <1>2, <1>3, <1>4

\* Creating an occurrence is the abstract Recur.
LEMMA CreateRefines ==
    ASSUME NoCollision, IInv, IInv', NEW key \in Keys, NEW now \in Times,
           Len(byOccurrence[key]) < MaxOccurrences, Create(key, now)
    PROVE  Log!Recur(key)
<1> DEFINE id == Occurrence(key, now).id
           n == Len(byOccurrence[key]) + 1
<1>1. byOccurrence[key] \in Seq(DOMAIN incidents) /\ Len(byOccurrence[key]) \in Nat
  BY DEF IInv, TypeOK
<1>2. id \notin DOMAIN incidents
  BY FreshID DEF IInv
<1>3. /\ byOccurrence' = [byOccurrence EXCEPT ![key] = Append(@, id)]
      /\ decisions' = decisions
  BY DEF Create
<1> HIDE DEF id
<1>4. \A x : VerdictsOn(x)' = VerdictsOn(x)
  BY <1>3 DEF VerdictsOn, Trail
<1>5. VerdictsOn(id) = << >>
  <2>1. Trail(id) = << >>
    BY <1>2 DEF IInv, TypeOK, Trail
  <2> QED
    BY <2>1, LogTypes DEF LogTyped
<1>6. LogOf(key)' = Append(LogOf(key), << >>)
  <2>1. /\ LogOf(key) \in Seq(Seq(Verdicts)) /\ Len(LogOf(key)) = n - 1
        /\ LogOf(key)' \in Seq(Seq(Verdicts)) /\ Len(LogOf(key)') = n
    <3>1. Len(byOccurrence'[key]) = n
      BY <1>1, <1>3 DEF IInv, TypeOK
    <3> QED
      BY <1>1, <3>1, LogTypes, LogTypesNext DEF LogTyped
  <2>2. /\ Append(LogOf(key), << >>) \in Seq(Seq(Verdicts))
        /\ Len(Append(LogOf(key), << >>)) = n
    BY <1>1, <2>1
  <2>3. ASSUME NEW i \in 1..n PROVE LogOf(key)'[i] = Append(LogOf(key), << >>)[i]
    <3>1. LogOf(key)'[i] = VerdictsOn(byOccurrence'[key][i])
      BY <1>1, <1>3, <1>4 DEF LogOf, IInv, TypeOK
    <3>2. CASE i = n
      BY <1>1, <1>3, <1>5, <2>1, <3>1, <3>2 DEF IInv, TypeOK
    <3>3. CASE i # n
      BY <1>1, <1>3, <2>1, <3>1, <3>3 DEF LogOf, IInv, TypeOK
    <3> QED
      BY <3>2, <3>3
  <2> QED
    BY <2>1, <2>2, <2>3, SeqEqual
<1>7. \A k \in Keys : k # key => LogOf(k)' = LogOf(k)
  BY <1>3, <1>4 DEF LogOf, IInv, TypeOK
<1>8. ASSUME NEW i \in 1..Len(LogOf(key)) PROVE LogOf(key)[i] # << >>
  <2>1. i \in 1..Len(byOccurrence[key])
    BY <1>8, LogTypes DEF LogTyped
  <2> DEFINE x == byOccurrence[key][i]
  <2>2. x \in DOMAIN incidents /\ incidents[x].key = key
    BY <2>1 DEF IInv, TypeOK, LinkedHistory
  <2>3. LogOf(key)[i] = VerdictsOn(x)
    BY <2>1 DEF LogOf
  <2>4. incidents[x].status # "active"
    <3> SUFFICES ASSUME incidents[x].status = "active" PROVE FALSE
      OBVIOUS
    <3>1. incidents[x].seq = Len(byOccurrence[key])
      BY <2>2 DEF IInv, OnlyLastActive
    <3>2. byOccurrence[key][Len(byOccurrence[key])] = x
      BY <2>2, <3>1 DEF IInv, LinkedHistory
    <3>3. Ongoing(key)
      BY <1>1, <2>1, <2>2, <3>2 DEF Ongoing
    <3> QED
      BY <3>3 DEF Create
  <2> QED
    BY <2>2, <2>3, <2>4, OpenIffActive
<1>9. [k \in Keys |-> LogOf(k)]'
        = [[k \in Keys |-> LogOf(k)] EXCEPT ![key] = Append(@, << >>)]
  BY <1>6, <1>7
<1> QED
  BY <1>8, <1>9 DEF Log!Recur, Log!Open, LogOf

\* Deciding on an incident is the abstract Judge on its occurrence.
LEMMA DecideRefines ==
    ASSUME IInv, IInv', NEW id \in DOMAIN incidents, NEW status \in Verdicts,
           NEW now \in Times, Decide(id, status, now)
    PROVE  Log!Next
<1>0. PICK k, n : k = incidents[id].key /\ n = incidents[id].seq
  OBVIOUS
<1>1. /\ k \in Keys
      /\ n \in 1..Len(byOccurrence[k])
      /\ byOccurrence[k][n] = id
      /\ byOccurrence' = byOccurrence
  BY <1>0 DEF IInv, TypeOK, IncidentAt, LinkedHistory, Decide
<1>2. VerdictsOn(id)' = Append(VerdictsOn(id), status)
  <2>1. Trail(id)' = Append(Trail(id), [status |-> status, at |-> now])
    BY DEF Decide, Trail, Put
  <2>2. /\ Trail(id) \in Seq(Decision)
        /\ VerdictsOn(id) \in Seq(Verdicts) /\ Len(VerdictsOn(id)) = Len(Trail(id))
        /\ VerdictsOn(id)' \in Seq(Verdicts) /\ Len(VerdictsOn(id)') = Len(Trail(id)')
    BY LogTypes, LogTypesNext DEF LogTyped
  <2>3. [status |-> status, at |-> now] \in Decision
    BY DEF Decision
  <2>4. Len(Trail(id)') = Len(Trail(id)) + 1
    BY <2>1, <2>2, <2>3
  <2>5. Append(VerdictsOn(id), status) \in Seq(Verdicts)
        /\ Len(Append(VerdictsOn(id), status)) = Len(Trail(id)) + 1
    BY <2>2
  <2>6. ASSUME NEW i \in 1..Len(Trail(id)) + 1
        PROVE  VerdictsOn(id)'[i] = Append(VerdictsOn(id), status)[i]
    <3>1. VerdictsOn(id)'[i] = Trail(id)'[i].status
      BY <2>4, <2>6 DEF VerdictsOn
    <3>2. CASE i = Len(Trail(id)) + 1
      BY <2>1, <2>2, <2>3, <3>1, <3>2
    <3>3. CASE i # Len(Trail(id)) + 1
      <4>1. i \in 1..Len(Trail(id))
        BY <2>2, <3>3
      <4>2. VerdictsOn(id)[i] = Trail(id)[i].status
        BY <4>1 DEF VerdictsOn
      <4>3. Trail(id)'[i] = Trail(id)[i]
        BY <2>1, <2>2, <2>3, <4>1
      <4> QED
        BY <2>2, <3>1, <4>1, <4>2, <4>3
    <3> QED
      BY <3>2, <3>3
  <2> QED
    BY <2>2, <2>4, <2>5, <2>6, SeqEqual
<1>3. \A x : x # id => VerdictsOn(x)' = VerdictsOn(x)
  BY DEF Decide, VerdictsOn, Trail, Put
<1>4. \A j \in Keys : \A i \in 1..Len(byOccurrence[j]) :
          byOccurrence[j][i] = id => j = k /\ i = n
  BY <1>0 DEF IInv, LinkedHistory
<1>5. \A j \in Keys : j # k => LogOf(j)' = LogOf(j)
  BY <1>1, <1>3, <1>4 DEF LogOf
<1>6. LogOf(k)' = [LogOf(k) EXCEPT ![n] = Append(@, status)]
  BY <1>1, <1>2, <1>3, <1>4 DEF LogOf
<1>7. [j \in Keys |-> LogOf(j)]'
        = [[j \in Keys |-> LogOf(j)] EXCEPT
              ![k] = [@ EXCEPT ![n] = Append(LogOf(k)[n], status)]]
  <2>1. [j \in Keys |-> LogOf(j)]'
          = [[j \in Keys |-> LogOf(j)] EXCEPT ![k] = LogOf(k)']
    BY <1>1, <1>5
  <2>2. [j \in Keys |-> LogOf(j)][k] = LogOf(k)
    BY <1>1
  <2> QED
    BY <1>6, <2>1, <2>2
<1>8. Log!Judge(k, n, status)
  BY <1>7 DEF Log!Judge, LogOf
<1>9. n \in 1..Len(LogOf(k))
  BY <1>1, LogTypes DEF LogTyped
<1> QED
  BY <1>1, <1>8, <1>9 DEF Log!Next, LogOf

\* The store implements the abstract incident log.
THEOREM StoreImplementsLog == ASSUME NoCollision PROVE Spec => ImplementsLog
<1> DEFINE theLog == [k \in Keys |-> LogOf(k)]
<1>1. Init => Log!Init
  <2> SUFFICES ASSUME Init PROVE Log!Init
    OBVIOUS
  <2>1. \A k \in Keys : LogOf(k) = << >>
    <3>1. IInv
      BY InitInv
    <3>2. ASSUME NEW k \in Keys PROVE LogOf(k) = << >>
      <4>1. LogOf(k) \in Seq(Seq(Verdicts)) /\ Len(LogOf(k)) = Len(byOccurrence[k])
        BY <3>1, LogTypes DEF LogTyped
      <4>2. Len(byOccurrence[k]) = 0
        BY DEF Init
      <4> QED
        BY <4>1, <4>2, EmptySeq
    <3> QED
      BY <3>2
  <2> QED
    BY <2>1 DEF Log!Init, LogOf
<1>2. IInv /\ IInv' /\ [Next]_storeVars => [Log!Next]_theLog
  <2> SUFFICES ASSUME IInv, IInv', [Next]_storeVars PROVE [Log!Next]_theLog
    OBVIOUS
  <2>1. ASSUME UNCHANGED storeVars PROVE UNCHANGED theLog
    BY <2>1 DEF storeVars, LogOf, VerdictsOn, Trail
  <2>2. ASSUME NEW key \in Keys, NEW now \in Times,
               Len(byOccurrence[key]) < MaxOccurrences, Create(key, now)
        PROVE  Log!Next
    BY <2>2, CreateRefines DEF Log!Next
  <2>3. ASSUME NEW id \in DOMAIN incidents, NEW status \in Verdicts, NEW now \in Times,
               Decide(id, status, now)
        PROVE  Log!Next
    BY <2>3, DecideRefines
  <2> QED
    BY <2>1, <2>2, <2>3 DEF Next, Upsert
<1> QED
  BY <1>1, <1>2, StoreInvariant, PTL DEF Spec, ImplementsLog, Log!Spec, LogOf

=============================================================================
