--------------------------- MODULE SessionTableProofs ---------------------------
(***************************************************************************)
(* The session table of session/mod.rs, for any number of requests, ids,   *)
(* sessions and shards and any capacity.                                   *)
(***************************************************************************)
EXTENDS SessionTable, FiniteSetTheorems, TLAPS

\* A creation owns its shard's mutex, and the key it will insert is free.
ShardExclusive ==
  \A r, q \in Creating : ShardOf[rid[r]] = ShardOf[rid[q]] => r = q
KeyVacant == \A r \in Creating : table[rid[r]] = NoSession

\* A session anything refers to has been given its id; the map's key is that id.
Named ==
  /\ \A i \in Ids : table[i] # NoSession => sid[table[i]] = i
  /\ \A r \in Requests : ses[r] # NoSession => sid[ses[r]] \in Ids
  /\ \A s \in Sessions : task[s] # "none" => sid[s] \in Ids

\* A session whose reaper is still to be spawned has none, and one creator.
SpawnFresh ==
  \A p \in Posts : pc[p] = "spawn" =>
    /\ ses[p] # NoSession
    /\ task[ses[p]] = "none"
    /\ \A q \in Posts : pc[q] = "spawn" /\ ses[q] = ses[p] => q = p

\* Sessions counted, and sessions about to be: every creation passed the check
\* when the count was below the cap, and there is one per shard at most.
CapBound ==
  active + Cardinality(Creating) <= MaxSessions + Cardinality(Shards) - 1

\* The inductive invariant.
TableInv ==
  TypeOK /\ ShardExclusive /\ KeyVacant /\ Named /\ SpawnFresh
  /\ ActiveAccounting /\ CapBound

-------------------------------------------------------------------------------
\* The sets whose sizes are counted are finite.
LEMMA Finite ==
  /\ IsFiniteSet(Requests)
  /\ IsFiniteSet(Creating) /\ Cardinality(Creating) \in Nat
  /\ IsFiniteSet(Listed) /\ Cardinality(Listed) \in Nat
  /\ IsFiniteSet(Removing) /\ Cardinality(Removing) \in Nat
  /\ IsFiniteSet(Reaping) /\ Cardinality(Reaping) \in Nat
  /\ Cardinality(Shards) \in Nat \ {0}
<1>1. IsFiniteSet(Requests)
  BY TableAssumption, FS_Union DEF Requests
<1>2. Creating \subseteq Requests /\ Removing \subseteq Requests
      /\ Listed \subseteq Ids /\ Reaping \subseteq Sessions
  BY DEF Creating, Removing, Listed, Reaping
<1>3. IsFiniteSet(Creating) /\ IsFiniteSet(Removing)
      /\ IsFiniteSet(Listed) /\ IsFiniteSet(Reaping)
  BY <1>1, <1>2, FS_Subset, TableAssumption
<1>4. Cardinality(Shards) \in Nat \ {0}
  BY TableAssumption, FS_CardinalityType, FS_EmptySet
<1> QED
  BY <1>1, <1>3, <1>4, FS_CardinalityType

\* One element more, one element less.
LEMMA OneMore ==
  ASSUME NEW S, IsFiniteSet(S), NEW x, x \notin S
  PROVE  Cardinality(S \cup {x}) = Cardinality(S) + 1
  BY FS_AddElement

LEMMA OneLess ==
  ASSUME NEW S, IsFiniteSet(S), NEW x \in S
  PROVE  Cardinality(S \ {x}) = Cardinality(S) - 1
  BY FS_RemoveElement

\* There are no more creations under way than shards: C are the creations, key
\* the ids they create.
LEMMA OnePerShard ==
  ASSUME NEW C, NEW key \in [C -> Ids],
         \A r, q \in C : ShardOf[key[r]] = ShardOf[key[q]] => r = q
  PROVE  /\ Cardinality(C) \in Nat
         /\ Cardinality(C) <= Cardinality(Shards)
<1> DEFINE f == [r \in C |-> ShardOf[key[r]]]
<1>1. f \in [C -> Shards]
  BY TableAssumption
<1>2. f \in Injection(C, Shards)
  BY <1>1 DEF Injection, IsInjective
<1> HIDE DEF f
<1> QED
  BY <1>2, FS_Injection, FS_CardinalityType, TableAssumption

-------------------------------------------------------------------------------
\* An empty table satisfies the invariant.
LEMMA TableInvInit == Init => TableInv
<1> SUFFICES ASSUME Init PROVE TableInv
  OBVIOUS
<1>1. Creating = {} /\ Listed = {} /\ Removing = {} /\ Reaping = {}
  BY DEF Init, Creating, Listed, Removing, Reaping
<1>2. TypeOK
  BY DEF Init, TypeOK, TaskSteps, PostSteps, GetSteps, Requests
<1>3. ShardExclusive /\ KeyVacant /\ Named /\ SpawnFresh
  BY <1>1 DEF Init, ShardExclusive, KeyVacant, Named, SpawnFresh, Requests
<1>4. ActiveAccounting /\ CapBound
  BY <1>1, Finite, FS_EmptySet, TableAssumption DEF Init, ActiveAccounting, CapBound
<1> QED
  BY <1>2, <1>3, <1>4 DEF TableInv

\* Each step keeps the types, provided the count does not go below zero.
LEMMA TypeStep ==
  ASSUME TypeOK, Named, Next, active' \in Nat
  PROVE  TypeOK'
<1> USE DEF TypeOK, Requests, object, Goto, Finish, TaskSteps
<1>1. ASSUME NEW r \in Requests, NEW i \in Ids, Arrive(r, i) PROVE TypeOK'
  BY <1>1, TableAssumption DEF Arrive, PostSteps, GetSteps
<1>2. ASSUME NEW r \in Requests, Lookup(r) PROVE TypeOK'
  BY <1>2, TableAssumption DEF Lookup, Found, AtCapacity, MayCreate, PostSteps, GetSteps
<1>3. ASSUME NEW r \in Requests, NEW s \in Sessions, Insert(r, s) PROVE TypeOK'
  <2>1. rid[r] \in Ids
    BY <1>3 DEF Insert
  <2> QED
    BY <1>3, <2>1, TableAssumption DEF Insert, PostSteps, GetSteps
<1>4. ASSUME NEW r \in Requests, RemoveStep(r) PROVE TypeOK'
  <2>1. CASE RemoveById(r)
    BY <2>1, TableAssumption DEF RemoveById, PostSteps, GetSteps
  <2>2. CASE CancelReaper(r)
    <3>1. task' \in [Sessions -> TaskSteps]
      BY <2>2 DEF CancelReaper, Abort
    <3> QED
      BY <2>2, <3>1, TableAssumption DEF CancelReaper, PostSteps, GetSteps
  <2>3. CASE Retire(r)
    BY <2>3, TableAssumption DEF Retire, PostSteps, GetSteps
  <2> QED
    BY <1>4, <2>1, <2>2, <2>3 DEF RemoveStep
<1>5. ASSUME NEW p \in Posts, PostStep(p) \/ PushDone(p) \/ PushOverflow(p) PROVE TypeOK'
  <2>1. CASE Spawn(p)
    BY <2>1, TableAssumption DEF Spawn, PostSteps
  <2>2. CASE Install(p)
    BY <2>2, TableAssumption DEF Install, PostSteps
  <2>3. CASE Recheck(p)
    BY <2>3, TableAssumption DEF Recheck, PostSteps
  <2>4. CASE RecheckMap(p)
    BY <2>4, TableAssumption DEF RecheckMap, PostSteps
  <2>5. CASE AbortOwnReaper(p)
    BY <2>5, TableAssumption DEF AbortOwnReaper, Abort, PostSteps
  <2>6. CASE PushDone(p)
    BY <2>6, TableAssumption DEF PushDone, PostSteps
  <2>7. CASE PushOverflow(p)
    BY <2>7, TableAssumption DEF PushOverflow, PostSteps
  <2> QED
    BY <1>5, <2>1, <2>2, <2>3, <2>4, <2>5, <2>6, <2>7 DEF PostStep
<1>6. ASSUME NEW g \in Gets, GetStep(g) \/ EndDownload(g) PROVE TypeOK'
  <2>1. CASE Mark(g)
    BY <2>1, TableAssumption DEF Mark, GetSteps
  <2>2. CASE Disarm(g)
    <3>1. task' \in [Sessions -> TaskSteps]
      BY <2>2 DEF Disarm, Abort
    <3> QED
      BY <2>2, <3>1, TableAssumption DEF Disarm, GetSteps
  <2>3. CASE TakeReader(g)
    BY <2>3, TableAssumption DEF TakeReader, GetSteps
  <2>4. CASE Conflict(g)
    BY <2>4, TableAssumption DEF Conflict, GetSteps
  <2>5. CASE EndDownload(g)
    BY <2>5, TableAssumption DEF EndDownload, GetSteps
  <2> QED
    BY <1>6, <2>1, <2>2, <2>3, <2>4, <2>5 DEF GetStep
<1>7. ASSUME NEW s \in Sessions, TaskStep(s) PROVE TypeOK'
  BY <1>7, TableAssumption DEF TaskStep, Wake, Reap, ReapRetire
<1> QED
  BY <1>1, <1>2, <1>3, <1>4, <1>5, <1>6, <1>7 DEF Next, UpsertStep


\* Each step keeps the shard lock exclusive, the key of a creation free, and the
\* ids where they belong.
LEMMA StructureStep ==
  ASSUME TypeOK, ShardExclusive, KeyVacant, Named, Next
  PROVE  ShardExclusive' /\ KeyVacant' /\ Named'
<1> USE DEF TypeOK, ShardExclusive, KeyVacant, Named, Creating, object, Goto, Finish
<1>1. ASSUME NEW r \in Requests, NEW i \in Ids, Arrive(r, i)
      PROVE  ShardExclusive' /\ KeyVacant' /\ Named'
  BY <1>1, TableAssumption DEF Arrive
<1>2. ASSUME NEW r \in Requests, Lookup(r)
      PROVE  ShardExclusive' /\ KeyVacant' /\ Named'
  <2>0. rid[r] \in Ids
    BY <1>2 DEF Lookup
  <2>1. CASE Found(r)
    BY <1>2, <2>0, <2>1, TableAssumption DEF Lookup, Found
  <2>2. CASE AtCapacity(r)
    BY <1>2, <2>2, TableAssumption DEF Lookup, AtCapacity
  <2>3. CASE MayCreate(r)
    BY <1>2, <2>0, <2>3, TableAssumption DEF Lookup, MayCreate, Unlocked
  <2> QED
    BY <1>2, <2>1, <2>2, <2>3 DEF Lookup
<1>3. ASSUME NEW r \in Requests, NEW s \in Sessions, Insert(r, s)
      PROVE  ShardExclusive' /\ KeyVacant' /\ Named'
  <2>1. rid[r] \in Ids /\ ~Referenced(s) /\ task[s] = "none"
    BY <1>3 DEF Insert, Reusable
  <2>2. ShardExclusive' /\ KeyVacant'
    BY <1>3, <2>1, TableAssumption DEF Insert
  <2>3. Named'
    BY <1>3, <2>1, TableAssumption DEF Insert, Referenced
  <2> QED
    BY <2>2, <2>3
<1>4. ASSUME NEW r \in Requests, RemoveStep(r)
      PROVE  ShardExclusive' /\ KeyVacant' /\ Named'
  <2>0. pc[r] # "idle" => rid[r] \in Ids
    OBVIOUS
  <2>1. CASE RemoveById(r)
    BY <2>0, <2>1, TableAssumption DEF RemoveById
  <2>2. CASE CancelReaper(r)
    BY <2>2, TableAssumption DEF CancelReaper, Abort
  <2>3. CASE Retire(r)
    BY <2>3, TableAssumption DEF Retire
  <2> QED
    BY <1>4, <2>1, <2>2, <2>3 DEF RemoveStep
<1>5. ASSUME NEW p \in Posts, PostStep(p) \/ PushDone(p) \/ PushOverflow(p)
      PROVE  ShardExclusive' /\ KeyVacant' /\ Named'
  <2>0. p \in Requests
    BY DEF Requests
  <2>1. CASE Spawn(p)
    BY <2>0, <2>1, TableAssumption DEF Spawn
  <2>2. CASE Install(p) \/ Recheck(p) \/ RecheckMap(p)
    BY <2>0, <2>2 DEF Install, Recheck, RecheckMap
  <2>3. CASE AbortOwnReaper(p)
    BY <2>0, <2>3 DEF AbortOwnReaper, Abort
  <2>4. CASE PushDone(p) \/ PushOverflow(p)
    BY <2>0, <2>4, TableAssumption DEF PushDone, PushOverflow
  <2> QED
    BY <1>5, <2>1, <2>2, <2>3, <2>4 DEF PostStep
<1>6. ASSUME NEW g \in Gets, GetStep(g) \/ EndDownload(g)
      PROVE  ShardExclusive' /\ KeyVacant' /\ Named'
  <2>0. g \in Requests
    BY DEF Requests
  <2>1. CASE Mark(g) \/ TakeReader(g)
    BY <2>0, <2>1 DEF Mark, TakeReader
  <2>2. CASE Disarm(g)
    BY <2>0, <2>2 DEF Disarm, Abort
  <2>3. CASE Conflict(g) \/ EndDownload(g)
    BY <2>0, <2>3, TableAssumption DEF Conflict, EndDownload
  <2> QED
    BY <1>6, <2>1, <2>2, <2>3 DEF GetStep
<1>7. ASSUME NEW s \in Sessions, TaskStep(s)
      PROVE  ShardExclusive' /\ KeyVacant' /\ Named'
  <2>1. CASE Wake(s) \/ ReapRetire(s)
    BY <2>1 DEF Wake, ReapRetire
  <2>2. CASE Reap(s)
    <3>1. sid[s] \in Ids
      BY <2>2 DEF Reap
    <3> QED
      BY <2>2, <3>1, TableAssumption DEF Reap
  <2> QED
    BY <1>7, <2>1, <2>2 DEF TaskStep
<1> QED
  BY <1>1, <1>2, <1>3, <1>4, <1>5, <1>6, <1>7 DEF Next, UpsertStep

\* Each step keeps a session without a reaper until its creator spawns one.
LEMMA SpawnStep ==
  ASSUME TypeOK, Named, SpawnFresh, Next
  PROVE  SpawnFresh'
<1> USE DEF TypeOK, Requests, SpawnFresh, object, Goto, Finish
<1>1. ASSUME NEW r \in Requests, NEW i \in Ids, Arrive(r, i) PROVE SpawnFresh'
  BY <1>1 DEF Arrive
<1>2. ASSUME NEW r \in Requests, Lookup(r) PROVE SpawnFresh'
  BY <1>2 DEF Lookup, Found, AtCapacity, MayCreate
<1>3. ASSUME NEW r \in Requests, NEW s \in Sessions, Insert(r, s) PROVE SpawnFresh'
  <2>1. task[s] = "none" /\ \A q \in Requests : ses[q] # s
    BY <1>3 DEF Insert, Reusable, Referenced
  <2> QED
    BY <1>3, <2>1, TableAssumption DEF Insert
<1>4. ASSUME NEW r \in Requests, RemoveStep(r) PROVE SpawnFresh'
  <2>1. CASE RemoveById(r)
    BY <2>1 DEF RemoveById
  <2>2. CASE CancelReaper(r)
    BY <2>2 DEF CancelReaper, Abort
  <2>3. CASE Retire(r)
    BY <2>3 DEF Retire
  <2> QED
    BY <1>4, <2>1, <2>2, <2>3 DEF RemoveStep
<1>5. ASSUME NEW p \in Posts, PostStep(p) \/ PushDone(p) \/ PushOverflow(p) PROVE SpawnFresh'
  <2>1. CASE Spawn(p)
    BY <2>1 DEF Spawn
  <2>2. CASE Install(p) \/ Recheck(p) \/ RecheckMap(p)
    BY <2>2 DEF Install, Recheck, RecheckMap
  <2>3. CASE AbortOwnReaper(p)
    BY <2>3 DEF AbortOwnReaper, Abort
  <2>4. CASE PushDone(p) \/ PushOverflow(p)
    BY <2>4 DEF PushDone, PushOverflow
  <2> QED
    BY <1>5, <2>1, <2>2, <2>3, <2>4 DEF PostStep
<1>6. ASSUME NEW g \in Gets, GetStep(g) \/ EndDownload(g) PROVE SpawnFresh'
  <2>1. CASE Mark(g) \/ TakeReader(g)
    BY <2>1 DEF Mark, TakeReader
  <2>2. CASE Disarm(g)
    BY <2>2 DEF Disarm, Abort
  <2>3. CASE Conflict(g) \/ EndDownload(g)
    BY <2>3, TableAssumption DEF Conflict, EndDownload
  <2> QED
    BY <1>6, <2>1, <2>2, <2>3 DEF GetStep
<1>7. ASSUME NEW s \in Sessions, TaskStep(s) PROVE SpawnFresh'
  BY <1>7 DEF TaskStep, Wake, Reap, ReapRetire
<1> QED
  BY <1>1, <1>2, <1>3, <1>4, <1>5, <1>6, <1>7 DEF Next, UpsertStep

-------------------------------------------------------------------------------
\* A step that moves no session and no request between the counted sets.
LEMMA Quiet ==
  ASSUME TableInv, active' = active, Creating' \subseteq Creating,
         Listed' = Listed, Removing' = Removing, Reaping' = Reaping
  PROVE  ActiveAccounting' /\ CapBound'
<1>1. Cardinality(Creating') <= Cardinality(Creating) /\ Cardinality(Creating') \in Nat
  <2>1. IsFiniteSet(Creating') /\ Cardinality(Creating') <= Cardinality(Creating)
    BY Finite, FS_Subset
  <2> QED
    BY <2>1, FS_CardinalityType
<1> QED
  BY <1>1, Finite, TableAssumption DEF TableInv, TypeOK, ActiveAccounting, CapBound

\* Each step moves a session or a request between the counted sets as it changes
\* the count, and a creation starts only below the cap.
LEMMA CountStep ==
  ASSUME TableInv, Next, ShardExclusive'
  PROVE  ActiveAccounting' /\ CapBound'
<1> USE DEF Creating, Listed, Removing, Reaping, object, Goto, Finish
<1>0. TypeOK /\ Named /\ KeyVacant /\ active \in Nat
  BY DEF TableInv, TypeOK
<1>1. ASSUME NEW r \in Requests, NEW i \in Ids, Arrive(r, i)
      PROVE  ActiveAccounting' /\ CapBound'
  <2>1. active' = active /\ Creating' \subseteq Creating
        /\ Listed' = Listed /\ Removing' = Removing /\ Reaping' = Reaping
    BY <1>0, <1>1 DEF Arrive, TypeOK
  <2> QED
    BY <2>1, Quiet
<1>2. ASSUME NEW r \in Requests, Lookup(r)
      PROVE  ActiveAccounting' /\ CapBound'
  <2>1. CASE Found(r) \/ AtCapacity(r)
    <3>1. active' = active /\ Creating' \subseteq Creating
          /\ Listed' = Listed /\ Removing' = Removing /\ Reaping' = Reaping
      BY <1>0, <1>2, <2>1 DEF Lookup, Found, AtCapacity, TypeOK
    <3> QED
      BY <3>1, Quiet
  <2>2. CASE MayCreate(r)
    <3>1. active' = active /\ active < MaxSessions
          /\ Listed' = Listed /\ Removing' = Removing /\ Reaping' = Reaping
      BY <1>0, <1>2, <2>2 DEF Lookup, MayCreate, TypeOK
    <3>2. TypeOK'
      BY <1>0, <1>2, <3>1, TypeStep DEF Next, UpsertStep
    <3> DEFINE key == [q \in Creating' |-> rid'[q]]
    <3>3. key \in [Creating' -> Ids]
      BY <3>2 DEF TypeOK
    <3>4. \A q, p \in Creating' : ShardOf[key[q]] = ShardOf[key[p]] => q = p
      BY DEF ShardExclusive
    <3> HIDE DEF key
    <3>5. Cardinality(Creating') \in Nat /\ Cardinality(Creating') <= Cardinality(Shards)
      <4> HIDE DEF Creating
      <4> QED
        BY <3>3, <3>4, OnePerShard
    <3> HIDE DEF Creating, Listed, Removing, Reaping
    <3> QED
      BY <1>0, <3>1, <3>5, Finite, TableAssumption DEF TableInv, ActiveAccounting, CapBound
  <2> QED
    BY <1>2, <2>1, <2>2 DEF Lookup
<1>3. ASSUME NEW r \in Requests, NEW s \in Sessions, Insert(r, s)
      PROVE  ActiveAccounting' /\ CapBound'
  <2>1. rid[r] \in Ids /\ table[rid[r]] = NoSession
    BY <1>0, <1>3 DEF Insert, KeyVacant, TypeOK
  <2>2. /\ active' = active + 1
        /\ r \in Creating /\ Creating' = Creating \ {r}
        /\ rid[r] \notin Listed /\ Listed' = Listed \cup {rid[r]}
        /\ Removing' = Removing /\ Reaping' = Reaping
    BY <1>0, <1>3, <2>1, TableAssumption DEF Insert, TypeOK
  <2> HIDE DEF Creating, Listed, Removing, Reaping
  <2> QED
    BY <2>2, OneMore, OneLess, Finite, TableAssumption, <1>0
    DEF TableInv, ActiveAccounting, CapBound
<1>4. ASSUME NEW r \in Requests, RemoveById(r)
      PROVE  ActiveAccounting' /\ CapBound'
  <2>1. CASE table[rid[r]] = NoSession
    <3>1. active' = active /\ Creating' \subseteq Creating
          /\ Listed' = Listed /\ Removing' = Removing /\ Reaping' = Reaping
      BY <1>0, <1>4, <2>1 DEF RemoveById, TypeOK
    <3> QED
      BY <3>1, Quiet
  <2>2. CASE table[rid[r]] # NoSession
    <3>1. /\ active' = active
          /\ Creating' = Creating
          /\ rid[r] \in Listed /\ Listed' = Listed \ {rid[r]}
          /\ r \notin Removing /\ Removing' = Removing \cup {r}
          /\ Reaping' = Reaping
      BY <1>0, <1>4, <2>2, TableAssumption DEF RemoveById, TypeOK
    <3> HIDE DEF Creating, Listed, Removing, Reaping
    <3> QED
      BY <3>1, OneMore, OneLess, Finite, TableAssumption, <1>0
      DEF TableInv, ActiveAccounting, CapBound
  <2> QED
    BY <2>1, <2>2
<1>5. ASSUME NEW r \in Requests, CancelReaper(r)
      PROVE  ActiveAccounting' /\ CapBound'
  <2>1. active' = active /\ Creating' \subseteq Creating
        /\ Listed' = Listed /\ Removing' = Removing /\ Reaping' = Reaping
    BY <1>0, <1>5 DEF CancelReaper, Abort, TypeOK
  <2> QED
    BY <2>1, Quiet
<1>6. ASSUME NEW r \in Requests, Retire(r)
      PROVE  ActiveAccounting' /\ CapBound'
  <2>1. /\ active' = active - 1
        /\ Creating' = Creating
        /\ r \in Removing /\ Removing' = Removing \ {r}
        /\ Listed' = Listed /\ Reaping' = Reaping
    BY <1>0, <1>6 DEF Retire, TypeOK
  <2> HIDE DEF Creating, Listed, Removing, Reaping
  <2> QED
    BY <2>1, OneLess, Finite, TableAssumption, <1>0
    DEF TableInv, ActiveAccounting, CapBound
<1>7. ASSUME NEW p \in Posts, PostStep(p) \/ PushDone(p) \/ PushOverflow(p)
      PROVE  ActiveAccounting' /\ CapBound'
  <2>0. p \in Requests
    BY DEF Requests
  <2>1. /\ active' = active /\ Creating' \subseteq Creating
        /\ Listed' = Listed /\ Removing' = Removing
    BY <1>0, <1>7, <2>0 DEF PostStep, Spawn, Install, Recheck, RecheckMap, AbortOwnReaper,
       PushDone, PushOverflow, TypeOK
  <2>2. Reaping' = Reaping
    BY <1>0, <1>7, <2>0 DEF TableInv, SpawnFresh, PostStep, Spawn, Install, Recheck, RecheckMap, AbortOwnReaper,
       PushDone, PushOverflow, Abort, TypeOK
  <2> QED
    BY <2>1, <2>2, Quiet
<1>8. ASSUME NEW g \in Gets, GetStep(g) \/ EndDownload(g)
      PROVE  ActiveAccounting' /\ CapBound'
  <2>0. g \in Requests
    BY DEF Requests
  <2>1. /\ active' = active /\ Creating' \subseteq Creating
        /\ Listed' = Listed /\ Removing' = Removing
    BY <1>0, <1>8, <2>0 DEF GetStep, Mark, Disarm, TakeReader, Conflict, EndDownload, TypeOK
  <2>2. Reaping' = Reaping
    BY <1>0, <1>8, <2>0 DEF GetStep, Mark, Disarm, TakeReader, Conflict, EndDownload, Abort, TypeOK
  <2> QED
    BY <2>1, <2>2, Quiet
<1>9. ASSUME NEW s \in Sessions, Wake(s)
      PROVE  ActiveAccounting' /\ CapBound'
  <2>1. active' = active /\ Creating' \subseteq Creating
        /\ Listed' = Listed /\ Removing' = Removing /\ Reaping' = Reaping
    BY <1>0, <1>9 DEF Wake, TypeOK
  <2> QED
    BY <2>1, Quiet
<1>10. ASSUME NEW s \in Sessions, Reap(s)
       PROVE  ActiveAccounting' /\ CapBound'
  <2>1. sid[s] \in Ids
    BY <1>0, <1>10 DEF Reap, Named
  <2>2. CASE table[sid[s]] # s
    <3>1. active' = active /\ Creating' \subseteq Creating
          /\ Listed' = Listed /\ Removing' = Removing /\ Reaping' = Reaping
      BY <1>0, <1>10, <2>2 DEF Reap, TypeOK
    <3> QED
      BY <3>1, Quiet
  <2>3. CASE table[sid[s]] = s
    <3>1. /\ active' = active
          /\ Creating' = Creating
          /\ sid[s] \in Listed /\ Listed' = Listed \ {sid[s]}
          /\ s \notin Reaping /\ Reaping' = Reaping \cup {s}
          /\ Removing' = Removing
      BY <1>0, <1>10, <2>1, <2>3, TableAssumption DEF Reap, TypeOK
    <3> HIDE DEF Creating, Listed, Removing, Reaping
    <3>2. Cardinality(Listed') = Cardinality(Listed) - 1
      BY <3>1, OneLess, Finite
    <3>3. Cardinality(Reaping') = Cardinality(Reaping) + 1
      BY <3>1, OneMore, Finite
    <3> QED
      BY <3>1, <3>2, <3>3, Finite, <1>0 DEF TableInv, ActiveAccounting, CapBound
  <2> QED
    BY <2>2, <2>3
<1>11. ASSUME NEW s \in Sessions, ReapRetire(s)
       PROVE  ActiveAccounting' /\ CapBound'
  <2>1. /\ active' = active - 1
        /\ Creating' = Creating
        /\ s \in Reaping /\ Reaping' = Reaping \ {s}
        /\ Listed' = Listed /\ Removing' = Removing
    BY <1>0, <1>11 DEF ReapRetire, TypeOK
  <2> HIDE DEF Creating, Listed, Removing, Reaping
  <2> QED
    BY <2>1, OneLess, Finite, TableAssumption, <1>0
    DEF TableInv, ActiveAccounting, CapBound
<1> QED
  BY <1>1, <1>2, <1>3, <1>4, <1>5, <1>6, <1>7, <1>8, <1>9, <1>10, <1>11
  DEF Next, UpsertStep, RemoveStep, TaskStep

\* The accounting makes the count a natural number.
LEMMA CountIsNat == ActiveAccounting => active \in Nat
  BY Finite DEF ActiveAccounting

LEMMA TableInvStep == TableInv /\ [Next]_vars => TableInv'
<1> SUFFICES ASSUME TableInv, [Next]_vars PROVE TableInv'
  OBVIOUS
<1>1. CASE UNCHANGED vars
  BY <1>1 DEF vars, TableInv, TypeOK, ShardExclusive, KeyVacant, Named, SpawnFresh, ActiveAccounting, CapBound,
     Creating, Listed, Removing, Reaping
<1>2. CASE Next
  <2>1. ShardExclusive' /\ KeyVacant' /\ Named'
    BY <1>2, StructureStep DEF TableInv
  <2>5. SpawnFresh'
    BY <1>2, SpawnStep DEF TableInv
  <2>2. ActiveAccounting' /\ CapBound'
    BY <1>2, <2>1, CountStep
  <2>3. (ActiveAccounting => active \in Nat)'
    BY CountIsNat, PTL
  <2>4. TypeOK'
    BY <1>2, <2>2, <2>3, TypeStep DEF TableInv
  <2> QED
    BY <2>1, <2>2, <2>4, <2>5 DEF TableInv
<1> QED
  BY <1>1, <1>2

\* The invariant holds in every behaviour of the table.
LEMMA TableInvariant == Spec => []TableInv
  BY TableInvInit, TableInvStep, PTL DEF Spec

\* Every variable keeps its type; in particular the active count, a wrapping
\* unsigned counter in the code, never goes below zero.
THEOREM TableTypeCorrect == Spec => []TypeOK
<1>1. TableInv => TypeOK
  BY DEF TableInv
<1> QED
  BY <1>1, TableInvariant, PTL

\* Sessions are counted once and uncounted once, whoever removes them.
THEOREM TableActiveAccounting == Spec => []ActiveAccounting
<1>1. TableInv => ActiveAccounting
  BY DEF TableInv
<1> QED
  BY <1>1, TableInvariant, PTL

\* However many requests race, the table holds at most one session per further
\* shard above its cap.
THEOREM TableCapOvershoot == Spec => []CapOvershoot
<1>1. TableInv => CapOvershoot
  BY Finite, TableAssumption DEF TableInv, TypeOK, CapBound, CapOvershoot
<1> QED
  BY <1>1, TableInvariant, PTL

-------------------------------------------------------------------------------
(* Who is responsible for a session: its reaper, its creator, its download. *)

Creator == {"spawn", "install", "recheck", "recheckMap", "abort"}
Claiming == {"mark", "disarm", "take", "open"}

\* A request works on the session of its own id, and a session has one creator.
Keyed ==
  /\ \A r \in Requests : pc[r] \in Creator \cup Claiming =>
       ses[r] # NoSession /\ sid[ses[r]] = rid[r]
  /\ \A p, q \in Posts : pc[p] \in Creator /\ pc[q] \in Creator /\ ses[p] = ses[q] => p = q

\* A sleeping reaper can be aborted by whoever looks, or its handle is on its way.
Published ==
  \A s \in Sessions : task[s] = "sleep" =>
    handle[s] \/ \E p \in Posts : ses[p] = s /\ pc[p] = "install"

\* A creator that saw no download before one opened leaves the reaper to that GET.
LeftToGet ==
  \A p \in Posts : pc[p] = "recheckMap" /\ fc[ses[p]] /\ task[ses[p]] = "sleep" =>
    \E g \in Gets : ses[g] = ses[p] /\ pc[g] = "disarm"

\* A creator aborts the reaper of a session that a GET claimed or that is gone,
\* and the reaper a removal aborts is one of a session that is gone.
AbortJustified ==
  /\ \A p \in Posts : pc[p] = "abort" => fc[ses[p]] \/ ~InTable(ses[p])
  /\ \A r \in Requests : pc[r] = "cancel" => ses[r] # NoSession /\ ~InTable(ses[r])

\* A listed session somebody is about to remove under its id.
BeingRemoved(s) == \E r \in Requests : rid[r] = sid[s] /\ pc[r] = "remove"

\* A listed session whose reader was taken is downloaded or about to go; one that
\* is marked connected has a GET, which will open it or find it opened.
Claimed ==
  \A s \in Sessions : InTable(s) =>
    /\ ~reader[s] => Opened(s) \/ BeingRemoved(s)
    /\ fc[s] => \/ Opened(s) \/ BeingRemoved(s)
                \/ \E g \in Gets : ses[g] = s /\ pc[g] \in {"mark", "disarm", "take"}

\* What the reaper's properties rest on.
ReaperInv == Keyed /\ Published /\ LeftToGet /\ ReaperCancelled
\* What the end of every session rests on.
OwnerInv == AbortJustified /\ Claimed /\ NoOrphan

\* Each step keeps a sleeping reaper in the hands of somebody who will abort it.
LEMMA ReaperStep ==
  ASSUME TableInv, ReaperInv, Next
  PROVE  ReaperInv'
<1> USE DEF TableInv, TypeOK, Requests, Named, KeyVacant, Creating, ReaperInv, Keyed, Published,
       LeftToGet, ReaperCancelled, Creator, Claiming, InTable, object, Goto, Finish
<1>1. ASSUME NEW r \in Requests, NEW i \in Ids, Arrive(r, i) PROVE ReaperInv'
  BY <1>1, TableAssumption DEF Arrive
<1>2. ASSUME NEW r \in Requests, Lookup(r) PROVE ReaperInv'
  BY <1>2, TableAssumption, SMTT(30) DEF Lookup, Found, AtCapacity, MayCreate
<1>3. ASSUME NEW r \in Requests, NEW s \in Sessions, Insert(r, s) PROVE ReaperInv'
  BY <1>3, TableAssumption DEF Insert, Reusable, Referenced
<1>4. ASSUME NEW r \in Requests, RemoveById(r) PROVE ReaperInv'
  BY <1>4, TableAssumption DEF RemoveById
<1>5. ASSUME NEW r \in Requests, CancelReaper(r) PROVE ReaperInv'
  BY <1>5, TableAssumption DEF CancelReaper, Abort
<1>6. ASSUME NEW r \in Requests, Retire(r) PROVE ReaperInv'
  BY <1>6, TableAssumption DEF Retire
<1>7. ASSUME NEW p \in Posts, Spawn(p) PROVE ReaperInv'
  BY <1>7, TableAssumption DEF Spawn
<1>8. ASSUME NEW p \in Posts, Install(p) PROVE ReaperInv'
  BY <1>8, TableAssumption DEF Install
<1>9. ASSUME NEW p \in Posts, Recheck(p) PROVE ReaperInv'
  BY <1>9, TableAssumption DEF Recheck
<1>10. ASSUME NEW p \in Posts, RecheckMap(p) PROVE ReaperInv'
  BY <1>10, TableAssumption DEF RecheckMap
<1>11. ASSUME NEW p \in Posts, AbortOwnReaper(p) PROVE ReaperInv'
  BY <1>11, TableAssumption DEF AbortOwnReaper, Abort
<1>12. ASSUME NEW p \in Posts, PushDone(p) \/ PushOverflow(p) PROVE ReaperInv'
  BY <1>12, TableAssumption DEF PushDone, PushOverflow
<1>13. ASSUME NEW g \in Gets, Mark(g) PROVE ReaperInv'
  BY <1>13, TableAssumption DEF Mark
<1>14. ASSUME NEW g \in Gets, Disarm(g) PROVE ReaperInv'
  BY <1>14, TableAssumption DEF Disarm, Abort
<1>15. ASSUME NEW g \in Gets, TakeReader(g) PROVE ReaperInv'
  BY <1>15, TableAssumption DEF TakeReader
<1>16. ASSUME NEW g \in Gets, Conflict(g) PROVE ReaperInv'
  BY <1>16, TableAssumption DEF Conflict
<1>17. ASSUME NEW g \in Gets, EndDownload(g) PROVE ReaperInv'
  BY <1>17, TableAssumption DEF EndDownload
<1>18. ASSUME NEW s \in Sessions, Wake(s) PROVE ReaperInv'
  BY <1>18, TableAssumption DEF Wake, Referenced
<1>19. ASSUME NEW s \in Sessions, Reap(s) PROVE ReaperInv'
  BY <1>19, TableAssumption DEF Reap
<1>20. ASSUME NEW s \in Sessions, ReapRetire(s) PROVE ReaperInv'
  BY <1>20, TableAssumption DEF ReapRetire
<1> QED
  BY <1>1, <1>2, <1>3, <1>4, <1>5, <1>6, <1>7, <1>8, <1>9, <1>10,
     <1>11, <1>12, <1>13, <1>14, <1>15, <1>16, <1>17, <1>18, <1>19, <1>20
  DEF Next, UpsertStep, RemoveStep, PostStep, GetStep, TaskStep

\* Each step leaves a listed session to somebody who will remove it.
LEMMA OwnerStep ==
  ASSUME TableInv, ReaperInv, OwnerInv, Next
  PROVE  OwnerInv'
<1> USE DEF TableInv, TypeOK, Requests, Named, KeyVacant, Creating, ReaperInv, Keyed, OwnerInv,
       AbortJustified, Claimed, NoOrphan, BeingRemoved, Opened, Creator, Claiming, InTable, object, Goto, Finish
<1>1. ASSUME NEW r \in Requests, NEW i \in Ids, Arrive(r, i) PROVE OwnerInv'
  BY <1>1, TableAssumption DEF Arrive
<1>2. ASSUME NEW r \in Requests, Lookup(r) PROVE OwnerInv'
  BY <1>2, TableAssumption, SMTT(30) DEF Lookup, Found, AtCapacity, MayCreate
<1>3. ASSUME NEW r \in Requests, NEW s \in Sessions, Insert(r, s) PROVE OwnerInv'
  <2>1. AbortJustified'
    BY <1>3, TableAssumption DEF Insert, Reusable, Referenced
  <2>2. Claimed'
    <3> SUFFICES ASSUME NEW t \in Sessions, InTable(t)'
                 PROVE  /\ ~reader'[t] => Opened(t)' \/ BeingRemoved(t)'
                        /\ fc'[t] => \/ Opened(t)' \/ BeingRemoved(t)'
                                     \/ \E g \in Gets : ses'[g] = t /\ pc'[g] \in {"mark", "disarm", "take"}
      OBVIOUS
    <3>1. CASE t = s
      <4>1. reader'[s] = TRUE
        BY <1>3 DEF Insert
      <4>2. fc'[s] = (r \in Gets)
        BY <1>3, Zenon DEF Insert
      <4>3. r \in Gets => ses'[r] = s /\ pc'[r] = "mark"
        BY <1>3, TableAssumption DEF Insert
      <4> QED
        BY <3>1, <4>1, <4>2, <4>3
    <3>2. CASE t # s
      <4>1. InTable(t) /\ reader'[t] = reader[t] /\ fc'[t] = fc[t] /\ sid'[t] = sid[t]
        BY <1>3, <3>2, TableAssumption DEF Insert
      <4> QED
        BY <1>3, <3>2, <4>1, TableAssumption DEF Insert, Reusable, Referenced
    <3> QED
      BY <3>1, <3>2
  <2>3. NoOrphan'
    BY <1>3, TableAssumption DEF Insert, Reusable, Referenced
  <2> QED
    BY <2>1, <2>2, <2>3
<1>4. ASSUME NEW r \in Requests, RemoveById(r) PROVE OwnerInv'
  <2>1. AbortJustified'
    <3>1. table' = [table EXCEPT ![rid[r]] = NoSession] /\ rid[r] \in Ids
      BY <1>4 DEF RemoveById
    <3>2. \A t \in Sessions : InTable(t)' => InTable(t)
      BY <3>1, TableAssumption
    <3>3. pc'[r] = "cancel" => ses'[r] # NoSession /\ ses'[r] = table[rid[r]]
      BY <1>4, TableAssumption DEF RemoveById
    <3>4. pc'[r] = "cancel" => \A i \in Ids : table'[i] # ses'[r]
      BY <3>1, <3>3, TableAssumption
    <3>5. fc' = fc /\ pc'[r] # "abort"
          /\ \A q \in Requests \ {r} : pc'[q] = pc[q] /\ ses'[q] = ses[q]
      BY <1>4, TableAssumption DEF RemoveById
    <3> QED
      BY <3>2, <3>3, <3>4, <3>5, TableAssumption
  <2>2. Claimed'
    BY <1>4, TableAssumption DEF RemoveById
  <2>3. NoOrphan'
    BY <1>4, TableAssumption DEF RemoveById
  <2> QED
    BY <2>1, <2>2, <2>3
<1>5. ASSUME NEW r \in Requests, CancelReaper(r) PROVE OwnerInv'
  BY <1>5, TableAssumption DEF CancelReaper, Abort
<1>6. ASSUME NEW r \in Requests, Retire(r) PROVE OwnerInv'
  BY <1>6, TableAssumption DEF Retire
<1>7. ASSUME NEW p \in Posts, Spawn(p) PROVE OwnerInv'
  BY <1>7, TableAssumption DEF Spawn
<1>8. ASSUME NEW p \in Posts, Install(p) PROVE OwnerInv'
  BY <1>8, TableAssumption DEF Install
<1>9. ASSUME NEW p \in Posts, Recheck(p) PROVE OwnerInv'
  BY <1>9, TableAssumption DEF Recheck
<1>10. ASSUME NEW p \in Posts, RecheckMap(p) PROVE OwnerInv'
  BY <1>10, TableAssumption DEF RecheckMap
<1>11. ASSUME NEW p \in Posts, AbortOwnReaper(p) PROVE OwnerInv'
  BY <1>11, TableAssumption DEF AbortOwnReaper, Abort
<1>12. ASSUME NEW p \in Posts, PushDone(p) \/ PushOverflow(p) PROVE OwnerInv'
  <2>1. AbortJustified'
    BY <1>12, TableAssumption DEF PushDone, PushOverflow
  <2>2. Claimed'
    BY <1>12, TableAssumption DEF PushDone, PushOverflow
  <2>3. NoOrphan'
    BY <1>12, TableAssumption, SMTT(30) DEF PushDone, PushOverflow
  <2> QED
    BY <2>1, <2>2, <2>3
<1>13. ASSUME NEW g \in Gets, Mark(g) PROVE OwnerInv'
  BY <1>13, TableAssumption DEF Mark
<1>14. ASSUME NEW g \in Gets, Disarm(g) PROVE OwnerInv'
  BY <1>14, TableAssumption DEF Disarm, Abort
<1>15. ASSUME NEW g \in Gets, TakeReader(g) PROVE OwnerInv'
  BY <1>15, TableAssumption DEF TakeReader
<1>16. ASSUME NEW g \in Gets, Conflict(g) PROVE OwnerInv'
  BY <1>16, TableAssumption DEF Conflict
<1>17. ASSUME NEW g \in Gets, EndDownload(g) PROVE OwnerInv'
  BY <1>17, TableAssumption DEF EndDownload
<1>18. ASSUME NEW s \in Sessions, Wake(s) PROVE OwnerInv'
  BY <1>18, TableAssumption DEF Wake, Referenced
<1>19. ASSUME NEW s \in Sessions, Reap(s) PROVE OwnerInv'
  <2>1. AbortJustified'
    <3>1. \A t \in Sessions : InTable(t)' => InTable(t)
      BY <1>19, TableAssumption DEF Reap
    <3> QED
      BY <1>19, <3>1, TableAssumption DEF Reap
  <2>2. Claimed'
    BY <1>19, TableAssumption DEF Reap
  <2>3. NoOrphan'
    BY <1>19, TableAssumption DEF Reap
  <2> QED
    BY <2>1, <2>2, <2>3
<1>20. ASSUME NEW s \in Sessions, ReapRetire(s) PROVE OwnerInv'
  BY <1>20, TableAssumption DEF ReapRetire
<1> QED
  BY <1>1, <1>2, <1>3, <1>4, <1>5, <1>6, <1>7, <1>8, <1>9, <1>10,
     <1>11, <1>12, <1>13, <1>14, <1>15, <1>16, <1>17, <1>18, <1>19, <1>20
  DEF Next, UpsertStep, RemoveStep, PostStep, GetStep, TaskStep

\* The two hold in every reachable state.
LEMMA ClaimInvariant == Spec => [](ReaperInv /\ OwnerInv)
<1>1. Init => ReaperInv /\ OwnerInv
  BY TableAssumption DEF Init, ReaperInv, OwnerInv, Keyed, Published, LeftToGet, ReaperCancelled, AbortJustified,
     Claimed, NoOrphan, InTable, Requests, Creator, Claiming
<1>2. TableInv /\ ReaperInv /\ OwnerInv /\ [Next]_vars => (ReaperInv /\ OwnerInv)'
  <2> SUFFICES ASSUME TableInv, ReaperInv, OwnerInv, [Next]_vars PROVE (ReaperInv /\ OwnerInv)'
    OBVIOUS
  <2>1. CASE Next
    BY <2>1, ReaperStep, OwnerStep
  <2>2. CASE UNCHANGED vars
    BY <2>2 DEF vars, ReaperInv, OwnerInv, Keyed, Published, LeftToGet, ReaperCancelled, AbortJustified,
       Claimed, NoOrphan, BeingRemoved, Opened, InTable
  <2> QED
    BY <2>1, <2>2
<1> QED
  BY <1>1, <1>2, TableInvariant, PTL DEF Spec

\* A reaper that still sleeps is one of a listed, unclaimed session, or a request
\* in flight is about to abort it: the handle published after the spawn and the
\* two looks that follow leave no order of requests in which it is forgotten.
THEOREM TableReaperCancelled == Spec => []ReaperCancelled
<1>1. ReaperInv => ReaperCancelled
  BY DEF ReaperInv
<1> QED
  BY <1>1, ClaimInvariant, PTL

\* A listed session always has somebody who will take it out of the table.
THEOREM TableNoOrphan == Spec => []NoOrphan
<1>1. OwnerInv => NoOrphan
  BY DEF OwnerInv
<1> QED
  BY <1>1, ClaimInvariant, PTL
===============================================================================
