------------------------------- MODULE AcmeProofs -------------------------------
(***************************************************************************)
(* CurrentComplete and IdentityKept of Acme, for any number of generations *)
(* and with every kind of failure.  CurrentComplete is not inductive: a    *)
(* power loss may put any target of onDisk back, so the invariant says     *)
(* that all of these are durable.                                          *)
(***************************************************************************)
EXTENDS Acme, TLAPS

\* What a power loss may leave in the symlink is complete on disk, and so is what
\* the symlink is about to name.
Recoverable ==
  /\ durable \subseteq dirs
  /\ current \in onDisk
  /\ onDisk \ {NoGen} \subseteq durable

\* What publish_certificate_pair knows at each of its steps.
PublishedSoFar ==
  /\ pc \in Publishing => gen \in Gens
  /\ pc = "stage" => gen \notin onDisk
  /\ pc = "syncGeneration" => gen \in dirs
  /\ pc = "swap" => gen \in durable
  /\ pc \in {"syncLink", "cleanup"} => gen = current
  /\ pc = "cleanup" => onDisk = {current}

AcmeInv == TypeOK /\ Recoverable /\ PublishedSoFar

\* TypeOK in two parts, for the two provers.
Flags ==
  /\ account \in BOOLEAN /\ startup \in BOOLEAN
  /\ listener \in BOOLEAN /\ challenges \in BOOLEAN
  /\ activation_pending \in BOOLEAN

Shapes ==
  /\ dirs \subseteq Gens /\ durable \subseteq dirs
  /\ current \in Gens \cup {NoGen} /\ onDisk \subseteq Gens \cup {NoGen}
  /\ health \in [Gens -> Healths]
  /\ pc \in Steps
  /\ gen \in Gens \cup {NoGen} /\ previous \in Gens \cup {NoGen}
  /\ served \in Gens \cup {NoGen}
  /\ delay \in Delays
  /\ retry \in RetryInitial .. RetryMax

LEMMA TwoParts == TypeOK <=> Flags /\ Shapes
BY Zenon DEF TypeOK, Flags, Shapes

LEMMA FlagsStep == ASSUME Flags, [Next]_vars PROVE Flags'
<1> USE DEF Flags
<1>1. CASE UNCHANGED vars
  BY <1>1 DEF vars, disk, timers
<1>2. CASE \E g \in Gens : Age(g)
  BY <1>2, Zenon DEF Age, timers
<1>3. CASE Boot \/ Prepare \/ Load
  <2>1. CASE Boot
    BY <2>1, Zenon DEF Boot, disk, timers
  <2>2. CASE Prepare
    <3>1. PICK unusable \in BOOLEAN :
            startup' = (unusable \/ certificate_state \in {"Missing", "Expired"})
      BY <2>2, Zenon DEF Prepare
    <3>2. startup' \in BOOLEAN BY <3>1, Zenon
    <3> QED BY <2>2, <3>2, Zenon DEF Prepare, disk
  <2>3. CASE Load
    BY <2>3, Zenon DEF Load, disk
  <2> QED BY <1>3, <2>1, <2>2, <2>3
<1>4. CASE Loop \/ ActivateFails
  BY <1>4, Zenon DEF Loop, Activate, NotDue, Due, ActivateFails, disk, timers
<1>5. CASE Issue
  <2>1. CASE Account \/ Authorize
    BY <2>1, Zenon DEF Account, Authorize, disk, timers
  <2>2. CASE Order \/ Stage \/ SyncGeneration \/ Swap \/ SyncLink
    BY <2>2, Zenon DEF Order, Stage, SyncGeneration, Swap, SyncLink, timers
  <2>3. CASE Cleanup
    BY <2>3, Zenon DEF Cleanup, Issued, timers
  <2> QED BY <1>5, <2>1, <2>2, <2>3 DEF Issue
<1>6. CASE Refused \/ PublishFails
  <2>1. Failed /\ UNCHANGED disk BY <1>6, Zenon DEF Refused, PublishFails
  <2> QED BY <2>1, Zenon DEF Failed, disk, timers
<1>7. CASE ListenerStops
  BY <1>7, Zenon DEF ListenerStops, disk, timers
<1>8. CASE Crash
  BY <1>8, Zenon DEF Crash, Stopped
<1>9. CASE PowerLoss
  <2>1. account' \in {account, FALSE} BY <1>9, Zenon DEF PowerLoss
  <2>2. account' \in BOOLEAN BY <2>1, Zenon
  <2> QED BY <1>9, <2>2, Zenon DEF PowerLoss, Stopped
<1> QED BY <1>1, <1>2, <1>3, <1>4, <1>5, <1>6, <1>7, <1>8, <1>9, Zenon DEF Next

LEMMA ShapesStep == ASSUME Shapes, PublishedSoFar, [Next]_vars PROVE Shapes'
<1> USE AcmeAssumption DEF Shapes
<1>1. CASE UNCHANGED vars
  BY <1>1 DEF vars, disk, publishing, timers
<1>2. CASE \E g \in Gens : Age(g)
  BY <1>2 DEF Age, publishing, timers, Healths
<1>3. CASE Boot \/ Prepare \/ Load
  <2>1. CASE Boot
    BY <2>1 DEF Boot, disk, publishing, timers, Steps
  <2>2. CASE Prepare
    <3>1. pc' \in Steps BY <2>2 DEF Prepare, Steps, Asking
    <3>2. delay' \in Delays BY <2>2, Zenon DEF Prepare, Delays
    <3> QED BY <2>2, <3>1, <3>2 DEF Prepare, disk, publishing
  <2>3. CASE Load
    BY <2>3 DEF Load, disk, publishing, Steps
  <2> QED BY <1>3, <2>1, <2>2, <2>3
<1>4. CASE Loop \/ ActivateFails
  <2>1. CASE Activate
    BY <2>1 DEF Activate, Rested, disk, publishing, Steps, Delays
  <2>2. CASE NotDue
    BY <2>2 DEF NotDue, Rested, disk, publishing, Delays
  <2>3. CASE Due
    BY <2>3 DEF Due, disk, publishing, timers, Steps, Asking
  <2>4. CASE ActivateFails
    BY <2>4 DEF ActivateFails, Backoff, disk, publishing, Steps, Delays
  <2> QED BY <1>4, <2>1, <2>2, <2>3, <2>4 DEF Loop
<1>5. CASE Issue
  <2>1. CASE Account
    BY <2>1 DEF Account, publishing, timers, Steps, Asking
  <2>2. CASE Authorize
    BY <2>2 DEF Authorize, disk, publishing, timers, Steps, Asking
  <2>3. CASE Order
    BY <2>3 DEF Order, Unreferenced, timers, Steps, Publishing, Healths
  <2>4. CASE Stage
    <3>1. gen \in Gens BY <2>4 DEF Stage, PublishedSoFar, Publishing
    <3> QED BY <2>4, <3>1 DEF Stage, publishing, timers, Steps, Publishing
  <2>5. CASE SyncGeneration
    BY <2>5 DEF SyncGeneration, timers, Steps, Publishing
  <2>6. CASE Swap
    BY <2>6 DEF Swap, publishing, timers, Steps, Publishing
  <2>7. CASE SyncLink
    BY <2>7 DEF SyncLink, publishing, timers, Steps, Publishing
  <2>8. CASE Cleanup
    BY <2>8 DEF Cleanup, Issued, timers, Steps
  <2> QED BY <1>5, <2>1, <2>2, <2>3, <2>4, <2>5, <2>6, <2>7, <2>8 DEF Issue
<1>6. CASE Refused \/ PublishFails
  <2>1. Failed /\ UNCHANGED disk BY <1>6, Zenon DEF Refused, PublishFails
  <2> QED BY <2>1 DEF Failed, Backoff, disk, timers, Steps, Delays
<1>7. CASE ListenerStops
  BY <1>7 DEF ListenerStops, disk, publishing, timers
<1>8. CASE Crash
  BY <1>8 DEF Crash, Stopped, Steps, Delays
<1>9. CASE PowerLoss
  BY <1>9 DEF PowerLoss, Stopped, Steps, Delays
<1> QED BY <1>1, <1>2, <1>3, <1>4, <1>5, <1>6, <1>7, <1>8, <1>9 DEF Next

\* Steps that touch neither the disk nor the publication under way.
LEMMA Elsewhere ==
  ASSUME AcmeInv, UNCHANGED <<dirs, durable, current, onDisk>>,
         pc' \notin Publishing \/ UNCHANGED <<pc, gen>>
  PROVE  (Recoverable /\ PublishedSoFar)'
BY DEF AcmeInv, Recoverable, PublishedSoFar, Publishing

LEMMA RecoverableStep == ASSUME AcmeInv, [Next]_vars PROVE (Recoverable /\ PublishedSoFar)'
<1> USE DEF AcmeInv
<1>1. CASE UNCHANGED vars
  BY <1>1, Elsewhere DEF vars, disk, publishing
<1>2. CASE \E g \in Gens : Age(g)
  BY <1>2, Elsewhere DEF Age, publishing
<1>3. CASE Boot \/ Prepare \/ Load
  BY <1>3, Elsewhere DEF Boot, Prepare, Load, disk, Publishing
<1>4. CASE Loop \/ ActivateFails
  BY <1>4, Elsewhere DEF Loop, Activate, ActivateFails, NotDue, Due, disk, publishing, Publishing
<1>5. CASE Account \/ Authorize
  BY <1>5, Elsewhere DEF Account, Authorize, disk, Publishing
<1>6. CASE Order
  BY <1>6, AcmeAssumption DEF Order, Unreferenced, TypeOK, Recoverable, PublishedSoFar, Publishing
<1>7. CASE Stage
  BY <1>7 DEF Stage, publishing, TypeOK, Recoverable, PublishedSoFar, Publishing
<1>8. CASE SyncGeneration
  BY <1>8 DEF SyncGeneration, TypeOK, Recoverable, PublishedSoFar, Publishing
<1>9. CASE Swap
  BY <1>9 DEF Swap, publishing, TypeOK, Recoverable, PublishedSoFar, Publishing
<1>10. CASE SyncLink
  BY <1>10 DEF SyncLink, publishing, TypeOK, Recoverable, PublishedSoFar, Publishing
<1>11. CASE Cleanup
  <2>1. gen \in dirs' /\ gen \in durable'
    BY <1>11, AcmeAssumption DEF Cleanup, TypeOK, Recoverable, PublishedSoFar, Publishing
  <2>2. pc' \notin Publishing BY <1>11 DEF Cleanup, Issued, Publishing
  <2>3. onDisk' = {gen} /\ current' = gen /\ durable' \subseteq dirs'
    BY <1>11 DEF Cleanup, PublishedSoFar, Recoverable
  <2> QED BY <2>1, <2>2, <2>3 DEF Recoverable, PublishedSoFar, Publishing
<1>12. CASE Refused \/ PublishFails
  <2>1. UNCHANGED disk /\ pc' \notin Publishing
    BY <1>12 DEF Refused, PublishFails, Failed, Publishing
  <2> QED BY <2>1, Elsewhere DEF disk
<1>13. CASE ListenerStops
  BY <1>13, Elsewhere DEF ListenerStops, disk, publishing
<1>14. CASE Crash
  BY <1>14, Elsewhere DEF Crash, Stopped, Publishing
<1>15. CASE PowerLoss
  BY <1>15 DEF PowerLoss, Stopped, Recoverable, PublishedSoFar, Publishing
<1> QED
  BY <1>1, <1>2, <1>3, <1>4, <1>5, <1>6, <1>7, <1>8, <1>9, <1>10, <1>11, <1>12, <1>13, <1>14, <1>15
  DEF Next, Issue

LEMMA Inductive ==
  /\ Init => AcmeInv
  /\ AcmeInv /\ [Next]_vars => AcmeInv'
<1>1. Init => AcmeInv
  <2> SUFFICES ASSUME Init PROVE AcmeInv OBVIOUS
  <2>1. Flags BY Zenon DEF Init, Flags
  <2>2. Shapes BY AcmeAssumption DEF Init, Shapes, Healths, Steps, Delays
  <2>3. Recoverable /\ PublishedSoFar
    BY DEF Init, Recoverable, PublishedSoFar, Publishing
  <2> QED BY <2>1, <2>2, <2>3, TwoParts DEF AcmeInv
<1>2. ASSUME AcmeInv, [Next]_vars PROVE AcmeInv'
  <2>1. Flags /\ Shapes BY <1>2, TwoParts DEF AcmeInv
  <2>2. Flags' BY <1>2, <2>1, FlagsStep
  <2>3. Shapes' BY <1>2, <2>1, ShapesStep DEF AcmeInv
  <2>4. TypeOK' BY <2>2, <2>3, TwoParts, PTL
  <2>5. (Recoverable /\ PublishedSoFar)' BY <1>2, RecoverableStep
  <2> QED BY <2>4, <2>5 DEF AcmeInv
<1> QED BY <1>1, <1>2

\* Every variable keeps its type; in particular the retry delay, doubled after each
\* failure, never leaves RetryInitial .. RetryMax.
THEOREM AcmeTypeCorrect == Spec => []TypeOK
<1>1. AcmeInv => TypeOK BY DEF AcmeInv
<1> QED BY <1>1, Inductive, PTL DEF Spec

\* The published pair is complete at every instant, and a crash or a power loss at
\* any step of publish_certificate_pair leaves a complete pair, or none if none was
\* ever published: for any number of generations and whatever fails.
THEOREM AcmeCurrentComplete == Spec => []CurrentComplete
<1>1. AcmeInv => CurrentComplete BY DEF AcmeInv, Recoverable, CurrentComplete
<1> QED BY <1>1, Inductive, PTL DEF Spec

\* A served identity came from a published pair, and once a pair is published the
\* link is only ever moved to another one while the process runs.
ServedPublished == served # NoGen => current # NoGen

LEMMA ServedStep ==
  ASSUME AcmeInv, ServedPublished, [Next]_vars
  PROVE  /\ ServedPublished'
         /\ served # NoGen /\ served' # served => pc' = "down" \/ (served' = current /\ current \in dirs)
<1> USE DEF ServedPublished
<1>0. current # NoGen => current \in dirs
  BY DEF AcmeInv, Recoverable
<1>1. CASE UNCHANGED <<served, current>>
  BY <1>1
<1>2. CASE UNCHANGED current /\ served' = current
  BY <1>0, <1>2
<1>3. CASE UNCHANGED served /\ current' \in Gens
  BY <1>3, AcmeAssumption
<1>4. CASE served' = NoGen /\ pc' = "down"
  BY <1>4
<1>5. CASE Load \/ Activate
  BY <1>2, <1>5 DEF Load, Activate, disk
<1>6. CASE Swap
  BY <1>3, <1>6 DEF Swap, AcmeInv, PublishedSoFar, Publishing
<1>7. CASE Crash \/ PowerLoss
  BY <1>4, <1>7 DEF Crash, PowerLoss, Stopped
<1>8. CASE ~(Load \/ Activate \/ Swap \/ Crash \/ PowerLoss)
  BY <1>1, <1>8 DEF Next, vars, disk, Age, Boot, Prepare, Loop, NotDue, Due, ActivateFails,
     Issue, Account, Authorize, Order, Stage, SyncGeneration, SyncLink, Cleanup, Issued,
     Refused, PublishFails, Failed, ListenerStops
<1> QED
  BY <1>5, <1>6, <1>7, <1>8

\* A server that is up keeps its identity until it loads a complete pair: no failure
\* of the CA, the disk or the reload, in whatever order, takes it away.
THEOREM AcmeIdentityKept == Spec => IdentityKept
<1>1. Init => ServedPublished
  BY DEF Init, ServedPublished
<1> QED
  BY <1>1, Inductive, ServedStep, PTL DEF Spec, IdentityKept
===============================================================================
