---------------------------------- MODULE Acme ----------------------------------
(***************************************************************************)
(* acme.rs: obtaining, publishing and renewing the certificate.            *)
(*                                                                         *)
(* The certificate pair is published as a generation directory that the    *)
(* symlink `current' names.  The process can stop at any step, and so can  *)
(* the machine: then directory entries that were not synced may be gone.   *)
(* A renewal task inspects the pair on disk, issues a new one when it is   *)
(* due, and loads it into the TLS server; failures are retried.            *)
(*                                                                         *)
(* A certificate is its generation; what the code asks about it is its     *)
(* CertificateState.  The CA is external: it may refuse at any time.       *)
(***************************************************************************)
EXTENDS Integers, FiniteSets

CONSTANTS
  Gens,           \* generation directories
  NoGen,          \* no such directory: nothing published, nothing served
  RetryInitial, RetryMax,
  Faults          \* the rarer failures that can happen: see FaultKinds

\* "fsync": syncing a directory can fail.  "accept": the challenge listener can.
FaultKinds == {"fsync", "accept"}

ASSUME AcmeAssumption ==
  /\ IsFiniteSet(Gens) /\ NoGen \notin Gens
  /\ RetryInitial \in Nat \ {0}
  /\ RetryMax \in Nat /\ RetryInitial <= RetryMax
  /\ Faults \subseteq FaultKinds

VARIABLES
  dirs,               \* complete generation directories
  durable,            \* those that survive a power loss
  current,            \* target of the symlink
  onDisk,             \* targets a power loss may leave in the symlink
  account,            \* account.json exists
  health,             \* health[g]: the CertificateState of generation g
  pc,                 \* where the process is
  startup,            \* the issue in progress is prepare's
  gen, previous,      \* locals of publish_certificate_pair
  listener,           \* the HTTP-01 listener runs
  challenges,         \* a challenge answer is registered
  served,             \* the identity new TLS handshakes use
  activation_pending, delay, retry

disk == <<dirs, durable, current, onDisk, account, health>>
publishing == <<gen, previous>>
timers == <<activation_pending, delay, retry>>
vars == <<disk, pc, startup, publishing, listener, challenges, served, timers>>

Healths == {"Current", "Renew", "Expired"}
Delays == {"second", "normal", "retry"}

\* issue() with its awaits, then publish_certificate_pair without any.
Asking == {"account", "authorize", "order"}
Publishing == {"stage", "syncGeneration", "swap", "syncLink", "cleanup"}
Steps == {"down", "prepare", "load", "sleep", "reload"} \cup Asking \cup Publishing

TypeOK ==
  /\ dirs \subseteq Gens /\ durable \subseteq dirs
  /\ current \in Gens \cup {NoGen} /\ onDisk \subseteq Gens \cup {NoGen}
  /\ account \in BOOLEAN
  /\ health \in [Gens -> Healths]
  /\ pc \in Steps
  /\ startup \in BOOLEAN
  /\ gen \in Gens \cup {NoGen} /\ previous \in Gens \cup {NoGen}
  /\ listener \in BOOLEAN /\ challenges \in BOOLEAN
  /\ served \in Gens \cup {NoGen}
  /\ activation_pending \in BOOLEAN
  /\ delay \in Delays
  /\ retry \in RetryInitial .. RetryMax

Init ==
  /\ dirs = {} /\ durable = {}
  /\ current = NoGen /\ onDisk = {NoGen}
  /\ account = FALSE
  /\ health = [g \in Gens |-> "Current"]
  /\ pc = "down"
  /\ startup = FALSE
  /\ gen = NoGen /\ previous = NoGen
  /\ listener = FALSE /\ challenges = FALSE
  /\ served = NoGen
  /\ activation_pending = FALSE
  /\ delay = "normal"
  /\ retry = RetryInitial

-------------------------------------------------------------------------------
\* certificate_state of what `current' leads to.
certificate_state == IF current \in dirs THEN health[current] ELSE "Missing"

\* Names for a new generation.  Directories that nothing refers to any more (left
\* by a crash, or not yet cleaned up) stand for any number of such directories:
\* their names may be taken again, so that Gens need not grow.
Unreferenced == Gens \ (onDisk \cup {current, served})

\* Certificates grow old (for those nothing refers to, it does not matter).
Age(g) ==
  /\ g \in onDisk \cup {current, served}
  /\ health[g] # "Expired"
  /\ health' = [health EXCEPT ![g] = IF @ = "Current" THEN "Renew" ELSE "Expired"]
  /\ UNCHANGED <<dirs, durable, current, onDisk, account,
                 pc, startup, publishing, listener, challenges, served, timers>>

-------------------------------------------------------------------------------
(* the process starts *)

Boot ==
  /\ pc = "down"
  /\ pc' = "prepare"
  /\ listener' = TRUE
  /\ UNCHANGED <<disk, startup, publishing, challenges, served, timers>>

\* prepare: without a usable pair on disk (missing, expired, unreadable, or
\* rejected by the TLS server) one is issued before the server starts.
Prepare ==
  /\ pc = "prepare"
  /\ \E unusable \in BOOLEAN :
       /\ startup' = (unusable \/ certificate_state \in {"Missing", "Expired"})
       /\ delay' = IF certificate_state = "Renew" /\ ~unusable THEN "second" ELSE "normal"
  /\ pc' = IF startup' THEN "account" ELSE "load"
  /\ UNCHANGED <<disk, publishing, listener, challenges, served, activation_pending, retry>>

\* The TLS server loads the pair and spawn_renewal starts its loop.
Load ==
  /\ pc = "load"
  /\ pc' = "sleep"
  /\ served' = current
  /\ startup' = FALSE
  /\ activation_pending' = FALSE
  /\ retry' = RetryInitial
  /\ UNCHANGED <<disk, publishing, listener, challenges, delay>>

-------------------------------------------------------------------------------
(* the renewal loop *)

Backoff ==
  /\ delay' = "retry"
  /\ retry' = IF 2 * retry > RetryMax THEN RetryMax ELSE 2 * retry

Rested == delay' = "normal" /\ retry' = RetryInitial

\* server.reload succeeds: the identity is swapped.
Activate ==
  /\ pc = "reload" \/ (pc = "sleep" /\ activation_pending)
  /\ served' = current
  /\ activation_pending' = FALSE
  /\ Rested
  /\ pc' = "sleep"
  /\ UNCHANGED <<disk, startup, publishing, listener, challenges>>

\* As ActivateFails, when reload gives up the old identity first.
ActivateFailsDrops ==
  /\ pc = "reload" \/ (pc = "sleep" /\ activation_pending)
  /\ activation_pending' = TRUE
  /\ Backoff
  /\ pc' = "sleep"
  /\ served' = NoGen
  /\ UNCHANGED <<disk, startup, publishing, listener, challenges>>

\* As ActivateFails, without remembering that the pair on disk is newer.
ActivateFailsForgets ==
  /\ pc = "reload" \/ (pc = "sleep" /\ activation_pending)
  /\ Backoff
  /\ pc' = "sleep"
  /\ UNCHANGED <<disk, startup, publishing, listener, challenges, served, activation_pending>>

\* server.reload fails: the old identity stays, the new one is pending.
ActivateFails ==
  /\ pc = "reload" \/ (pc = "sleep" /\ activation_pending)
  /\ activation_pending' = TRUE
  /\ Backoff
  /\ pc' = "sleep"
  /\ UNCHANGED <<disk, startup, publishing, listener, challenges, served>>

NotDue ==
  /\ pc = "sleep" /\ ~activation_pending
  /\ certificate_state = "Current"
  /\ Rested
  /\ UNCHANGED <<disk, pc, startup, publishing, listener, challenges, served, activation_pending>>

\* The pair is due for renewal, or could not be inspected.
Due ==
  /\ pc = "sleep" /\ ~activation_pending
  /\ pc' = "account"
  /\ UNCHANGED <<disk, startup, publishing, listener, challenges, served, timers>>

-------------------------------------------------------------------------------
(* issue_with_timeout *)

\* account: read from the cache, or registered and written atomically.
Account ==
  /\ pc = "account"
  /\ account' = TRUE
  /\ pc' = "authorize"
  /\ UNCHANGED <<dirs, durable, current, onDisk, health,
                 startup, publishing, listener, challenges, served, timers>>

\* The order's challenges are registered and declared ready, unless the CA still
\* holds all authorizations for valid.
Authorize ==
  /\ pc = "authorize"
  /\ challenges' \in BOOLEAN
  /\ pc' = "order"
  /\ UNCHANGED <<disk, startup, publishing, listener, served, timers>>

\* The CA fetched the challenges it asked for, and the certificate is issued.
Order ==
  /\ pc = "order"
  /\ challenges => listener
  /\ gen' \in Unreferenced
  /\ dirs' = dirs \ {gen'} /\ durable' = durable \ {gen'}
  /\ health' = [health EXCEPT ![gen'] = "Current"]
  /\ pc' = "stage"
  /\ UNCHANGED <<current, onDisk, account,
                 startup, previous, listener, challenges, served, timers>>

\* issue returned: the challenges are dropped.  At startup an error ends the
\* process, in the loop it is retried.
Issued ==
  /\ challenges' = FALSE
  /\ gen' = NoGen /\ previous' = NoGen
  /\ pc' = IF startup THEN "load" ELSE "reload"
  /\ UNCHANGED <<startup, listener, served, timers>>

Failed ==
  /\ challenges' = FALSE
  /\ gen' = NoGen /\ previous' = NoGen
  /\ IF startup THEN /\ pc' = "down" /\ startup' = FALSE /\ listener' = FALSE
                     /\ UNCHANGED timers
     ELSE /\ pc' = "sleep" /\ Backoff
          /\ UNCHANGED <<activation_pending, startup, listener>>
  /\ UNCHANGED served

\* The CA refuses, cannot be reached, or five minutes pass.
Refused ==
  /\ pc \in Asking
  /\ Failed
  /\ UNCHANGED disk

\* HTTP-01 listener: an accept error ends its task.
ListenerStops ==
  /\ "accept" \in Faults
  /\ listener
  /\ listener' = FALSE
  /\ UNCHANGED <<disk, pc, startup, publishing, challenges, served, timers>>

-------------------------------------------------------------------------------
(* publish_certificate_pair *)

\* Both files are written to a temporary directory, synced, and tried out; the
\* directory then gets its name.  Nobody reads it before.
Stage ==
  /\ pc = "stage"
  /\ dirs' = dirs \cup {gen}
  /\ pc' = "syncGeneration"
  /\ UNCHANGED <<durable, current, onDisk, account, health,
                 startup, publishing, listener, challenges, served, timers>>

\* As SyncGeneration, without the sync.
SyncGenerationSkipped ==
  /\ pc = "syncGeneration"
  /\ previous' = current
  /\ pc' = "swap"
  /\ UNCHANGED <<disk, startup, gen, listener, challenges, served, timers>>

SyncGeneration ==
  /\ pc = "syncGeneration"
  /\ durable' = dirs
  /\ onDisk' = {current}
  /\ previous' = current
  /\ pc' = "swap"
  /\ UNCHANGED <<dirs, current, account, health,
                 startup, gen, listener, challenges, served, timers>>

\* A new link is renamed over `current'.
Swap ==
  /\ pc = "swap"
  /\ current' = gen
  /\ onDisk' = onDisk \cup {gen}
  /\ pc' = "syncLink"
  /\ UNCHANGED <<dirs, durable, account, health,
                 startup, publishing, listener, challenges, served, timers>>

SyncLink ==
  /\ pc = "syncLink"
  /\ durable' = dirs
  /\ onDisk' = {current}
  /\ pc' = "cleanup"
  /\ UNCHANGED <<dirs, current, account, health,
                 startup, publishing, listener, challenges, served, timers>>

\* As Cleanup, sparing only the previous generation.
CleanupPrevious ==
  /\ pc = "cleanup"
  /\ \E kept \in SUBSET dirs : ({previous} \cap dirs) \subseteq kept /\ dirs' = kept
  /\ durable' = durable \cap dirs'
  /\ Issued
  /\ UNCHANGED <<current, onDisk, account, health>>

\* cleanup_generations: all but this generation and the previous one, except
\* where the removal fails.
Cleanup ==
  /\ pc = "cleanup"
  /\ \E kept \in SUBSET dirs : ({gen, previous} \cap dirs) \subseteq kept /\ dirs' = kept
  /\ durable' = durable \cap dirs'
  /\ Issued
  /\ UNCHANGED <<current, onDisk, account, health>>

\* An I/O error, or a pair the TLS server rejects: the temporary directory, if
\* it still has that name, is removed; everything else stays as it is.
PublishFails ==
  /\ \/ pc \in {"stage", "swap"}
     \/ pc \in {"syncGeneration", "syncLink"} /\ "fsync" \in Faults
  /\ Failed
  /\ UNCHANGED disk

-------------------------------------------------------------------------------
(* the process, or the machine, stops *)

Stopped ==
  /\ pc # "down"
  /\ pc' = "down"
  /\ startup' = FALSE /\ listener' = FALSE /\ challenges' = FALSE
  /\ served' = NoGen
  /\ gen' = NoGen /\ previous' = NoGen
  /\ activation_pending' = FALSE /\ delay' = "normal" /\ retry' = RetryInitial
  /\ UNCHANGED health

Crash == Stopped /\ UNCHANGED <<dirs, durable, current, onDisk, account>>

\* Entries that were not synced may be lost.
PowerLoss ==
  /\ Stopped
  /\ \E d \in SUBSET dirs : durable \subseteq d /\ dirs' = d /\ durable' = d
  /\ current' \in onDisk
  /\ onDisk' = {current'}
  /\ account' \in {account, FALSE}

-------------------------------------------------------------------------------
Loop == Activate \/ NotDue \/ Due
Issue == Account \/ Authorize \/ Order \/ Stage \/ SyncGeneration \/ Swap \/ SyncLink
         \/ Cleanup

Next ==
  \/ \E g \in Gens : Age(g)
  \/ Boot \/ Prepare \/ Load
  \/ Loop \/ ActivateFails
  \/ Issue \/ Refused \/ PublishFails
  \/ ListenerStops
  \/ Crash \/ PowerLoss

Spec == Init /\ [][Next]_vars

\* The CA waits for an answer that nobody can give: the issue times out.
Hopeless == pc = "order" /\ challenges /\ ~listener

\* The process runs and its timers fire, and from some time on the CA, the disk and
\* the reload work: the only failures left are the ones the program causes itself.
\* Nothing makes a readable pair fail to be inspected (Due while it is Current).
FairSpec ==
  /\ Spec
  /\ WF_vars(\/ Prepare \/ Load \/ Activate \/ NotDue \/ Issue
             \/ Due /\ certificate_state # "Current"
             \/ Refused /\ Hopeless)
  /\ <>[][(Refused => Hopeless) /\ ~PublishFails /\ ~ActivateFails]_vars

-------------------------------------------------------------------------------
(* properties *)

\* `current' never dangles: at every instant, and after a crash or a power loss
\* at any step of a publication, it is absent or names a complete generation.
CurrentComplete == current # NoGen => current \in dirs

\* "ACME failure never replaces a currently loaded identity": a server that is up
\* keeps its identity until it loads a complete pair that `current' names.
IdentityKept ==
  [][served # NoGen /\ served' # served
       => pc' = "down" \/ (served' = current /\ current \in dirs)]_vars

\* "a failure keeps the current certificate active and retries": while an identity
\* that is due for renewal is in use, the loop's next turn does something about it.
RenewalPursued ==
  pc = "sleep" /\ health[served] # "Current"
    => activation_pending \/ certificate_state # "Current"

\* "Renewals happen in the background": an identity that is due for renewal is
\* replaced in the end, unless the process stops or has lost its HTTP-01 listener,
\* which nothing starts again.
EventuallyReplaced ==
  \A g \in Gens :
    (served = g /\ health[g] # "Current") ~> (served # g \/ ~listener)
===============================================================================
