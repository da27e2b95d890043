----------------------------- MODULE SessionTable -----------------------------
(***************************************************************************)
(* session/mod.rs: the sharded table of XHTTP sessions, and the request    *)
(* handlers of origin.rs that drive it.                                    *)
(*                                                                         *)
(* A session is created by whichever request comes first: an upload POST   *)
(* (then a grace reaper task watches it until a download opens) or the     *)
(* download GET.  The GET owns the session and removes it when its body is *)
(* dropped; an upload that overflows the reorder buffer tears it down; the *)
(* reaper removes one that no GET claimed.  All of them run on different   *)
(* threads, so each memory access another thread can observe is a step.    *)
(*                                                                         *)
(* Sessions are Arc<Session> objects: an identity is used again only when  *)
(* nothing refers to the old object, as the allocator does.  What the      *)
(* uplink buffer holds is the subject of Reorder; here a push only has one *)
(* of the results of PushResult.  Metrics are left out, except the active  *)
(* count, which the cap depends on.                                        *)
(***************************************************************************)
EXTENDS Integers, FiniteSets

CONSTANTS
  Ids,           \* session ids chosen by clients
  Shards,        \* the shards of the table
  ShardOf,       \* ShardOf[i]: the shard fnv1a(i) selects
  Sessions,      \* Arc<Session> allocations
  Posts, Gets,   \* upload and download requests in flight
  MaxSessions,   \* cfg.max_sessions
  NoSession,     \* None
  NoId           \* of a request slot that is not in use

ASSUME TableAssumption ==
  /\ IsFiniteSet(Shards) /\ Shards # {}
  /\ IsFiniteSet(Ids) /\ IsFiniteSet(Sessions)
  /\ IsFiniteSet(Posts) /\ IsFiniteSet(Gets)
  /\ ShardOf \in [Ids -> Shards]
  /\ MaxSessions \in Nat
  /\ NoSession \notin Sessions
  /\ NoId \notin Ids
  /\ Posts \cap Gets = {}

VARIABLES
  table,     \* table[i]: the session in the map of i's shard under key i
  active,    \* SessionTable::active
  sid,       \* sid[s]: Session::id
  fc,        \* fc[s]: Session::fully_connected
  reader,    \* reader[s]: downlink_reader is still Some
  handle,    \* handle[s]: grace_reaper is Some
  task,      \* task[s]: where s's reaper task is, "none" when it has ended
  pc,        \* pc[r]: where request r is
  rid,       \* rid[r]: its session id
  ses        \* ses[r]: the session it works on

vars == <<table, active, sid, fc, reader, handle, task, pc, rid, ses>>
object == <<sid, fc, reader, handle, task>>

Requests == Posts \cup Gets

\* The reaper waits, has decided to remove, or must still lower the count.
TaskSteps == {"none", "sleep", "remove", "retire"}

PostSteps == {"idle", "lookup", "create", "spawn", "install", "recheck",
              "recheckMap", "abort", "push", "remove", "cancel", "retire"}
GetSteps  == {"idle", "lookup", "create", "mark", "disarm", "take", "open",
              "remove", "cancel", "retire"}

TypeOK ==
  /\ table \in [Ids -> Sessions \cup {NoSession}]
  /\ active \in Nat
  /\ sid \in [Sessions -> Ids \cup {NoId}]
  /\ fc \in [Sessions -> BOOLEAN]
  /\ reader \in [Sessions -> BOOLEAN]
  /\ handle \in [Sessions -> BOOLEAN]
  /\ task \in [Sessions -> TaskSteps]
  /\ pc \in [Requests -> PostSteps \cup GetSteps]
  /\ \A p \in Posts : pc[p] \in PostSteps
  /\ \A g \in Gets : pc[g] \in GetSteps
  /\ rid \in [Requests -> Ids \cup {NoId}]
  /\ ses \in [Requests -> Sessions \cup {NoSession}]
  /\ \A r \in Requests : pc[r] # "idle" => rid[r] \in Ids

Init ==
  /\ table = [i \in Ids |-> NoSession]
  /\ active = 0
  /\ sid = [s \in Sessions |-> NoId]
  /\ fc = [s \in Sessions |-> FALSE]
  /\ reader = [s \in Sessions |-> FALSE]
  /\ handle = [s \in Sessions |-> FALSE]
  /\ task = [s \in Sessions |-> "none"]
  /\ pc = [r \in Requests |-> "idle"]
  /\ rid = [r \in Requests |-> NoId]
  /\ ses = [r \in Requests |-> NoSession]

-------------------------------------------------------------------------------
\* A request holds its shard's mutex across two steps only in upsert, between
\* the capacity check and the insertion.
Creating == {r \in Requests : pc[r] = "create"}

Unlocked(i) == \A r \in Creating : ShardOf[rid[r]] # ShardOf[i]

\* Strong references: the map, and the requests that obtained the Arc.
Referenced(s) ==
  \/ \E i \in Ids : table[i] = s
  \/ \E r \in Requests : ses[r] = s

\* Nothing points to s any more, the reaper's Weak included.
Reusable(s) == ~Referenced(s) /\ task[s] = "none"

Goto(r, step) == pc' = [pc EXCEPT ![r] = step]

\* Bound of the model: a creation starts only while an allocation is left for it.
PoolRoom == Cardinality(Creating) < Cardinality({s \in Sessions : Reusable(s)})

\* The request is answered; its slot can serve another one.
Finish(r) ==
  /\ Goto(r, "idle")
  /\ rid' = [rid EXCEPT ![r] = NoId]
  /\ ses' = [ses EXCEPT ![r] = NoSession]

\* AbortHandle::abort: the task's only await is its sleep, so a reaper that
\* already woke up is not stopped.
Abort(s) == task' = [task EXCEPT ![s] = IF @ = "sleep" THEN "none" ELSE @]

-------------------------------------------------------------------------------
(* upsert *)

\* A POST or a GET for session i arrives and calls upsert.
Arrive(r, i) ==
  /\ pc[r] = "idle"
  /\ Goto(r, "lookup")
  /\ rid' = [rid EXCEPT ![r] = i]
  /\ UNCHANGED <<table, active, object, ses>>

Found(r) ==
  /\ table[rid[r]] # NoSession
  /\ ses' = [ses EXCEPT ![r] = table[rid[r]]]
  /\ Goto(r, IF r \in Posts THEN "push" ELSE "mark")
  /\ UNCHANGED rid

AtCapacity(r) ==
  /\ table[rid[r]] = NoSession
  /\ active >= MaxSessions
  /\ Finish(r)

\* As MayCreate, with the comparison off by one.
MayCreateOneMore(r) ==
  /\ table[rid[r]] = NoSession
  /\ active <= MaxSessions
  /\ PoolRoom
  /\ Goto(r, "create")
  /\ UNCHANGED <<rid, ses>>

MayCreate(r) ==
  /\ table[rid[r]] = NoSession
  /\ active < MaxSessions
  /\ PoolRoom
  /\ Goto(r, "create")
  /\ UNCHANGED <<rid, ses>>

\* Under the shard lock: the session exists, or the cap is reached (503), or
\* a new one will be created, with the lock kept.
Lookup(r) ==
  /\ pc[r] = "lookup"
  /\ Unlocked(rid[r])
  /\ Found(r) \/ AtCapacity(r) \/ MayCreate(r)
  /\ UNCHANGED <<table, active, object>>

\* The new session enters the map and is counted, the lock is released and the
\* protocol handler gets the other ends of its channels.  A session created by
\* its GET never gets a reaper.
Insert(r, s) ==
  /\ pc[r] = "create"
  /\ Reusable(s)
  /\ table' = [table EXCEPT ![rid[r]] = s]
  /\ active' = active + 1
  /\ sid' = [sid EXCEPT ![s] = rid[r]]
  /\ fc' = [fc EXCEPT ![s] = r \in Gets]
  /\ reader' = [reader EXCEPT ![s] = TRUE]
  /\ handle' = [handle EXCEPT ![s] = FALSE]
  /\ ses' = [ses EXCEPT ![r] = s]
  /\ Goto(r, IF r \in Posts THEN "spawn" ELSE "mark")
  /\ UNCHANGED <<task, rid>>

\* tokio::spawn of the grace reaper.
Spawn(p) ==
  /\ pc[p] = "spawn"
  /\ task' = [task EXCEPT ![ses[p]] = "sleep"]
  /\ Goto(p, "install")
  /\ UNCHANGED <<table, active, sid, fc, reader, handle, rid, ses>>

\* As Install, but taking it on trust that nothing happened meanwhile.
InstallNoRecheck(p) ==
  /\ pc[p] = "install"
  /\ handle' = [handle EXCEPT ![ses[p]] = TRUE]
  /\ Goto(p, "push")
  /\ UNCHANGED <<table, active, sid, fc, reader, task, rid, ses>>

\* The abort handle is published in the session.
Install(p) ==
  /\ pc[p] = "install"
  /\ handle' = [handle EXCEPT ![ses[p]] = TRUE]
  /\ Goto(p, "recheck")
  /\ UNCHANGED <<table, active, sid, fc, reader, task, rid, ses>>

\* A GET may have opened, or the session may have been removed, before the
\* handle was there to be aborted: look again, first at the flag ...
Recheck(p) ==
  /\ pc[p] = "recheck"
  /\ Goto(p, IF fc[ses[p]] THEN "abort" ELSE "recheckMap")
  /\ UNCHANGED <<table, active, object, rid, ses>>

\* As RecheckMap, with the two outcomes swapped.
RecheckMapSwapped(p) ==
  /\ pc[p] = "recheckMap"
  /\ Unlocked(rid[p])
  /\ Goto(p, IF table[rid[p]] = ses[p] THEN "abort" ELSE "push")
  /\ UNCHANGED <<table, active, object, rid, ses>>

\* ... then, under the shard lock, at the map.
RecheckMap(p) ==
  /\ pc[p] = "recheckMap"
  /\ Unlocked(rid[p])
  /\ Goto(p, IF table[rid[p]] = ses[p] THEN "push" ELSE "abort")
  /\ UNCHANGED <<table, active, object, rid, ses>>

AbortOwnReaper(p) ==
  /\ pc[p] = "abort"
  /\ Abort(ses[p])
  /\ handle' = [handle EXCEPT ![ses[p]] = FALSE]
  /\ Goto(p, "push")
  /\ UNCHANGED <<table, active, sid, fc, reader, rid, ses>>

-------------------------------------------------------------------------------
(* the upload *)

\* UplinkSink::push returned (or its handler was dropped with the connection)
\* without an overflow: the POST is answered and drops its Arc.
PushDone(p) ==
  /\ pc[p] = "push"
  /\ Finish(p)
  /\ UNCHANGED <<table, active, object>>

\* TooManyPending or TooManyPendingBytes: finish_upload removes the session,
\* by id, after push_uplink dropped the Arc.
PushOverflow(p) ==
  /\ pc[p] = "push"
  /\ Goto(p, "remove")
  /\ ses' = [ses EXCEPT ![p] = NoSession]
  /\ UNCHANGED <<table, active, object, rid>>

-------------------------------------------------------------------------------
(* the download *)

\* open_download: fully_connected.store(true)
Mark(g) ==
  /\ pc[g] = "mark"
  /\ fc' = [fc EXCEPT ![ses[g]] = TRUE]
  /\ Goto(g, "disarm")
  /\ UNCHANGED <<table, active, sid, reader, handle, task, rid, ses>>

\* ... then the reaper's handle is taken and, if it was there, aborted ...
Disarm(g) ==
  /\ pc[g] = "disarm"
  /\ IF handle[ses[g]] THEN Abort(ses[g]) ELSE UNCHANGED task
  /\ handle' = [handle EXCEPT ![ses[g]] = FALSE]
  /\ Goto(g, "take")
  /\ UNCHANGED <<table, active, sid, fc, reader, rid, ses>>

\* ... and the downlink reader is taken: the body streams from it.
TakeReader(g) ==
  /\ pc[g] = "take"
  /\ reader[ses[g]]
  /\ reader' = [reader EXCEPT ![ses[g]] = FALSE]
  /\ Goto(g, "open")
  /\ UNCHANGED <<table, active, sid, fc, handle, task, rid, ses>>

\* Another GET has it: 409.
Conflict(g) ==
  /\ pc[g] = "take"
  /\ ~reader[ses[g]]
  /\ Finish(g)
  /\ UNCHANGED <<table, active, object>>

\* As EndDownload, without the removal in DownloadState::drop.
EndDownloadOnly(g) ==
  /\ pc[g] = "open"
  /\ Finish(g)
  /\ UNCHANGED <<table, active, object>>

\* The body ends (protocol task gone) or is dropped (client gone):
\* DownloadState::drop calls remove_hashed with the id it was opened under.
EndDownload(g) ==
  /\ pc[g] = "open"
  /\ Goto(g, "remove")
  /\ ses' = [ses EXCEPT ![g] = NoSession]
  /\ UNCHANGED <<table, active, object, rid>>

-------------------------------------------------------------------------------
(* remove_inner, called with an id by a GET's end or an upload's teardown *)

\* Under the shard lock: take whatever session the id maps to now.
RemoveById(r) ==
  /\ pc[r] = "remove"
  /\ Unlocked(rid[r])
  /\ IF table[rid[r]] = NoSession
     THEN Finish(r) /\ UNCHANGED table
     ELSE /\ table' = [table EXCEPT ![rid[r]] = NoSession]
          /\ ses' = [ses EXCEPT ![r] = table[rid[r]]]
          /\ Goto(r, "cancel")
          /\ UNCHANGED rid
  /\ UNCHANGED <<active, object>>

\* Outside the lock: abort the removed session's reaper.
CancelReaper(r) ==
  /\ pc[r] = "cancel"
  /\ IF handle[ses[r]] THEN Abort(ses[r]) ELSE UNCHANGED task
  /\ handle' = [handle EXCEPT ![ses[r]] = FALSE]
  /\ Goto(r, "retire")
  /\ UNCHANGED <<table, active, sid, fc, reader, rid, ses>>

\* As Retire, forgetting the counter.
RetireUncounted(r) ==
  /\ pc[r] = "retire"
  /\ Finish(r)
  /\ UNCHANGED <<table, active, object>>

\* Close the uplink and lower the count.
Retire(r) ==
  /\ pc[r] = "retire"
  /\ active' = active - 1
  /\ Finish(r)
  /\ UNCHANGED <<table, object>>

-------------------------------------------------------------------------------
(* the grace reaper *)

\* The sleep is over: nothing to do when the session is gone or its GET came.
Wake(s) ==
  /\ task[s] = "sleep"
  /\ task' = [task EXCEPT ![s] = IF Referenced(s) /\ ~fc[s] THEN "remove" ELSE "none"]
  /\ UNCHANGED <<table, active, sid, fc, reader, handle, pc, rid, ses>>

\* remove_inner with expected = Some(s): only s itself is removed.
Reap(s) ==
  /\ task[s] = "remove"
  /\ Unlocked(sid[s])
  /\ IF table[sid[s]] = s
     THEN /\ table' = [table EXCEPT ![sid[s]] = NoSession]
          /\ task' = [task EXCEPT ![s] = "retire"]
     ELSE /\ task' = [task EXCEPT ![s] = "none"]
          /\ UNCHANGED table
  /\ UNCHANGED <<active, sid, fc, reader, handle, pc, rid, ses>>

\* As ReapRetire, forgetting the counter.
ReapRetireUncounted(s) ==
  /\ task[s] = "retire"
  /\ task' = [task EXCEPT ![s] = "none"]
  /\ UNCHANGED <<table, active, sid, fc, reader, handle, pc, rid, ses>>

\* The count follows, and the task is over.
ReapRetire(s) ==
  /\ task[s] = "retire"
  /\ active' = active - 1
  /\ task' = [task EXCEPT ![s] = "none"]
  /\ UNCHANGED <<table, sid, fc, reader, handle, pc, rid, ses>>

-------------------------------------------------------------------------------
\* Steps a running request thread takes by itself.
PostStep(p) ==
  \/ Spawn(p) \/ Install(p) \/ Recheck(p) \/ RecheckMap(p) \/ AbortOwnReaper(p)
GetStep(g) == Mark(g) \/ Disarm(g) \/ TakeReader(g) \/ Conflict(g)
RemoveStep(r) == RemoveById(r) \/ CancelReaper(r) \/ Retire(r)
UpsertStep(r) == Lookup(r) \/ \E s \in Sessions : Insert(r, s)
TaskStep(s) == Wake(s) \/ Reap(s) \/ ReapRetire(s)

Next ==
  \/ \E r \in Requests :
       (\E i \in Ids : Arrive(r, i)) \/ UpsertStep(r) \/ RemoveStep(r)
  \/ \E p \in Posts : PostStep(p) \/ PushDone(p) \/ PushOverflow(p)
  \/ \E g \in Gets : GetStep(g) \/ EndDownload(g)
  \/ \E s \in Sessions : TaskStep(s)

Spec == Init /\ [][Next]_vars

\* Threads keep running, timers fire, and nobody waits for ever for a mutex
\* that is only held for a few instructions (strong fairness where the shard
\* lock is needed).  Clients promise nothing: requests need not arrive and a
\* download need not end; a push returns (see Reorder for when).
FairSpec ==
  /\ Spec
  /\ \A r \in Requests : SF_vars(UpsertStep(r)) /\ SF_vars(RemoveStep(r))
  /\ \A p \in Posts : SF_vars(PostStep(p)) /\ WF_vars(PushDone(p) \/ PushOverflow(p))
  /\ \A g \in Gets : WF_vars(GetStep(g))
  /\ \A s \in Sessions : SF_vars(TaskStep(s))

-------------------------------------------------------------------------------
(* properties *)

InTable(s) == \E i \in Ids : table[i] = s

\* A download streams from s.  (The GET holds the reader, not the Arc: ses is
\* only the model's note of which session the reader came from.)
Opened(s) == \E g \in Gets : pc[g] = "open" /\ ses[g] = s

Listed == {i \in Ids : table[i] # NoSession}
Removing == {r \in Requests : pc[r] \in {"cancel", "retire"}}
Reaping == {s \in Sessions : task[s] = "retire"}

\* The active count is the number of sessions in the maps plus the removals
\* that have taken a session out of its map and not yet lowered the count:
\* however creations, reapings, GET ends and teardowns interleave, each session
\* is counted once and uncounted once, so the count can neither wrap nor leak
\* capacity.
ActiveAccounting ==
  active = Cardinality(Listed) + Cardinality(Removing) + Cardinality(Reaping)

\* The capacity check and the increment are two steps under a lock that covers
\* one shard only, so requests in different shards can pass the check together.
\* The overshoot is one session per further shard at most: requests of one shard
\* pass the check one after the other, and each sees what the last one counted.
\* So the "Global live XHTTP session cap" of docs/configuration.md is not kept
\* exactly: in the instance checked, two sessions live under a cap of one.
CapOvershoot == active <= MaxSessions + Cardinality(Shards) - 1

\* "timers created for upload-first sessions are cancelled as soon as the
\* download opens or the session ends" (docs/performance-and-availability.md):
\* a reaper still sleeping belongs to a session that is listed and unclaimed,
\* or to one that a request in flight is about to disarm.
ReaperCancelled ==
  \A s \in Sessions : task[s] = "sleep" =>
    \/ InTable(s) /\ ~fc[s]
    \/ \E p \in Posts : ses[p] = s /\ pc[p] \in {"install", "recheck", "recheckMap", "abort"}
    \/ \E g \in Gets : ses[g] = s /\ pc[g] = "disarm"
    \/ \E r \in Requests : ses[r] = s /\ pc[r] = "cancel"

\* No session stays in the table for ever: each one there has a reaper that has
\* not given up, a download that will remove it, or a request in flight that is
\* about to provide one of these.
NoOrphan ==
  \A s \in Sessions : InTable(s) =>
    \/ task[s] \in {"sleep", "remove"}
    \/ Opened(s)
    \/ \E r \in Requests :
         \/ ses[r] = s /\ pc[r] \in {"spawn", "mark", "disarm", "take"}
         \/ rid[r] = sid[s] /\ pc[r] = "remove"

\* Every session is claimed by a download or leaves the table: the grace reaper
\* sees to the first case, the end of the GET to sessions it had claimed.
EventuallyClaimedOrRemoved ==
  \A s \in Sessions : InTable(s) ~> (~InTable(s) \/ Opened(s))

\* A full table does not stay full of sessions nobody downloads from: whatever
\* clients upload and leave, sooner or later a new session can be created again
\* or a download is open.
CapacityReturns ==
  active >= MaxSessions ~> (active < MaxSessions \/ \E s \in Sessions : Opened(s))

\* session/mod.rs: "once the GET opens, the session lives as long as that GET":
\* only a POST that overflows the uplink takes a session out of the table while
\* a download streams from it, not the grace reaper and not the end of another
\* GET.
OpenKept ==
  [][\A s \in Sessions :
       InTable(s) /\ Opened(s) =>
         \/ InTable(s)'
         \/ \E p \in Posts : pc[p] = "remove" /\ pc'[p] = "cancel"]_vars
===============================================================================
