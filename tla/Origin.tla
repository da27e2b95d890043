--------------------------------- MODULE Origin ---------------------------------
(***************************************************************************)
(* The HTTP origin: its state, the accept loop with its shutdown, and the     *)
(* beginning and the end of a connection's task (origin.rs: serve,           *)
(* serve_connection).  TlsConnection and Requests hold what a task does in   *)
(* between; Server puts them together.                                       *)
(* hyper, the peers' sockets and the tokio runtime are external.             *)
(***************************************************************************)
EXTENDS Tls, Xhttp

CONSTANTS
  Conns,         \* clients, one connection each
  Scenarios      \* a sequence: what the clients of an instance may do

VARIABLES
  scen,          \* the scenario: fixed at the start
  loop,          \* where serve is: select, backoff, drain, abort, returned, failed
  signal,        \* SIGTERM or SIGINT was delivered
  task,          \* task[c]: none, queued, refused, running, ended, joined
  aborted,       \* tasks whose abort was requested
  stage,         \* stage[c]: hello, loaded, flight, finished, stream, http, closed
  identity,      \* the CertifiedIdentity new handshakes use: [gen, alg]
  hs,            \* hs[c]: [hello, had, loaded, flight] of a handshake
  tls,           \* tls[c]: the TlsStream
  lane,          \* lane[c]: bytes from the client that were not read yet
  peer,          \* peer[c]: [sent, eof] of the client: its records, and that it is gone
  taken,         \* taken[c]: the records the handshake has read
  wire,          \* wire[c]: bytes the client's socket has taken
  down,          \* connections whose socket fails writes from now on
  caller,        \* caller[c]: [acked, flushed, closing, closed] as hyper was told
  got,           \* got[c]: application bytes hyper has read
  ends,          \* ends[c]: how reading ended: open, eof, error
  req            \* req[c]: the request handler

vars == <<scen, loop, signal, task, aborted, stage, identity, hs, tls, lane, peer, taken,
          wire, down, caller, got, ends, req>>
serving == <<loop, signal, task, aborted>>
handshaking == <<identity, hs>>
reading == <<lane, peer, taken, got, ends>>
writing == <<wire, down, caller>>

Plan == Scenarios[scen]

\* A plaintext handshake record says so by its key: a client has no other before
\* the flight.  A record says whether it is sealed with the application keys.
ASSUME OriginAssumption ==
  /\ HeaderLen \in Nat \ {0} /\ MsgHeader \in Nat /\ MaxHello \in Nat /\ MaxPost \in Nat
  /\ MaxApp \in Nat /\ PadFrom \in Nat /\ PadTo \in Nat
  /\ \A i \in DOMAIN Scenarios :
       LET p == Scenarios[i]
       IN /\ p.tls \in BOOLEAN
          /\ {p.alg, p.nextAlg} \subseteq {"rsa", "p256", "p384", "ed25519"}
          /\ \A h \in p.hellos : h.len \in Nat
          /\ \A r \in p.pieces \cup p.replies \cup p.traffic :
               /\ DOMAIN r = {"key", "seq", "type", "body", "len", "msg", "app"}
               /\ r.len \in Nat
          /\ \A r \in p.pieces : r.type = "handshake" => r.key = "plain"
          /\ \A r \in p.pieces \cup p.replies : r.app = FALSE /\ r.body = <<>>
          /\ \A r \in p.traffic : r.app = TRUE /\ Len(r.body) \in Nat
          /\ \A q \in p.requests :
               /\ q.hint \in Int /\ q.segs \in Seq(STRING)
               /\ {q.referer.value, q.query.value} \subseteq Seq({"%", "h", "x"})
               /\ \A chunks \in {q.headers, q.cookies} :
                    Len(chunks) \in Nat /\ \A k \in 1 .. Len(chunks) : chunks[k].len \in Nat

NoRequest == [at |-> "none"]

\* Everything before the first connection.
Init ==
  /\ scen \in DOMAIN Scenarios
  /\ loop = "select" /\ signal = FALSE /\ aborted = {}
  /\ task = [c \in Conns |-> "none"]
  /\ stage = [c \in Conns |-> "closed"]
  /\ identity = [gen |-> 1, alg |-> Plan.alg]
  /\ hs = [c \in Conns |-> [had |-> 0]]
  /\ tls = [c \in Conns |-> NewStream]
  /\ lane = [c \in Conns |-> <<>>]
  /\ peer = [c \in Conns |-> [sent |-> <<>>, eof |-> FALSE]]
  /\ taken = [c \in Conns |-> <<>>]
  /\ wire = [c \in Conns |-> <<>>] /\ down = {}
  /\ caller = [c \in Conns |-> [acked |-> 0, flushed |-> 0, closing |-> FALSE, closed |-> FALSE]]
  /\ got = [c \in Conns |-> <<>>]
  /\ ends = [c \in Conns |-> "open"]
  /\ req = [c \in Conns |-> NoRequest]

-------------------------------------------------------------------------------
(* serve.                                                                    *)

Running(c) == task[c] = "running"
Unjoined == {c \in Conns : task[c] \in {"running", "ended"}}

\* A client's connection is completed by the kernel while the listener is open.
Connect(c) ==
  /\ task[c] = "none" /\ c \in Plan.conns /\ loop \in {"select", "backoff"}
  /\ task' = [task EXCEPT ![c] = "queued"]
  /\ UNCHANGED <<scen, loop, signal, aborted, stage, tls, req>>
  /\ UNCHANGED handshaking /\ UNCHANGED reading /\ UNCHANGED writing

\* listener.accept, and the connection's task.
Accept(c) ==
  /\ loop = "select" /\ task[c] = "queued"
  /\ task' = [task EXCEPT ![c] = "running"]
  /\ stage' = [stage EXCEPT ![c] = IF Plan.tls THEN "hello" ELSE "http"]
  /\ IF Plan.tls
     THEN \E h \in Plan.hellos :
            hs' = [hs EXCEPT ![c] = [hello |-> h, had |-> 0]]
     ELSE UNCHANGED hs
  /\ UNCHANGED <<scen, loop, signal, aborted, identity, tls, req>>
  /\ UNCHANGED reading /\ UNCHANGED writing

\* Only serve's own place changes.
LoopTo(place) ==
  /\ loop' = place
  /\ UNCHANGED <<scen, signal, stage, tls, req>>
  /\ UNCHANGED handshaking /\ UNCHANGED reading /\ UNCHANGED writing

\* accept fails: a shortage is waited out, without looking at the signal ...
AcceptTransient ==
  loop = "select" /\ Plan.faults /\ LoopTo("backoff") /\ UNCHANGED <<task, aborted>>
BackoffOver == loop = "backoff" /\ LoopTo("select") /\ UNCHANGED <<task, aborted>>

\* ... any other error ends serve, and the dropped JoinSet aborts every task.
AcceptFatal ==
  /\ loop = "select" /\ Plan.faults
  /\ LoopTo("failed")
  /\ aborted' = Unjoined
  /\ task' = [c \in Conns |-> IF task[c] = "queued" THEN "refused" ELSE task[c]]

\* connections.join_next in the loop, in the drain and after the abort.
Join(c) ==
  /\ loop \in {"select", "drain", "abort"} /\ task[c] = "ended"
  /\ task' = [task EXCEPT ![c] = "joined"]
  /\ LoopTo(loop) /\ UNCHANGED aborted

\* shutdown_signal: the process is told to stop.
Signal ==
  /\ ~signal /\ Plan.stops
  /\ signal' = TRUE
  /\ UNCHANGED <<scen, loop, task, aborted, stage, tls, req>>
  /\ UNCHANGED handshaking /\ UNCHANGED reading /\ UNCHANGED writing

\* The select! takes the shutdown branch: the listener is dropped.
Shutdown ==
  /\ loop = "select" /\ signal
  /\ LoopTo("drain")
  /\ task' = [c \in Conns |-> IF task[c] \in {"none", "queued"} THEN "refused" ELSE task[c]]
  /\ UNCHANGED aborted

\* join_next finds the set empty, in time or after the abort.
Drained ==
  /\ loop \in {"drain", "abort"} /\ Unjoined = {}
  /\ LoopTo("returned") /\ UNCHANGED <<task, aborted>>

\* As Deadline, but serve returns without waiting for the tasks.
DeadlineNoJoin ==
  /\ loop = "drain" /\ Unjoined # {}
  /\ LoopTo("returned")
  /\ aborted' = Unjoined
  /\ UNCHANGED task

\* As Deadline, but the tasks are only joined.
DeadlineNoAbort ==
  /\ loop = "drain" /\ Unjoined # {}
  /\ LoopTo("abort")
  /\ UNCHANGED <<task, aborted>>

\* The graceful_shutdown timeout: abort_all.
Deadline ==
  /\ loop = "drain" /\ Unjoined # {}
  /\ LoopTo("abort")
  /\ aborted' = Unjoined
  /\ UNCHANGED task

-------------------------------------------------------------------------------
(* The end of a connection's task.  In HTTP/1 its handler lives in it; in    *)
(* HTTP/2 TokioExecutor has given the handler a task of its own.             *)

Handling(c) == req[c].at \notin {"none", "done"}

\* A dropped handler: DownloadState::drop removes the session of a download.
Dropped(q) == [q EXCEPT !.at = "done", !.removed = @ \/ q.at = "stream"]

TaskEnds(c) ==
  /\ task' = [task EXCEPT ![c] = "ended"]
  /\ stage' = [stage EXCEPT ![c] = "closed"]
  /\ req' = [req EXCEPT ![c] = IF Handling(c) /\ ~Plan.h2 THEN Dropped(@) ELSE @]
  /\ UNCHANGED <<scen, loop, signal, aborted, tls>>

\* The runtime cancels an aborted task at one of its awaits.
Cancelled(c) ==
  /\ Running(c) /\ c \in aborted
  /\ TaskEnds(c)
  /\ UNCHANGED handshaking /\ UNCHANGED reading /\ UNCHANGED writing

\* tls.accept under handshake_timeout.
HandshakeTimeout(c) ==
  /\ Running(c) /\ stage[c] \in {"hello", "loaded", "flight", "finished"}
  /\ TaskEnds(c)
  /\ UNCHANGED handshaking /\ UNCHANGED reading /\ UNCHANGED writing

\* serve_connection of hyper returns: the client is gone, or an error.
ConnectionOver(c) ==
  /\ Running(c) /\ stage[c] \in {"http", "stream"}
  /\ TaskEnds(c)
  /\ UNCHANGED handshaking /\ UNCHANGED reading /\ UNCHANGED writing

\* The HTTP/2 handler of a connection that is over notices it: it is reset.
HandlerReset(c) ==
  /\ Plan.h2 /\ stage[c] = "closed" /\ Handling(c)
  /\ req' = [req EXCEPT ![c] = Dropped(@)]
  /\ UNCHANGED <<scen, stage, tls>>
  /\ UNCHANGED serving /\ UNCHANGED handshaking /\ UNCHANGED reading /\ UNCHANGED writing

===============================================================================
