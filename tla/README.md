# A TLA+ model of rust-xhttp

rust-xhttp is a VLESS-over-XHTTP server: a client uploads numbered packets in
POST requests and downloads one byte stream in a long-lived GET; the server puts
the packets in order, speaks VLESS with the client, and connects it to a target.
This directory holds TLA+ modules for the parts of it whose correctness depends
on the order in which threads, requests, timers and failures come, the TLC
configurations that check them on small instances, and proofs, checked by TLAPS,
that hold for every value of the constants.

`PROJECT.json` has, for every definition that models code, the lines it models;
the list of hazards; and the mutation of the code that each property detects.

## Inventory

| Component | State | Operations | What is hard | What makes it correct |
| --- | --- | --- | --- | --- |
| Global buffer budget (`buffer.rs`) | one `AtomicU64`, RAII reservations | `try_reserve`, drop | a compare-and-swap loop under contention; a counter that wraps when there is no limit | behaves as one atomic test-and-add; exact |
| Session table (`session/mod.rs`, handlers in `origin.rs`) | sharded maps, active count, per session: flag, reader, reaper handle, reaper task | `upsert`, `push_uplink`, `open_download`, `remove`, reaper | requests of one id on different threads; a timer against a download; replacement of a session under its id | count exact, cap nearly kept, no reaper outlives its purpose, no session stays for ever, a full table becomes usable again |
| Uplink (`session/reorder.rs`) | next number, parked packets, counters, channel, reader | `push`, `close`, `poll_read` | an async mutex held across awaits, requests dropped at an await, close while it is held, backpressure | ordered gap-free stream, bounds, exact counters, accepted packets kept, no deadlock, end of stream reached |
| Certificates (`acme.rs`) | generation directories, `current` link, challenge map, served identity, retry delay | `prepare`, renewal loop, `issue`, `publish_certificate_pair`, HTTP-01 listener | crash or power loss between file operations, a step failing after another took effect, timeouts | published pair always complete, new pair loaded or pending, renewals pursued |
| Downlink (`session/downlink.rs`) | bounded channel | `send`, `recv` | backpressure to the target | bounded, ends with the writer |
| Origin accept loop (`origin.rs`, `net.rs`) | connection set | `serve`, shutdown | drain deadline against connections that end | every task joined, none accepted after shutdown |
| Request routing (`origin.rs`, `xhttp/`) | the body collected so far | `handle`, `classify`, padding check, payload in headers, cookies and body | limits at their boundary; a handler dropped at an await | only valid tunnel requests reach the table, with exactly the payload sent; the rest looks like the website |
| Dispatcher (`dispatcher.rs`, `xudp.rs`) | permits, gauge, association map, cipher | `serve_tcp`, `serve_udp`, `serve_xudp`, `send` | `select!` drops half-done reads; timeouts cancel a send after sealing; permits awaited by the task that could free them | permits returned, gauge exact, records in sequence, framing kept |
| VLESS codecs (`vless/`) | none / codec state | header, addons, address, Vision | input cut at any byte | same result for every cut |
| VLESS encryption (`vless/encryption/`) | ticket map, replay sets, nonces | handshake, 0-RTT, seal and open | concurrent 0-RTT with one ticket; nonce counters | a ticket and key pass once; nonces never repeat |
| TLS 1.3 (`tls/`) | handshake state, record counters, read and write buffers, identity | `accept`, `reload`, `poll_read`, `poll_write`, `poll_flush`, `poll_shutdown` | messages and records cut anywhere, a socket that takes part of a record, an identity replaced during a handshake | a flight its client can verify; exact bytes in both directions; an end that is an end |
| Lifecycle manager (`management.rs`) | installed binaries, config, unit, rollback set | install, update, rollback, edit, repair, uninstall | each step can fail, the process can stop between steps | matching pair installed, failed update undone, rollback available |
| Static site (`site.rs`) | fixed after loading | `site_response` | - | every request that is not a tunnel's gets a page |
| Configuration, metrics, logging, wiring | fixed after startup | - | - | - |

How they interact: the origin's handlers call the session table; the table owns,
per session, the uplink sink (which charges the global budget) and hands the
other ends of both channels to the dispatcher, one task per session; the download
GET takes the downlink reader and, when its body is dropped, removes the session,
which closes the uplink. The certificate manager runs beside all this and swaps
the identity that new TLS handshakes use.

## Modules

| Module | Models | Theorems |
| --- | --- | --- |
| `ByteBudget` | what the budget promises (abstract) | |
| `Totals` | the sum of a length over a set, counted unit by unit | `TotalsProofs` (lemmas) |
| `MemoryBudget` | `buffer.rs`, one step per atomic access | `MemoryBudgetProofs` |
| `SessionTable` | `session/mod.rs` and the handlers that drive it | `SessionTableProofs` |
| `UplinkStream` | what the uplink promises its reader (abstract) | |
| `Reorder` | `session/reorder.rs` | `ReorderProofs` |
| `Acme` | `acme.rs`, with startup and `Server::reload` | `AcmeProofs` |
| `Management` | `management.rs`: the commands of `rust-xhttpctl` | `ManagementProofs` |
| `Records` | operators: `vless/encryption/stream.rs` and the record cipher | |
| `Vision` | operators: `vless/vision.rs` | |
| `Wire` | one direction of a TCP session through both | |
| `Vless` | operators: header, address, addons, validator, XUDP frame | |
| `Handshake` | operators: `vless/encryption/handshake.rs` and the ticket cache | |
| `Dispatcher` | `dispatcher.rs`, the downlink, the ticket cache in use | `DispatcherProofs` |
| `Tls` | operators: ClientHello, negotiation, records | |
| `Xhttp` | operators: `xhttp/`, routing, payloads, `site_response` | |
| `Origin` | state of the origin; `serve`, the ends of a connection's task | |
| `TlsConnection` | extends `Origin`: `accept`, `reload`, `TlsStream` | |
| `Requests` | extends `TlsConnection`: the HTTP handlers | |
| `Server` | extends `Requests`: the whole origin and its properties | `ServerProofs` |

`MC*.tla` and `*.cfg` are the instances for TLC. A property is often the conjunction of
named parts, defined just before it (`Reports`, `HandshakeSound`, `WritesHonest`). Operators commented
"As X, ..." are plausible mistakes in the code X models; they are not part of
any specification and show which property would notice them.

### MemoryBudget

`used` is the shared counter, `pc`, `cur`, `want` each caller's place and locals
in `try_reserve`, `held` its reservation; `limit` is fixed when the budget is
made. `Load`, `Swap`, `Retry`, `Refuse` are the loop's accesses, `FetchAdd` the
path without a limit, `Drop` the guard's destructor. A weak compare-exchange that
fails spuriously changes nothing and needs no action. A limit of `u64::MAX` is
excluded by the assumption: there the saturating sum equals the limit and is
never refused.

`AtomicSpec` is the refinement: the program implements `ByteBudget`, in which a
grant is one step.

### SessionTable

The map entry, the count, and each session's `fully_connected`, reader, abort
handle and reaper task are variables; requests have a program counter. A step is
one access that other threads can observe: the capacity check and the insertion
are separate (the count is an atomic shared by all shards, the mutex is one
shard's), as are flag, handle and reader in `open_download`, and lock, abort and
decrement in `remove_inner`. Atomics are taken to be sequentially consistent; the
code's `Relaxed` load of the count can only read older values, which makes the
overshoot of the cap, not the accounting, worse.

`ses[g]` of an open GET is a note of the model: the handler has only the reader.
A POST whose client disconnects is dropped by hyper, which at this level is a
push that returns. `PoolRoom` bounds the number of allocations.

`CapOvershoot` is what the code keeps of the cap: the check and the increment are under
the lock of one shard, so each further shard may add one session. The documentation
promises an exact cap, which the code does not keep.

### Reorder

`pending`, `next_seq` and the rest are the fields of `State`; the channel is the
part of `sent` not yet received. Payloads are lengths. The mutex is held in the
steps of `Holding`; `Send` is enabled only while the channel has room, so a push
waits there. `Cancel` is the loss of a POST handler at an await; what it had in
hand goes with it. `Close` uses `try_lock`: while a push holds the mutex nothing
happens and the last push to leave drops the sender. Other sessions' share of
the budget is a free choice (`CanRefuse`). Overflow of the byte counter's
`checked_add` is left out: the lengths it adds are bounded by the budget.

`StreamSpec` is the refinement: the reader's stream is `UplinkStream`. The abstract
stream knows the packets that POSTs have brought and not given up (`offered`). It
delivers the packet of the next number, or passes that number over without output only
when the packet brought under it is empty; it never uses a number nobody brought. A
dropped POST withdraws its packet, and the stream then stays at that number.

### Acme

One process: `pc` is where it is in startup, the renewal loop, an issue or a
publication. The disk is the set of complete generation directories, the target
of `current`, and for each what a power loss may leave: `durable` and `onDisk`.
`sync_directory` makes both certain; syncing a file is taken to make its own
directory entry durable, as the common Linux file systems do. Staging is one step
because nobody reads a temporary directory. A certificate is its generation with
its `CertificateState`, which `Age` advances at any time. The CA is external and
may refuse at any await, which also stands for the five-minute timeout; the
publication has no await and cannot be timed out. Directories nothing refers to
any more may lend their name to the next generation, so that three or four names
are enough. `Faults` selects the rarer failures: a directory sync that fails, and
an accept error on the challenge listener.

### Management

A command is a script: `job.todo` is the list of calls it has yet to make, each
with what its failure leads to (the error is returned, the restore path runs, or
the result is discarded). `Fail` makes any call fail, before or after it took
effect, also within a restore path; `Die` ends the manager between two calls, and
the next command starts on what it left. The disk is the installed pair, the unit,
the configuration with its backups, the certificate, key and site, the rollback
set, its staging directory, and the service as systemd sees it. `Install`,
`Update`, `Rollback`, `Edit`, `Repair`, `Uninstall` and `Service` are all the
commands that change anything. A binary is its version and a downloaded pair that
passed its checks is any pair of versions, because the checksum is of the
archive. systemd is external: a restart works when the installed server accepts
the configuration.

### Records, Vision, Wire

`Wire` joins the writing and the reading half of a session: `copy_download`,
`VisionWriter`, `ProtocolWriter` with its cipher and header mask, a byte lane, and
`HeaderXor`, `EncryptedReader`, `VisionReader`, `copy_upload`. In the deployed
program the two halves face the client's; in the repository's tests, and here,
they face each other. A byte is a record of what it is (data, padding, part of a
header or a tag) and which one it is, so that `InOrder` compares bytes and not
counts. Every layer may be given its input in pieces of any size, and the lane may
break after any byte. Lengths, the number of packets Vision inspects, and the
nonce at which a cipher derives a new key are small constants, so that each limit
is reached and passed. Every record of the instance fits the length limit, as it does
in the code, where a chunk of 8192 bytes is sealed into a record half the limit. AEAD is
perfect: a record opens only with its own key and
nonce.

### Vless, Handshake, Dispatcher

`sess[s].pc` is where a session's task waits: an await of the handshake, of the
request header, for a permit, for a connection, or in one of the three serving
loops. `send[x]` is what a task has yet to put into the downlink, `chan[s].lock`
who holds the writer's mutex. The timeouts (handshake, connect, idle, of an
association) may fire at any step at which they are armed. The semaphore is a
count with tokio's FIFO queue. `Vless` gives the first error a message provokes,
or none; messages are records of the fields the decoders tell apart. In
`Handshake`, key exchange and authentication are perfect; a ticket is a model
value with its expiry and the client keys already seen. The configured users are a
sequence: the validator's map is keyed by the id without its routing hint, and of two
users with one key the later replaces the earlier. A length in the addons fits, ends
beyond the message, or wraps the 64-bit position. The last leads in a release build to a
slice that panics, which aborts the process (`panic = "abort"`, `Cargo.toml:92`) and
systemd starts it again with nothing in memory (`HeaderPanics`), or, in a field that is
skipped, back to a place already read, which the decoder then never leaves
(`HeaderSpins`). `copy_upload` is two steps, a read and a `write_all` that lasts until
the target takes the bytes, for which the code sets no timeout. Nonces are kept modulo 2,
which is enough to tell a record from the next one. A scenario fixes the server's
settings and bounds what its clients may send. Where the code returns at the first
error, the model is a chain of `IF`s: the arms of a TLA+ `CASE` have no order, and
a proof may not assume one.

### Tls, Xhttp, Origin, TlsConnection, Requests, Server

`Origin` has the state of the whole origin and its accept loop, `TlsConnection`
adds the handshake and `TlsStream`, `Requests` the handlers, and `Server` the
next-state relation, the fairness and the properties. `loop` is where `serve` is,
`task[c]` where the task of connection `c` is, as the `JoinSet` sees it; `stage[c]`
is where it is inside `serve_connection`. `tls[c]` has the fields of `TlsStream`;
`caller[c]` is what hyper was told of its writes, which is what `WritesHonest`
compares with the bytes in `wire[c]`. A record is its key, sequence
number, type and content, and opens only under the key and number the server
expects; a plaintext record sent after the server's flight is represented by one that
opens under no key, which has the same effect. hyper is external: it calls the poll functions in any order a caller may,
gives body frames of any size, and drops a handler whose client is gone. An HTTP/2 handler is a task of its own, which
hyper resets at some time after its connection (`HandlerReset`); nothing is assumed of
when. Clients send records whenever they like: more plaintext records behind the
ClientHello, application data behind the Finished or before it. `taken[c]` are the records
the handshake has read, and the `TlsStream` gets what comes after those. A request
is a record of what `handle` and the functions it calls look at. Calls into the
session table end in any of the table's answers (`Push`); what they do there is
`SessionTable`. The scenarios of `MCOrigin` open one part at a time: a product of
all parts would be large and show nothing more, since what crosses from one part
to the next (a task ended, a connection established, a payload complete) is in
every scenario.

## Runs

| Run | Instance | Shows |
| --- | --- | --- |
| `budget` | 3 callers, sizes 0 to 2, limit 3 or none, counter 0 to 4 | no overshoot, exact accounting also when the counter wraps, implements `ByteBudget` |
| `table` | 2 ids in 2 shards, 3 session objects, 1 POST, 2 GETs, cap 1 | exact count, cap exceeded by at most one session per further shard, reapers cancelled, no orphans |
| `table_live` | 2 ids in 2 shards, 2 objects, 1 POST, 1 GET, cap 1 | every session is claimed or leaves the table; a full table takes new sessions again unless downloads are open |
| `table_open` | violation | a session leaves the table while its download is open |
| `uplink` | 2 POSTs, numbers 0 to 2 (2 is `u64::MAX`), packets of 0 or 2 bytes, 2 parked ones with 2 bytes in all, channel of 1, budget of 4 bytes, cancellation, a reader that takes part of a packet | ordered stream without gaps, complete drain, bounds, counters, budget, answered packets kept until a POST is dropped in the drain; a push returns, also one that waits for room in the channel; the reader of a removed session reaches the end |
| `uplink_cancel` | violation | a POST dropped during the drain loses a packet another POST was told is accepted |
| `acme` | 3 generations, delays 1 to 3, crashes, power loss, failing listener | published pair complete, identity kept, renewal in the end |
| `acme_fsync` | violation, 4 generations | a sync that fails after the swap: the renewal is not pursued |
| `management` | 2 releases, 3 configurations (one unparsable, one only the second release takes), 3 commands in a row | what update, rollback and install report is what they left; an update stopped anywhere can be rolled back; success means a healthy installation; the configuration is replaced only by a checked one, after a backup |
| `wire` | streams of 0, 4 and 5 bytes, frames of 2, records of 3, key change every 3 records (nonces 0 to 2), 3 modes, Vision on and off | bytes in order, no failure without a fault but for an empty stream under Vision, no nonce used twice under a key, no announced content or padding cut short unnoticed, nothing held back, to the last byte |
| `dispatcher` | 4 scenarios: 2 clients and 1 permit; all kinds of session, encrypted; 3 handshakes sharing a ticket; 2 associations with channels of 1 | permits and gauge exact, entitled requests served and no others, records and datagrams in step, 0-RTT once per key and only with a live ticket, permits return when clients go, quiescence |
| `origin` | 14 scenarios, up to 3 connections | shutdown leaves no task and happens; ClientHello whole, flight verifiable, client verified; bytes written, flushed and read are exact, end of stream honest; every payload pushed as sent, none refused that is within the limits; each request routed by path, host, method and padding |

Why the bounds are enough: the races of the table are between a creator, a
remover and a reaper of one id and its replacement, and three objects allow a
replacement of a replacement. Two shards let two of the three requests pass the capacity
check together and the third find the table full. Two POSTs that create or tear down
under one id at the same time do not fit beside two GETs; the theorems about the table
cover them, with any number of requests. Two POSTs and a close cover all pairs of operations
on the uplink, since the mutex admits one at a time; two parked packets make the
drain loop go round twice and end at the last number; a budget of two packets and a
channel of one make a push wait for room while it holds the mutex. With three numbers
it is the bytes that fill the map, not the count of packets, for which `UplinkBounded` is
proved. Two generations survive a
publication, a third is being published, and with failing syncs a fourth can be
in use. Three commands are an installation, a command that is interrupted, and
the one that finds what was left. Four bytes are two frames of two; read byte
by byte they are four records, hence a key change, and a record may need two reads. One permit and two
clients make a queue; two associations of one session with one slot each make the
Mux task wait for a permit and for a channel. Records of up to 3 bytes around a
limit of 2, and ClientHellos of up to 6 around one of 5, are below, at and beyond
each limit.

Symmetry is used for session objects and requests of a kind, and for pushers, in
the runs without liveness properties. Deadlock is not checked where the system really
may stop: a removed session with its reader gone (`Reorder`), a manager that has run
its commands, a stream that has ended, clients that say nothing more, and a server
that was shut down.

### What the violations mean

* `table_open` (`session/mod.rs:261`, `origin.rs:562`): the reaper decides on a flag
  and removes later, so a download that opens in between loses its session; and the
  end of a GET removes by id, without saying which session was meant, so a session
  torn down by an overflow and opened again under its id is removed by the first GET's
  end.
* `uplink_cancel` (`reorder.rs:174`): a parked packet lives only in the future of
  the POST that drains it. The session stalls until it is closed.
* `acme_fsync` (`acme.rs:472`): an error after the link was swapped is treated as
  if nothing had happened. The server goes on with the old certificate and does
  not look again before the new one is due.

### What the passing runs make visible

These are modelled as the code does them; where a property is conditional, the
condition is the name given.

* `docs/configuration.md:391` calls `maxSessions` the "Global live XHTTP session cap", and
  `session/mod.rs:122` has push_uplink return `None` "if the global session cap is hit". The
  check (`mod.rs:213`) and the increment (`mod.rs:237`) are under the lock of one shard, so
  requests of different shards pass the check together and the table holds more sessions
  than that: two under a cap of one in the `table` run. `CapOvershoot` says by how much.
* `docs/static-fallback.md:10-15` lets a request enter XHTTP only when path, host and padding
  match, and gives other methods 405 without response padding. An OPTIONS for the base path
  is answered with 200 and padding before its padding is looked at (`origin.rs:188-192`); the
  test at `origin.rs:757-771` expects that answer, and `Routing` states it.
* The HTTP-01 listener ends at its first accept error and is never started again
  (`~listener` in `EventuallyReplaced`).
* `VisionWriter::encode` splits a read larger than a frame into chunks and frames
  those after the chunk that carried the END command too (`vision.rs:266-288`); the
  reader takes them for raw data (`reframed` in the properties of `Wire`).
* A `VisionReader` at the end of its input in the middle of a frame header reports a
  clean end (`vision.rs:137-139`); `EndHonest` speaks of announced content and padding.
* A target that closes without a byte leaves Vision's peer an error: the prefix goes with
  the first frame, none is made, and an end before the prefix counts as truncated
  (`vision.rs:110-114`, `data = <<>>` in `EndHonest`).
* Of two users whose ids differ in the routing hint only, the last counts
  (`validator.rs:43`); `config.rs` does not refuse such a list.
* Vision with UDP or Mux is refused only after the response was sent
  (`dispatcher.rs:180-187`).
* A length in the addons that wraps the position ends the process or keeps a worker thread
  (`addons.rs:44`, `addons.rs:64`). After the second, `Released` and `Quiesces` promise
  nothing (`Stalled`).
* `serve_udp` reads a datagram inside `select!`; a packet from the target drops the
  half-done read and the next one starts inside the datagram
  (`dispatcher.rs:285-290`, `torn`).
* An association whose idle time ends within `ProtocolWriter::send` loses a record the
  cipher has already counted (`dispatcher.rs:432`, `cut`); what other tasks of that
  session send afterwards cannot be opened.
* A packet for an association that ended by its idle time ends the whole Mux session
  (`dispatcher.rs:361`).
* A TCP session whose client is gone keeps its permit as long as its target likes: while
  the target does not take the last bytes (`write` in `Released`, `dispatcher.rs:584`), and
  after the client's end of file until the target says something (`half`). Also, `spawn_association` resolves its target without a timeout (line 480).
* A configured ticket lifetime whose `from` exceeds its `to` parses, and the first
  ticket then panics (`handshake.rs:264`); `ParseEncryption` keeps what the parser
  accepts, and the instances use ordered ranges.
* HTTP/2 handlers run in detached tasks (`origin.rs:153`): `NoneLeft` is about the
  connections' tasks, and a detached download may hold its session after `serve` has
  returned. Idle keep-alive connections have no limit, so a drain may last to
  its deadline.
* The end of a TCP stream between two TLS records counts as an end of stream, with or
  without a close_notify; inside a record it is an error (`ReadsHonest`).
* From `backup_config` on (`management.rs:311-321`), a failing install leaves the new files
  in place: `InstallReports` is about the failures before, which restore what they replaced.
* `Recoverable` is about a manager that dies, not about power loss: no directory is synced
  after the renames at `management.rs:1328` and `1386`.
* `site_response` answers 304 to a matching etag whatever the method.

## Fairness

* `SessionTable`: threads run and timers fire; strong fairness where a shard's
  mutex is needed, because it is held for a few instructions only. Clients
  promise nothing.
* `Reorder`: a push that can run is polled again, tokio's mutex is first come
  first served (strong fairness of a push), and the protocol task keeps reading
  or goes away. The last is an assumption about the target, which the code does
  not bound.
* `Acme`: the process runs, its timers fire, and from some time on the CA, the
  disk and the reload work. Failures the program causes itself (waiting for a
  challenge that nobody answers) are not excluded.
* `Wire`: a task that can go on is polled. The target need not send.
* `Dispatcher`: tokio polls every task that can go on, and armed timers count as
  something a task can go on with. Clients and targets promise nothing; `Quiesces`
  starts from the moment they are silent.
* `Server`: the backoff and the drain deadline end, and tasks that can run do; nothing is
  assumed of clients, accept or handshakes. Strong fairness for the shutdown
  branch only, because `select!` polls its branches in random order and `accept` may
  be ready every time.
* `Management` has no liveness: an operator may always walk away.

## Proofs

All proofs are checked by TLAPS, for all values of the constants that satisfy the
named assumptions. They ask for finite sets, positive bounds and a limit below
`u64::MAX`; `DispatcherAssumption` and `OriginAssumption` also say what a scenario
is (the fields of its messages, lengths that are naturals, at least one permit and
no more of them than the model has slots for associations; which records belong to a
handshake, the characters padding is made of), and restrict clients in nothing but that.
`ManagementAssumption` says which configurations parse and which of them suit a release,
that "nothing" and "an empty file" are none of the contents, and that the number of
commands is a natural.

The budget and the uplink count bytes, and a sum over a set is defined by induction,
which the provers cannot use. `Totals` therefore counts units: `Total(f, S)` is the
number of pairs `<<x, k>>` with `x` in `S` and `k` in `1 .. f[x]`, and the lemmas of
`TotalsProofs` (what one element more, one less or one replaced does to a total)
follow from the library's theorems on cardinalities.

**Budget.** `BudgetTypeCorrect`, `BudgetIsAtomic`, `BudgetExactAccounting`. The invariant
`BudgetInv` adds that only a live caller holds bytes and that a caller in the loop
asks for a payload size. The refinement rests on `SatAddExact`: below the limit the
saturating sum is the plain one. Exactness is that a successful swap and a drop
change the counter and the total by the same amount, modulo the counter's width.

**Session table.** `TableTypeCorrect`, `TableActiveAccounting`, `TableCapOvershoot` come from
one inductive invariant `TableInv`. The count needs that a key about to be inserted
is free (`KeyVacant`), which needs that creations own their shard
(`ShardExclusive`), and that a removed session is the one its id says (`Named`).
The cap needs `CapBound`: sessions counted plus creations under way. A creation
enters only with the count below the cap and its shard not among those of the
others, so there are at most as many creations as shards. `TableReaperCancelled` needs
in addition (`ReaperInv`) that a sleeping reaper's handle is there for whoever looks, or
about to be (`Published`), and that a creator whose second look came before a download
opened leaves the reaper to that GET (`LeftToGet`). `TableNoOrphan` (`OwnerInv`) needs that
a reaper is aborted only when its session was claimed or is gone (`AbortJustified`), and
that a listed session that was claimed, or whose reader was taken, has somebody to
remove it (`Claimed`).

**Uplink.** `UplinkTypeCorrect`, `UplinkDrainComplete`, `UplinkIsOrdered`, from `UplinkInv`:
the mutex is exclusive, its holder sends the packet that is next, outside the
drain loop the next packet is not parked, and the reader's end of stream is
final. In the refinement the packets offered are those in a push's arguments or hand and
those parked, so a number is left only with the packet that a push holds under it. `UplinkBounded` and the counters in `UplinkAccounted` rest on `MapStep`: only a
push that parks and a drain that takes the next packet change the map of an open
uplink. `UplinkAckedKept` needs that what a push drains comes after its own packet
(`Behind`); the budget in `UplinkAccounted` that a push has bytes in hand only while it
sends and the chunk being read was received (`HandEmpty`), so that every byte is
counted at one place and moves between places without being counted twice.

**Certificates.** `AcmeTypeCorrect`, `AcmeCurrentComplete`, from `AcmeInv`: whatever a power
loss may put back into `current` is durable, and each step of the publication knows
how far its generation has come. Completeness alone is not inductive, since a
power loss chooses among the targets in `onDisk`. The proofs do not restrict
`Faults`. `AcmeIdentityKept` follows, by cases on the steps that load a pair.

**Dispatcher.** `DispatcherTypeOK`, `DispatcherPermitsExact`, `DispatcherFramingKept`,
`DispatcherAccessExact`, `DispatcherTicketsSound`, from one invariant `Safe`:

* `Places`, `Owned`: what a task's place says about its locals, and which session owns
  an association. Without them neither a permit nor a sender of a channel can be told
  to belong to one task.
* `Queued`: the semaphore's queue holds waiting sessions, each once; a permit handed to
  the head of the queue goes to a task that had none. Types need `PermitsExact`: a
  session that got a permit finds a slot only because holders are at most as many as
  permits (`SlotLeft`).
* `Locked`, `Numbered`: a sealed record belongs to the holder of the writer's lock, and
  until a send was cut the cipher is exactly that record ahead of what the client got.
* `Aligned`: a datagram is read at its boundary unless a read was dropped by `select!`.
* `Remembered`: what was accepted is in the replay set of its ticket as long as the
  ticket is cached, and a ticket that left the cache is not issued again. A handshake
  between the look at the clock and the lookup still carries a ticket that had time.
* `Admitted`: a served session's request was accepted. That the chain of decoders
  accepts what `Entitled` says, and that the commands it lets through and the step after
  the response come to exactly that, for any addons and any users, is a lemma about
  the operators of `Vless`; the least index at which a list of errors has one is taken
  from `WellFoundedInduction`.

**Server.** `ServerNoneLeft`: `serve` returns only when no task is left to join, and a
task begins only at the top of its loop (`Serves`). `ServerHandshakeSound`, from `Shaking`,
stated for each connection: while the ClientHello is gathered, the bytes counted are
those of the pieces the handshake has read (`Gathering`), so the hello is whole when its length is reached, however it was cut
(`Whole`), and a plaintext record that comes later ends the handshake instead of adding to
it; the cipher and the identity loaded lead to a flight that fits the hello
(`Chosen`, `Flown`); the stream begins only with a good Finished (`Proved`). The identity
may be replaced at any step: the flight's certificate and signer come from one load.
`ServerUploadsExact`, from `Handled`: at each await of a handler, what it has collected is
the header part, the cookie part and the frames so far, in that order, and a request
that is proper is never answered 400 or 413.

`ServerRouting`, from `Branched`: a request stays on the branch it was classified to, and
what that branch answers was fixed when it was chosen. Padding is measured by a recursive
function; that it equals the closed form of `Routing`, the text's length less two for each
escape, is shown on the last position at which the two would differ (`DecodesUnique`,
with `WellFoundedInduction`).

`ServerWritesHonest`, from `Written`: what the socket has taken followed by what waits in
the buffer is one `RecordStream`, the write keys are at its next record, and what was
flushed is within the part that was taken (`Writer`). Every poll function is a sequence of
two moves: bytes go from the buffer to the socket, which leaves the concatenation as it
is (`MovesOn`), or one record is sealed into an empty buffer, which appends it (`Sealed`).

`ServerReadsHonest`, from `Connected`, which is `Shaking`, `Written` and `Reading` together: what
the handshake has read are the client's first records (`Begins`, which also gives
`TakenInOrder` of `ServerHandshakeSound`), and `Rest` are those after them. While hyper reads, the
bytes buffered followed by those on their way are the bytes of `Rest` from the record
the read keys are at (`Flow`), all of them unless the client is gone; and what hyper has read
followed by the plaintext that waits is the data of the records before (`DataOf`). Neither
is inductive alone: the next record is known only because the keys count the records whose
data was taken. A sequence made of pieces is described by where each piece begins
(`Laid`, `Offset`), so that cutting the end, appending a piece and dropping the first
are arithmetic and no induction along the bytes is needed; a handshake that takes a record
shifts all offsets by one piece (`TotalShift`). Before the stream begins, what is on its way
are the bytes of `Rest`, however many records the client has sent ahead (`Unread`), which is why
the `TlsStream` starts with empty buffers and misses nothing.

**Manager.** `ManagerTypeOK`, `ManagerReports`, `ManagerRecoverable`, `ManagerConfigReplaced`. A
command's place is how many calls of its script are left. The invariant says, for each
command on its way forth and on its way back, what every place promises of the pair, the
configuration, the rollback set and the service; a frame lemma per call says what the call
leaves alone. `Recoverable` alone is not inductive: that a pair is left when the binaries
are being replaced follows from the set that was staged several calls before, and that an
undo puts it back from its place in the restore path. Failures are allowed at every call,
in the restore path too, and a command may be stopped between any two.

Model-checked only:

* liveness (`EventuallyClaimedOrRemoved`, `CapacityReturns`, `NobodyStuck`,
  `EventuallyReplaced`, `Released`, `Quiesces`, `ShutsDown`, `Flushed`), because TLAPS has no fairness;
* `InOrder`, `EndHonest` and `NonceFresh` of `Wire`: `HeaderXor` of `Records` and
  `Encode` of `Vision` are recursive functions over their input, so that what one step puts
  on the wire, and the sizes of the frames it seals, are defined by induction over data.

Type correctness is proved and not run for the budget, the table, the uplink and the
certificates.

## Plan

What remains to be proved is `Wire`. `NonceFresh` comes first: the pairs of key and nonce
under which records were sealed lie below the cipher's position. `InOrder` would need the
folds of `Records` and `Vision` restated by offsets, as the reader of `TlsStream` was for
`ServerReadsHonest`.

## Not modelled

* Cryptography, key schedules and byte encodings: taken as perfect, since a state
  machine adds nothing to them. `kdf.rs` and the encoders of handshake messages are
  part of this.
* `config.rs`: one document is parsed and validated before anything runs; its limits are
  the constants of the modules. Only the encryption settings, whose parser decides which
  handshakes exist, are modelled.
* `site.rs` beyond `site_response`: loading a directory and generating pages happen
  once, before the listener is bound.
* `net.rs`, logging, and all counters but the active one: options set once, or state
  that nobody reads back.
* hyper, tokio, the file system, systemd and the ACME protocol: external, modelled by
  what the code relies on.
* Two managers at once: the code takes no lock, and the documentation promises nothing.
* The product of `SessionTable`, `Reorder` and `Dispatcher` for one session: each has the
  others' ends of its channels as free choices (a receiver that leaves, a reader that
  stops), which allows more than the product does.
