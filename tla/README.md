# A TLA+ model of the OrcaNet node

OrcaNet (`src/bin/orca_node`) is a peer-to-peer file sharing and HTTP proxy node in Rust: libp2p for
the network, tokio tasks and zero-capacity channels inside, SQLite and a JSON file for what it keeps,
bitcoind for payments.  This directory holds a specification of its concurrent core, the TLC runs
that check it on small instances, and TLAPS proofs of its main invariants for every instance.

Run a configuration with `tlc -config <run>.cfg <module>`, and the proofs with
`tlapm <Component>Proofs.tla`.  `PROJECT.json` maps every definition to the lines it models.

## 1. The system

### Components, state, operations

| Component | State it keeps | Operations |
|---|---|---|
| `NetworkEventLoop` (`network/event_loop.rs`) | the swarm; `pending_dial`, `pending_start_providing`, `pending_get_providers`, `pending_request`, `pending_put_kv`, `pending_get_value`, stream requests: tables of oneshot senders | `select!` between a swarm event (`handle_event`), an inbound stream (`handle_stream_req`) and a command (`handle_command`) |
| `NetworkClient` (`network/network_client.rs`) | a sender of the command channel, cloned by every task | one method per command: send it, await its oneshot |
| `RequestHandlerLoop` (`request_handler.rs`) | the sender of the proxy task, if any | serves the requests of peers and the local events ProvideFile, StopProvidingFile, StartProxy, StopProxy |
| File endpoints, provided files (`file_endpoints.rs`, `db/`) | table `provided_files`: id (hash), unique path, status | provide, stop, resume, advertise, list |
| Download (`file_endpoints.rs` 170-215, `network_client.rs` 103-150, `utils.rs` 170-257) | table `downloaded_files`, the disk, the wallet | ask one peer or one after the other; write, pay, record |
| Proxy endpoints and server (`proxy_endpoints.rs`, `proxy/http_proxy.rs`) | proxy mode in the configuration file, the listener on port 3000 | connect, start provider, start client, stop; serve connections |
| Proxy handlers and tunnel (`proxy/proxy_handlers.rs`) | session, bytes counted per client | authorise, forward, CONNECT, copy both ways |
| Proxy payment (`proxy/proxy_payment.rs`, `request_handler.rs` 292-466) | tables `proxy_sessions`, `proxy_clients`, `payments` | prepayment request, transaction, notification |
| Configuration (`common/config.rs`) | a JSON file overwritten in place | read, modify |
| Command line and start-up (`cli_handlers/`) | none | line commands; spawn the tasks, restart the configured proxy |
| Utilities, messages, database | - | hashing, rounding, reading a header, handling a download |
| Bitcoin RPC, wallet endpoints, HTTP server, setup, boot node, relay server | outside the node's own logic | - |

### How they interact

- Every task calls `NetworkClient`: a command through `mpsc::channel(0)`, its answer through a
  oneshot whose sender sits in one of the loop's tables.
- The network loop, the HTTP endpoints, the command line and the start-up code send `OrcaNetEvent`s to
  the request handler through another `mpsc::channel(0)`.  `send(..).await` returns when the receiver
  has popped the message, or has been dropped.
- The request handler is itself a caller of `NetworkClient`: it awaits `respond`, `start_providing`
  and `stop_providing` while it serves an event.
- `resume_providing` and `advertise_provided_files` read or change the table and send commands from their
  own tasks, past the request handler; the command line's `startproviding` sends the command and leaves
  the table alone.
- The proxy task receives StopProxy from the request handler; the endpoints look at the configuration
  file, which the request handler writes.

### What is hard about it

Two tasks that await each other over zero-capacity channels; oneshot senders that must be answered on
every path; `expect`s that end a task other tasks rely on; streams awaited inside the loop that has to
drive them; table, provider record, configuration file and running task, which are to agree and are
changed one after the other; a restart that keeps half of them; money that is sent in the middle of a
sequence of steps that fail one by one, to a peer that may never hear of it.  `PROJECT.json` lists these hazards at their lines.

### What makes each component correct

- Network loop: every waiting call has its sender in a table, and is answered or released; the
  `expect`s on the tables hold; the two loops do not wait for each other.
- Request handler: every event is served once.
- Files: what is advertised is provided, what is provided is advertised, before and after a restart.
- Proxy: configuration, handler and provider record agree; a proxy that serves can be stopped; every
  endpoint gets its answer; a stopped proxy gives up its port; a reader of the configuration file that
  meets half a file takes nothing else with it.
- Payment: a payment is made and accounted at most once, whatever is lost; the wallet, the session and
  the provider never disagree in the wrong direction; an attempt ends, unless its loop does.
- Tunnel: what passes it is authorised, whole and in order; it arrives while both sides are open; the
  tunnel ends when either side does.
- Download: money is sent at most once; a failure costs nothing; a payment is on record; success means
  that the file is there.

## 2. The modules

### NodeLoops (`MCNodeLoops`, `NodeLoopsProofs`)

The two loops and the two channels.  A call of a `NetworkClient` method goes
`idle -> sending -> waiting -> done | panicked` (`st`); its command is in `cmdQ` while it is `sending`.
`dialing` is `pending_dial`, `pending` the union of the other tables, and `inflight` says whose
operation the swarm or a peer has yet to report on.  The network loop (`net`) is in `select!`, parked
on the event channel (`forward`), awaiting the handler's answer to a stream request (`await`), `stuck`
in an await of its own that only it could bring to an end, or `dead`; `why` is the `expect` or `todo!`
that ended it.  It is stuck after `open_stream` to a peer whose connection is gone (`connLost`: the new
dial needs the swarm, which this loop polls) and in `read_to_end` of a stream its peer does not close
(`neverEnds`).  The handler (`hpc`) waits for an event, for
its command to be taken, or for its oneshot (`confirm`).

One action per command (`Cmd...`), per event of the swarm (`DialOutcome`, `RequestOutcome`,
`ProvidingStarted`, ...), per arm that only logs (`ProvidingFailed`, `NoProvidersFound`), per kind of
event the handler serves (`Take...`), and per consequence of a death (`Abandoned`, `HandlerAbandoned`,
`ForwardReleased`, `AwaitDropped`).  The environment's failures are the set `Faults`, so that a run
says which it admits.

Payloads are left out: a call is directed at a peer, and that is all the loop's decisions depend on.
Every `pending_*` table but `pending_dial` has a fresh key for each operation (query id, request id),
hence one set.

### FileProviding (`FileProvidingProofs`)

The table (`rowPath`, `active`), the records in the Kademlia store (`dht`), the tasks of endpoints and
command line, the handler's two steps (update the table, send the command), the command channel, the
network loop (`net`) as its callers see it.  There are six operations: provide, stop, remove, resume,
advertise, and the command line's `startproviding` of any key (`StartKey`), which puts a record whether
there is a row or not.

`Faults` says what may go wrong.  `db`: a statement of the handler fails, the table cannot be read by
`advertise_provided_files`, which logs it and starts nothing (`TableUnread`), or the database cannot be
opened, which panics the handler (`HandlerDies`).  `stop`: the network loop waits for ever in one event.
`death`: it panics, the store and the channel with it; its callers panic on their `expect`s, except
that a parked `stop_providing` is released.  `forget`: a query of `start_providing` fails, and its
caller is never told.  A panic in the command line ends the process, which is a `Restart`.  `Restart`
keeps the table, and nothing else: the records are taken to run out before the node is back.

Two variables are histories.  `astray` are the files whose record may be left without an active row,
because a key was typed, or because the handler began to withdraw the record while a start past it was
under way; a later stop with no start under way takes a file out again.  `leftOut` are the active files
whose record may be withdrawn: those the database refused to stop, and those resumed during a withdrawal;
the next start takes a file out.

### ProxyLifecycle (`MCProxyLifecycle`, `ProxyLifecycleProofs`)

The configuration file (`config`), the active sessions (`known`), the endpoints from their check to
their event, the handler's steps for StartProxy and StopProxy with its awaits in between, one proxy
task for each start (`pst`: starting, listening, stopping, ended, panicked), the provider record,
restarts.  `Boot` is `start_orca_node`, which restarts the configured proxy while the HTTP server is
already up.  `fs::write` truncates the file before it writes it: in between (`TruncateConfig`) the file
is `Torn`, and every reader unwraps.  An endpoint that reads it then panics alone, `start_orca_node`
takes the process with it (`BootPanics`), and a crash at that point leaves a node that does not start
again (`hpc` is `down`).

StartProxy spawns the proxy and then awaits `start_providing` (`provide`, `confirm`); StopProxy awaits
`stop_providing` (`withdraw`, `withdrawSent`).  The network loop (`net`) may stop for good, die, or
forget the query (`forgotten`), as in FileProviding; the `expect`s of the two calls, of
`modify_config_with_kv_pair` (`WriteFails`) and of opening the database for another event
(`HandlerDies`) panic the handler.  It is then `killed`, apart from `dead`, which is StopProxy's own
`expect` on the configured mode.  A proxy task whose sender is dropped goes on serving, since
`start_http_proxy` matches on the received event and goes round.  A user who types the proxy's own key
after `startproviding` is not modelled.

### Tunnel (`MCTunnel`, `TunnelProofs`)

One CONNECT request on its way from an application through `ProxyClient` and `ProxyProvider` to an
origin, and the tunnel it opens.  Each of the three TCP connections is two links with a buffer (`q`);
`wr` and `rd` say which ends of them are open, so that a half-closed and a dropped connection are
different things.  `pc` is where each proxy's handler is; `hold` is the chunk its copy loop has read
and not yet written: `write_all` is awaited inside the loop, so while `hold` is set the loop reads
neither side.  Bytes are numbered chunks, and the head of the provider's response is its status, above all chunks.  The
read of `read_stream_to_end` takes the head and any chunks behind it (`ReadHead`); at the end of the
stream it goes round for ever, which is no step.  TCP and the endpoints are external: a socket
dropped with unread data resets the connection, and any part of what it had written may be lost.
The origin either answers chunk by chunk (`turns`) or speaks when it likes (`free`).  The two
`shutdown()` calls of the copy loop build a future and drop it, and so have no effect.  `Leave` is of a
party that is in the tunnel; an application that leaves before its answer makes hyper drop the handler
of its connection, which the other parties see as `Dies("C")`, and nothing has been sent by then.

### ProxyPayment, PaymentLedger (`ProxyPaymentProofs`)

The payment loop of each client of one provider (`cpc`: one state per step of `process_payment`), what
the two tables say (`cKb`, `cSent`; `pKb`, `pRecv`), the provider's rows of `payments` (`row`), and the
wallet (`paid` by reference, `spent` by client).  `wire` is the request a client waits for, or its answer; a request the client has
given up on goes to `late`, and may be handled at any later time or never.  Every statement on a table
can fail (`DbErrors`), on both sides, and the client's process can end at any point (`Crash`; an answer
of bitcoind that is lost has the same effect).  The loop alone can end as well (`LoopHalts`): a
`send_request` may panic on its `expect` or wait for ever, and there is then no next tick (`halted`)
until the node is restarted.  Fees are in satoshi at a fractional rate, rounded as the
code does; `FarFrom` is the percent difference with its threshold.

Three things follow the code although they may surprise: a claim that is far off is accepted, but its
reference gets no row, so that the later notification is refused; the two rejections are unreachable,
because all three thresholds are 300 (`config.rs`); the client pays what the provider names, although
`docs/BackendHLD.md:96` says that the client verifies the server's values.  Nothing spawns the loop at
present (`http_proxy.rs:49`), and the provider's calls of `update_data_transfer_info` are commented out
(`proxy_handlers.rs` 172-176, 224-227): behaviours in which `ProviderCounts` never happens are those
of today's code.  One loop per session is assumed: with the spawn as it stands in the comment, a stop,
which does not cancel its token, and a new start would leave two.  The two meters are independent on purpose, since no code ties them together.

`PaymentLedger` is what all this comes to: money is sent for a reference at most once; a reference is
reported at most once, after its money has been sent; a report credits the payer with exactly what it
has paid, or with nothing.  `ImplementsLedger` maps `reported` to the rows that are pending and
`balance` to `pRecv`.

### Download (`MCDownload`, `DownloadProofs`)

Downloads of one file, by the endpoint (`Http`: one peer, a path of the user's) and the command line
(`Cli`: the providers one after the other).  `tst` is where each is: asking, writing, paying, recording;
`disk`, `sends` and `rows` are what it leaves.  Each step may fail and the next is taken all the same.
A write can leave a part of the file; bitcoind can have sent the money although its answer is lost; a
peer can have changed the file, or its mind.  A broken stream ends the task of the endpoint, and so does
a payment or a row that needs the configuration, the wallet or the database and panics (`Panics`), after
the file was written and perhaps paid; for the command line the same ends the process (`Restart`).
`unlogged` is the history of the downloads whose money was sent and whose transaction id or row was lost.
The path of the endpoint is a string of JSON, so that `path.to_str().unwrap()` does not fail.

### How they fit together

The modules share the request handler and the command channel.  NodeLoops has the channels in full and
abstracts what an event does; FileProviding and ProxyLifecycle have what it does, and take from NodeLoops
how a call of the network loop ends: it is performed when the loop pops it, it panics when the loop is
dead, and it waits for ever when the loop is stopped (the wait cycle, a stuck stream) or has forgotten
the query.  The three are faults that can happen in any state, of which NodeLoops shows when they do.
ProxyPayment and Download are about two nodes: a request ends in an answer, an error, a panic of the
caller or never, which is `LoopHalts` in the one and a download that stays `asking` in the other.

## 3. The runs

| Run | Result | What it shows |
|---|---|---|
| `loops_safety` | pass | all nine methods, all twelve faults: each waiting call has its sender in exactly one table (unless the loop is stuck with it), each event is in one place, the loop's `expect`s on its tables hold |
| `loops_live` | pass | the wait cycle, a stream the loop is stuck in and a sender left in its table are the only ways for an event or a call to hang; the death of the network loop releases everybody |
| `loops_two_requests` | violation | the wait cycle: the handler awaits `respond` of one request, the loop awaits the handler for the next |
| `files` | pass | all six operations, a database that fails, a network loop that stops, dies or forgets a query, a restart: an advertised file is active or about to be withdrawn, unless it went astray; an active file gets advertised while the network loop runs, unless it was left out; an `advertise_provided_files` that gets through the rows it has read has restored every record |
| `files_resume_race` | violation | a stop between the two steps of `resume_providing` leaves a stopped file advertised for good |
| `proxy` | pass | between two events the file names the proxy the handler has started, whether its task serves, was refused or panicked, and the provider record agrees with the file; a handler that has not panicked has not lost a proxy that serves; endpoints return, whoever reads the file while it is written, unless the network loop has left the handler waiting; a stop makes a provider free its port, and a client reach its clean-up |
| `proxy_client_stop` | violation | `clean_up` of a client awaits a cancellation nobody issues; the next proxy fails to bind |
| `proxy_two_stops` | violation | two stops that both saw a configured proxy: the second ends the request handler |
| `tunnel` | pass | what passes the tunnel is authorised and in order; it arrives and the tunnel ends, unless two writers wait for each other or the client spins on a missing head; an origin's last answers are not lost |
| `payment` | pass | the protocol implements the ledger; provider's balance <= session's sum <= what has left the wallet; what a client has paid and been told is credited is within what the provider has metered; every attempt ends, unless the loop has panicked or waits for ever |
| `download` | pass | money is sent once; a download that reports an error has cost nothing, and one that ends in a panic or with the process has cost something only between payment and row; money that was sent is on record, unless bitcoind's answer or the row was lost |
| `download_success` | violation | a peer answers NotAProvider, no other is asked, and the download reports success with nothing on the disk |

The violations state what a doc, an `expect` or a comment of the repository says; the `findings` of
`PROJECT.json` quote it.  Behaviour the passing properties name without a run of its own:

- `Forgotten` in `ReturnsUnlessForgotten`: `get_providers` for a key nobody provides, a failed
  `start_providing` query, and a stream request the peer never answers leave the caller waiting, the
  last although `docs/BackendHLD.md:38` speaks of a timeout.
- `WaitCycle` arises from a local ProvideFile and an inbound request too, not only from two requests.
- The requester's disconnection before its response (`event_loop.rs:447`) and a full record store
  (`event_loop.rs:404`) end the network loop; `NetDeathReleasesAll` says what follows.
- `WriteCycle` in `BothWaysDeliver`: the two proxies, or the provider and an origin that answers as it
  reads, both in `write_all` towards each other with full buffers; neither reads again, although
  `docs/HTTPConnect.md` says that everything proceeds "as it would through any TCP connection".
- `Spinning` in `CloseEndsBoth`: the provider goes down before it has sent the head of its response.
- `DownstreamFaithful` excepts the beginning of what an origin says first, which may be read with the
  head and dropped; `OriginCloseDrains` excepts an application that still has data under way, because
  closing on unread data resets the connection.
- `Stalled` in the liveness properties of the loops: a connection lost between the dial and `open_stream`,
  or a peer that does not close its stream, stops the whole node.
- Two dials of one peer reach `todo!("Already dialing peer.")` (`event_loop.rs:394`) and end the loop;
  `WaiterAccounted` shows that no sender is overwritten, `NetDeathReleasesAll` what follows.
- A lost notification, or a table that fails after the money was sent, makes a client pay again
  (`SettledWithinMeter` bounds only what has been settled, and `AccountsInStep` goes one way).
- `download_success` fails as well for a file that was edited after it was provided, for a write that
  failed, and for a path that another download has written to since it was checked.
- `astray` in `AdvertisedIsActive`: a key typed at the command line has no row; a stop between the two
  steps of `resume_providing`, or before an advertise has reached the file, is undone by the start.
- `leftOut` in `ActiveGetsAdvertised` and `AdvertiseRestores`: the handler logs a statement that fails
  and withdraws the record all the same.
- `TableUnread`: `advertise_provided_files` returns without an error although it has started nothing.
- `HandlerHalted` in `EndpointsReturn`: the handler stays in `start_providing` of a proxy, which serves
  and cannot be stopped, and every later event waits.
- `killed` in `ProxyReachable`: a handler that panics between the spawn and the file, or in any other
  event, leaves a proxy that serves until the process ends.
- `halted` in `AttemptEnds`, and `unlogged` in `FailureCostsNothing` and `PaymentOnRecord`: a panic after the
  money was sent leaves no row, and the endpoint answers with an error.

### Bounds

- Loops: two calls (two of one peer, two of different commands), one peer (so that calls collide in
  `pending_dial`), one or two requests of each protocol (the cycle needs two requests, or one and a
  local event), one local event.  A call, a request or a local event is used once; the tasks are
  independent, so a longer history repeats these interleavings, and the safety properties are proved
  for any numbers.
- Files: two files and two paths (a second file can be refused for its path), three tasks (provide, stop
  and resume of one file; provide, restart and advertise with one more in between), one restart, all
  faults at any time.
- Proxy: two requests beside the start-up's own (stop and start around a proxy that is still cleaning
  up; two stops; two starts), three in the violations; two sessions (the command line's and another);
  one restart; all faults in the passing run.
- Tunnel: a buffer of one chunk (`Cap`) beside the head, four chunks from the application (`N`: the cycle
  of provider and origin needs four), two from an origin that speaks freely (`NFree`: the cycle of the
  two proxies needs two each way).  Larger buffers need proportionally more chunks for the same cycles.
  The table has an active row for the token or none: no code writes the other statuses.

- Payment: two clients and two references (two payments of one client, or one of each, in any order),
  counts of 0 or 5 kB on the client's side and of 0, 1 or 3 on the provider's, at 3/2 satoshi per kB: fees that
  are rounded both ways, a provider that has counted nothing, claims within and beyond the threshold of 300.
  With the references used up the provider answers no more prepayment requests but with errors.
- Download: one of each kind, two peers (so that there is a next one to ask), one path of the user's, one
  restart.

`Restarts` bounds the restarts, `N` and `NFree` the chunks, `ClientKbs` and `ProviderKbs` the data counted,
`Refs` the payments; no other counter is unbounded.  Runs say `CHECK_DEADLOCK FALSE`
because calls, requests and tasks are used once: when all are used up the node rests.  Whether it
rests too early is what the liveness properties ask.

Symmetry is used in runs of invariants only.

### Fairness

`FairSpec` is weak fairness of the tasks that have begun: the network loop handles a queued command
when it is in `select!`, the handler goes on, a caller whose oneshot is answered goes on.  The tokio
runtime is multi-threaded and polls every task that is woken; `select!` chooses at random among ready
branches.  Each dial, query and request of libp2p ends with an event, so `DialOutcome` and `ReportOn`
are fair; a peer's answer in a stream of its own is not owed by anyone, which is the fault
`noResponse`.  In Tunnel the two branches of the copy loop's `select!` are strongly fair, since either
is ready again and again and the order of polling is random; the endpoints go on reading, and an
origin that owes an answer writes it.  In FileProviding and ProxyLifecycle the steps of the network loop
are fair, and enabled only while it is up: that it stops, dies or forgets a query is a fault, and the
properties say what then may not come.  In ProxyPayment only the client's loop is fair: a request-response
request ends in an answer or, after libp2p's timeout, in an error (`GiveUp`), unless the loop halts first,
and the provider owes nothing.  Arrivals, calls, traffic, edits of files, faults, crashes and restarts are under no fairness.

## 4. The proofs

| Theorem | Statement |
|---|---|
| `NodeLoopsProofs!TypeCorrect` | `Spec => []TypeOK` |
| `NodeLoopsProofs!WaitersAccounted` | `Spec => []WaiterAccounted` |
| `NodeLoopsProofs!EventsAccounted` | `Spec => []EventAccounted` |
| `NodeLoopsProofs!PendingExpectsHold` | `Spec => []StillPending` |
| `FileProvidingProofs!FilesTypeCorrect` | `Spec => []TypeOK` |
| `FileProvidingProofs!AdvertisedRecordsActive` | `Spec => []AdvertisedIsActive` |
| `FileProvidingProofs!AdvertisingRestores` | `Spec => AdvertiseRestores`, an action property |
| `ProxyLifecycleProofs!ProxyTypeCorrect` | `Spec => []TypeOK` |
| `ProxyLifecycleProofs!ConfigTracks` | `Spec => []ConfigTracksSender` |
| `ProxyLifecycleProofs!RecordTracks` | `Spec => []RecordTracksConfig` |
| `ProxyLifecycleProofs!ProxiesReachable` | `Spec => []ProxyReachable` |
| `ProxyPaymentProofs!PaymentTypeCorrect` | `Spec => []TypeOK` |
| `ProxyPaymentProofs!SettledIsMetered` | `Spec => []SettledWithinMeter` |
| `ProxyPaymentProofs!AccountsStayInStep` | `Spec => []AccountsInStep` |
| `ProxyPaymentProofs!PaymentsImplementLedger` | `Spec => ImplementsLedger`, the refinement of PaymentLedger |
| `DownloadProofs!DownloadTypeCorrect` | `Spec => []TypeOK` |
| `DownloadProofs!DownloadPaysOnce` | `Spec => []PaysOnce` |
| `DownloadProofs!DownloadErrorsAreFree` | `Spec => []FailureCostsNothing` |
| `DownloadProofs!DownloadPaymentsOnRecord` | `Spec => []PaymentOnRecord` |
| `TunnelProofs!TunnelTypeCorrect` | `Spec => []TypeOK` |
| `TunnelProofs!UpstreamInOrder` | `Spec => []UpstreamFaithful` |
| `TunnelProofs!DownstreamInOrder` | `Spec => []DownstreamFaithful` |

Every invariant and every action property that a passing run checks is among them.  They hold for every
number of calls, peers, requests, files, sessions, tasks, clients, payment references, chunks and restarts,
every rate and every size of the buffers, and under every fault.  The assumptions are
`SetsAssumption`, `OpsAssumption` and `EffectsAssumption` (NodeLoops), `FilesAssumption` and
`FileOpsAssumption` (FileProviding), `ProxyAssumption`, `PaymentAssumption` and `NoneAssumption`
(ProxyPayment), `DownloadAssumption`, `TunnelAssumption`.  They say that identifiers of different kinds are
distinct and `None` is none of them, that operations and statuses are those of the code, and that counts,
rates and bounds are natural numbers, the denominator of the rate, the number of chunks and the size of a
buffer not zero.

Each module has an inductive invariant `IInv`, proved with one lemma per action:

- NodeLoops: `WaiterAccounted` and `StillPending` need `TablesInv` (what is in flight has its sender in
  a table; a call is in `pending_dial` exactly under its own peer, with a Dial command) and
  `QueueInv` (a command is in the channel once, exactly while its sender is parked and unanswered).
  `EventAccounted` is part of it: the loop waits on one request, so that popping it releases the loop
  and nothing else.
- FileProviding: `TaskInv` (a task starts only files that are active or astray) and `HandlerInv` (at most
  one command of the handler is queued, for its own file; a file it starts is active; nothing is stored
  or queued in a dead network loop).  Without the second a queued StartProviding of the handler could
  overtake a stop.  For `AdvertiseRestores` three more parts, proved on top of `IInv`: `ListInv` (which
  tasks have files to start), `ChannelInv` (a task has one command or event in a channel and waits for
  it) and `RestoreInv` (from the moment `advertise_provided_files` has read the table, whatever is active
  or becomes active is `Covered`, that is advertised, being started or left out, or still on its list; and
  a file that is being withdrawn is not active, or left out).
- ProxyLifecycle: `HandlerInv` (how far the handler is in changing sender, record and file; the record is
  gone with a dead network loop; the file is torn only while the handler writes it, after it has panicked
  doing so, or for a node that is down), `QueueInv` (no event is queued twice) and `ModeInv` (the mode of a
  start is fixed from its check on).
- ProxyPayment: `WireInv` (a client waits for the request or the answer of the step it is in), `RefInv` (a
  reference is in the hand of one client at a time, which is the one that pays it; a notification that is
  late is about a payment that has been made and not yet reported), `SpentInv` (the wallet is ahead of the
  session by the payment being recorded) and `MeterInv` (what is asked for is metered and not yet credited).
  The refinement follows action by action: sending money is a payment of the ledger, a notification that is
  accepted is a report, all else is a stutter.  `AccountsInStep` compares two sums over references.  Instead of an
  induction over sets, `Accounted` says that there is a share `w` of each reference in the session's sum and an
  additive measure `s` of sets of shares, bounded by the session, with the provider's sum bounded by the
  measure of what was reported; each action extends `w` and `s` at one reference.
- Download: `Unpaid` (before its payment a download has left no trace in wallet and table), `NothingYet`
  (nothing is received before the answer of a peer, after which no error is reported), `TxKnown` (between
  payment and row the transaction is known, or was lost), `NoRow` (before its last step a download has no
  row, so that a panic or a crash leaves none) and `OnePeer`.  Together they are what rules out a second
  payment when the command line goes on to the next peer.
- Tunnel: `LinkInv` (which ends of the links are open follows from where the two handlers are), `StageInv`
  and `BufferInv` (a head is only ever the first thing in the provider's buffer, and only until the client has
  read it; a dropped link is empty), `EarlyInv` (nobody has spoken before the answer), and one predicate
  `Flow` for both directions: from the receiver back towards the sender, as far as the links are open at both ends,
  what is buffered and what the two copy loops have in hand continues the receiver's chunks without gap.
  A closed or reset link cuts the chain there, so that what is behind it is lost and never arrives out of
  order.  Downstream the chain begins after `d` chunks, those that were read with the head (`DownInv`),
  and `d` is 0 for an origin that waits for its turn.

The parts of an invariant are state predicates of small instances like any other: adding them to the
INVARIANTS of the run of their module has TLC check them there.

Only model-checked are the liveness properties: `ServedUnlessCycle`, `ReturnsUnlessForgotten`,
`NetDeathReleasesAll`, `ActiveGetsAdvertised`, `EndpointsReturn`, `StopReachesProxy`, `BothWaysDeliver`,
`CloseEndsBoth`, `OriginCloseDrains`, `AttemptEnds`.  The prover has no rule for fairness or ENABLED.  The
modules use no RECURSIVE operator.

## 5. What is not modelled, and the plan

Not to be modelled:

- the Bitcoin RPC and wallet endpoints: each passes one call on, and `send_to_address` is part of
  ProxyPayment and Download;
- the HTTP server's set-up, the setup command (a one-shot sequence before the node exists), starting
  bitcoind and loading the wallet;
- the boot node and the relay server: libp2p swarms whose loops log events and record addresses;
- endpoints and queries that only read, the count of a file's downloads, the wording of answers;
- the forwarding of a plain HTTP request, which is hyper's; what it adds to a session is `ClientCounts`.

The plan: every safety property of the passing runs is proved.  What is left are the safety facts that the
liveness properties rest on, which can be proved without fairness: that a wait cycle, once closed, is
opened again only by the end of a party (NodeLoops: `WaitCycle`; Tunnel: `WriteCycle`), and that what has been
reported done is not undone (a released call, a settled payment, a written row).
