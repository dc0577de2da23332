# TLA+ verification of system_report

`system_report` is a small Rust daemon. Every `report.interval_secs` it reads
`/proc/uptime` and `/proc/meminfo` and publishes the values over MQTT. It is meant to
run unattended for months, through broker outages, reconnections, rebuilt clients,
suspended machines and restarts. This directory holds its formal model: TLA+ modules,
TLC configurations, and proofs checked by TLAPS. Paths below are relative to the
repository, which lies in `src/`; `mqttclient.rs:284` means line 284 of
`src/src/mqttclient.rs`.

## 1. Inventory

| Component | State | Operations | Interacts through |
|---|---|---|---|
| MQTT handle, `Publisher` (`mqttclient.rs:38-240`) | `worker: Option<Worker>`, options | `start`, `publish`, `maintain`, `stop`, `teardown` | mutex-protected `State`, a message channel of capacity 1, a stop oneshot, one reply channel per call, join |
| MQTT worker, `run` (`mqttclient.rs:247-331`) | `queued`, `pending`, `delay`, the rumqttc pair | one `select!` over stop, messages and `poll()`; backoff; the one-second drain | the same; rumqttc, and through it the broker |
| Reporting loop, `Reporter` (`reporter.rs`) | `next`, `first_pending`, `failures` | `run`, `tick`, `cycle`, `report_once`, `sleep_secs` | calls the handle; notifies systemd; reads the stop flag |
| Process life cycle (`main.rs:72-189`) | stop flag, exit code | start-up, `--once`, STOPPING, stop, close | signal handlers, handle, loop, notifier |
| Notifier (`sdnotify.rs`) | address, watchdog period, lazily opened socket | `ready`, `watchdog`, `status`, `stopping`, `close` | datagrams to systemd |
| Configuration (`config.rs`, `config/secrets.rs`, `defaults.yaml`) | none after load | merge, validate, format topics, resolve the secret, redact | everything reads it |
| Collectors (`collectors.rs`) | none | parse the `/proc` files, build a snapshot and its JSON | called by the loop |
| Logging (`log.rs`) | mutex-protected list of handlers | choose a handler, emit, fall back to the console | log facade, used by both threads |
| TLS identity (`mqttclient.rs:91-135`, `mqttclient/tls.rs`) | none | cut PEM files into blocks, build trust anchors and client identity | called by `Publisher::new` |
| Installation scripts, service unit (`system_report/bin/`) | files | one-shot edits; restart and watchdog settings | systemd |

Threads: the main thread runs the loop and makes every call on the handle; the worker
thread runs a single-threaded tokio runtime. Signals only set a flag.

Where it is hard:

* **Concurrency.** The handle reads `connected`, releases the lock and acts later
  (184 and 204; 223 and 235). The worker can lose the connection, reconnect, or be
  asked to stop between any two steps of a call.
* **Matching by position and by packet id.** rumqttc reports "a publish was written"
  with a packet id only. The worker finds the caller by its position in `queued`, and
  by id in `pending` afterwards. Announcements, refused messages, retransmissions and
  resumed requests must all be accounted for, or a caller gets another call's answer.
* **Sessions.** With `clean_session: false`, requests and exchanges of the old
  connection come back, with or without ids, if the broker still knows the session.
* **Time.** Reports may take `Messages * publish_timeout`; there are catch-up, retry,
  watchdog and stop deadlines, of which none is enforced by a timer.
* **Input.** A file entry of another shape replaces a whole section of defaults, so
  everything after the merge must be checked on the merged tree; the rest of the program
  unwraps knobs without looking. Templates are scanned once, with doubled braces. A
  password may stand anywhere in what `--print-config` shows. PEM files may be combined,
  in any order. `/proc` may be unreadable, garbled or lack a field, one file at a time.
* **Failure.** `maintain` can fail half way; READY can be lost; DISCONNECT can be
  refused by a full channel.

What makes each part correct:

* handle and worker: `publish` returns true only for a written (QoS 0) or acknowledged
  (QoS 1/2) message; nothing is held for an old connection; outstanding messages are
  bounded; every call and every teardown ends; a lost connection comes back; the
  retained status tells the truth;
* loop: no burst, no drift, a prompt first report, a bounded watchdog gap, a bounded
  reaction to a signal, giving up after five consecutive failures;
* life cycle and notifier: READY only after a successful start, STOPPING before the
  teardown, an exit code that reflects the cause;
* configuration: every knob has the file's value or the default; what start-up accepts
  can be served; no substituted text is scanned again; no secret is printed or weakened
  silently;
* collectors: each value is reported as it was read, or its absence is; independently
  per file;
* TLS identity: the whole chain and the key, wherever they are in their files;
* logging: no record lost when a socket disappears.

`PROJECT.json` lists the hazards of the code line by line with the properties that
watch each one.

## 2. Modules

| Module | Models |
|---|---|
| `EventLoop` | rumqttc and the broker as the worker uses them: request channel, kept requests, exchanges by packet id, buffered notifications, retained status |
| `MqttClient` | the handle and the worker; extends `EventLoop` |
| `Delivery` | abstract contract of `publish`, implemented by `MqttClient` |
| `Reporter` | the reporting loop on an explicit clock |
| `Notifier` | `sdnotify.rs` and the receiving end of its datagrams |
| `Daemon` | `main.rs`: the life of the process between the service manager and the publisher; extends `Notifier` |
| `Logger` | `log.rs` under two threads, with the syslog socket and stderr |
| `Config` | `config.rs`, `config/secrets.rs` and `defaults.yaml` as operators over trees of values |
| `Collectors` | `collectors.rs` as operators over the words of the two files |
| `TlsIdentity` | `mqttclient/tls.rs` and the trust anchors of `Publisher::new`, as folds over PEM marks |
| `Printing` | `redact_passwords` and the nodes of a tree of any shape; extends `Config` (which extends `Collectors`) |
| `Reports` | from the operator's file to the printed configuration or the reported messages; extends `Printing` and `TlsIdentity` |
| `MCReports` | the inputs on which TLC checks `Reports` |
| `MqttClientProofs`, `BookkeepingProofs`, `DeliveryProofs`, `SessionProofs` | theorems about `MqttClient`, each module extending the one before |
| `ReporterProofs`, `DaemonProofs`, `LoggerProofs`, `ReportsProofs` | theorems about `Reporter`, `Daemon`, `Logger` and `Reports` |

### EventLoop

rumqttc is not part of the repository; the model is what `run` relies on. `chan` is the
bounded request channel of `AsyncClient::new(_, 16)`. `poll()` hands out buffered
notifications before it does new I/O, so at most one `Outgoing` is buffered (`sent`),
while acknowledgements are read in batches (`acks`). A QoS 1/2 publish gets a free
packet id and stays in `flight` until PUBACK or PUBCOMP; PUBREC and PUBREL are handled
inside the library. `onwire` separates an exchange of this connection from one that has
yet to be replayed, and `backlog` is `EventLoop.pending`, what was still in the channel
when a persistent session lost its connection. `KeepSession` is `EventLoop::clean` with
the worker's `events.state.events.clear()`; `FreshClient` is a new pair.
`done` is a history variable: what was written to the socket (QoS 0) or acknowledged
(QoS 1/2). `status` is the retained status the broker has or will have once it reads
what was written; `LastWill` is its reaction to a connection that ends without
DISCONNECT.

### MqttClient

| Code | Actions |
|---|---|
| `start` 151-176 (and the failure exits 158-160, 169-173) | `SpawnOk`, `SpawnFail` |
| `publish` 177-208 | `PublishDrop`, `PublishBegin` (the check), `PublishSend` / `PublishRefused` (`try_send`), `PublishReturn` / `PublishTimeout` (`recv_timeout`) |
| `maintain` 209-221, `stop` 222-232 | `Maintain`, `Stop`, then teardown |
| `teardown` 233-239 | `HaltNothing`, `HaltSignal`, `Join` |
| `select!`: message 272-283 | `WAccept`, `WRefuse` |
| CONNACK 285-301 | `WConnAck` |
| `Outgoing::Publish` 302-306 | `WSentFleeting`, `WSentReliable` |
| PUBACK/PUBCOMP 307-308, `finish` | `WFinish` |
| `Err` 309-325 | `WConnFail`, `WLost` (with everything the branch does up to the sleep), `WWake`, `WBackoffStop` |
| stop 263-271 | `WStopOffline`, `WStopOnline`, `WDrainEvent`, `WDrainEnd` |

The check of `publish` and its send are separate steps, as they are in the code, and
so are the check of `stop` and its signal. `mpc` and `wpc` are the program counters;
`goal` says what a teardown belongs to. `answer` is the reply channel of the call in
progress; a reply to an earlier call goes nowhere, as its receiver was dropped.

Left out: the dropped-message counter and `last_log` (184-194, a log line), payloads and
topics (a message is its name; `Reports` makes them), credentials, what `Publisher::new`
reads of the configuration and of TLS files (in `Reports`), and rumqttc's packet-id
collision state: an exchange still unfinished when the library's hundred ids have come
round to its own makes it hold the next message back; here a new exchange takes any free
id. A metric is published at
most once in a behaviour, which is what makes its name identify the call; repeated
reports are repeated behaviours of the same code, and packet ids, the channel and the
window are still reused because there are more messages than ids in flight.

### Reporter

The clock advances by nondeterministic amounts where the code spends time: up to
`Timeout` per publish, `MaintainMax` per maintain, `Late` for the overshoot of a wait.
The connection flips at any time and the stop flag is set at any time. `SleepSecs` is
`sleep_secs` with the caller's half watchdog interval. `pet`, `settled`, `upSince` and
`stopAt` are history variables for the properties.

### Notifier and Daemon

`Notifier` is `from_env` (`Enabled`, `Armed`, over what the three variables can say),
`notify` (`Delivered`, `Failed`, or nothing without an address), `watchdog` and `close`.
The socket is blocking and unbound: a send waits while the manager's queue is full,
fails while nobody listens, and a failed one is not repeated. `Vanish` and `Appear` are
the receiving end. `lost` records what was sent in vain.

`Daemon` follows `run()` statement by statement; `pc` says where it is.

| Code | Actions |
|---|---|
| `args` 23-48, `load`, `--print-config`, `--dry-run` 75-118 | `ParseArgs`, `LoadConfig` |
| signal registration 119-125 | `Register`, once per signal |
| `Publisher::new` 126-132, `start` 143-146, `ready` 147 | `Create`, `Start`, `Ready` |
| `--once` 148-177 | `OnceWait` (with its watchdog), `OnceNap` (`wait`), `OnceLeave`, `OnceDone`, `Report` |
| `Reporter::run` (`reporter.rs:194-206`) | `Check`, `Tick` / `MaintainFails`, `Report`, `Failure`, `Pet`, `Wake` |
| `stopping`, `stop`, `close` 184-186 | `Stopping`, `StopPublisher`, `CloseNotifier` |
| the handlers of signal-hook | `Interrupt`: a signal with a handler sets `stop`, one without kills |
| systemd and the unit file | `Hear`, `Terminate`, `TimeOut` (watchdog, TimeoutStopSec), `Reap`, `Restart` |

What happens inside `start`, `maintain`, `publish` and `stop` is `MqttClient`'s matter;
here they return, well or badly, and `connected` flips while there is a worker. How
often `Failure` is tolerated and how long waits are is `Reporter`'s; here giving up is
possible at any failure, and a deadline may pass at any step. These are weaker
environments than the real ones, so what holds here holds with them.
The manager reads its queue in order and before it looks at the exit of a process.

### Logger

`BuildHandler` is `build_handler` over what may be at the two syslog paths; `ApplyKnobs`
is the call of `main.rs`, before which nothing is logged. A call of `log` is `Log` (the
filter, which reads `debug` without the lock), `Lock`, then one `EmitConsole`,
`EmitSyslog` or `FallBack` per handler, the last of which releases the mutex. `Fails` is
a reader that is gone, or a full socket during the one second of the write timeout.
A connected socket does not come back, so `gone` is final. Any write to stderr may fail,
but none blocks: a reader of stderr that stalls, which no timeout ends, is left out.

### Config

| Code | Operators |
|---|---|
| `defaults.yaml` | `Defaults`, one operator per section; `Known` is its paths, `Sections` and `Knobs` the two kinds |
| `deep_merge` 38-59 | `DeepMerge`, `MergeSection` and `MergeInner`, its calls at three depths, all made of `Merged`; `Unknown` with `Strange` for its warnings |
| `validate_shape`, `check_topic`, `validate` 83-207 | `Shape` with `LeafShape` and `IntRange`, `Publishable`, `Valid` |
| `format_template` 427-475 | `FormatTemplate`, with `Scan` for one turn of its loop |
| `meminfo_topic` 244-255 | `MeminfoTopic` |
| `secrets::resolve` | `Resolve` |
| `from_yaml`, `load` | `FromYaml` with `Resolved`, `TopicsUnder`, `Assembled`, `Checked`; `Load`, `Warned` |

A YAML value is a record tagged with its kind. A string is the sequence of tokens the
code tells apart: braces, slash, blank, `"+"` for the characters no topic may hold, and
words for the text between. Integers are scaled: `MaxInt` stands for `u64::MAX` and
`MaxInt - 1` for `u16::MAX`, the least keep-alive of 5 is 2. A float is known by its
class: below 0.1, usable, more than a `Duration` holds, NaN. A password is known by its
source. `deep_merge` and `validate_shape` recur over the tree of the defaults. That tree
is a constant of three levels, so the recursion is unrolled: below the third level there
is nothing to merge into, which `NoneDeeper` proves of `Defaults`. The file may be of
any depth. `dig` and the scanner are functions of how far they have come. The order in
which errors are found is left out, as each ends the start; warnings are a set. Reading
YAML (its text, merge keys and tags) is the library's, and the model starts from the
parsed tree.

### Collectors

`ParseUptimeSeconds` and `ParseMeminfo` are the parsers over words that are numbers or
not; `Collect` is `collect_with_reader`, `ToJsonDict` is `to_json_dict`. `TakeField` is
`BTreeMap::remove`, by which a field asked for twice is reported once, and missing is
judged by what was found. `MeminfoTopicName` gives each field a name of its own: true
of the fields of `/proc/meminfo`, and not of two fields that differ only in case or
underscores.

### TlsIdentity

A PEM file is a sequence of BEGIN marks, END marks and text. `PemBlocks` is `pem_blocks`,
`Anchors` the splitting of a CA bundle, `Identity` the pair handed to native-tls. What
native-tls makes of a block is not known, so any start with TLS files may fail.

### Printing

`Redact` is `redact_passwords` (config.rs:62-77) on the merged tree. What is under an
unknown key has any shape the file gives it, so the recursion of the code follows the
tree and not the defaults: here it is a function of the nodes of the tree, and `Nodes`
collects them level by level. `MaxDepth` stands for the 128 levels serde_yaml reads.

### Reports

`Edit` and `EditAlone` are the operator at the file. `LoadConfig` is `load`, `Nameless`
its failure without a host name, `PrintConfig` is `main.rs:93-99`, `DryRun` the option of `main.rs:100-102`, `Start` is
`Publisher::new`. `Report` is `collect`, `messages_for` and
the part of `report_once` that makes the messages; `Wait` goes to the next one. The
phases `panicked` and `unreported` exist to be shown unreachable: `ReporterUnwraps` and
`PublisherUnwraps` list the knobs that are unwrapped without a look, with the kind each
must have. `unprinted` is the panic of `expect` over a key that JSON cannot name.
`Served` forgets what the reporter does not read.

## 3. Runs

| Run | Checks | Shows |
|---|---|---|
| `mqtt_clean` (342 thousand states) | `TypeOK`, `NothingHeldOffline`, `OutstandingBounded`, `ImplementsDelivery` | clean sessions, one metric of each QoS, rebuilds that may fail |
| `mqtt_persistent` (1.6 million) | `TruthfulSuccess`, `Aligned`, `Tracked`, `MetricsBounded`, `OnlineAnnounced`, `ExchangeKept`, `ImplementsDelivery` | sessions resumed or forgotten at each reconnection |
| `mqtt_live` (10 thousand) | `TeardownEnds`, `PublishEnds`, `Recovers` | under fairness, with rebuilds that succeed |
| `reporter` (440 thousand) | `TypeOK`, `Punctual`, `FirstReportPrompt`, `PetGap`, `StopPrompt`, `NoBurst` | slow publishes, failing maintains, flapping connection, a signal |
| `daemon` (130 thousand) | `TypeOK`, `ToldTruth`, `Ordered`, `AnnouncedStop`, `ExitTruth`, `EndsOnSignal`, `OnceEnds` | every command line, lost datagrams, a full or absent receiver, signals anywhere, a restart; under fairness of the process and of the manager's reading |
| `logger` (74 thousand) | `TypeOK`, `ExactlyOnce`, `SameOrder`, `NoHoles`, `MutexFreed` | two threads, every choice of handlers, a socket that fills up or loses its reader |
| `reports` (125 thousand) | `TypeOK`, `KnobsEffective`, `AcceptedServes`, `LiteralValues`, `SecretsGuarded`, `Accounted`, `IdentityWhole`, `PrintedSafely` | files with one odd entry, any short meminfo topic, or two chosen entries, on every kind of site; printed, served, and reported from every kind of `/proc` |

The central properties:

* `TruthfulSuccess`: `publish` returns true only for a message in `done`.
* `Aligned`: while the connection is up, `queued` lists, in order, exactly the messages
  the library has not reported as written. This is why matching by position is right.
* `Tracked`: an entry of `pending` is occupied exactly while its exchange is unfinished
  or its acknowledgement is buffered, and holds the waiter of that message.
* `ExchangeKept`: a persistent session loses no single exchange, neither with the
  connection nor when it is resumed: it goes on being unfinished, is acknowledged, or
  goes with the whole session or the client.
* `ImplementsDelivery`: every step of handle, worker and library is a step of
  `Delivery`. What may still be delivered is what the message channel, the library's
  queues and its exchanges hold; a timed-out message may be delivered later; a lost or
  refused one never is.
* `NoBurst`, `Punctual`, `PetGap`, `StopPrompt`: bounds on times in terms of the
  constants. `PetGap` shows that the loop pets on every tick, connected or not, and
  `StopPrompt` that no wait and no second report comes between a signal and the end;
  neither compares its bound, which grows with `Messages * Timeout`, with the deadlines
  of the unit, which the configuration is not checked against. That is arithmetic: with
  the defaults `PetGap` reads `5 + 16 * 10` seconds plus scheduling and one maintain,
  below `WatchdogSec=180`, but 21 configured memory fields would exceed it; `StopPrompt`
  is far above `TimeoutStopSec=20` if every publish of a report runs into its timeout.

* `ToldTruth`: READY was sent only by a process whose publisher was started, STOPPING
  only by one that is stopping, and a living unit the manager takes for active has a
  started publisher, across restarts. `Ordered`: READY is read first and STOPPING last,
  even if datagrams between or before them are lost. `AnnouncedStop`: the publisher,
  whose stop may take long, is stopped only after STOPPING was sent or could not be.
* `ExitTruth`: a daemon that served and ends with 0 was told to stop, and one whose loop
  gave up ends with 1, even if a signal comes during its last failure. `EndsOnSignal`,
  `OnceEnds`: a handled signal ends the process in whatever it was doing; `--once` ends
  by itself.
* `ExactlyOnce`: each handler has each record that passed the filter once, on syslog or
  on the console. `SameOrder`: both outputs agree on the order of the threads' records.
  `NoHoles`: syslog gets nothing more behind a record it missed. `MutexFreed`: a reader
  that stalls does not keep the mutex from the other thread.

* `KnobsEffective`: in an accepted configuration each knob has what the file says, or the
  default; what is no knob is kept with its value, and warned about at its outermost
  unknown key. A file entry of another shape replaces a section whole, so this holds only
  because the check of the shape follows the merge.
* `AcceptedServes`: what start-up accepts never makes an accessor panic and never fails a
  report over a topic. The one panic left is `--print-config` with a null key, below.
* `PrintedSafely`: no value under a key `password` is printed at any depth, and what is
  accepted is printed unless the file has a null key.
* `LiteralValues`: what is put for a placeholder is not scanned. A file is loaded for the
  host's name, which may hold braces, and for a stand-in that no template and no field
  spells: it is accepted for both or for neither, and the prefix and every topic are the
  same with one name put for the other. Names that are empty, hold a wildcard or end in a
  slash are left out (`Nameable`): such a topic is refused, or its prefix trimmed, because
  of the name.
* `SecretsGuarded`: a password file never falls back to a weaker source, and a password
  others can read, in a file or on the network, is warned about.
* `Accounted`: each metric is told in both forms with the value its file has, once, or
  its absence is listed; an unreadable file takes nothing from the other.
* `IdentityWhole`: the identity is every certificate block in order and every key block,
  told by position in the files, not by the scan.

Every property has a mutant in `PROJECT.json`: a plausible bug (`>` for `>=`, a queue
not drained, events not cleared, a retransmission taken for a first write, ...) under
which the same run finds it violated.

Five runs show where the code does not do what the repository says:

* `spawn_fail` / `Recovers`: a rebuild tears the old worker down first. If the runtime
  or the thread cannot be created, `worker` stays `None` and every later `maintain`
  returns `Ok(false)` (213): nothing reconnects any more, and the process does not
  exit either, since the failure count is reset. README.md:268-271 promises that the
  rebuild recovers from "a dead network thread".
* `goodbye_race` / `OfflineAfterStop`: a connection made between the check in `stop`
  (223) and its signal (235) is announced "online" and closed with DISCONNECT, so the
  will is discarded and the retained status stays "online" (README.md:340).
* `queue_limit` / `OutstandingBounded`: the announcement at each CONNACK (300) bypasses
  the limit, and a persistent session keeps old ones (README.md:219). The same holds of
  the metrics alone: `MetricsBounded` passes.
* `prompt_failure` / `PromptFailure`: a message still in the channel is not failed when
  the connection is lost; its caller waits through the backoff (docs/rust-mqtt.md:29).
* `field_topics` / `FieldTopics`: the check for `{name}` (config.rs:181-184) looks at the
  template's text, so the escaped `{{name}}` passes, and all memory fields share one
  topic; the message of the check says each field gets its own (config.rs:188).

Met while modelling, without a run of their own, as no document says otherwise:

* A null key in the file is accepted, and makes `--print-config` panic at
  `expect("validated config")` (main.rs:96): JSON has no such key.
* A `publish_timeout_secs` that no `Duration` holds passes validation and is refused by
  `Publisher::new`.
* A `ca_certs` file without any certificate is accepted and leaves no trust anchor.

### Bounds

* `Metrics`: one per QoS. With "online" and "offline" that makes five messages, enough
  for three callers before and after a reconnection, mixed QoS in one queue, and a
  timed-out message next to a later one.
* `PktId = {1, 2}`, `Window = 2` (the library's 100): ids are exhausted and reused.
* `ChanCap = 2` (the code's 16): a full channel happens, for a metric and for
  DISCONNECT. An announcement never meets one: the channel is empty between connections
  (`OfflineEmpty`), so the check of its `try_publish` always succeeds.
* `Capacity = 2`: the limit is reached by one announcement and one metric.
* `MaxBacklog = 2` bounds the length of a resumed backlog, in the guard of `ConnAck`
  only; without it announcements would accumulate for ever (finding `queue_limit`).
* `MinDelay`, `MaxDelay`, `Recreate`: the delay doubles past its maximum, and an outage
  reaches the rebuild threshold. `outage` saturates there, as nothing reads beyond.
* `Interval = 5`, `TickMax = 3`, `Retry = 1`, `Half = 2`, `Messages = 2`, `Timeout = 2`,
  `MaxFailures = 3` (the code's 5), `Horizon = 16`: several reports, a report longer
  than a tick, and giving up, all fit below the horizon. The theorems hold for every
  value.
* `QueueCap = 2` (the kernel's default is 10 or more): the queue
  fills with READY and one WATCHDOG, so that a send blocks. `MaxOutages = 1`: datagrams
  are lost before, between and after delivered ones. `MaxPatience = 2`: the wait of
  `--once` is entered, repeated and runs out, inside the loop body too. `MaxStarts = 2`:
  one restart, which meets what the first process left behind.
* `MaxRecords = 2`, `SyslogCap = 1`: each thread logs before and after the other, the
  socket is full at the second record, and a fallback happens in the middle of the
  other thread's wait for the mutex.

* `MaxEdits = 2`: any pair of 45 chosen entries, enough for every relation between two
  knobs (the delays, the two metrics, the two forms, TLS files, a section replaced and an
  entry under it). Entries tried alone: every knob and section with 14 values at the
  edges of its kind, every meminfo topic of up to `MaxTemplate = 5` tokens over the two
  braces and the field's name, and a file that does not parse. Five tokens hold a
  placeholder, an escaped brace and their malformed mixtures.
* `Sites` (25): every password source at every file mode, no HOME, an absent or
  unreadable file, host names with braces. `Procs`: `/proc/meminfo` of up to two lines
  out of six, which include a repeated key, a malformed value and a missing colon.
  `Bundles`: ten PEM files, with combined, truncated and interleaved blocks.
* `MaxDepth = 5`: the defaults' three levels of keys and a fourth for the entries of a
  list, and one more for what an operator may put below a known or an unknown key, a
  password two levels down included. The theorems hold for every depth from 5 on.
* `MaxInt = 5` and `MaxSeconds = 180`: below, at and above each limit; two minutes of
  uptime are told apart.

### Fairness

`CallerFairness` and `WorkerFairness` say that both threads keep running. Each wait in
the code is bounded: `recv_timeout`, the sleep of the backoff, the one-second drain, and
keep-alive on a dead peer; the main loop calls `maintain` on every tick (at most
`LOOP_TICK_MAX_SECS` apart). `PublishEnds` and `TeardownEnds` need nothing from the
network. `Recovers` adds `BrokerAnswers`, strong fairness of a CONNACK: a broker that is
dialled again and again answers in the end. Nothing forces a publish to succeed.
`Daemon!FairSpec` says that the process keeps running (`wait`, `maintain`, `publish` and
`stop` are bounded: `MqttClient`) and that the manager reads its queue; nothing is
assumed of the network, of the broker or of signals. `Logger!Spec` says that a thread
which holds the mutex keeps running, its write being bounded by the timeout. Deadlock is
checked in every run but `reports` and `field_topics`, where a rejected file or a printed
configuration ends the process; elsewhere the only states that may stop are those of a
stopped process (`Finished`).

## 4. Proofs

`tlapm` checks every theorem for all values of the constants, from the assumptions
named in the modules (`QosAssumption`, `LibraryAssumption`, `ClientAssumption`,
`ReporterAssumption`, `NotifierAssumption`, `DaemonAssumption`, `LoggerAssumption`,
`MaxIntAssumption`, `MaxSecondsAssumption`, `DepthAssumption`, `EditsAssumption`,
`ValuesAssumption`, `SitesAssumption`, `ProcsAssumption`, `BundlesAssumption`). TLC evaluates the same
assumptions in the runs. That the packet ids are finitely many and not 0 is MQTT's: an id
is a 16-bit number. The last four say what kind of thing comes from outside: an entry has
a path of keys and a value of one kind, a null in it holds nothing else, and it lies within
the levels that the parser reads; a site and the `/proc` files hold texts and numbers, a
PEM file is a sequence of marks. They bound neither how many there are nor how long they
are, and no depth but the parser's.

* `MqttClientProofs!TypeCorrect`: `Spec => []TypeOK`. The inductive invariant `Typed`
  adds `CallMade`: a call in progress has a message, without which the channel could be
  handed the value "none". Lemmas type what the worker's calls do to the library, then
  one step per action of the handle, the worker and the library.
* `BookkeepingProofs`: why a reply never reaches the wrong caller. The properties TLC
  checks, `Aligned` (the queue) and `Tracked` (the packet ids), are not inductive alone.
  `Mirror` adds what they lean on: `Quiet` (nothing is buffered without a connection, and
  never a write together with acknowledgements), `EmptyOffline` (between connections the
  channel and the worker's books are empty, so CONNACK starts from known ground),
  `OnlyPublishes` (DISCONNECT is queued only while the worker drains) and `Evidence` (a
  buffered notification is about a message that is written or acknowledged). Lemmas on
  sequences show that appending to both queues and popping both fronts keep them matched;
  then one lemma per kind of step: a loss, a CONNACK, an accepted message, a first write, a
  retransmission, an acknowledgement, the writes of the library. From `Mirror`,
  `TruthfulReply` (`Spec => []TruthfulSuccess`) follows because the waiter of the popped
  entry, or of the removed packet id, is the message the notification is evidence for.
  `QueueAligned`, `ExchangesTracked` and `OfflineEmpty` are its other consequences.
* `DeliveryProofs`: `MqttClient` implements `Delivery`, with the refinement mapping of
  the `INSTANCE` in `MqttClient`: `live` is every metric in the caller's hand, in the
  message channel, in the library's two queues or in an exchange, and `delivered` is
  `done`. `Mirror` does not suffice for that: were a metric in two of these places, then
  delivering or losing one copy would leave it alive. `OneCopy` says that it is in one
  place only, `Contracted` adds it to `Mirror`, and then each action is a step of the
  contract or stutters: the check in `publish` is `Drop` or `Call`, its two returns are
  `ReturnTrue` and `ReturnFalse`, a write or an acknowledgement is `Deliver`, and a
  refusal, a lost connection or session and a new client are `Lose`.
* `SessionProofs`: what survives a connection, and how much of it.
  `ExchangesKept` needs only that without a worker there is no exchange, and that CONNACK
  leaves the exchanges as they are or clears all of them.
  `OnlineShown` rests on `Announcing`: before `stop` is called there is no "offline" in any
  place (`Farewell`), and while the worker is connected the status shows "online" or its
  message is in a queue or an exchange about to be replayed (`ShownOnline`).
  `MetricsLimit` and `CleanSessionLimit` are one argument about a set `S` of QoS 1/2
  messages (`Bounded`): what the library holds of `S` never exceeds what the worker
  counts at its limit check (`HeldOutstanding`, a consequence of `Mirror`), so that an
  accepted message finds room, and nothing else adds one of `S`. For `MetricsLimit`, `S` is
  all but the announcement. With the announcement in `S` the one further step that adds
  is CONNACK, before which a clean session holds nothing; a persistent one does.
* `ReporterProofs`: `TypeCorrect`, then one inductive invariant for the timing bounds.
  At each program point it relates the clock to the due time, to the last watchdog
  notification, to the last signal and to the moment the connection came up, with the
  time each pending step may still take; the bounds seen at `pc = "due"` or at any time
  are its consequences (`LoopPunctual`, `FirstReportSeen`, `WatchdogPetted`,
  `StopHonoured`). `NoCatchUp` proves the action property: `next` is never less than
  `settled + Interval` once the first report is out.
* `DaemonProofs`: one invariant, `LifeCycle`, adds to the checked properties `Place`
  (what the place of `run()` says about `started`, about the queue and about what the
  manager heard: before READY nothing was said, so READY is first; after a restart
  nothing is left) and `Reason` (the result is settled when the winding down begins, and
  kept: a later signal neither makes it a success nor takes its cause away). Steps are of three kinds: those that notify
  nobody, those that send one datagram from a place where it is due, and those around
  the process. `ManagerToldTruth`, `DatagramsOrdered`, `StopAnnounced`, `ExitHonest` and
  `TypeCorrect` are its consequences.
* `LoggerProofs`: `ExactlyOnce` speaks of records whose call has returned, so by itself
  it says nothing of the loop over the handlers, and is not inductive. `Sound` says where
  in that loop each thread is and what it has written by then. `Arranged`: one or two
  handlers, the chosen one first, and nobody logs before `apply_knobs`. `Exclusive`: one
  thread at most is inside the loop, with its latest record in hand. `NoneTwice`,
  `NoneEarly` and `NoneLost`: a record is written at most once per handler, not before it
  has come there, and was written, in place of syslog to the console, or refused by
  stderr, once it is past. `SyslogWhole`: while syslog is in use it has everything that
  is past it. `Latest`: a record between its two handlers is the last of each output,
  which keeps both in one order. `OnceEach`, `OneOrder` and `SyslogStaysAway` follow, for
  any number of threads and records and any socket buffer.
* `ReportsProofs`: files, sites, `/proc` files and PEM files of any size. The operators
  that scan them are recursive functions of a length, of which nothing is known but that
  they are chosen to satisfy an equation. `Least` (from the well-foundedness of `<`) gives
  `Induction` in the form of a set that holds 0 and every successor, and with it the
  function is shown to exist and to have the values wanted: `NodeIs` for `dig`,
  `FormatSteps` for the scanner, `ParsedIs` and `ParseMeminfoIs` for `/proc/meminfo`,
  `PemBlocksIs` for PEM files, `EntriesIs` and `MissingIs` for the two forms and the
  problems of a report.
  The inductive invariant `IInv` says that while a configuration is loaded it is what the
  file loads to, and that from then on it `Serves`: topics a broker takes, a field list
  that is not empty, each field with a topic. `LoadIs` says what `Load` accepts, as one
  record; `NonePanics` gives every unwrapped knob its kind from `Shape`, section by section;
  `LoadServes` finds the topics of every field among those rehearsed at start-up. Hence
  `TypeCorrect`, `AlwaysServes` and, with what `resolve` says of each source (`SourceIs`),
  `SecretsKept`.
  `KnobsKept` adds `FileInv`: a file that cannot be read was not edited, and its root is of
  one kind. `MergedOne`, `MergedTwo` and `MergedThree` give the entries of the merged tree
  level by level. The second and third need `Shape` of the merged tree: it is what turns
  "the file has something else in the place of a section" into a rejected file.
  `WholeIdentity`: after `n` marks, what was taken is what lies in a block among them, at
  its rank (`CutStep`). `AllAccounted` adds `Reported`: a report is the one that some answer
  of `/proc` leads to (`ReportOf`). What `parse_meminfo` keeps of a field is the last
  number of its key (`LastNumberIs`), and each field asked for is found once or missing.
  `SafelyPrinted` adds `DocInv`: the file lies within the parser's levels (`PutSteps` says
  what an edit makes of each level), and its nodes are of one kind each. `Orderly` is the
  form in which this can be followed down a tree: a value of so many levels whose entries
  are orderly with one less. Merging with the defaults keeps it (`OrderlyMerge`), and from
  the leaves up `Redacted` shows that the redacted tree has no password but `Null` and
  `Masked`, and a null key only where the file has one.
  `LiteralKept` follows one template for two names. `Renamed` puts a name for the
  stand-in; it goes through concatenation (`RenamedConcat`), through trimming
  (`RenamedTrim`) and leaves alone what does not spell the stand-in (`RenamedFree`).
  `Alike` relates the two scanners after each turn: the same text is left to scan, and what
  one has written is what the other has, renamed. `ScanAlike` shows that a turn keeps
  this, whichever of its branches is taken, because no branch looks at a value; the mutant
  that scans the value in its turn breaks it here. `LoadAccepts` is the converse of
  `LoadIs`, so that acceptance too is the same for both (`FormatsAlike`), and `RejectedInv`
  says that a start that ended as rejected is one whose file is not accepted.

Only model-checked:

* liveness (`TeardownEnds`, `PublishEnds`, `Recovers`, `EndsOnSignal`, `OnceEnds`,
  `MutexFreed`): TLAPS does not reason about fairness and ENABLED;
* `OutstandingBounded` on persistent sessions is false, as `queue_limit` shows.

## 5. Not modelled

The installation scripts (one-shot file edits); the text of YAML, its merge keys and
tags; the wording of logs, errors and payloads, the time stamp and version of a report;
the dropped-message counter and its log throttle; what native-tls accepts. The worker's
panics (none is known to be reachable) and the time a name resolver blocks, which
appears as `MaintainMax` only.

## 6. Plan

Modelled: every component but the scripts and the test suites. Proved: every safety and
action property of the passing runs, and the refinement of `Delivery`. What remains are
consequences of the proved invariants that no run states yet, where they say something
new about the code, with a run first.

`Reporter` is not shown to implement the loop of `Daemon`: there `maintain` fails only
while a worker exists, as in the code, and `Reporter` lets it fail on every tick, which is
the weaker environment its bounds are checked in.
