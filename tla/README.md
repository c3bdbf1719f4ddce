# libtimeseries in TLA+

libtimeseries takes time series (a key, a timestamp, a 64 bit value) and hands them to one or
more backends: ASCII output, the DBATS database, or a Kafka topic. `timeseries-insert` feeds it
from text; `tsk-proxy` feeds it from the Kafka topic that the Kafka backend of another process
writes. This directory models those paths: TLA+ modules, TLC configurations that check them on
small instances, and proofs for TLAPS.

1. [Components](#1-components) - the inventory
2. [Modules](#2-modules) - what models what
3. [Runs](#3-runs) - questions, bounds, fairness
4. [What the checks found](#4-what-the-checks-found)
5. [Proofs](#5-proofs)
6. [What is not modelled](#6-what-is-not-modelled)
7. [Plan](#7-plan)

`tlc -config X.cfg M` checks a run; the pairs are listed in section 3. `tlapm M_proofs.tla` checks
the proofs.

## 1. Components

### Key package (`lib/timeseries_kp.c`)
*State.* A growing array of infos (key, value, `disabled`, a state per backend), a hash from name to
index, the cached `enabled_key_cnt`, `dirty`, and the flags `RESET` and `DISABLE`.
*Operations.* `add_key`, `get_key`, `set`, `enable_key`, `disable_key`, `resolve`, `flush`, `size`,
`enabled_size`.
*Interaction.* Called by the two tools (and, for the statistics, by tsk-proxy a second time); calls
`kp_ki_update` and `kp_flush` of every enabled backend, in the order of the ids.
*Hard.* A flush visits several backends, each of which may fail after it has written something. What
it skips on the next attempt depends on `dirty`, which is cleared first and restored on one of the
error paths only. The counter is kept next to the flags in four places.
*Correct when* the counter and the index are exact; a clear `dirty` really means that no enabled key
lacks its backend state; a failed flush changes no value and no flag; rows are reset or switched off
only when all enabled backends have the points.

### tsk-proxy (`tools/tsk-proxy.c`)
*State.* The data package with `current_time` (0: nothing pending), the statistics package with the
interval it is kept for, `shutdown_proxy`, and the counter of partition ends.
*Operations.* `run` with its outer loop and the burst of messages, `handle_message`, `parse_key_value`,
`maybe_flush`, `inc_stat`, `maybe_flush_stats`, `catch_sigint`; before them `parse_config_file`,
`is_valid_config`, `init_kafka`, `init_timeseries`, `init_stats_timeseries`.
*Interaction.* Polls librdkafka; flushes the two packages to the data backend and, for the statistics,
to ASCII.
*Hard.* Timestamps go back and forth, bursts end in the middle of a timestamp, flushes fail and are
tried again on the way out, SIGINT arrives between any two statements, the statistics interval ends
while a flush of it fails, messages break off in the middle; the two pointers of the configuration's
parser outlive a line.
*Correct when* the last value parsed for a time and a key is in the database or still waits under this
very time; nothing is written under a time it was not received with; statistics are neither lost nor
counted twice; parsed points are stored eventually, as long as the bursts of messages end, and SIGINT stops the
program in any case; each option of the configuration has the value behind its own key.

### Kafka backend (`lib/backends/timeseries_backend_kafka.c`)
*State.* One buffer, `buffer_written`, the format (`ascii`, `tsk`, `tskkey`), the producer with its
queue, `drain_wait_cnt`, `connected` and `fatal_error`.
*Operations.* `kp_flush`, `set_single`, `SEND_MSG`, the delivery and error callbacks, the partitioner,
`free`, `kafka_connect`.
*Interaction.* Hands messages to librdkafka's queue, which librdkafka's own threads empty towards the
broker. A delivery report takes a place in the queue until `rd_kafka_poll` serves it.
*Hard.* One buffer for all messages, sent early when it is more than half full or when the hash of the
prefix changes; errors in the middle of a flush; a queue full of reports that only the waiting thread
can remove; messages that are given up after the call has returned.
*Correct when* each info of a flush goes out exactly once, under the header and the key of its own time
or prefix; every call starts with an empty buffer that is never overrun; calls come back; points that
belong together get into one partition; what was handed over is delivered, queued or reported lost; the
backend is enabled only with a connection, after at most `CONNECT_MAX_RETRIES` attempts.

### From the Kafka backend to tsk-proxy's database
*State.* The topic's partitions, the offsets the proxy has committed, its package, the database.
*Interaction.* The backend's messages go through librdkafka's queue, which may send one twice, give it up,
or deliver it behind a later one, into the partition of their time or hash. The proxy's consumer commits
offsets on its own, independently of what the proxy has flushed.
*Hard.* Offsets that are committed for points that only wait in memory; crashes; a flush that fails with
a message in hand; one time spread over partitions; messages that are read again after a restart.
*Correct when* what was read is stored, waits, or was overwritten by something newer, unless its offset
was committed and the proxy then failed; nothing is stored that was not sent; the database catches up.

### DBATS backend (`lib/backends/timeseries_backend_dbats.c`)
*State.* The database handle, per-key ids in the packages' backend states, the counters and the snapshot
of a bulk set.
*Operations.* `kp_ki_update` (key lookup), `kp_flush` (one transaction, repeated after a lock
conflict), `set_single`, `resolve_key`, the bulk operations by id.
*Interaction.* Several processes write to one database. A snapshot is a transaction; setting a key takes a lock that is
held until the transaction ends, and who meets it may be told `DB_LOCK_DEADLOCK`.
*Hard.* Starting over in the middle of a loop; two processes that take the same locks in opposite orders; keys without
state; a bulk set that fails between two of its calls.
*Correct when* a call is all or nothing, whatever it is interleaved with; it leaves no transaction behind; it returns;
and no key without state is dereferenced.

### ASCII backend (`lib/backends/timeseries_backend_ascii.c`)
*State.* The output file and two counters of the bulk mode. *Operations.* `kp_flush`, `set_single`,
bulk operations. *Correct when* the announced number of lines is the number written.

### timeseries object and framework (`lib/timeseries.c`, `lib/timeseries_backend.c`)
*State.* The table of backends and their `enabled` fields. *Operations.* `init`, `enable_backend`, `free`,
`set_single` over all enabled backends, allocation and freeing of backends. *Hard.* One of several backends
fails, and the ones before it have the point. *Correct when* every loop sees exactly the enabled backends,
and a backend whose init failed is not among them.

### timeseries-insert (`tools/timeseries-insert.c`)
*State.* The package, `gtime`, `points_pending`, `errno`. *Operations.* The options that name backends, enabling
them one after the other; one line: `set_single` at once, or in batch mode `add_key`, `set` and a flush when
the time changes; the flush at the end of the input. *Hard.* `errno` is tested but never cleared, 0
stands for "no time yet", the package keeps its keys with value 0 behind a flush, and a failure leaves the
loop over the backends in its middle.
*Correct when* the backends differ in the points of one write at most, hold nothing that was not read, and, if the
program returns 0, everything that was; and it ends.

### Message format (Kafka backend against tsk-proxy)
`write_header`, `write_kv` on one side, `handle_message`, `parse_key_value` on the other. *Correct when*
what was written is what is read, and anything else is refused.

### Logging, build, packaging
Not part of what is modelled.

## 2. Modules

    KpTable -------> KeyPackage ----> KeyPackageMC        KpTable_proofs -> KeyPackage_proofs
       |                 |
       |                 +--refines-> PointTable
       |                 +----> Framework ---> Insert ---> InsertMC     Insert_proofs (on KeyPackage_proofs)
       |
       +----(twice)---> TskProxy ---> TskProxyMC          TskProxy_proofs (on KpTable_proofs)

                        ProxyStart                        ProxyStart_proofs

                        KafkaBackend -> KafkaBackendMC    KafkaBackend_proofs
                         |
                         +--refines-> Topic ---> Pipeline ---> PipelineMC    Pipeline_proofs

                        DbatsBackend -> DbatsBackendMC    DbatsBackend_proofs
                         |
                         +--refines-> AtomicStore

**KpTable** holds the table of a key package as a record, and each function of `timeseries_kp.c` that
touches it as an operator from table to table. `infos` is `key_infos`, `hash` the khash,
`enabledCnt` `enabled_key_cnt`, `dirty` `dirty`; of `backend_state` only whether it is set
matters (`resolved`). Indices start at 1, the code's -1 is `NoId`. It has no variables, so that every
program that uses a package is built from the same definitions.

**KeyPackage** is a package, the single thread that calls it and all its backends. The flush is cut into
one step per backend and phase: `FlushBegin` copies and clears `dirty`, `UpdateBackend`/`UpdateFails`
is the call of `kp_ki_update`, `WriteBackend`/`WriteFails`/`WriteCrashes` that of `kp_flush`,
`SkipBackend` the test of the loop macro, `FlushEnd` `kp_reset_disable`. A failed lookup leaves the infos
before it resolved. A failed write leaves any prefix of the points behind, nothing with a transactional
backend (DBATS). `Calls` says which optional functions the program uses; without `"add_again"` it asks
`get_key` before `add_key`, as every caller in the repository does.

**PointTable** is the abstract specification: rows that are on or off, writes that may be given up part way
and a completion that is possible only when every live backend has every row. KeyPackage implements it
with `Row(k)`, what `get_key` and the info behind it show of a key.

**TskProxy** has one action per statement of `run()` that matters; `pc` names the next one. `maybe_flush`
is one step with the three outcomes of a flush of a one-backend package (`FlushDone`, `LookupFailed`,
`WriteFailed` of KpTable); this is sound as nothing else reads or writes the package meanwhile, and a
third SIGINT inside a flush leaves a state that a SIGINT before or after an unsuccessful flush leaves.
The statistics package is a second instance of KpTable. Outside the thread there are `Sigint`, `Tick` (the
clock, in intervals) and the broker, which returns any message, error or partition end, those in `Endless` without limit. A message is its
time, its whole pairs and the number of bytes behind them (`tail`); what `DESERIALIZE_VAL` and the test of the
key's length make of such bytes are `ParseGivesUp`, `ParseShortValue` and `ParseSpins`. The counters of the
statistics go through an `int` of any width (`ThroughInt`); the history `total` is exact as far as an int goes and kept
modulo 2^32 beyond that. `backend` is the backend of the configuration.

**ProxyStart** is what comes before `run()`: `parse_config_file` line by line (`Key` is the token of a key with its scalar,
`Value` that of a value with its scalar, `NoValue` a value that is empty, for which libyaml returns no scalar), then
`is_valid_config` and the three functions that connect. `textp` and `intp` are the parser's two pointers; a value is the
number of its line. `given` and `empty` are history variables that say what the file asks for.

**KafkaBackend** cuts a flush at every message: `FlushBegin`, `Serialize` for one info (with `SEND_IF_FULL`),
`SendOldHash` for the early send of `tskkey`, `SendRest` for the one behind the loop; `pc = "send"` is the
macro `SEND_MSG`, with a step per attempt. Beside the thread, librdkafka delivers the queued messages in any
order or gives them up; a report takes the place of its message. Points carry the number of the call they
were given to instead of a value. The buffer's bytes are counted (`written`, `SizeOf`, `HeaderSize`).

**Topic** is the abstract specification of the Kafka backend: a call hands over its points in order, each message with
points of one time (or hash) that goes to the one partition of it, and has handed over all of them when it
succeeds. There is no buffer, no retry and no limit of polls. KafkaBackend implements it with `outq`, `sent` and `log` of
the same names; a call is `"idle"`, `"busy"` or `"freed"` (`Status`).

**Pipeline** extends Topic, and so stands for every behaviour of KafkaBackend. Beside it are the partitions in
the broker's order (`feed`), the offsets the proxy was given and the ones it has committed, and the proxy as far as
it decides what becomes of a point: `Consume` is `handle_message` with its `maybe_flush`, `ForceFlush` the one
between bursts. `Resume` may start from any offset between the last committed one and the last message that was given
out, as automatic commits and the one on closing come when they come, or fail. The values of points are the
numbers of the calls. TskProxy has the bursts, the signals and the parsing that Pipeline leaves out; the two are
separate models of the same lines.

**Framework** extends KeyPackage with how backends come to be enabled. An init of ASCII or DBATS is one step with
two outcomes; that of Kafka is the loop of `kafka_connect`, one step per `producer_connect`, with `connected` and
`fatal_error` as the callback may set them, and with `connect_retries` and `wait`. `ErrorCallback` sets them later, too.
`SetSingle` is one turn of the loop of `timeseries_set_single`.

**Insert** extends Framework with the program: `main` is its next statement, and inside a flush the steps are those of
KeyPackage, with all their failures. The value of a line is its number. Lines that are malformed change
nothing and are left out; a number out of range sets the mark in `errno` that stays (`OutOfRange`), until
some other library call overwrites it (`OtherError`). `input` and `poisoned` are history variables.

**DbatsBackend** is the DBATS backend of several processes on one database, one step per call of the DBATS library:
`Select` (`dbats_select_snap`), `SetValue`, `SetDeadlocks` and `SetFails` for the outcomes of `dbats_set`, `Commit`,
`CommitDeadlocks` and `CommitFails` for those of `dbats_commit_snap`. DBATS itself is external: a set of open snapshots,
what each has set, who holds the lock of a time and a key. `kp_flush`, `set_single` and `set_single_by_id` are the same
loop over their points; a bulk set (`set_bulk_init` and its calls of `set_bulk_by_id`) counts up to `bulk_expect` instead
and cannot start over. It is taken as one call, which its client gives up when a part of it fails; `Free` may come in its
middle. What `val` holds in `set_single` is any value, as nothing assigns it. Each process has a second snapshot to open,
which is used only if the first was left open.

**AtomicStore** is the abstract specification: a call has a time and points, and either all of them get into the
database in one step with its success, or none does and it fails. DbatsBackend implements it with its variables of the
same names.

A definition named `X_Y` behind a comment "Mutant" is a variant of `X` with a plausible bug that the
properties must notice; it takes no part in the specification.

## 3. Runs

| run | module, cfg | question |
|---|---|---|
| kp_any_client | KeyPackageMC, kp_any_client.cfg | Do counter and index stay exact, whatever is called in whatever order and whatever fails? |
| kp_careful_client | KeyPackageMC, kp_careful_client.cfg | For a client that only adds, sets, enables and flushes (tsk-proxy, timeseries-insert): is `dirty` right, is no key without state written, and does the package implement PointTable? |
| kp_failed_resolve | KeyPackageMC, kp_failed_resolve.cfg | (violation) Is the flush after a failed `resolve` safe? |
| proxy_data | TskProxyMC, proxy_data.cfg | Does the proxy keep, attribute and store points, and account for them? |
| proxy_live | TskProxyMC, proxy_live.cfg | If bursts end, are points stored in the end, however many errors and messages come? Does one SIGINT stop the proxy? |
| proxy_short_message | TskProxyMC, proxy_short_message.cfg | (violation) Does a message that breaks off do no more harm than being dropped? |
| kafka_flush | KafkaBackendMC, kafka_flush.cfg | Once, unmixed, to the right partition, in bounds, and back? Does nothing disappear, and does the backend implement Topic? |
| dbats_store | DbatsBackendMC, dbats_store.cfg | Do concurrent processes see an atomic store, are transactions closed, and do calls return? |
| pipeline | PipelineMC, pipeline.cfg | Does what was sent get into the database, through faults and restarts? |
| insert | InsertMC, insert.cfg | Do all backends get all lines, and nothing else, whatever fails? |
| proxy_start | ProxyStart, proxy_start.cfg | Which options get their own values, and which configurations get to run()? |
| dbats_bulk_failed | DbatsBackendMC, dbats_bulk_failed.cfg | (violation) Can the backend be freed after a bulk set has failed? |

**Key package bounds.** Three backends with the real ids (1 ASCII, 2 DBATS, 3 Kafka) in every subset; DBATS
resolves and is transactional, DBATS and Kafka may fail. Two names; three infos where names may be added
twice (a duplicate and another key), two otherwise: enough for a lookup that fails between two keys, a
key that is resolved next to one that is not, and a write that stops between two points. `MaxInfos` is the
only bound on the behaviours, which are otherwise unlimited in length. Values are a single one where no
property looks at them. The two names are symmetric (safety only).

**Proxy bounds.** In proxy_data three messages or errors per behaviour (`MaxPolls`; polls that return nothing or a partition end
are unlimited), drawn from five: one key under two times, a key twice in a message, filtered keys, a message
that is refused half way, one that breaks off. This is what it takes to leave a time, come back to it and
fail in between. `EofLimit` is 2 instead of 10. `IntMax` is 7, so that the counters wrap within three messages. One tick of the clock, so that one statistics interval is
closed, possibly after a failure. Both a transactional backend and one that is not.
In proxy_live nothing bounds the supply: messages, refused messages and errors are all `Endless`, so that a burst can last for
ever. It has DBATS, one key with two values under one time and one under another, and no tick. `IntMax` is 1, the
smallest there is, as the counters take no part in what these properties say and only have to be finite.

**Start bounds.** Files of up to five lines with two of the nine required options, both numbers, a prefix and an
unsupported key: enough for a complete file with one line more, and for a key that is left empty, a number that loses its
value, and a line that gets it. At most two prefixes instead of 1024.

**Kafka bounds.** Two calls, batches of up to four infos with prefixes in the orders AA, AAAB, BA, ABA and an empty one (the
hash changes forth and back), two times that fall into two partitions, a queue of two, a buffer of eight bytes
that is more than half full after two short pairs or a long and a short one. Two calls are enough for what a
failed one leaves behind.

**DBATS bounds.** Two processes and three calls in all, so that a process can come back to what its first call left while the
other one is in the middle of its own; one time; three sets of points: one key alone, and two keys in both orders, the
shortest way to two calls that wait for each other and to one that starts over after its first point. Two values tell the
calls apart. `MaxPoints` and `MaxCalls` are the only bounds; a call may start over any number of times.

**Pipeline bounds.** Two keys with different hashes, two times that fall into different partitions, two calls: a time can be
written twice, with a newer value, or left and followed by another one, in one partition or two. One fault, which is any of
a failed call, a copy, a loss, a failed flush, a crash; one restart. Stopping with SIGINT is not a fault, and neither
is what becomes of the offsets. Two faults in a row are not covered but for a failed flush whose repetition in the
cleanup fails, which costs nothing.

**Insert bounds.** Three lines with any of two keys and any of three numbers as time, one of which is truncated to 0
(`TimeRange` is 256 instead of 2^32): a time is left and come back to, or a key is written twice. Numbers out of range may come
in between at any time. Seven lists of `-t` options with a name that is given twice, one that does not exist, none, and
too many. The numbers of `kafka_connect` are those of the code. Three values next to 0 are the three lines.

**Fairness.** TskProxy's `FairSpec` is weak fairness of the thread (`WF(Main)`): it is always running, blocked at
most in a poll with a timeout. There is no fairness for SIGINT, the clock, or messages, and none among outcomes:
flushes may fail for ever. What the broker has to do for EventuallyStored is in the property, as `BurstsEnd`: again and again a poll
returns nothing, or a message of another time comes, or the end of a partition after the last message. `run()` counts only partition ends
(`tsk-proxy.c:591`); without BurstsEnd TLC finds the point that waits behind errors, or messages of its own time, that come without a pause.
SigintStops needs no such condition. KafkaBackend's `FairSpec` has weak fairness of the thread inside a call, where neither
new calls nor errors are promised, and of librdkafka, which gets rid of every queued message, by
`message.timeout.ms` at the latest. Pipeline's has weak fairness of the proxy's steps that need no fault: it keeps reading what
is there, and comes to the flush between bursts, which ten partition ends or a poll that returns nothing bring about
(`EventuallyStored` of proxy_live is about this, under `BurstsEnd`). Nobody promises that the producer goes on or that a stopped proxy
is started again. Insert's is weak fairness of the program's own statements, the end of the input included:
calls of the backends return, each with either outcome, and the input is finite. DbatsBackend's `FairSpec` has weak fairness of a process inside a call, where the
errors after which a call fails are not promised; who waits for a lock is told `DB_LOCK_DEADLOCK` in the end. On top of
that there is strong fairness for getting a lock that comes free again and again, and for a commit that is tried again
and again. These two are assumptions about DBATS and the lock manager beneath it: the code retries without limit and
without a pause, so that two processes that abort each other for ever are excluded by nothing else. `rd_kafka_poll` in the retry loop is what `CallReturns` depends on: in a full
queue of reports the broker cannot help.

**Deadlock** is not checked in these runs: the proxy exits, the backends are freed, and a NULL dereference or a failed
assertion ends the program. That processes do not wait for each other is what CallReturns says.

## 4. What the checks found

* **A failed `timeseries_kp_resolve` hides its keys** (kp_failed_resolve). It clears `dirty` first and does not
  restore it (`timeseries_kp.c:447`), which `timeseries_kp_flush` is careful to do. The next flush skips the lookup
  and DBATS dereferences NULL.
* **A message that breaks off in a field spins for ever** (proxy_short_message). `DESERIALIZE_VAL` returns 0, which is
  success, without consuming anything.
* **A failed bulk set leaves a dangling `bulk_snap`** (dbats_bulk_failed). `set_bulk_by_id` aborts it
  (`timeseries_backend_dbats.c:476`) and freeing the backend does it again (`:219`). As the counters stay, too, the next
  `set_bulk_init` fails its assertion (`:444`): the step BulkInitAborts of dbats_store.

Noted without a run:

* `set_single` of DBATS stores an indeterminate value: `val` is never assigned (`timeseries_backend_dbats.c:358`, `:371`). With
  "set_single" among the `Ops` of dbats_store, AtomicStoreSpec is violated within one call; `ImplementsAtomicStore` excludes it.
* tsk-proxy says of its configuration file that it consists "of key:value variables" (`tsk-proxy.c:671`), but `textp` outlives
  a line without a value (`:717`), so that the text option of that line takes the value of the next number, is
  then found given by `is_valid_config`, and the number goes without. OwnValue says which options are safe. A `filter-prefix`
  that stays without a value is handed to `strlen` as NULL (`:741`), the phase `"NULL"` of ProxyStart.
* `is_valid_config` is "checking if our configuration file is missing anything" (`tsk-proxy.c:750`) but does not ask for
  `stats-interval`. Without it, `STATS_INTERVAL_NOW` divides by 0 at the end of `init_stats_timeseries`, the phase `"SIGFPE"`.
* A Kafka flush that returns 0 has queued its messages; one that is given up later is only logged
  (`timeseries_backend_kafka.c:312`). `timeseries_kp_pub.h:190` promises "0 if the data was written
  successfully". `Accounted` of kafka_flush is what is left of it.
* A burst ends with a poll that returns nothing or with ten partition ends. Consumer errors without a pause keep it alive, as do messages:
  while these are of one time, nothing is flushed (`tsk-proxy.c:595`). The comment there only says "attempt to carry on".
* A message in hand when the flush for it fails is dropped (`tsk-proxy.c:387`), and its offset may be committed,
  as may be those of messages whose points only wait in the package when the proxy is killed. NothingForgotten of
  pipeline says that nothing else is forgotten.
* timeseries-insert: `errno` is compared with `ERANGE` (`timeseries-insert.c:91`, `:106`) and never cleared, so that lines behind
  a number out of range are refused. AllStored leaves such inputs out.
* Batch mode keeps its keys enabled with value 0 behind each flush. If the input is not sorted by time,
  a second flush for a time overwrites what the first one had of other keys with 0. Without `Sorted`, AllStored is violated.
* A failed final flush returns at once (`timeseries-insert.c:342`): the backends are not freed, so that Kafka's queue is
  not drained. A failed `timeseries_kp_init` is only printed (`:313`), and an error in reading looks like the end.
* `-t` is accepted at most `TIMESERIES_BACKEND_ID_LAST - 1` times, while the message next to it says
  `TIMESERIES_BACKEND_ID_LAST` (`timeseries-insert.c:267`).
* Each round of `kafka_connect` makes a new producer and forgets the handle of the one before
  (`timeseries_backend_kafka.c:403`). `connected` and `fatal_error` are not read any more once the loop is left.
* `timeseries_kp_flush` visits the backends that are enabled when it is called; `timeseries_kp_pub.h:192` says only
  those "enabled when the KP was created".
* A timestamp of 0 defeats `FORCE_FLUSH` in tsk-proxy, as `current_time == 0` stands for "nothing pending"
  (`tsk-proxy.c:104`, `:296`): the points stay behind and go out under a later time. The proxy runs use other times.
* `timeseries_backend_dbats_resolve_key` returns -1 as a `size_t` (`timeseries_backend_dbats.c:513`, `:519`) where
  `timeseries_backend_int.h:279` says 0 on an error.
* `timeseries_kp_resolve` is announced as resolving all keys (`timeseries_kp_pub.h:173`), but
  `kp_ki_update` of DBATS skips the disabled ones (`timeseries_backend_dbats.c:263`). This together with enabling a key
  afterwards, or with a backend that is enabled late, is a second way to a flush that skips a lookup it needs. The
  `Calls` of kp_careful_client leave both out; no tool in the repository does either.

## 5. Proofs

All theorems are about every value of the constants, and the proofs use no bound of a configuration.

*Table (KpTable_proofs).* One lemma for each operator: what adding, setting, enabling, disabling, sweeping and
looking up do to a well formed table. The counter lemmas rest on what adding or removing one index does to the
cardinality of a finite set.

*Key package (KeyPackage_proofs).*
* `TypeCorrect`, `CounterIsExact`, `LookupIsExact`. The invariant (`KpInv`) is the types together with the table being
  well formed, and the relation of the cursor to the phase. Well-formedness contains both properties because the
  type of one table operation rests on the index being inside the array.
* `CleanIsResolved`, `CarefulClientSafe`. "Clean means resolved" holds between calls only, so the invariant
  (`ResolutionInv`) says what has been resolved at every point of a flush: all backends below the cursor and, in the
  write phase, the one at the cursor, or everything if the flush started clean. Two named assumptions: `CarefulClient`
  (no disabling, resolving by hand, or enabling of backends) and `FaultOrder` (the ids of backends that may fail
  in `kp_flush` are not below those of backends that look up). The second one is a fact about today's
  ids; the run kp_failed_resolve shows that the first is needed. A key switched off by the flag DISABLE
  keeps its states, so enabling is harmless as long as nothing else disables.
* `ImplementsPointTable`, assuming that no name is added twice (every caller in the repository asks
  `timeseries_kp_get_key` first; the library does not, and with two infos of a name the row would be that of the newer
  one while the older keeps being written). Any other call is allowed, and any backend may fail. `RowsInv`: every
  info is the one its name leads to, and during a flush the backends below the cursor hold the points of all
  enabled infos under the time of the flush. `SamePointsStep` makes stutters of the steps that only look keys up,
  `WrittenRows` makes a write of infos one of rows, so that a failed one is a partial `Deliver` (or, transactional, nothing),
  and at the end of the loop RowsInv is the guard of `Complete`.

*Kafka backend (KafkaBackend_proofs).*
* `TypeCorrect`, `NeverAborts`. The invariant (`TypeInv`) adds to the types that the buffer is empty exactly if its
  size is 0, empty between calls, and at most half full in the loop. `RoomAssumption` is that half a
  buffer takes a header and any one pair; the code asserts the consequence and nothing ensures it for arbitrary
  key lengths.
* `HandsOverOnce`. What has been handed over, what is in the buffer and what is still to visit are, one behind the
  other, the keys the call was given. The strengthening (`OnceInv`) is that the final send starts with nothing
  left to visit and that a call in progress has not been marked as done.
* `RoutesTogether`. `RouteInv` follows the route of a point (its time, or the hash of its prefix) through the buffer,
  the queue and the partitions: one route per buffer, equal to `msgkey`, then to the argument of the send, then to
  the key of the message, which alone determines the partition.

*Kafka backend against the topic (KafkaBackend_proofs).*
* `NothingVanishes`. `Accounted` is inductive together with the types: a message takes all of the buffer with it, and one
  that is taken out of the middle of the queue leaves all others in it (`OthersStay`).
* `ImplementsTopic`. `FillInv`: the pairs in the buffer have the call's time and number, and all of them the key under which
  they will be sent. With OnceInv this makes the buffer exactly the points of the call that come next (`NextPoints`),
  which is what Topic hands over; `TopicStep` maps each send with pairs to it, the last empty one to `Return`, errors to
  `Fail`, `Destroy` to `Free`, and what fills the buffer or polls to stutters. Pipeline, which
  extends Topic, is therefore about every behaviour of KafkaBackend, for any number of keys and calls.

*Start of the proxy (ProxyStart_proofs).* For files of any length, any required options and any number of prefixes.
* `TypeCorrect`, `ValuesAreOwn`. The invariant says where the two pointers may point: to the key of the line, or to an option
  that has been left empty; a pointer to a number whose value went into a text is a third case, which is why a text without
  a value is enough to spoil a number and not the other way round.
* `RunsWithAll`. What the check has found is still so when `run()` begins.

*tsk-proxy (TskProxy_proofs).* For every set of keys, filters, messages and backends, and any number of messages, intervals
and signals.
* `TypeCorrect`, `AssertionHolds`. The invariant (`Inv`) has the types, with both packages well formed, and what `run()` relies on at each
  `pc`: no burst goes on once the limit of partition ends is reached, the message in hand is one, and points are parsed under its
  time. That the assertion holds is among it, as `pc` never gets to `"aborted"`: the flush sweeps the keys with the flag DISABLE, and the
  cached count it asserts is exact in a well formed table.
* `LatestIsKept`, `StoresReceived`, `CleanExitStoresAll`, if 0 is not among the times. `PointsInv` relates `latest`, the package and
  the database: an enabled info has the last value parsed for its key and `current_time`, which is not 0 (`HoldsLatest`); every
  other slot that was parsed is in the database with its last value (`StoredOrHeld`); behind the forced flush nothing is enabled, and
  0 is returned only from there (`Flushed`). HoldsLatest is what fails for a message with time 0, which leaves
  keys enabled while `current_time` says there are none (`tsk-proxy.c:296`): with 0 among the times TLC finds all three
  properties violated. The lemmas of KpTable_proofs on single operators (`SetValueEffect`, `EnableKeyEffect`,
  `ResetDisableEffect`, `LookupFailedSame`) say what a step does to the points of a table.
* `Conserves`. `CountsInv`: the intervals up to `stats_time` and the package add up to `total` (`CountsKept`), and what lies
  behind is empty (`LaterEmpty`). The sum over the intervals is a fold of the community modules, about which nothing can be proved
  by induction; what is needed is that a sum over a finite set exists, and grows by what one more element
  gives. The lemmas get that from a smallest set that is a counterexample (`LeastElement`, `MinimalSubset`, `SumExists`, `SumStep`).

*Pipeline (Pipeline_proofs).* For any number of partitions, keys, calls, faults and restarts; that no message has time 0 is
part of the model's assumption. The invariant follows a message. `ProducerInv`: the messages in the queue are sound, that is, their
points have the time of the header and keys that lead to the message's key. `FeedInv`: so are those in the partitions, each in the
partition of its key. `ProxyInv`: the offsets are ordered, and without a time nothing is pending. Then come the relations
between what was read and what is stored:
* `InView`: while the proxy runs, the slot of each point that was read, except in messages that were given up, has in `Seen` (the database as the next
  flush will leave it) the value of this message or of a later one of the same partition.
* `InStore`: the same of the database itself, except for the messages that the package was filled from. This is what is left
  after a crash, and what a restart from any committed offset begins with.
* `SentInv`: whatever is in `Seen` or in the database was sent.

`StoresSent` and `ForgetsNothing` follow at once. The step that matters is `ConsumeStep`: a message replaces the value of a slot
only by its own, and as all points of a slot are in one partition (`OnePartition`, from the partitioner and FeedInv), this
is newer than what it replaces. A copy or a message that is read again is in the same partition, too, with the newer ones behind
it. A flush that fails half way leaves for each slot the old value or the one in sight, which `KeptMixed` says is enough.

*DBATS backend (DbatsBackend_proofs).* For any number of processes, keys, times and points.
* `TypeCorrect`, `ClosesSnapshots`. The invariant (`StateInv`) has two parts beside the types. `TxnInv`: a process has an
  open snapshot, its own, exactly while it sets and commits, and nothing is kept of one that has ended; this is what makes
  the steps of different processes independent. `Counts`: how far the loop is, the counters of a bulk set saying the
  same, and `bulk_snap` being the open snapshot in a bulk set, which `Free` needs.
* `ImplementsAtomicStore`, assuming that `set_single` is not used. `OverlayInv`: an open transaction has, for each key, the
  value of the last point with that key in front of the loop's index, and nothing else. `CommittedIsOverlay` turns
  this into the abstract operator when the index is at the end, and `AtomicStep` maps `Commit` to success, the steps that
  return -1 to failure, and all others, starting over included, to stutters. Resuming the loop after a conflict
  instead of starting it again breaks OverlayInv at `Select`.

*timeseries-insert (Insert_proofs).* For any options, backends, keys, times and number of lines; the assumptions are that the numbers
of lines are among the values, 0 included, and what `Insert` says of its constants. The package is the one of KeyPackage, so
its invariants `KpInv` and `RowsInv` come from KeyPackage_proofs (`LibraryInv`), and a flush is looked at through the rows of
the package rather than through its table.
* `InsertTypeCorrect`, `KafkaIsReady`. `ProgInv` adds to these two invariants where the program is and what it has got by then
  (`ControlInv`: nothing is read or written before the input is open; a flush is in progress only at the two places that call one,
  with `gtime` as its time; `main()` returns -1 until it gets to its end) and that the loop which connects is not entered with a fatal error
  (`ConnectInv`).
* `BackendsDoAgree`. BackendsAgree alone is not inductive: it says nothing about which backends have what in the middle of a write.
  `AgreeInv` adds that those below the cursor have the line, or that only a backend that the flush has visited
  and one that it has not may differ, in a slot that the flush writes. When the cursor is at the end, nothing may differ.
* `OnlyLinesStored`. `LinesInv` is the property together with the same of the package: the value of each row that is on is a
  line of this key with the time `gtime`, or a 0, and then there is a line of the key. This is the reason that `gtime` must not change
  without a flush behind which all values are 0, and what a line with time 0 breaks (`timeseries-insert.c:118`).
* `AllLinesStored`. `HistoryInv`: `gtime` is the time of a line, values are only in rows that are on, no line is refused until a
  number was out of range, and points are pending where the end of the input is met. `SingleInv`: the last line of each slot is in each backend,
  but for the line in hand in the backends at and behind the cursor. `BatchInv`: the last line of each slot is
  in hand, or waits in the package under `gtime`, or is in every backend and has a time below `gtime`; the last clause is what makes
  the zeros of the next flush harmless in sorted input, since they go under a time that no stored line has.

*Only model-checked.* Liveness (TLAPS has no fairness reasoning here): EventuallyStored, SigintStops, CallReturns of both
backends, EventuallySynced, Terminates. Every invariant, action property and refinement that a passing run checks is also a theorem.

## 6. What is not modelled

* Failed allocations. The array pointer is lost with `realloc` (`timeseries_kp.c:359`), which no caller survives.
* DBATS's `resolve_key` and `resolve_key_bulk` and the ASCII bulk operations: no program in the repository calls them.
  DBATS's bulk set has a transaction to lose and is modelled.
* What DBATS does inside: its page locks are taken as locks of a time and a key, and a failed commit as one that ends
  the transaction. Clients that go on with a bulk set after a part of it has failed.
* DBATS without transactions, the option `no-txn` (`timeseries_backend_dbats.c:57`, `:128`): what DbatsBackend says of
  all or nothing is about the default.
* The length of keys in tsk-proxy. `parse_key_value` copies a key of up to 65535 bytes into `key[KEY_BUF_LEN]`, which has 1024
  (`tsk-proxy.c:240`, `:256`); the model's keys fit.
* The values of points in KafkaBackend.
* In Pipeline: several proxies that share the partitions, a proxy whose offsets have expired, and a start anywhere but at
  the earliest message without a committed offset; the format `ascii`, which tsk-proxy does not read.
* The contents of header and pairs, and the filters of tsk-proxy beyond which keys pass. `handle_message` compares only
  the common length of the channel names (`tsk-proxy.c:376`).
* What happens inside libyaml and librdkafka when tsk-proxy starts; a configuration that is not flat, texts in place of
  numbers (`atoi`); the name of the statistics keys; option strings, logging, build: parsing and output.

## 7. Plan

Done: KpTable, KeyPackage, PointTable, ProxyStart, TskProxy, KafkaBackend, Topic, Pipeline, Framework, Insert, DbatsBackend,
AtomicStore, with the proofs above. Next, in this order:

1. The flush of tsk-proxy, which is one step, against KeyPackage, where it is many: with one enabled backend, and a history variable for
   the table that a flush begins with, each way out of the flush should leave what `FlushDone`, `LookupFailed` and `WriteFailed` of
   KpTable say.
2. timeseries-insert in batch mode against PointTable. `PutLine` adds a key and sets its value in one step, which is two of the
   point table, so that it has to be cut in two first.
