# Verification of the eTraceGen event telemetry engine

TLA+ models of the engine's kernel programs and of its user-space pipeline,
checked with TLC on small instances, and TLAPS proofs of the central properties
for every instance. Paths below are relative to the repository root.

## 1. The system

Programs attached to Linux tracepoints (`bpf/*.bpf.c`, `*_common.bpf.h`) write
records into one ring buffer. A single-threaded daemon (`src/main.cpp`) polls the
ring; every record goes through

    decode -> skip own events -> normalize -> registry -> policy -> JSON sink

| Component | State | Operations | Talks to |
|---|---|---|---|
| Process probes (`event_logger_process.bpf.c`) | none | exec, fork, exit, clone/clone3/vfork return | ring |
| Enter/exit correlation (`save_*_enter_state`, `emit_*_exit_event`) | three LRU maps keyed by (pid_tgid, kind), `bpf_stats` | save on sys_enter, join and submit on sys_exit | ring |
| Socket descriptor tracking (`socket_fd_state`) | hash map (tgid, fd) | fill on socket/socketpair/accept, clear on close, gate for read/write/close and the like | correlation maps, the real descriptor table |
| Ring buffer | bounded queue | reserve, submit, discard, poll | all probes, collector |
| Network event contents (`network.bpf.c`, `emit_network_exit_event`) | the saved event | read user memory on enter and on exit | the application's memory |
| Collector (`collector_libbpf.cpp`) | object, links, reader, startup report | Start, PollOnce, Stop | main, BPF maps |
| Configuration (`main.cpp`, `collector_libbpf.cpp`) | sink and runtime settings | two line readers, map writers | sink, BPF maps |
| Decoder, normalizer | none | bytes to event variant to canonical event | callback |
| Entity registry (`entity_registry.cpp`) | entities by id, tgid index, next id | Ingest (resolve, child, exit, evict) | `/proc` |
| JSON sink (`json_sink.cpp`) | stream, size, pending count, flush time | Write (rotate, append, flush), destructor | file system |
| Main | `g_running`, metrics | start, loop, signal handler, shutdown | all |
| Policy, metrics, formatting, scripts | see section 7 | | |

What is hard here: programs go live one at a time on a running system; the ring
overflows; maps evict or fill up; an event is consumed after the fact while
`/proc` speaks of the present; pids and tgids are reused; enter handler, kernel
work and exit handler of several threads interleave; timestamps of several CPUs
arrive out of order; the kernel programs read memory the application keeps
writing to; rotation and start can fail half way, the disk fills up, the engine is
killed; a signal comes at any time. `PROJECT.json` lists each hazard at its line.

What makes each part correct:

* registry: its two tables agree exactly, an id is one process instance for ever,
  nothing about an exited entity changes, the cap holds and evicts the least
  recently seen, the context printed with an event is the actor's own;
* correlation: arguments and return value of an event are of one call, a payload
  is used once, no loss goes uncounted;
* process telemetry: an id names one process, a living process has one id,
  recorded parents are real;
* network events: endpoint and byte counts are the call's own;
* configuration: what is read is what the file means, a report without degradation
  is true;
* sockets: the map holds the sockets the process created, no file is reported as
  network traffic, no call on such a socket is missed;
* sink: exact size, limit kept, unbroken ordered file, bounded unflushed tail,
  outages that end and crashes of bounded cost;
* daemon: everything is released on every way out, delivery is ordered and
  complete, degradation is reported, a signal ends main.

## 2. Modules

| Module | Models | Checked by |
|---|---|---|
| `EntityRegistry` | `src/registry/entity_registry.{h,cpp}`, one action per `Ingest` | `RegistryIdentity`, `RegistryEviction`, proofs |
| `ProcessDirectory` | what the registry promises (abstract specification) | `RegistryIdentity`: `ImplementsDirectory` |
| `EntityRegistryProofs` | theorems about it | TLAPS |
| `SyscallPairing` | `save_*_enter_state`, `emit_*_exit_event`, the attach loop | `SyscallPairing`, proofs |
| `SyscallPairingProofs` | theorems about it | TLAPS |
| `ProcessTelemetry` | process probes, ring and tasks, composed with `EntityRegistry` | `Identity`, `ThreadExit`, `CloneAfterExit`, proofs |
| `ProcessTelemetryProofs` | theorems about it, on top of `EntityRegistryProofs` | TLAPS |
| `SocketFdMap` | network handlers and `socket_fd_state` | `Socket`, proofs |
| `SocketFdMapProofs` | theorems about it | TLAPS |
| `NetworkRecord` | what the network handlers read from user memory | `NetworkRecord`, proofs |
| `NetworkRecordProofs` | theorems about it | TLAPS |
| `RuntimeConfig` | both configuration readers, and the map writers of `Collector::Start` | `RuntimeConfig`, proofs |
| `RuntimeConfigProofs` | theorems about it | TLAPS |
| `JsonSink` | `src/sinks/json_sink.cpp` | `Sink`, `Daemon`, `IdleFlush`, proofs |
| `Daemon` | `src/main.cpp` and the collector's life cycle, composed with `JsonSink` | `Daemon`, `IdleFlush`, proofs |
| `DaemonProofs` | theorems about both | TLAPS |
| `FoldLemmas` | induction, and what the folds of the community modules compute | TLAPS |

`MC*` modules hold the constants and symmetries of the instances. Operators
commented `Fault:` are broken variants of the operator that follows them. No
specification uses them; each shows that some property notices the fault.

### EntityRegistry

`processes_by_id`, `tgid_index` and `next_id` are the members of the class; a
missing index entry is 0. `refs` is what `Ingest` writes back into the event. The
member functions are operators on the record of the three members. Those that can
evict return the set of possible results, because ties between equal `last_seen`
values are broken by the order of an unordered map. Of the descriptive fields the
executable path is kept, as the stand-in for everything read from `/proc`. The
answers of `/proc` are inputs, and the check in `IsReused` and the later read in
`RefreshRich` may answer differently. Subtraction of timestamps is modulo `Word`.
Events carry any timestamp, so order is not assumed.

### SyscallPairing

One domain (file, raw syscall or network: the code is the same three times). A
payload is represented by the number of the call whose arguments it holds. A
handler is one step: it runs to completion and its key belongs to the current
thread. `AttachNext` is one turn of the collector's attach loop and may fail.
`Updated` is the LRU map: when full it drops any other entry, which is all a
caller may rely on of the kernel's approximate LRU. `early` and `lost` are history
variables.

### ProcessTelemetry

Tasks with tid, tgid, birth time, executable, running or zombie. `Fork`,
`NewThread`, `Exec`, `Exit` and `Reap` are the kernel's actions (external);
each emits what its probe emits. `CloneReturn` is the return of clone, clone3 or
vfork in the parent, at any later time; fork(2) has no return probe. `upsets`
notes that an event was lost, a thread was made or a clone returned after its
child's exit, the three conditions under which identity is not exact. `Consume` takes the oldest record, reads `/proc` as it
is now and calls the registry's `Ingest`. Real processes (tgid and birth) travel
along in history fields so that properties can compare them with the ids. All tasks are in
one pid namespace: the clone probes take the child's pid from the return value
(`event_logger_process.bpf.c:92-94`), which is a number of the caller's namespace, where the
other probes use global numbers. `LivingHasOneId`
also asks that nothing was evicted (`Roomy`): an evicted process that is seen again
gets a new id.

### ProcessDirectory

The notes on the class (`entity_registry.h`) as a specification of three variables:
the id each tgid has now, the number of ids issued, and the last answer. An event
may make the directory issue up to two ids and forget any number of tgids; it never
gives a tgid an id it had before, nor two tgids one id; and the answer is the id of
the event's own process. `EntityRegistry` maps `tgid_index`, `next_id` and `refs` to them
(`Directory`) and its specification implies that of the directory.

### SocketFdMap

One tgid with several threads. A call is three steps: enter handler, kernel,
exit handler. `fds` is the true table; the kernel hands out the lowest free
number. `Hazards` switches on losses, dup2, the reuse of the tgid, and another thread that
overwrites the array of a socketpair before its exit handler reads it from user memory
(`event_logger_common.bpf.h:1056-1063`), which puts any number into the map; a full
`socket_fd_state`, which all processes share, is one of the losses. `upsets` notes which
of them has struck and `raced` that two threads were at work on one descriptor
while one of them made or closed it; the exact properties hold until then. The
network programs are part of the BPF object (`bpf/event_logger.bpf.c` includes them);
the port filter `is_network_port_allowed` always answers true, so that the
discard branch behind it is unreachable.

### NetworkRecord

One thread, its calls in sequence; its address buffer and `mmsghdr` array, which it
uses again and again; the kernel's part of each call; the enter handler before and
the exit handler after it. An address or option value is whole or absent.
`Hazards` adds another thread that writes to the buffers, the I/O vectors included, between
the enter handler, the kernel's work and the exit handler, and memory that is not resident
when a program looks. The event is compared with what the kernel really used (`truth`, a
history field): what was asked for is what the vectors say when the kernel reads them, not
when the enter handler did. A failed call is compared too: its event may have the value the
caller passed in and nothing else.

### RuntimeConfig

A file is a sequence of lines as they are after comments and blanks are gone:
header, key and value, key and inline list, item of a block list. Both readers
fold over it; they have no notion of depth. Depth is in the model so that `Owner` and
`Setting` can say what the file means in YAML, and `ParseMeans` compares, for toggles, lists,
and the path and limit of the sink, on files in block style whose lists are inline and in
their own section (`BlockStyle`, `Home`). The second half
writes the maps one by one, where any map may be missing and any update may fail. An object
without a toggle map has programs that ask no toggle, so all of them are on, and the report
is degraded.
The programs consult the toggles; allowlists and filter flags are written for them
but `is_*_allowed` answer yes, as `docs/setup.md` says.

### JsonSink and Daemon

The file is the sequence `visible`, the stream buffer the sequence `buffered`; a
stream may hand lines on early, as a finite buffer must, down to the beginning of
a line (`torn`). `age` counts ticks since the last flush up to the interval.

Faults of the sink: with `disk` the system may refuse bytes at any hand-over; the
stream then goes bad, which the code never looks at, and refuses every line while
the byte count goes on, until a rotation opens the file again. Whether a bad
stream offers its buffer once more on flush or close depends on the library, so
both are possible. With `crash` the engine is killed between two Writes (`Crash`) or
inside one (`CrashInWrite`): before the record is appended, or after that and before the
flush, when the stream holds up to `kFlushEvery` records. The
next run's constructor finds what had been handed on and appends to it, a cut-off
line included (`glued`).

`Daemon` adds main's program counter, the collector's resources, the ring, the
metrics and the signal, and runs the sink without faults. `Start` is split where
something observable happens in between: open and load, configuration, every
attach, the reader. `PollReturns` requires an empty ring because
`ring_buffer__poll` drains it before it returns.

## 3. Runs

Passing:

* `RegistryIdentity`: every event, actor and `/proc` answer in any order on two
  tgids, two ids, cap 2. The registry implements the directory, identities are
  stable, the context printed is the actor's. Nothing is evicted here; that these hold
  across evictions is left to the theorems.
* `RegistryEviction`: at the cap, with three ids and processes that are gone; a
  start event creates two entities while the table is full. Tables agree, the
  victim is the least recently seen, exited entities are frozen. `/proc` never shows a
  different start time here, so reuse found by `IsReused`, and the wrap of the subtraction
  in it, are covered by `RegistryIdentity` and, for these properties, by the theorems.
* `SyscallPairing`: two threads of three calls each, one kind that returns and
  one that never does, a map of two entries, every pattern of attach failures.
* `Identity`: two pids, seven kernel steps, a ring of four. As long as `upsets` is
  empty, ids and processes correspond and parents are real, whatever the delay
  between kernel and user space; different tgids never share an id at all. Every
  one of the three conditions is needed. The cap is above what the run can issue, so
  that `Roomy` excludes nothing; with a cap of 2 and without `Roomy` TLC finds a living
  process with two ids. Eviction itself is the subject of `RegistryEviction`.
* `Socket`: two threads, two descriptors, accept, socketpair, read and close next to
  opening files, and up to two of the four hazards and the race in one behaviour. The
  map is exact, nothing is mislabelled or missed while nothing has struck;
  `OnlyOpened` holds under all of them but the overwritten pair.
* `NetworkRecord`: six kinds that cover every way to fill an event, a batch one
  message longer than the programs look at, vectors longer than they look at, and two
  interchangeable values, so that the value of another call or thread can be told from the
  call's own. With nobody else writing, endpoint and option are the call's own
  (`CapturedTrue`) and the request is never overstated (`RequestBounded`); with everything
  readable and within the limits, request and transfer are exact (`RequestExact`,
  `TransferExact`), and left-over cells only add (`TransferCovers`).
* `RuntimeConfig`: all files of up to four lines over the lines of
  `MCRuntimeConfig`, with every pattern of failing updates.
* `Daemon`: two programs, five events, a ring of two, a signal at any moment.
* `Sink`: eight records, two crashes, refused bytes at any time, a record larger than
  the file limit, a file of an earlier run below and above the limit, failed rotations,
  kills between and inside Writes. A kill costs at most `kFlushEvery + 1` records
  (`CrashCost`): one more than the lag between Writes, and one that may be glued. While the
  stream is in order a file is started over only if it is full (`RotatesOnlyWhenFull`).

Violated, each by a behaviour of the code that contradicts a sentence of the
repository (quoted in `PROJECT.json`, `findings`):

* `ThreadExit`: `sched_process_exit` fires for each thread and carries the tgid;
  the registry retires the living process, which gets a second id.
* `CloneAfterExit`: the clone event of a dead child creates an entity without a
  start time, which the next owner of the pid inherits.
* `IdleFlush`: with no further event nothing flushes the stream.

### Known exceptions

Differences met on the way that a property's condition excludes, or that no
property is about:

* A closed descriptor leaves `socket_fd_state` in the exit handler of close, when the
  number may already belong to a file another thread opened. Its read passes the
  gate and is reported as network traffic, which `docs/event-contract.md:89` says the
  gate prevents. `raced` excludes it from `NoMislabel` and `TrackedExact`.
* The numbers of a socketpair are read from the application's array on exit. A thread that
  writes to the array first puts numbers into the map that were never sockets. `OnlyOpened`
  excludes it (`PairsIntact`).
* The lengths of I/O vectors are read before the kernel copies them. A thread that shrinks
  them in between makes `bytes_requested` more than was asked for. `RequestBounded` excludes
  it (`raced`).
* In a container the child's pid of a clone event is that of the container's namespace, so
  the registry makes an entity for a process that does not exist, or changes that of another.
  The model has one namespace.
* recvmsg's source address is parsed on enter (`event_logger_network.bpf.c:585`), before
  the kernel has filled it in, so the event names the source of an earlier message
  or none. `CapturedTrue` excludes recvmsg.
* Byte counts of sendmmsg and recvmmsg sum `msg_len` over the requested number of
  messages; cells the kernel did not reach count with what the application left in
  them. `TransferExact` requires cleared cells, `TransferCovers` holds without.
* Configuration in YAML flow style (`docs/verification-checklist.md:193`) is ignored
  without a word; a key after the indented block of a section is still taken for
  that section; the header of a block list closes the section. `BlockStyle` excludes them,
  and with them a `port_allowlist` at the top level, which the reader takes as long as
  it still is in `network_filters` (this one came out of the proof of `ParseMeans`). The
  items of a block list are never read, and the pid, uid and syscall lists are taken
  from any section; both are outside `BlockStyle`.
* An allowlist that was written in part is not reported (`Honest` promises one entry).
* A record appended after a crash may be glued to the beginning of the line before it.
  `CrashCost` counts it.
* During an outage of the disk refused lines count as written, so a rotation may start a
  file over that is below its limit. `RotatesOnlyWhenFull` speaks of a stream in order.
* A call that enters before its exit program is attached leaves an entry behind; the
  thread's next call of that kind is refused in its favour and its return value is
  joined with the old arguments (the rule "an existing entry wins" at
  `event_logger_common.bpf.h:895`). `PairedOnceAttached` is what holds.
* An entity that had a path keeps it over an exec if `/proc` is gone when the exec is
  consumed.
* `std::stoull` takes the digits at the front of a text, so a file limit of "10MB" is 10
  bytes (`main.cpp:141`); and when `file_size` fails the byte count starts at 0.

## 4. Bounds

Two pids suffice for reuse, for parent and child and for a thread beside its
leader; two ids let an entity be retired and its tgid be used again, three let one
be evicted; two timestamps give equal, earlier and later. Two threads and three calls
give a stale entry, its collision and the call after it. A map of two entries with
four keys evicts. Seven clock ticks hold fork, exit, reuse of the pid and an event
of the second owner with room for two more. Two threads and two descriptors
give the race of close and open, a pair, and an accept that leaves one number free.
Three messages with a look at two, and vectors with a look at one entry, reach past both
limits; two values tell a stale one from the right one. bind is read as sendto's address
is, and left out of the run. Four lines hold two headers with a setting each, a setting twice, and a foreign
header between. Eight records of lengths 2 and 9 with a limit of 8 and a flush after
three pass several rotations and flushes by count and by age on each side of two
crashes. Names of bounds that exist only for checking: `MaxIds`, `MaxCalls`, `MaxClock`,
`MaxRecords`, `MaxCrashes`, `MaxEvents`, `MaxUpsets`, `MaxLines`. Deadlock is not checked where
the bound itself ends the behaviour or the program has returned.

## 5. Fairness

Only `Daemon` states it: weak fairness of `Main` (one thread that the scheduler
runs again; every call it makes returns, the poll after 200 ms at most) and of
`Time`. Nothing obliges the kernel to produce an event or a user to send a signal.
`SignalEndsMain` has the premise that production comes to a pause, since
`ring_buffer__poll` comes back only when it has found the ring empty; in the run
`MaxEvents` makes the premise true.

## 6. Proofs

Every safety property a passing run checks is also a theorem, for all values of the
constants. Assumptions are the named `ASSUME`s of the component modules: types of the
constants, nothing about their size except that caps, maps and limits are not empty.
Four theorems assume one thing more, and say so in their statement: identity,
living id and lineage that the exit probe is among `Probes`, and `DaemonCleanExit` that
the disk does not refuse bytes (`"disk" \notin Faults`).

Induction over numbers, subsets and lines comes from `FoldLemmas`. The library's
induction rules take an operator, which the provers cannot instantiate; `WFMin` speaks of
a set, so a set of naturals has a least element (`LeastNatural`) and the rest follows.
`FoldExists` then shows that the recursive function behind a fold exists, and the lemmas
on sums and the tables of `RuntimeConfigProofs` say what it computes.

`EntityRegistryProofs`, for any pids, cap, actors, `/proc` answers and clock:

* `RegistryInvariant`: type correctness, `IndexExact` and `BoundedSize` (`RegistryBounded`). The
  three are inductive together. `Ingest` composes several member functions, so the
  invariant is carried by predicates on registry values: `Good` (typed and exact) and
  `Fits` (within the cap); there is a lemma for each member function, and they chain.
  `Fits` needs `Good`: finiteness of the table comes from ids being below `next`.
* `RegistryFrozen` and `RegistryStable`: `FrozenAfterExit` and `StableIdentity`, from the
  transitive relation `Evolves` between registry values, which every member
  function respects.
* `RegistryContext`, `RegistryEvictsOldest`, `RegistryImplementsDirectory`: `Attributes` says
  what one resolution does for its actor: which id it gives, whose fields it writes,
  what it evicts. `TwoSteps` says an `Ingest` is such a resolution followed by
  bookkeeping or by the resolution of a child that is not the actor. The refinement of
  `ProcessDirectory` maps each of the two to one issue of an id or none.

`SyscallPairingProofs`, for any threads, kinds, map size and attach order:

* `PairingTypes`, `PairingCorrect`, `PairingOnce`: `TypeOK`, `PairedOnceAttached`,
  `SubmittedOnce`, from `IInv`. The properties are not inductive because they speak of
  `emitted` only; `EntryOK` says what an entry left in the map can be: of a call in
  progress, of an early call, or of a kind that never returns, never submitted
  before and different from the thread's other entries. `RunningOK` ties the call
  in progress to the attach state.
* `PairingLossCounted`: a call that collides is counted on entry and lost on return.
  `LossInv` therefore counts the threads that are `Doomed`, inside such a call, along
  with the losses.

`ProcessTelemetryProofs`, for any pids, ring size, cap and throttle, and any delay
between kernel and user space:

* `TelemetryDistinctTgids`, with losses, threads and late clone returns, from `BaseInv`: every id
  that was reported stays with its tgid even when its entity is gone.
* `TelemetryIdNamesOneProcess`. The registry lags behind the kernel by what is in
  the ring. `Tracked` is the strengthening: a process the registry knows, or an event in
  the ring mentions, is alive or its exit is to come, and before any event of a later
  owner of the tgid. A step of a task extends it (`TrackedKept`), `Consume` uses it up.
* `TelemetryLivingHasOneId` adds `LifeInv`: the registry has the living under their present id
  and with their true start time, so that no check against `/proc` retires them.
* `TelemetryLineageTrue` adds `LineInv`: events with a child name a pair that really forked.

`SocketFdMapProofs`, for any threads, descriptors and handlers: `SocketOnlyOpened` from
`OpenInv`, with every hazard; `SocketTracked`, `SocketNoMislabel` and `SocketNothingMissed` from
`CalmInv`, which says for each descriptor how far the map may be from the table: by what
calls that are done and have not returned have made (`Opening`) or closed (`Closing`).

`NetworkRecordProofs`, for any kinds, values, vectors and batches of any length:
`RecordInvariant` relates the saved entry, the memory and what the kernel has done; from it
`RecordCapturedTrue`, `RecordTransferExact`, `RecordTransferCovers`, `RecordRequestBounded` and
`RecordRequestExact`. The byte counts need the sums of `FoldLemmas`: monotone in the
summands, and unchanged by cells that are 0.

`RuntimeConfigProofs`, for files of any length and any lines: `LoadTable` and `SinkTable` turn
the folds into the sequence of what is known after each line. `LastHeader` says which
header opened the section the reader is in, and `SectionIs` that at an indented line of a
file in block style this is the owner by indentation; `ConfigParseMeans` follows as "the last
assignment wins", and `ConfigOnlyInSection` from `LastHeader` alone. `ConfigHonest`
follows from `ConfigInv`, which keeps account of the maps written so far.

`DaemonProofs`, for any record lengths, limits, intervals, programs, ring and events:

* the sink's seven properties, from `SinkInvariant`. A `Write` composes operators on streams,
  so the invariant is carried by `Safe` (of every stream: what is pending and
  refused) and `Exact` (of a sink in service: size, limit and order of the lines).
  `SinkCrashCost` needs `CostInv`, the accounting of records lost and glued per crash, and
  that a stream in the middle of a Write holds at most `kFlushEvery` records.
* `DaemonTypes`, `DaemonCleanExit`, `DaemonOrderedDelivery`, `DaemonDegradedIsReported`, from
  `DaemonInv`: the sink's invariant, what holds at each place main can be
  (`MainPhases`), and the order of events across ring, callback and sink (`PipeOrder`).

Model-checked only: `SignalEndsMain` (liveness under fairness is out of the prover's
reach), and the three properties that are violated.

## 7. Not modelled

* Policy: `Allow` returns true. Enricher: not compiled, the registry replaced it.
* JSON text, the bytes of an address, transport inference and flow ids: pure
  functions of one event, no state.
* Characters of the configuration: trimming, quotes and number parsing happen before
  the model's lines begin.
* Record sizes in the decoder and the normalizer's classification of file and
  network events: a record is decodable or not, and the registry treats them alike.
* Order of reservation across CPUs in the ring: the ring delivers in that order; the
  models let timestamps be out of order instead.
* Pid namespaces: see the known exceptions.
* Execve by a thread that is not the leader: the key of its call changes inside the call.
* Build and validation scripts.

## 8. Plan

1. Execve by a thread that is not the leader in `SyscallPairing`: the key of its call
   changes inside the call, and its entry is left to the next user of the id.
2. The ring with reserve, discard and submit as an implementation of a lossy queue, the
   queue that `ProcessTelemetry` and `Daemon` use.
3. What remains true of identity under each single upset (loss, thread, late clone
   return), as theorems next to `TelemetryDistinctTgids`.
