# Universal Bridge: TLA+ models, model checking and proofs

Universal Bridge is a C++20 program that moves musical sessions, parameter values,
MIDI and audio between hardware and a DAW. This directory holds TLA+ modules of
its stateful parts, TLC configurations that check them on small instances, and
TLAPS proofs, for every value of the constants, of every safety property that a run
checks. Source paths below are relative to `src/`. `PROJECT.json` names, for
every definition, the lines it stands for.

- [1 The system](#1-the-system)
- [2 Plan](#2-plan)
- [3 Modules and code](#3-modules-and-code)
- [4 Runs, bounds and results](#4-runs-bounds-and-results)
- [5 Disagreements found](#5-disagreements-found)
- [6 Proofs](#6-proofs)
- [7 What is not covered](#7-what-is-not-covered)
- [8 Running it](#8-running-it)

## 1 The system

### 1.1 Components

| Component | Source | State it keeps | Operations |
|---|---|---|---|
| SPSC ring buffer | `include/ubridge/core/realtime_buffer.hpp` | slots, two atomic 64-bit counters | `try_push`, `try_pop` (single and batch), `reset` |
| State mirror and parameter writes | `src/core/state_sync.cpp` | a write intent: phase, deadline, expected revision | `plan_parameter_write`, `dispatch_…`, `acknowledge_…`, `expire_…` |
| Parameter relay | `src/core/parameter_sync.cpp` | none; it is one step of a loop through both sides | `validate_parameter_mapping`, `plan_parameter_relay` |
| Durable session store | `src/core/session_store.cpp` | current, pending and previous snapshot files | `save`, `load` |
| Transaction journal | `src/core/bridge_core.cpp` 217–275 | list of transactions | `begin`, `transition`, `find` |
| In-process service | `src/platform/local_service.cpp` | service state, a journal | `start`, `stop`, `begin_transaction` |
| Local IPC | `src/platform/local_ipc.cpp`, `src/service/` | pipe, credential file, persisted counters | `run_local_ipc_server`, `send_local_ipc_command` |
| MIDI mediator | `src/core/midi_mediation.cpp` | policy, echo records, rate windows, transport state, two rings | `route`, `pop_for_…`, `set_policy`, `reset` |
| Session branches and merge | `src/core/session_tools.cpp`, `bridge_core.cpp` 188–215 | a merge plan; an archive plan | `create_branch`, `plan_merge`, `resolve_conflict`, `validate`, `plan_archive` |
| MPC XPJ reader | `src/core/mpc_xpj_reader.cpp` | the session it builds | `inspect_xpj`, `import_xpj` |
| Audio capture | `src/platform/hardware_backends.cpp` 235–563 | worker thread, stop flag, state, counters, a ring | `begin_capture`, `read_capture`, `stop_capture` |
| MIDI backend, discovery | `src/platform/hardware_backends.cpp` | open handles, one object per input | enumeration, `open_…`, `send`, `receive`, `close` |
| Negotiation | `src/core/bridge_core.cpp`, `protocol_capabilities.cpp`, `src/adapters/` | plans made from evidence that keeps growing | `negotiate`, `plan_audio_capture`, `plan_midi_route`, `plan_finish_in_daw` |
| Command line application | `src/main.cpp` | files in an output folder and a temporary one | preflight, import, MIDI commands |
| Synchronization guard, performance tools, reports | `src/core/`, `src/orchestrator/` | none | decisions and text |
| VST3 client | `src/plugins/vst3/` | two flags | `process`, `getState`, `setState` |

### 1.2 How they interact

- *Shared memory.* The ring carries MIDI packets inside `MidiMediator` and audio
  samples from `capture_worker` to the capture's owner. Producer and consumer
  share nothing else; the ring's counters are its only synchronisation.
  The capture's state, stop flag and counters are atomics of the two threads.
- *Callbacks.* The MIDI driver's thread calls `receive` with a pointer to an
  object that the program's thread frees in `close`.
- *Calls.* `LocalBridgeService` owns a private journal and only ever begins
  transactions. A relay plan produces a write intent for the write lifecycle,
  and the read-back of that write is the next value to relay. Merging calls
  `detect_conflicts` of the core; an import makes the branch a merge starts from.
- *Messages.* One server process and any number of client processes exchange a
  request and a response over a named pipe with one instance; both sides may
  create the credential file, only the server writes the state file.
- *Files.* The session store and the IPC service persist across crashes and
  restarts. Preflight processes share a project folder they only read, an output
  folder, and one temporary file of the machine.
- *The world.* Hardware and DAW change values on their own, and their read-backs
  come late, twice, out of order or not at all; a musician turns a knob, edits
  the project or unplugs an instrument while the program works.

### 1.3 What is hard here, and what makes each part correct

| Part | Hard behaviour | Correct when |
|---|---|---|
| Ring | stale counter reads, reuse of a slot, wrap of the counters, exactly full | no data race on a slot, a bounded FIFO queue, calls never wait |
| Parameter writes | answers delayed, duplicated, reordered or assumed; expiry racing an answer; revisions moving | an acknowledgement is true, a conflict has a cause, a settled intent never changes |
| Relay | two roundings to different steps, writes lost or late, turns in the middle | the sides agree at rest, and an echo dies out |
| Session store | a crash or a power failure between any two system calls, damaged files | an acknowledged revision survives; damage costs at most one |
| Journal, service | any order of calls, repeated ids, restart of the service | phases in order, one outcome, at most one approval pending per id |
| Negotiation | partial evidence adding up, plans older than the evidence | a plan stays valid, live work rests on one qualified item |
| Local IPC | either process dying anywhere, no timeouts on reads, restart accounting, concurrent first starts | counts durable and unique, every unclean end counted once, every call returns |
| MIDI mediator | echoes, full queues, bursts at window borders, policies changing between packets | echoes do not return, bursts bounded, the transport state is what was forwarded |
| MIDI backend | failures in mid test, unplugging, a callback during `close` | nothing is left sounding or running, no callback outlives its object |
| Import, merge | colliding identifiers, references across parts; answers in any order and twice | references resolve, kits can be rebuilt, nothing lost or silently overridden, ready only when resolved |
| Capture | overflow, failure anywhere in the worker, a second capture on top of a first | every sample accounted for, stream order, no samples of another capture |
| Preflight | runs beside and after each other into one output, edits and failures in between | a reported backup is this run's, backups stay, quiet runs describe one project |

The complete list, with lines, is `hazards` in `PROJECT.json`.

## 2 Plan

Order is by how much the rest depends on a part and how little tests reach it.

1. **Done, models.** Ring with its abstract queue; parameter writes with the relay
   around them; session store; journal, service and negotiation; MIDI mediator;
   import, archive and merge; local IPC; audio capture and MIDI backend; preflight.
2. **Done, proofs.** The safety properties of all of them: ring and its refinement,
   capture, MIDI backend, parameter writes, relay, journal and service, negotiation,
   mediator, session store, import and merge, local IPC, preflight (section 6).
3. **Left.** `authorize_sync` composed with the journal; `state_sync.cpp`'s remaining
   classifications (mirror, clock domains, recording, hardware learn);
   `performance_tools.cpp`; the flags of the VST3 client.
4. **Abstract specifications.** `BoundedFifo` is stated and implemented by `SpscRing`.
   Worth stating, and proving from the invariants that exist: a durable register that
   the session store implements on Windows, and a counter service that `LocalIpc`
   implements.

## 3 Modules and code

| Module | Code | One step is |
|---|---|---|
| `BoundedFifo` | what the ring promises | a push or a pop taking effect, or the queue being emptied |
| `SpscRing` | `realtime_buffer.hpp` | one atomic access, or one slot access, of one thread |
| `ParameterWrite` | `state_sync.cpp` 162–270 | one call of the API, or a change outside |
| `ParameterRelay` | `parameter_sync.cpp` | a relay plan, an outcome of its write, or a turn of the musician |
| `SessionStore` | `session_store.cpp` | one file system call of `save`, or a failure |
| `TransactionJournal` | `bridge_core.cpp` 217–275 | one call |
| `LocalBridgeService` | `local_service.cpp`, on the journal | one call, with all it does to the journal |
| `Negotiation` | `bridge_core.cpp` 9–174, `protocol_capabilities.cpp`, `bridge_modules.cpp` | a new item of evidence, or the making of all plans |
| `LocalIpc` | `local_ipc.cpp` | one system call of one process, or a death |
| `MidiMediator` | `midi_mediation.cpp` | one call; a caller serialises them, as the header demands |
| `SessionImport` | `mpc_xpj_reader.cpp`, `session_tools.cpp` 11–207, `main.cpp` 216–226, 1348–1370 | one call, or a step of writing the file |
| `SessionMerge` | `session_tools.cpp` 228–290, `bridge_core.cpp` 188–215 | one call |
| `SessionPipeline` | both of the above, `mpc_xpj_reader.cpp` 440 | as above |
| `AudioCapture` | `hardware_backends.cpp` 235–563 | one access to what the two threads share |
| `MidiBackend` | `hardware_backends.cpp` 129–232, `main.cpp` 1183–1319 | one WinMM call, or a callback's begin or end |
| `Preflight` | `main.cpp` 149–235, 352–498, 1008–1101 | one file opened, written, read, copied or removed |
| `SpscRingProofs`, `LocalIpcProofs`, `PreflightProofs` | – | theorems about the module of that name |
| `HardwareBackendsProofs` | – | theorems about `AudioCapture` and `MidiBackend` |
| `ParameterProofs` | – | theorems about `ParameterWrite` and `ParameterRelay` |
| `TransactionProofs` | – | theorems about `TransactionJournal` and `LocalBridgeService` |
| `RoutingProofs` | – | theorems about `Negotiation` and `MidiMediator` |
| `SessionProofs` | – | theorems about `SessionStore`, `SessionImport`, `SessionMerge` and `SessionPipeline` |
| `MC…` | – | instances for TLC |

`SpscRing`. `write` and `read` are `write_sequence_` and `read_sequence_`, modulo
`Modulus` in place of 2^64. A thread reads its own counter exactly; an acquire
load of the other's may return any value between the last one it saw and the
current one, which is what acquire and release give. A batch is a sequence of
single pushes that ends at the first refusal. `reset` is allowed while no call
runs, as its comment demands, so the model does not say what happens otherwise.

`ParameterWrite`. `history` is everything that could ever be read back; any member
may be handed to `acknowledge` at any time and any number of times, and so may a
value nobody read (`Assumed`). Delay, reordering, duplication and loss need no
channel of their own.

`ParameterRelay`. A value is a position on 0 .. `Grid`, the endpoint's range, and a step
count rounds it as `std::round` does. The planned value goes through the phases of a
write, of which only the outcome matters: it arrives in time, too late, or not.
A side that changes reports it, and that report is relayed in turn; the loop is
the adapter's and external. Errors of floating point are left out.

`SessionStore`. `dir` is the directory processes see, `disk` what a power failure
leaves, `content` the revision in each file. A `WriteThrough` rename, as on
Windows, changes both; otherwise the file system copies `dir` to `disk` when it
likes. Files themselves are synced before a rename by the code.

`TransactionJournal`, `LocalBridgeService`. An entry keeps its id, phase, backup and
number of diagnostics. `passed` is a history variable. `begin_transaction` finds
the *first* entry with its id, which need not be the one it appended, and its
action says so. Refusing has no effect but the returned nothing.

`Negotiation`. A capability record is the set of its true fields. `evidence` grows as
discovery and qualification report; `route` keeps the plans made at some moment, so
that what they enabled can be compared with what is known later.

`LocalIpc`. `at` is where each process is; `keyFile`, `temp` and `file` are its files;
`pipe`, `conn`, `request` and `reply` the one pipe instance. `unended` is a
history variable that counts runs that served and ended uncleanly.
`load_or_create_credential` is split at each system call, because server and
clients run it together on one temporary name; `save_state` is one step, because
only the server runs it and it replaces the file as a whole. A client that dies
leaves the pipe taken by nobody until the server notices.

`MidiMediator`. A packet is a kind and a datum, time is an input that may stand
still, and `forwards` records what `route` put in a queue; a packet it blocks,
suppresses, limits or finds no room for leaves no trace there. Queues are
sequences: `SpscRing` shows the ring to be one.

`SessionImport`. A project is its samples, tracks with instruments, sequences with clips
and songs; an identifier is the tuple of what the code concatenates, and `StableId`
is the lossy normalisation, under which two names collide. Lookups keep the code's
rules: of several samples of one file name the last, of several tracks of one name
the first. A list of the session is a function on the places of the project its elements
come from, which keeps repetitions apart and leaves the order to the places. Notes are a list of their
own, as in the code: an event has the identifier of its sequence, a number among the
sequence's notes (`Earlier`) and a track, and no clip. `imported` is what `import_xpj` found,
`session` what it holds in memory. A broken file, and one that disappears in mid import, is
one outcome. The command then serialises and writes in the steps of `write_text`: opening
truncates the file (`Torn`), writing fills it, and the stream is looked at before it is
closed, so the command may fail before or between the two (`CommandFails`) or, when the last
buffer is lost, report a file that stayed short (`lost`); `told` is what it reported.
`Serialized` is the file: it has no programs and no content hashes, and of a program only
the identifier that its pads share. The folder has no file of an earlier import to begin
with. The copy of the source that a file below a limit carries is left out, so what is said
of the file is said of its translated parts.

`SessionMerge`. A change is a field and a value, a branch a sequence of changes. The
plan keeps its automatic changes as a set, its conflicts as pairs of places in the two
branches, ordered as the code's two loops find them, and its resolutions. `SessionPipeline` lets an
import that was written whole be followed by edits and a merge, from the empty branch at revision
zero that the import creates.

`AudioCapture`. `begin_capture` is stop, join, reset, launch, poll and decide; the
worker opens, formats, loops, drains packets and pushes sample by sample. A sample
is its capture and its position in it, so loss, repetition, reordering and leaks
between captures are visible. The queue is a sequence, as above: the owner
resets it only after the join, which `TypeOK` states and TLAPS proves, and that
is the condition under which `SpscRing` is a queue.

`MidiBackend`. `ports` is the list WinMM numbers, which moves up when an instrument is
unplugged; a process keeps a number between enumerating and opening, a handle after.
`sounding` and `rolling` are what the instruments do, `excused` those whose Note Off or
Stop failed or whose process was ended. `CloseOrder` is the order of calls in `close`.

`Preflight`. A run is a process with its options, list, fingerprint and progress. A
fingerprint is what was hashed. The temporary file is opened, written, hashed and
removed by name, so runs beside each other meet in it. `write_text` looks at its stream
before the last buffer is written, so a failing write can end a run or go unnoticed.
A file is copied, hashed or listed in one step, so an edit in place in the middle of a copy
is outside the model.
`seen` records what each file held while a run was active, `quiet` whether it was alone.

## 4 Runs, bounds and results

| Run | Instance | What it shows |
|---|---|---|
| `ring` | 3 slots, counters modulo 6, batches up to 2, 2 values | types, no race, stable copies, refinement of `BoundedFifo`, a call returns if its own thread runs |
| `write` | 1 intent, 2 values, clock 0..3, 1 revision of each side; or one parameter on 12 positions, endpoints of 2, 3, 4, 5 or 7 steps in every pairing, 2 turns | acknowledgements true, conflicts real, settled is settled; sides agree at rest, echoes die out |
| `store` | 4 saves, 2 crashes, 1 failing call, 1 damaged file, write-through | an acknowledged revision is durable; damage costs one revision |
| `store_posix` | 2 saves, 1 crash, no write-through | refutes durability where renames are not written through |
| `transactions` | 2 ids, 2 backups, 3 entries, journal alone or in the service; or planning with 2 items of evidence | order of phases, one outcome, one approval per id; plans stay valid, only qualified routes go live |
| `midi` | three scenarios: 2 notes between both ends; 1 note in bursts; all kinds under two policies | echoes, bursts, transport |
| `session` | projects with up to 2 samples, tracks, sequences and clips; 2 fields, 2 values, 2 changes a branch, 2 resolutions | a file reported as written resolves and keeps kits, clips and notes, ready archives are complete; nothing lost or overridden |
| `merge_ready` | the merge alone | refutes that ready means resolved |
| `ipc` | 2 clients, 2 calls, 2 faults, limit of 2 requests | accounting, durability, monotone counters, termination |
| `ipc_stops` | 1 client, 2 calls, 1 fault, no limit | refutes that only a shutdown ends the server |
| `hardware` | 3 samples of queue, packets of 2 frames of 2 channels, 2 captures of 2 packets; or 2 processes, 2 instruments, 2 pulses, 2 mishaps | accounting, stream order, no worker at a reset; nothing left running, no callback without its object |
| `preflight` | 2 runs, an asset and a project file, 2 documents, 1 edit, 1 fault | reported backups are true, backups survive, quiet runs are consistent |

Three runs hold parts that do not touch each other's state, one per behaviour: a variable
of the MC module (`owner` in `write` and `transactions`, `half` in `hardware`) says which, and
the others keep their initial state. In `midi` the variable `scenario` picks messages, policies
and bounds.

Why the bounds are enough to meet the cases that matter:

- *Ring.* Three slots and a batch of two give every relation of the two counters,
  full, empty and a partial batch. The modulus is twice the capacity, so counters
  wrap within a few calls and `write - read` must be taken modulo. A capacity that
  is no power of two keeps slot and counter arithmetic apart.
- *Write.* A clock of four instants separates plan, dispatch, read-back and deadline
  with one to spare; timeouts of 0 and 3 are outside what a plan accepts. One change
  of each side and of the session makes every stale combination.
- *Relay.* Twelve positions hold steps of every count used exactly, among them pairs
  without common steps (4 and 5) and ties between two steps; 13 is out of range. Two
  turns, each before, during or after a write of the other, are what can be
  in flight at once: one write is awaited before the next.
- *Store.* Four saves with two crashes give a crash between the two renames, a save
  after it, and one more.
- *Transactions.* Three entries with two ids make a repeated id beside another one.
  Two items of evidence are an input and an output that must not add up, or a weak
  item in front of a flag. Of device, platform and DAW one is short of one capability
  or is a shipped profile while the other two have everything.
- *MIDI.* Two echo slots and three forwards overwrite a record; a budget of two and
  a window of two within four instants make bursts meet at a border; queues of two
  fill up.
- *Session.* Two of everything that refers, with two names of one normalised id, make every
  collision; instruments with a sample, an absent one, a slice or nothing, in both
  places. Editing and merging follows one import, since nothing in a merge reads more of
  it than that it was written.
- *IPC.* Two clients compete for the pipe and the credential; two faults are a
  crash and a crash of the recovery. The race of first starts for the credential
  file needs one, so `MCLocalIpc` starts behaviours without that file with one fault
  used up. Two calls fill the request limit. Restarts have no bound of their own:
  every end of the server uses up a call or a fault.
- *Capture.* A packet has more samples than the queue, an odd queue makes a frame
  split, and the second capture follows a first in any state.
- *MIDI backend.* Two mishaps are an unplugging and a failure, or a failing first and a
  failing last message; with two instruments a number can name another one.
- *Preflight.* Two runs are one after the other or side by side; two documents are a first
  and a last, and the five are written alike; one edit moves the project between any two
  reads, and one fault leaves a torn file, a stale temporary one or an ended run.

*Deadlock* is checked in `ring`, `midi`, `merge_ready`, `transactions` and `hardware`, where
somebody can always move. It is off where the system may stop: a settled intent
with the clock at its bound (`write`), saves used up (`store`), calls used up and
the server waiting (`ipc`), an import that was refused (`session`), both runs ended
(`preflight`).

*Fairness.* Ring: `CallsReturn` assumes, for the calls of one thread, weak fairness of that
thread inside a call and of nothing else (`ProducerRuns`, `ConsumerRuns`), since a thread the
system schedules takes its next step; the other may stop for good anywhere, also in mid
call, and nothing makes anybody call. The specification of the run states no fairness. IPC: weak fairness of the
server's steps and of each client's, since a running process runs and a blocked
`ReadFile` or `FlushFileBuffers` returns when its condition holds; nobody need start a
server, call, die or fail, so no property relies on a restart. No other run needs
fairness: their properties are about states and steps. That echoes die out is stated as
a bound on hops for that reason.

*Mutants.* For every property of a passing run there is an operator next to a definition of
the model that changes it as a plausible bug would (for example `FullOffByOne`,
`SaveLater`, `ClearedWithoutQueue`, `IsEchoOfOwn`, `BackupOverwrites`, `CloseOrderEager`).
With it in place of the definition TLC refutes the property, so no property holds by the
shape of the model. They are listed in `PROJECT.json`.

## 5 Disagreements found

1. **POSIX saves are not durable when acknowledged** (`store_posix`,
   `session_store.cpp:255`). `save` syncs the file but neither the directory nor the
   renames; after a power failure the snapshot it returned true for may be missing.
2. **A merge is ready with a conflict unresolved** (`merge_ready`,
   `session_tools.cpp:280`). Readiness compares two counts, and one conflict may be
   answered twice.
3. **A client that dies early ends the server** (`ipc_stops`, `local_ipc.cpp:387`). The pipe
   takes clients before the server listens; if one is gone by then, accepting
   fails and the server returns.

Some properties state less than a reader may hope for, because the code gives no more:
`DamageCostsOneRevision` speaks of uninterrupted saves only, as a damaged current file is
rotated over an intact previous one and the pending file may be gone by then;
`EchoesNeverReturn` is about the forwards the echo ring still holds;
`QuietRunsAreConsistent` excludes writes lost when a file is closed, and of the temporary
file that all runs share it covers only one left behind, since nothing is promised to runs
beside each other. `WrittenImportsAreWhole` excludes a file cut short at its close, which the
command reports as written. It does not ask that a pad's `program_id` names a program of the
file, since the file has no list of programs; it says what the file gives instead, that
pads share one exactly if they are of one drum track (`KitsKept`). Notes are found by
sequence and track, as clips do not hold them (`ClipsKept`). `SettledForever` does not say
which of an answer and an expiry wins, nor `OneAwaitsPerId` that a repeated id leaves no
unreachable entry: the code leaves one.

## 6 Proofs

Assumptions are those the modules name on their constants, as weak as the code allows:

| Assumption | What it says | Why |
|---|---|---|
| `RingAssumption` | a capacity above one; a counter width that is a larger multiple of it | a `static_assert`; every capacity the repository uses (4, 1024, 4096, 262144) divides 2^64 |
| `CaptureAssumption` | queue, packets and channels are not empty | a capture format has a channel, an empty packet is not handed out |
| `MidiAssumption` | an absent number and a dead port are no instruments | names of the model |
| `WriteAssumption` | timeouts are natural, there is a value | an unsigned count of milliseconds |
| `GridAssumption` | steps of an endpoint lie on the grid, turns are positions of it | a range divided exactly, errors of floating point left out |
| `NegotiationAssumption` | evidence has one of the four levels | an enumeration |
| `MediatorAssumption` | messages, policies and times have their types; an echo slot exists | arrays of fixed size |
| `StoreAssumption`, `MergeAssumption`, `NoneAssumption` | nothing, the empty string and no file are none of the others | names of the model |
| `ImportAssumption` | projects have the shape the reader reads; a name is not the absent one, a torn file is not no file | a sample without a file name is read as none; names of the model |
| `JournalAssumption`, `KindAssumption`, `LastDocumentAssumption` | natural bounds, the four file kinds, at least one document | an enumeration, a list in the code |
| `IpcAssumption` | names differ; three more credentials than processes | 256 random bits, so a new one is never that of a process or a file |

Bounds on calls, saves, changes and mishaps are arbitrary numbers in all of them.

**`SpscRingProofs`.** `Invariance` proves the module's `Inv` inductive; `TypeCorrect`, `RaceFree`,
`CopiesStable` and `Refinement` follow. The properties alone are not inductive: a producer
that has checked for room must still have room when it stores, though the consumer
has moved. `Inv` therefore ties what each thread last saw of the other's counter to
its present value: it lies between one's own counter and the other's, so a stale
view is only ever pessimistic. From this, slots of the two threads differ, and the
queue of the abstract specification is the part of `storage` between the counters.
The arithmetic of counters modulo a multiple of the capacity is in lemmas of its own.

**`HardwareBackendsProofs`**, capture. `TypeCorrect`, `Accounted` and `InStreamOrder`, for every
capacity, packet size, channel count, and number of packets and captures.
`TypeOK`, `SamplesAccounted` and `QueueIsTheStream` are inductive only together. Order needs the
accounting: a pushed sample is number `Delivered + 1`, which is behind everything
queued because `Delivered` is what was read, waits and was dropped; and it is right
behind when nothing was dropped. Both need a part of `TypeOK` that looks like none of a
sample's business: no worker exists when the queue is reset and no packet is in hand
when there is no worker, so that a new capture starts from nothing.
Each action has a lemma; actions that move no sample share one.

MIDI backend: `MidiInvariance`, `NothingIsLeftRunning` and `CallbacksHaveTheirInput`, for any
number of processes, instruments, pulses and mishaps. `MidiInv` says what a process has
open at each stage of its command, that an output has one owner, and that whatever sounds
or rolls either has an owner who has not yet come to the stage that ends it, or is
excused. One owner per output is needed because a second owner's `close` would leave the
first one's note to nobody. A callback runs only in a process whose input is monitoring or
is before the call of `close` that waits for it, so what frees the input comes after it.

**`ParameterProofs`**, writes. `TypeCorrect`, `AcksAreTrue`, `ConflictsAreReal` and
`SettledStays`, for any number of intents, clock, timeouts and revisions. What is added to
the properties is that whatever a side holds now can be read (`Present`) and that plan
and dispatch lie behind the clock (`InThePast`): a conflict's cause is then a snapshot
no older than the plan. `CallKeeps` says what the new state of one intent has to
satisfy (`Settles`), and every call is shown to produce such a state.

Relay: `RelayInvariance`, `EchoesEnd` and `RestAgrees`, for any range, mappings, step counts
and number of turns. That the sides agree at rest to half a step of each is rounding and
`Carries`: a write in flight holds what its source holds, or the source has yet to report.
That an echo moves a side at most three times is `RoundTrip`: a value relayed once comes
back to itself by way of the other side, since the side with the wider steps gets its own
step back from the nearest step of the other. `Quiet` turns it into a count: how often the
sides may still move shrinks with every hop. Rounding is integer division, and its lemmas
(`RoundToStep`, `SameMultiple`, `ReturnsToStep`) hold for every number of steps, with ties.

**`TransactionProofs`.** `OrderKept` and `OutcomeFinal` for the journal, `OneApprovalPerId` for
the service, for any ids and entries. The journal's calls act on the first entry with an id,
so the service's invariant says that an entry that awaits approval is the first of its
id, which a later repetition of the id cannot change. That there is a first match, and
that nothing before it matches, is a lemma from well-foundedness (`FirstMatchIsFirst`).

**`RoutingProofs`**, negotiation. `PlansStay` and `OnlyQualifiedGoLive`, for any profiles and
evidence. The strongest level of a protocol and direction is that of one item, or of a
flag that stands in where there is none (`BestIsFound`), and it only grows with the
evidence; a plan compares levels in one direction, so what it enabled stays enabled.

Mediator: `MediatorInvariance`, `EchoesStayOut`, `BurstsStayBounded` and `TransportIsTrue`, for
any messages, policies, windows, slots, budgets and clocks. Echoes: the ring of records
holds the last `EchoSlots` forwards, each at its number modulo the slots (`Remembered`), and
what would come back is found in it. Bursts: a window holds what was forwarded since it
began, and the stretch before it holds less than a budget, because the first packet of the
window before lies outside (`Budgeted`), so any stretch as long as a window, however it lies across two of them, holds
at most twice a budget less one. Counting is by sets of forwards and their cardinalities.
Transport: a packet that may change the state changes it when it is put in its queue
and not otherwise, and the last of its kind among the forwards since the policy gives it.

**`SessionProofs`**, store. `TypeCorrect`, `SavedStaysDurable` and `DamageIsContained`, for any
number of saves, crashes, failures and damaged files; durability assumes `WriteThrough`,
without which it is false (section 5). The invariant gives, for every place between two
calls of `save`, the revision each of the three names holds, in memory and on the disk,
and that no file has two names: otherwise writing the pending file would tear a saved one.

Merge: `MergeLosesNothing` and `MergeOverwritesNothing`, for any branches. A plan is what
`plan_merge` made of the two branches, whatever was answered since; a field in no conflict
has one value on the other side, as two that differ would be a pair `detect_conflicts`
found. Import: `WrittenIsAlwaysWhole` and `ReadyIsAlwaysComplete`, for any project and any
normalisation of names. A file reported as written, and not cut short, is what is serialised
of a session that passed `validate` (`Written`, `InMemory`): between import and write only
hashes are added, which the file leaves out. The lack of duplicates makes each reference
resolve at most once; that it resolves at all is from the reader, since a reference is taken
from an element that is there, and of the tracks or samples of a name there is a first and
a last. Kits keep apart because `validate` looks at programs the file does not list
(`ProgramsDiffer`). Identifiers of notes, which `validate` does not look at, differ by
counting: the earlier of two notes of a sequence has fewer notes before it
(`EarlierGrows`), and sequences have different keys. The notes of a clip are those of its
sequence and track, because another clip of both would share its identifier
(`NotesOfClip`). `PipelineKeepsBoth` carries all four over to the specification the run checks, which implements both.

**`LocalIpcProofs`.** `TypeCorrect`, `UncleanCounted`, `AnswersPersisted` and `CountersStay`, for any number of
clients, calls, deaths, failing saves and restarts. `Counting` ties what the server holds
to the file: it is the same while it serves, but for the one request that was counted
and not saved, and while it serves the file says it runs, so that an end anywhere is one
unclean end to the next start. `Answering` says that the count in the server's hands is on
the disk and told to nobody, which holds because every told count is at most the saved one
and this one is new. Clients' steps share three lemmas: they leave the server and
its file alone and at most take a reply that was for them. The types need to know who is
at the pipe, that a process past looking holds a credential, and, by counting, that a
process which writes a new one finds one nobody has.

**`PreflightProofs`.** `BackupsStay`, `ReportsAreTrue` and `QuietRunsDescribeOneProject`, for any number of runs, files, edits
and faults. The first follows from one action's guard in each state and needs the types
only. The second needs to know, while a run backs up, that every file it has already
handled is in the backup with contents seen during the run, and that no other run can have
changed it since: one run's copies are safe from another's because of the first theorem.
The third is about a run that was alone, unharmed and without edits: at each place its list
is the project's, the temporary file it hashes is that list, the assets it has passed are in
the exchange as the project has them, and the documents below the next one are its own.

Left to TLC, because the prover cannot do them: liveness (`CallsReturn` of ring and
IPC, `ShutdownStops`) and anything about `ENABLED`; what a recursive definition
computes for every input, here the numbers `SequenceKeys` gives to entries without a key,
which the proofs take as they are. No module with a theorem, nor any module it uses, has a
recursive operator.

## 7 What is not covered

| Part | Why |
|---|---|
| Synchronization guard | one conjunction of its arguments, without a caller outside the tests |
| Performance tools, reports | sequential functions of a session to a report or a text; no state |
| `evaluate_parameter_mirror`, `validate_clock_domains`, `plan_recording`, `assess_hardware_learn` | classifications of their arguments, without state; section 2 |
| `plan_pad_assignment` | a conjunction of its arguments, without a caller |
| VST3 client | two flags two threads share and a transparent copy; no bridge logic runs behind it |
| Device enumeration, endpoint profiles | queries of Windows; the evidence they give is in `Negotiation` |
| Documents of preflight, listings, plans printed | formatting |
| JSON, frames, DPAPI, access control | content of messages; a snapshot parses or not, a request is acceptable or not |
| XPJ gains, pans, ticks, mixers, byte and node limits, the retained source | data no property is about; a file over a limit is a broken one |
| An import over the output of an earlier one | the folder starts without a file |
| Edits in place while a file is copied | preflight copies a file in one step |
| Sample formats, rates | abstracted in capture; a sample is a place in a stream |
| Two processes saving one session | the repository has one saver per store |
| Two intents for one parameter | one intent in the run, though the proofs hold for any number; the repository lists correlation between them as still required |
| Credential agreement | the race of two first starts is modelled and calls return in it, but nothing in the repository promises agreement |
| `reset` of a mediator during a pop | left to the caller by the class; no caller does it |

Test lab, soak test, scripts and data were read for what they say of the program.

## 8 Running it

    tlc -workers 2 -config MCSpscRing.cfg MCSpscRing
    for m in SpscRing HardwareBackends Parameter Transaction Routing Session LocalIpc Preflight
    do tlapm ${m}Proofs.tla; done

Each `.cfg` belongs to the module of the same name, except `MCSessionStorePosix`
(`MCSessionStore`), `MCSessionMergeReady` (`MCSessionMerge`) and `MCLocalIpcStops`
(`MCLocalIpc`). `MCLocalIpc` takes minutes, the others seconds to a minute.
