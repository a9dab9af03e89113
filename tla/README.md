# agent-signals: TLA+ models, checks and proofs

agent-signals delivers the events of watchers (processes that observe a source
such as pull-request comments) to coding agents. At this commit the repository
implements the layer everything else is to rest on: the event contract, the
durability probe and the spool writer. This directory specifies that layer: the
parts that run against a file system that fails, loses power and is shared as
state machines, the parsers and serializers as operators and loops. TLC checks
them on small instances, and TLAPS proves the main results.

## The system

| Component | Source | State | Operations |
|---|---|---|---|
| spool writer | `internal/spool/writer.go` | the lock file and its advisory lock, the events directory and file and their directory entries, the content of the file, a handle's `broken` error | `Open`, `Append`, `Close` |
| tail scan | `internal/spool/writer.go` (`lastNewlineOffset`) | the loop's `end` | one backward scan |
| durability probe | `internal/durability/durability.go` | the probe file, the Syncer (directory, device, mode) | `Probe`, `SyncFile`, `SyncDir`, `VerifyFile` |
| filesystem classification | `internal/durability/sync_linux.go`, `sync_darwin.go`, `mountinfo.go` | none: tables | `inspectFilesystem` |
| event contract | `internal/contract/event.go` | none | `ParseEventLine` |
| strict JSON, canonical JSON | `internal/contract/json.go`, `canonical.go` | none | `decodeStrict`, `appendCanonical` |
| monitor manifest, slugs | `internal/contract/manifest.go`, `slug.go` | none | `ParseManifest`, `ValidateSlug` |
| fixture generator | `internal/fixturegen/fixturegen.go` | none | writes test streams |
| schemas | `schemas/` | none: embedded documents | |
| supervisor, ingest checkpoints, cursors, rotation | described in `docs/event-contract.md` only | not implemented at this commit | |

How they interact. A caller probes the spool root with `Probe` and passes the
Syncer it gets to `Open`, which believes what the Syncer says: that the volume
is no network file system, so that its `flock` excludes, and that in host-loss
mode `SyncFile` and `SyncDir` are barriers. `Open` holds every path it opens to
the device that was probed. `Append`'s return is what lets the caller tell a
watcher that an event was accepted; the watcher then never sends it again. A
reader follows the events file line by line. Writers of one source, in one
process or in several, share nothing but the lock file and the events file.

A line reaches the spool through the contract: `ParseEventLine` decodes it
strictly, holds it to the schema of its stream and takes the digest of its
canonical form, by which a repeated event is told from a conflicting one. Which
sources there are, and under which names their files are kept, comes from
`ParseManifest`.

What is hard here:

- two handles open, close, die and reopen in any order around one lock file;
- a process dies between any two system calls of `Open`, or inside a write;
- a write puts part of a line in the file and fails;
- the kernel writes pages back in any order, and a power loss keeps some;
- a failed sync may leave pages the kernel will never write;
- a path under the root leads to another file system than the one probed;
- an I/O error during a probe looks much like a primitive that is refused;
- another prober's sync of the directory can commit a probe file that its owner
  is about to remove;
- boundaries: an empty file, a file without a newline, a newline at the edge of
  a chunk, a file shorter than a chunk;
- the volume behind a path changes while it is probed;
- numbers that arrive in another width or encoding than they are compared in: the
  magic of a file system, a device number, an integer written as a float;
- two passes over one text, by different programs, that must agree: the surrogate
  scan and the decoder, the schema and the type assertions, the schema and the
  dispatch on ID prefixes;
- a canonical form computed from maps that are walked in another order each time.

What makes each part correct:

- **writer**: one writer at a time; a complete line is one submitted record; an
  accepted record stays, as a line of its own, through whatever the mode
  promises to survive; no repair removes a complete line; no failure leaves the
  source locked or broken for good.
- **scan**: it ends, with the last newline.
- **probe**: the mode it returns is one the volume can keep, never a weaker one
  because of an I/O error, and nothing is left in the directory.
- **decoding**: exactly the documents of the parse profile are accepted, with the
  value they denote.
- **canonical form**: it is a function of the value and tells values apart, and it
  is one line.
- **contract**: what a stream admits the streams downstream of it admit; service
  records have the documented shapes; no accepted line panics.
- **manifest**: sources do not share file names, retention can be enforced, no entry is
  dropped in silence, no input panics.
- **classification**: a volume gets the verdict of its own type.
- **fixtures**: the stream overruns the cap by one event that must be dropped, and
  the counts are those of what was written.

## Modules

| Module | Models |
|---|---|
| `SpoolFile` | the content of an events file, as operators: records, lines, the last newline, what reaches the disk |
| `SpoolWriter` | `Open`, `Append` and `Close` of any number of handles, one action per system call, and crashes, failing calls, write-back and host loss around them |
| `TailScan` | `lastNewlineOffset`, one action per way an iteration may go |
| `Filesystems` | the tables of file-system types and `inspectFilesystem` on both platforms |
| `Probe` | `Probe` of any number of processes over one directory, one action per system call |
| `PromisedLog`, `SpoolPromise` | what a spool promises callers and readers, and the mapping under which `SpoolWriter` implements it |
| `Mountinfo` | how Linux tells the type of a volume, down to the bits: mount-table lines, device numbers, the width of the magic |
| `ProbeMount` | `Probe` on Linux while volumes are mounted over its directory, with `Mountinfo` inside |
| `SurrogateScan` | `rejectEscapedSurrogates`, one action per way an iteration may go |
| `StrictJSON` | `decodeStrict`, one action per step of its calls, and the token decoder it drives |
| `UTF16Order`, `CanonicalJSON` | `compareUTF16`; `appendCanonical` and its escaping |
| `EventContract` | `ParseEventLine`, `profileSchema` and the event schema |
| `Manifest` | `ParseManifest`, `newMonitor`, `ValidateSlug` and the manifest schema |
| `FixtureGen` | the two generators, event by event |
| `MCEventLine` | the calls an event line goes through, the manifest that names its source and the generators, side by side: each starts from inputs of its own while the others have returned |
| the other `MC...` | the instances TLC checks |
| `SequenceLemmas` | lemmas about sequences, flattening and recursive functions that the proofs share |
| `SpoolWriterProofs` | the proofs about `SpoolWriter` and that it implements `PromisedLog` |
| `TailScanProofs`, `ProbeProofs`, `ProbeMountProofs`, `ManifestProofs`, `CanonicalJSONProofs` | the proofs about the module of the name |
| `EventLineProofs` | the proofs about `SurrogateScan`, `StrictJSON`, `EventContract` and `FixtureGen` |

Definitions named as variants in their comments (`CloseUnlinking`,
`RepairTailSkipped`, ...) are not part of any specification. Each is a
plausible mistake in the operation defined next, kept to show that the
properties notice it.

### SpoolWriter and the code

`pc[p]` is where handle `p` is. From `closed`, `Open` goes through the states
below; every one of them is a point at which the process may die or the next
call may fail.

| Action | Code | leaves `pc` at |
|---|---|---|
| `OpenLockFile` | `checkSyncerRoot`; in `acquireWriterLock` the `OpenFile` and `verifyState` | `lockOpened` |
| `Flock`, `FlockRefused` | the `Flock` call, `ErrLocked` | `guarded`, `closed` |
| `MakeEventsDir` | `MkdirAll(events)` | `dirMade` |
| `SyncRootDir` | `SyncDir(root)` | `rootSynced` |
| `OpenEventsFile` | `OpenFile` and `verifyState` of the events file | `eventsOpened` |
| `SyncEventsDir` | `SyncDir(events)` | `dirSynced` |
| `RepairTail`, `SyncRepair` | `repairTail`: the look at the last byte, the truncation, the sync | `truncated`, `ready` |
| `OpenRefused`, `OpenFails`, `SyncRepairFails` | the early returns of `Open`, which close what is open | `closed` |
| `AppendRecord` | the checks of `Append` | `writing` |
| `Write` | one write system call inside `os.File.Write` | `writing` or `syncing` |
| `AppendAccepted` | `SyncFile` returns nil, `Append` returns nil | `ready` |
| `WriteFails`, `AppendSyncFails` | the two error returns, which set `broken` | `ready` |
| `Close` | `Close` | `closed` |

The file is two byte sequences. `cache` is what every process reads and writes;
`disk` is what a power loss leaves. `dirty` is the set of positions where they
may differ. `KernelWriteback` moves one position to the disk at any time, which
makes the file as long as that position and leaves `Hole` where nothing has
been written. A sync that is a barrier moves all of them. `dropped` are the
dirty positions that a failed sync has made the kernel forget: only with the
constant `KeepsDirty = FALSE` are there any. `torn` records the positions a
power loss left to chance; no action reads it.

A byte of the model stands for a run of real bytes that reach the disk
together. The directory entries of the events directory and file are absent,
in memory, or on the disk; `SyncDir` of the parent moves the second to the
third. The lock file is an inode: a handle keeps the inode it opened, and a
power loss may take the name away, since the lock directories are never synced.

`site` says what the four paths lead to: a device each, and for the two files
whether it is a regular file, something else or a symbolic link. A site does
not change during a behaviour.

`acked` is a history variable: where `Append` put each line it reported
accepted, and in which mode. A host loss ends the promise made in process-crash
mode, so it takes those acknowledgements out of the set. `losses` is another: it
counts host losses, so that the refinement can tell them from other steps.

Two assumptions about what is outside: a barrier sync puts the file on the disk
(`Barrier`), and `flock` on a local file system excludes (`ExclusiveFlock`).
That a verified Syncer is only ever of such a device is `ProbeAssumption`; it
is what `Probe` establishes, see `SyncersHonest` below.

### Probe and the code

`Inspect` is `inspectFilesystem` with the two refusals that follow it;
`CreateProbe` to `SyncPlainDir` are `probeMode`, `measureMode` and
`verifyProcessCrash`; `RemoveProbe` and `CommitRemoval` are
`commitProbeRemoval`. `CallFails` is any call that fails with an error that is
not a refusal of the primitive (`isUnsupported` is false), with the deferred
clean-up, which is best effort. `live` is the directory as processes see it,
`stored` what a power loss would leave in it.

A volume has the facts the code asks for (platform, type name, whether the mount
table lists it, the macOS local flag), the primitives it supports on files and
on directories, and two facts the code cannot ask for: whether it is served
over a network and whether it outlives the host. `KernelAssumption` says how the
second kind shows in the first; it is where the model trusts the tables. Two
holes in it are known and left out of the volumes on purpose. Where the mount
table cannot be read, a network type the magic table does not list passes for
local, as the code's comment on that fallback says. And an ordinary file system
on a RAM-backed device reports as a local one and gets host-loss mode: "no probe
here can see through that" (the comment on `HostLoss`).

### TailScan and the code

`end` and `Start` are the loop's variables; offsets count from 0 as in the
code. `Advance` is an iteration without a newline, `Found` one with, `NotFound`
the end of the loop, `ReadFails` an error of `ReadAt`. `repairTail` uses
`CompleteLen` in `SpoolWriter`; `FindsLastNewline` is the fact that joins them.

### The contract's modules and the code

`SurrogateScan` keeps the loop's `i` and `inString`. Four hexadecimal digits are
one symbol, of a high surrogate, a low one or any other code unit, so `i += 6` is
three symbols and `i += 12` six. The reference is a reader that takes one symbol at
a time and knows only whether it is outside a string, inside one or behind a
backslash.

`StrictJSON` keeps the calls of `decodeObject` and `decodeArray` that are under way
as a stack, with what each has decoded, so the depth is the number of calls.
`DecodeValue` is a call of `decodeValue` as far as its return or the call it makes,
`DecodeElement` and `DecodeMember` an iteration of a loop as far as its call of
`decodeValue`, `CloseContainer` what follows the loop, `EndDocument` the end of
`decodeStrict`. They drive `Token` and `More` of encoding/json, whose token states
are modelled (external) because `decodeStrict` leaves all punctuation to them. The
reference is JSON's grammar, built up by length, with the depth of each value and
whether its objects have unique names. What the raw bytes are (valid UTF-8, half
a surrogate pair) is a parameter of the document: the scan is the module above.

`CanonicalJSON` writes texts as code points, character by character: this is the
one module where the conversion is what the properties are about. An object is a
function from its keys; `Sorted` has every order that Go's unstable sort may leave
of keys that compare equal, so that a comparison that is not total shows as two
texts of one value. `appendCanonical` is a recursive function on `Values`;
`ValueAssumption` says what `decodeStrict` may return: trees of the five kinds, of at
most `MaxNesting` levels, whose keys and strings are sequences of scalar values.
SHA-256 is taken to be injective.

In `EventContract` a field's value is a class the schemas tell apart; an `if`,
`then`, `else` of the schema is one here. `Each` is JSON Schema's `properties`, under
which a field that is missing passes. A service record repeats some of its fields: the
count and the IDs in its summary, the source or a digest in its ID. The classes tell
a record that repeats its own from one that repeats others (two counts above one, so
that they can differ; foreign IDs; summaries about other IDs), although the schemas do
not. `DocumentedShape` is what the contract says of a record up to that, `Renders` the
rest. The type assertions of `ParseEventLine` are the `panic` outcome, in the order of
the code.

`Manifest` takes one document of the YAML stream, then one entry per step, as
`ParseManifest` does; `seen` and `monitors` are its variables. A number keeps the way
it was written, since `Lexeme` (the case of `yamlToJSON` for floats) depends on it.
Of the other fields an entry has only whether they satisfy the schema.

`FixtureGen` writes one event per step to a writer that may take any part of a line
and fail. `reached` and `output` are history variables of what the writer has.

### Mountinfo, ProbeMount and the code

A word in `Mountinfo` is the set of its one bits, so that 64-bit numbers and shifts
are exact; the magics are the numbers of `filesystemMagics`. `MakeDev` is the kernel's
encoding of a device number, against which `linuxDeviceNumbers` is checked, and
`Filesystems` is the reference for the verdict.

In `ProbeMount` `Here` is the volume the path leads to; each call that resolves the
path asks for it again, and `Mount` may come between any two. Volumes are mounted
and not unmounted during a probe (`fsync` is both primitives on Linux, so a volume
that refuses it makes `Probe` fail): with unmounts, a volume could leave and return
between `deviceOf` and `CreateTemp`, and `MeasuredHere` is not claimed for that.

### PromisedLog and SpoolWriter

The promised log is the complete lines of the file, the set of accepted lines and the
number of host losses. Its steps are: a submitted record becomes a line at the end;
the last line is reported accepted; the host is lost, after which every line accepted
in host-loss mode is in its place and nothing is said of the others. `SpoolPromise`
maps `log` to the complete part of the cache, `accepted` to `acked` and `losses` to the
history variable of that name, which `HostLoss` alone increments. So only a power loss
may be a `LoseHost`; between two of them no line, accepted or not, is removed, changed
or moved. Every other step of the writer, crashes of processes, repairs and failing
calls included, is a stutter: `KeepsPromise` says that there is nothing else for a
caller or a reader to see.

## Runs

| Run | Instance | Shows |
|---|---|---|
| `spool_host_loss` | 2 handles, host-loss mode, every site in which one path (or the events directory and its file) leads elsewhere, 7 bytes, 4 faults | `TypeOK`, `SingleWriter`, `NoFusedRecords`, `AckedSurvives`, `AckedDurable`, `RecordsKept`, `KeepsPromise` |
| `spool_dropped_pages` | the same with `KeepsDirty = FALSE`, 6 bytes, 3 faults | `NoFusedRecords`, `AckedBytesDurable`: since a failed sync ends the handle, no record is accepted whose own bytes are missing |
| `spool_process_crash` | 2 handles, process-crash mode, 5 bytes, 3 faults | `NoFusedRecords`, `AckedSurvives`, `KeepsPromise` where a sync puts nothing on the disk |
| `spool_recovery` | 2 handles, 3 bytes, 2 faults, fairness | `Recovers` |
| `spool_forgotten_pages` | `KeepsDirty = FALSE`, 6 bytes, 3 faults | a violation of `AckedSurvives`, see Findings |
| `tail_scan` | every file of up to 8 bytes over a newline and another byte, chunks of 3 | `FindsLastNewline`, `ScanEnds` |
| `probe` | 2 probers, 3 probe files, 2 faults, volumes of every row of the tables, every set of supported primitives | `TypeOK`, `ModeHonest`, `StrongestMode`, `NoDrift` |
| `probe_mount` | 5 volumes that differ in type, listing and support of fsync, mounted in any order at any time; and one volume of each of 16 types on each of 6 devices whose numbers differ in high bits, for both widths and mount tables of up to 3 lines with up to 2 optional fields | `ClassifiedByOwnType`, `MeasuredHere` |
| `probe_mount_volatile` | the 5 volumes | a violation of `VolatileCapped`, see Findings |
| `event_line`: scan | every string of up to 6 symbols between quotes | `RefusesHalves` |
| `event_line`: decoding | every sequence of up to 5 symbols, every JSON value of up to 9, every one of up to 8 with a symbol replaced; depth 2 | `DecodesExactly` |
| `event_line`: digest | pairs of values: strings of escaped characters and of those the escapes are made of, keys around the surrogates, nested arrays and objects | `DigestDecides`, `OneLine`, `KeyOrder` |
| `event_line`: schemas | every well formed ID, summary and data of a service record, other IDs with some, and every single disturbance of four good lines, in four profiles with three limits | `StreamsNest`, `ServiceRecordShapes`, `MarkerReserved`, `NoPanic` |
| `event_line`: manifest | streams of up to 2 documents of up to 2 entries, sizes on both sides of every bound | `SourcesApart`, `RetentionRemovable`, `AllSupervised` |
| `event_line`: generators | a cap of 12 bytes, 7 line lengths, sets of -1 to 4 events, failures after any byte | `OverrunsByOne`, `Accounted`, `ReplaysInOrder` |
| `service_records` | the same lines, one limit | a violation of `RecordsRender`, see Findings |
| `manifest_floats` | the same streams | a violation of `NoManifestPanic`, see Findings |

### Bounds

`MaxBytes` is the size of the events file and `MaxFaults` the number of failing
calls, process deaths and power losses in a behaviour. Seven bytes hold two
lines and a fragment of a third, so a fragment can lie behind, between and in
front of accepted lines. Every failure the comments of `writer.go` argue about
needs at most three faults in a row (a failed write, a crash of the repair, a
power loss); the fourth lets one of them follow another. The records differ in
length and in every byte, so that a line shifted by one or made of two records
is noticed; the inputs also hold an empty record and records with a newline and
with another line break, which `Append` must refuse. Two handles suffice for
the guard on this instance; the proof is for any number. Chunks of 3 and files
of 8 bytes give two full chunks and a shorter one, and each boundary once with
a newline on either side.

Six symbols hold a surrogate pair, or an escaped backslash followed by an escape of
half a pair, which is what the scan can confuse. Nine symbols hold an object of two
members, and arrays one deeper than `MaxDepth = 2` with something in them. The
sizes in `Manifest` are scaled so that each bound, each default and the threshold of
an exponent has values on both sides, and ceilings are odd and even; the cap in
`FixtureGen` is such that lines divide it, fill it and exceed it. The devices in
`Mountinfo` differ in bits 8, 12, 20 and 31, each on the other side of a field of the
encoding.

Deadlock is checked where the program cannot stop. `SpoolHostLoss` and
`SpoolDroppedPages` have sites on which `Open` is always refused, and in `Probe`
the supply of names ends: these three say `CHECK_DEADLOCK FALSE`, and so do the runs
of a call that returns once (`EventLine`, `ServiceRecords`, `ManifestFloats` and
`ProbeMount`).

Symmetry is used over handles and inodes, and over probers and names, in the
runs without liveness.

### Fairness

`FairSpec` has weak fairness, for each handle, of the steps its program takes by
itself: those of `Open` and `Append` once called, and the caller's retry
(`Retry`), which opens a handle that is not open and closes one whose stream is
broken. That is the caller the code is written for: a broken handle "accepts
nothing more" and "reopening the spool repairs the tail" (`writer.go`, in
`Append`). Nothing is assumed of faults, write-back, `Close` of a healthy
handle or the order in which handles run. `TailScan` is one sequential loop:
weak fairness of its iterations says that it runs.

## Findings

`spool_forgotten_pages`: the comment in `Append` says that after a failed sync
"Linux may report the error once and drop the dirty page", and for that reason
ends the handle. Reopening does not undo the loss. `repairTail` reads the last
byte through the page cache, sees the newline of the line whose sync failed and
returns without truncating and without syncing. The next `Append` is accepted
behind a line end that is only in memory. After a power loss the accepted line
begins in the middle of what is left of the lost one, and a line reader does not
see it. With pages rather than single bytes this needs the lost newline to be
the last byte of a page, since an append to the same page makes it dirty again.
`spool_dropped_pages` shows what still holds: the accepted record's bytes are on
the disk.

`manifest_floats`: `yamlToJSON` writes a float with `FormatFloat(v, 'g', -1, 64)`,
which uses an exponent from 10^6 up, so `retention_bytes: 134217728.0` becomes
`1.34217728e+08`. The schema's `integer` is a number without a fractional part,
however written, and accepts it; `json.Number.Int64` does not parse it, and
`mustInt64` panics. `newMonitor`'s comment says that "type assertions cannot fail",
and `docs/event-contract.md` that "schema validation and runtime integer types can
never disagree about a value one of them cannot represent".

`service_records`: the contract says of an overflow record that "its `summary` is
exactly `dropped <dropped_count> events: pending byte cap exceeded`" and that its ID
is `agent-signals:synthetic:overflow:<source>:<seq>`, and `event.go` that a spool
admits "the service's own overflow records, and only those". The schema compares no
two fields: it holds the number in the summary to a grammatical number and the ID to
a grammar, and `ParseEventLine` compares nothing more. A record of three drops whose
summary says "dropped 2 events" is accepted, and so are one whose ID names another
source, and a gap whose summary names other IDs than its data. The tests of the
fixture corpus know it ("it cannot compare two sibling members") and compare the
fields of the fixtures themselves. `ServiceRecordShapes` shows what still holds:
everything else about a service record is as documented, and no documented record is
refused.

`probe_mount_volatile`: `Probe` asks for the type of the volume, then for its
device, then creates its probe file, by path each time. If a tmpfs is mounted over
the directory between the first two, the verdict is of the volume below and
everything else of the tmpfs: the Syncer accepts the tmpfs and advertises
host-loss, where the comment on `HostLoss` says that "an in-memory filesystem names
itself and is capped". `probe_mount` shows what still holds.

## Proofs

All theorems are for every value of the constants that satisfies the named
assumptions: any set of handles, inputs, inodes, sites and syncers, any bound,
either value of `KeepsDirty`.

- **`SpoolWriterProofs`**, the guard. `GuardInvariant`: `Spec => []GuardInv`, where
  `GuardInv` is `TypeOK`, `LockFileInv` and `SingleWriter`. `SingleWriter` alone
  is not inductive: two handles may hold the lock of different inodes.
  `LockFileInv` says that every handle that is not closed has the inode the path
  leads to now, and a Syncer that has passed the checks. It holds since nothing
  but a host loss, which closes every handle, takes the lock file's name away;
  with `Flock` excluding on the verified device (`ProbeAssumption`) the guard
  follows. `TypeCorrect` and `OneWriter` are its corollaries.
- **`SpoolWriterProofs`**, the content. `ContentInvariant`: `Spec => []ContentInv`, relative
  to `GuardInv`. `NoFusedRecords` speaks of the cache, and a host loss replaces
  the cache by the disk, so the invariant has to say how they are related
  (`CopiesInv`): they agree outside `dirty`; a dirty position of the disk holds
  no line break, only a hole or part of a fragment that a repair cut off; and
  the newline is the only line break in the file. The second is what keeps a
  line of the disk from beginning behind a stale newline. For a write to
  complete no line but its own, `LineInv` says that a line under way begins at
  a record boundary and that the file ends with what was written of it, and
  `BoundaryInv` that a handle that may append is at such a boundary.
  `RecordsWhole` (`NoFusedRecords`) follows, with `KeepsDirty` or without.
- **`SpoolWriterProofs`**, accepted records. `LinesStay` (`RecordsKept`) and the facts about a step
  without a host loss (`ContentKept`): complete lines stay, bytes the copies
  agree on stay on the disk, nothing in front of the last newline becomes dirty.
  `AckInvariant` adds the directory entries (`EntryInv`: a handle past a sync in
  host-loss mode has its entry on the disk) and, of every accepted record, that
  its bytes are in the cache and in host-loss mode on the disk; hence
  `AckedBytesStay` (`AckedBytesDurable`), for either kernel. `KeptInvariant`
  assumes `KeepsDirty`: no position up to the end of a line accepted in
  host-loss mode is dirty. From it `AcceptedStays` (`AckedSurvives`) and
  `AcceptedDurable` (`AckedDurable`). Without `KeepsDirty` the first is false,
  as the finding shows.
- **`SpoolWriterProofs`**, the refinement. `PromiseKept` (`KeepsPromise`): `SpoolWriter`
  implements `PromisedLog`, where `KeepsDirty` holds. Four kinds of step
  (`StepPromised`). A write call that takes the last of its line adds it behind
  the complete ones: `LineInv` says that the file has nothing behind them but what
  was written of the line, and a call that leaves some of the line adds no newline.
  A repair removes nothing complete. `AppendAccepted` accepts the last line, by
  `LineInv` and `EntryInv`. A host loss leaves what `AckInv` and `KeptInv` say of
  the new state. Every other step changes neither the file as processes see it nor
  what is accepted, and none but a host loss counts as one.
- **`TailScanProofs`**. `ScanCorrect`: `Spec => []FindsLastNewline`, for every
  file and chunk size, from the invariant that nothing from `end` on is a
  newline. It rests on `CompleteLenUnique`.
- **`ProbeProofs`**. `ProbeInvariant` carries, besides `TypeOK`, what each
  state of the probe has established (`MeasureInv`) and what holds of every
  Syncer issued (`IssuedInv`). From it `ProbeTypeCorrect`, `SyncersHonest`
  (`ModeHonest`, with `KernelAssumption` and `LinuxAssumption`),
  `NoSilentDowngrade` (`StrongestMode`) and `ProbesLeaveNothing` (`NoDrift`).
  The last needs that names are not drawn twice and that a name issued is
  neither in the directory nor on the disk.
- **`ProbeMountProofs`**. `ClassifiesByOwnType` (`ClassifiedByOwnType`) and
  `MeasuresHere` (`MeasuredHere`), for every stack of volumes, mount table, device
  number and width of the magic. `ProbeInv` adds to the first that every line of the
  table that was read belongs to a volume mounted by now or to none of them
  (`TableInv`), since a volume mounted later has no line in an earlier table
  (`VerdictInv`); and for the second that device, probe file and handle are of
  volumes that became the directory in this order (`OrderInv`), so that a Syncer whose
  device is still the directory's has the other two there as well.
  `SettingAssumption`: volumes have different devices, and a volume's lines and magic
  are those of its type. `DeviceNumbersRoundTrip` and `MakeDevRoundTrip` show that
  `linuxDeviceNumbers` inverts the kernel's encoding on all 64 bits.
- **`ManifestProofs`**. `ManifestCorrect`: `ManifestSpec => []ManifestInv`, the loop's
  invariant: `seen` is the folded names of the first `taken` entries, `monitors` what
  `newMonitor` makes of them, and no two of the names are equal. Hence
  `SourcesAreApart` (`SourcesApart`), `RetentionIsRemovable` (`RetentionRemovable`)
  and `AllAreSupervised` (`AllSupervised`), for every stream and every schema bound.
- **`EventLineProofs`**. For the generators `GeneratorInv`: how the bytes counted and
  the events written are related at each event, and how far the replay's rounds have
  come; from it `StreamOverrunsByOne`, `StreamAccounted` and `ReplayOrder`, for every
  cap, length of a line and set size. For `ParseEventLine`, `SchemaDecides` (a line is
  accepted exactly if it conforms, and no type assertion fails then); from it
  `ProfilesNest`, `AssertionsHold`, `MarkerIsReserved` and
  `ServiceShapesAreDocumented` (`ServiceRecordShapes`), over every line. For the surrogate scan `ScanInv`:
  the scan, which skips over whole escapes, is where a reading of single symbols is
  inside a string or outside and never behind a backslash, and everything before it
  is paired. `ScanRefusesHalves` (`RefusesHalves`) follows for documents of any
  length. For `decodeStrict` `StrictDecodes` (`DecodesExactly`), for every document,
  alphabet and `MaxDepth`, from `DecodeInv`, which while `decodeStrict` runs says three
  things (`Going`). The Decoder is in step with the calls: the state it is in is the
  one the innermost call's stage asks for, and those it has stacked are the ones the
  calls around it wait in (`InStep`). What has been read is a phrase of the grammar so
  far: the document is, call by call, what was open, a list of the grammar that denotes
  the parts decoded, and the comma, name and colon of the value awaited (`Sound`). And
  of a document of the profile, what is left completes it: call by call, a list of the
  grammar with no name used twice and room for its depth, then the closing token
  (`Complete`). `Sound` gives that what is accepted is in the profile and denotes the
  value returned; `Complete` that nothing in the profile is refused. Both are needed
  because the code never compares an opening token with a closing one and leaves
  commas and colons to the Decoder: `InStep` is what makes a token that is read the
  token that is due (`ValueTokenFrom`, `KeyTokenFrom`, `CloseTokenFrom`). `Grammar` is
  recursive over the number of symbols; `GrammarIs` shows that its equation has a
  solution.
- **`CanonicalJSONProofs`**. `DigestIsDecisive` (`DigestDecides`), `CanonicalOneLine`
  (`OneLine`) and `MembersInOrder` (`KeyOrder`), for all values of any finite nesting.
  The state invariant is small (`DigestInv`); the work is in the operators. Each rune
  has a weight by which runes are ordered as their encodings are (`CompareWeights`),
  so `compareUTF16` orders texts as sequences of weights, totally (`TextOrder`), and
  as their whole encodings (`EncodedOrder`); an object's keys then have one sorted
  order (`SortedOnce`) and a value one text (`CanonicalOnce`). Two values never share
  a text because a text can be read back: if texts of two values begin at one
  position of any text and are followed there by a comma, a closing bracket or the
  end, the values are equal (`Readable`). This is stronger than what is needed of
  whole texts and is what the induction over the nesting needs of the parts. A string
  ends at its quote since no escape begins with one and escapes can be told apart
  (`StringReads`); a number where no character of a number follows (`NumberReads`); a
  list at its bracket since no element begins with a delimiter (`CommasRead`).
- **`SequenceLemmas`**. What the others cite. The library's induction theorems take a
  predicate, which the provers cannot instantiate; `LeastNatural`,
  `IntervalInduction` and `ChainExists` take a set of numbers instead, and so give
  induction, and the defining equation of a function that is recursive over a
  sequence. `FlattenOffsets` says where each part of a flattened sequence is.

What is only model-checked: the liveness properties `Recovers` and `ScanEnds`
(fairness is out of the prover's reach).

## Not modelled

- The supervisor, checkpoints, cursors and rotation: documents only, there is no
  code at this commit.
- Regular expressions and length limits of the schemas, the text of a timestamp and
  the lines of `/proc/self/mountinfo` as bytes: a value is a member of the class the
  expression accepts, a line is its fields.
- The manifest's `command`, `description`, `trigger`, `tiers`, `follow` and
  `severity_floor` beyond being valid: they are copied. The schema definition
  `syntheticEvent`: no code compiles it.
- `internal/contract/doc.go` and the embedding of the schemas: no behaviour.
- Unmounting during a probe, and a site that changes while a spool is open.
- A directory's creation in `locks/writers`: its loss is the loss of the lock
  file's name.
- Readers as processes: a reader is the definition of a line. That a reader sees
  none or all of a line during one write is not claimed, and the model lets a
  line grow in pieces.

## Plan

In this order:

1. `Probe` composed with `SpoolWriter`, so that `ProbeAssumption` is a theorem of
   the composition and not an assumption of the writer.
2. The supervisor, checkpoints, cursors and rotation once there is code for them.
