# WaxFlow: TLA+ models, checks and proofs

This directory is a verification development kept beside WaxFlow, an audio
transcoding engine and streaming daemon. It models the concurrent and
crash-sensitive core of the daemon: the parts where several goroutines share
state, where disk and memory can disagree, and where something must eventually
happen. Paths below are relative to the repository root (`src/` in
`PROJECT.json`).

## 1. The system and its parts

| Part | State it keeps | Operations | Correct when |
|---|---|---|---|
| In-flight cache entry (`internal/cache/entry.go`) | temp file, degradation ring, readers, idle timer | Write, Complete, Fail, NewReader, Read, Close, idleFire | every reader gets the stream in order and whole; nothing is released under a reader; a blocked reader or writer is woken |
| Cache store (`internal/cache/store.go`, `hls.go`, `cache.go`) | eviction index, registry of in-flight entries, pins, byte total, the directory tree | Open/scan, Lookup, Begin, promote, unregister, dropIndexed, gc, HLS, WriteFile, Open, Pin/Unpin | the index and the accounting agree with the disk; a crash loses work, never integrity; pinned variants stay |
| Index sidecars (`internal/cache/idx.go`) | `.idx` files, a byte total | Save, Load, Drop, trim | the total never drifts below what is on disk |
| Call deduplication (`internal/flight`) | one call per key, callers waiting | Do, Join, JoinHolding | one execution per key; a caller that leaves takes nobody's work; abandoned work is cancelled |
| Admission (`internal/admission`) | live slots | AcquireLive, release | slots are conserved, release is idempotent |
| HLS segment manager (`internal/hls/manager.go`, with the worker of `server/hls.go`) | variants: waiters, current worker, last error, idle timer | Segment, notify, exit, Touch, idleCancel | one worker per variant; no seek kills a worker before its first segment; every request is answered |
| HLS live input (`internal/hls/live.go`) | feed of segments of a growing playlist | reload, next | each segment once and in order across reloads and re-anchoring |
| Stream handler (`server/stream.go`) | none of its own; joins store, flight, admission, entry | serveViaCache, startPipeline | a request is served, refused with the real error, or retried; a slot is never leaked |
| Jobs (`internal/jobs`) | job records, queue, workers, cancels, subscribers, JSON store | Create, claimNext, run, retry, Delete, Subscribe, notify, Open, Close | a job has one runner; no worker sleeps through work; a restart reruns the unfinished from zero; every subscriber hears the end |
| Uploads (`internal/uploads`) | payload and sidecar files, index, quota | Put, Get, Delete, sweep, scan | payload published before its sidecar; caps hold |
| Timelines (`internal/timeline`) | content-addressed member lists with expiry | Put, Members, Touch, GC | no reachable timeline is swept |
| Source roots (`source/`) | per-root status, sequence numbers, reloadable set | Resolve, probe, Reload | a stale probe never overwrites a newer one |
| Track and grid caches (`server/trackcache.go`, `gridcache.go`) | measured tracks per source identity | get, put, join | an exact measurement is never replaced by an advisory one |
| Server lifecycle (`server/server.go`) | closing flag, wait group, base context | startWork, Close | nothing starts after Close has begun to wait |
| Signing (`internal/sign`), ids (`internal/ulid`), config, metrics, metadata (`internal/meta`) | keys, counters | pure or near-pure | out of scope here, see section 7 |
| Engine (`waxflow.go`, `timeline.go`, `cut.go`, `segments.go`, `remux.go`, `codec/`, `container/`, `dsp/`, `format/`, `audio/`) | sample data | decode, DSP, encode, mux | numeric and byte-format code; its own test vectors are the right tool |
| Front ends (`cli/`, `client/`, `examples/`, `m3u8/`, `cue/`) | none shared | parsing, printing, HTTP calls | sequential |

How they interact: a progressive request runs `serveViaCache`, which looks the
key up in the store, deduplicates through `flight`, takes an admission slot,
begins an entry and starts a pipeline goroutine; the handler then follows the
entry as a reader. An HLS request opens the variant's directory in the store and
asks the manager for a segment; the manager spawns one worker per variant under
an admission slot, and the worker writes segments into the store and notifies.
Jobs run the same engine in a worker pool that yields to live streams. Uploads
and timelines feed source references to all of them. `gc`, the janitor and idle
timers run beside everything.

What is hard: condition-variable wakeups, timers whose callback has already
started when they are stopped, state read under a lock and used after it
(`Has`, gc's snapshot, `dropIndexed`'s removal), crash between a rename and the
`meta.json` that vouches for it, retries and cancels crossing, and everyone
waiting on a worker that was cancelled.

## 2. Modules

| Module | Models | Role |
|---|---|---|
| `CacheEntry` | `internal/cache/entry.go`, with `promote`, `unregister` and the temp files of `store.go` for one entry | component |
| `ReadBehind` | what an entry promises: one growing stream that readers follow from its start | abstract specification of `CacheEntry` |
| `CacheEntryProofs` | | theorems about `CacheEntry` |
| `SegmentManager` | `internal/hls/manager.go`; `handleHLSSegment` and `hlsSpawner` of `server/hls.go`; `internal/admission`; `Store.HLS`, pins, `gc` and `dropIndexed` for one variant | composition of four components |
| `MCSegmentManager`, `SegmentManagerProofs` | | symmetry for TLC; theorems about `SegmentManager` |
| `Flight` | `internal/flight/flight.go` | component |
| `FlightProofs` | | theorems about `Flight` |
| `JobRunner` | `internal/jobs/runner.go`, `store.go` | component |
| `MCJobRunner`, `JobRunnerProofs` | | symmetry for TLC; theorems about `JobRunner` |
| `StreamHandler` | `server/stream.go` (`serveViaCache`, `startPipeline`, `serveLive`) and `Close`/`startWork` of `server/server.go`, over the store's index and registry, the flight, the slots and the entry's life for one key | composition |
| `StreamHandlerProofs` | | theorems about `StreamHandler` |
| `CacheStore`, `MCCacheStore` | `internal/cache/store.go`, `hls.go`: index, byte count, pins and directories over several keys, eviction, crash, boot scan | component; symmetry |
| `TimelineStore`, `MCTimelineStore`, `TimelineStoreProofs` | `internal/timeline/store.go` | component; symmetry; theorems |
| `Uploads`, `MCUploads` | `internal/uploads/uploads.go` | component; symmetry |
| `StoreProofs` | | theorems about `CacheStore` and `Uploads`, which share the lemmas about sums over finite sets |
| `SourceRoots`, `MCSourceRoots`, `SourceRootsProofs` | `source/roots.go` for one root name | component; symmetry; theorems |

`PROJECT.json` maps every definition that models code to its lines.

**Atomicity.** An action is what one goroutine does under a lock, or between two
points where it gives the lock up: a disk operation outside the lock, a wait on a
condition or a channel, a callback. Where the code reads something, lets the lock
go and uses it later (`Has` before `Decide`, gc's snapshot before its drops,
Subscribe's snapshot before its registration), those are separate actions.

**CacheEntry.** The variables are the fields of `Entry` under their own names, the
entry's files on disk, the pipeline goroutine (`wpc`, `p`) and each reader (`rpc`,
`pos`, `got`). `cond.Wait` puts a thread into `waiting`, and only a Broadcast takes
it out. Byte *k* of the stream is the number *k*, so "what a reader received" can be
compared with "what was written". Actions: `WriteStart`, `FileWriteOK`,
`FileWriteFail`, `RingWake` (Write and its waits), `CompleteStart`, `PromoteStep`,
`PromoteOK`, `PromoteFail` (Complete), `Fail`, `NewReader`, `Read`, `ReadAt`, `Close`,
`TimerExpire` and `IdleFire` (a timer's callback starts, then gets the lock).

**SegmentManager.** One variant: the manager's record (`tracked`, `waiters`, `cur`,
`lastErr`, `idle`), each worker (`wk`), each request (`pc`, `seg`, `pass`), the slot
pool, the variant's directory, index entry and pins, and one gc run. A request runs
`handleHLSSegment`: open the variant, touch it, ask the manager, read the file, and
once more if the file is gone. `Decide` is the `switch` of `Manager.Segment`; a seek that
wants another worker looks at the disk (`Kill`) before it cancels (`Cancel`). `exposed`
remembers that the current worker's pin came after a gc run had taken its snapshot.

**Flight.** One key, one method (`op`: all callers use Do, or all use Join, as each
group in the code has one kind of user). A caller calls once, so a call is named after
the caller that started it, and `c.waiting` is kept as the set of the callers it
counts; the count in the code is that set's size. The steps of the deferred cleanup
(release, remove from the map, cancel, close done) are separate actions.

**JobRunner.** The store in memory (`job`, `waits`, `hold`) and on disk (`disk`,
`output`), the runner (`token` is the one-slot wake channel), each worker, each
Delete, each subscriber. `Persist` may fail, as the code only logs that. `hold` is the
number of the wait that keeps a job from being claimed; its expiry and the wakeup
timer are separate events, and a timer never fires before its hold is over. `Restart`
is a crash at any point, or the end of an orderly Close; it keeps only what is on disk.
Jobs stand for the ones that write an output file. `disk` does not distinguish queued
from running records, because nothing that reads a `job.json` does.

**StreamHandler.** What `Flight`, `CacheEntry`, `CacheStore` and admission are to one
progressive key, put together: the index and `s.writing`, each entry's life without
its bytes (`state`, `ring`, `abandoned`, `idle`, `readers`), its pipeline (`run`) and
slot, the flight's `leader`, each request (`pc`, `ent`, `tries`), and the shutdown
flags. A request begins a try (`Begins`), finds the entry cached (`ServesCached`), or
misses and goes through the flight (`Misses`, `Do`), whose function finds an entry in
flight, finds it has been completed meanwhile, is refused a slot, or begins an entry
(`FnInFlight`, `FnContains`, `FnOverloaded`, `FnBegin`, `FnStart`, `FnRefused`). Then it
attaches, tries again or gives up (`Attach`, `Unjoinable`, `Flapping`). The pipeline's
steps are `Degrade`, `RingFills`, `RingDrains`, `RingAbandons`, `IdleFires`, `Promotes`,
`Indexed`, `PromoteFails`, `Completes`, `RunFails` and `RunExits` (its deferred calls).
`shaken` remembers under whom the entry was lost; only a property reads it.

**CacheStore.** The maps under the store's lock (`index`, `size`, `total`, `writing`,
`pinned`) against `dirs` and `disk`, which every goroutine changes outside it. An actor
is a pipeline (`Begin`, `Remake`, `Create` or `CreateFails` or `DuplicateBegin`, then
`Abort`, or `Publish`, `Vouch` or `VouchFails`, `AbandonLate`, `Index`, `Finish`), a
request (`Lookup`, `OpenOut`, `OpenFails`), a segment worker (`Birth`, `Describe` or
`DescribeFails`, `Register`, `Pin`, `Stat`, `Rename` or `RenameFails`, `Fold`, `Leave`)
or a sweep (`Collect`, `Snapshot`, `Evict`, `Drop`, `List`, `Unlink`, `RemoveEnds` or
`RemoveFails`, `SweepEnds`). `RemoveAll` lists a directory and unlinks name by name, so
it can meet a writer. `CrashAndOpen` is a crash at any point and the boot scan, which may
find a `meta.json` unreadable (`good`) and fail to remove debris (`missed`).

Every operation on a file may fail. A failure that changes no more than the operation it
ends is free; one that leaves something behind (a temp file, the rest of a directory), or
gives up an entry that is sound, uses up one of `faults`. Four history variables name the
cases the code does not repair before a restart: `torn`, the keys on which a writer met
another or a removal, or whose removal failed; `leaked`, the keys with files that a
failure left; `booted`, the variants counted with their `meta.json`; and `over`.

**TimelineStore.** `expires` and `older` are `s.entries`: each entry's expiry, and of the
use stamps, which only ever are compared, the pairs in order of use; `file` is the expiry
each document carries. `Put` is one action (it is one critical section)
with three outcomes; `Members`, `Touch` and `GC` let the lock go around disk reads and
removals, and are several actions each. A request may fail to load a document that is there
(`LoadFails`), a boot may fail to load it and then removes it (`bad` of `Open`), and any
removal may fail (`left`). `minted` is the latest expiry a Put answered for: what a signed
URL relies on. `evicted`, `raced`, `unread` and `lost` name the timelines that the cap, a
removal under way, an unreadable document, or such a one at boot took in spite of it.

**Uploads.** `items` and `totalBytes` against the three files of each upload. `Put` is
`Put`, `Spool`, `PublishPayload`, `WriteSidecar`, `RegisterUpload` or one of its refusals; `Delete`
and the TTL sweep are `Unlist`, `RemovePayload`, `RemoveSidecar`. Any rename or removal
may fail. `Scan` adopts the pairs and removes the rest: a pair it cannot read (`bad`)
too, while what it fails to remove stays.

**SourceRoots.** One name. A root state and its directory handle are named by the
state's `seq`. A check is an *attempt* (`seen`, `next`, `phase`) that anyone may start
or join (`KickRead`, `KickStart`, `KickJoin`), works without a lock (`CheckHealthy`, then
`CheckUnchanged` or `CheckOpens`) and then commits, reports under `watchMu`, closes the handle that lost and
leaves the map. `ReloadKeeps`, `ReloadOpens`, `ReloadDrops` and `Close` replace the live
state under it. An open looks the root up, opens the file, re-checks a root that looks
stale and looks again, up to `maxLooks` times.

## 3. What the runs check

| Run | Instance | Shows |
|---|---|---|
| `entry` | 2 readers, ring of 2, stream of 3, chunks up to 3 | the ring keeps what anyone still needs (`RingRetention`); EOF means the whole stream (`EOFMeansWhole`); nobody is attached to an abandoned entry (`AbandonedHasNoReader`); readers get the stream in order, a registered entry can be joined and nothing is released under a reader (`ReadersAreServed`); only whole streams are indexed (`StoreIsSound`); the entry implements `ReadBehind` (`ImplementsReadBehind`); it ends and is released, and a blocked call returns (`Progress`) |
| `segments` | 2 requests, 4 segments, lookahead 1, 1 slot contended by another session, idle timeout | one pinned worker at a time and no seek kills it before its first segment (`WorkersAreSound`); slots and bookkeeping are conserved and a parked request has a waker (`NothingIsLost`); the idle timeout spares waiters (`IdleSparesWaiters`) |
| `segments_gc` | 2 segments, 2 gc runs | what is counted as landed is on disk while the worker's pin precedes every snapshot, and "segment evicted while being served" is not heard unless gc picked the variant (`EvictionExplains`) |
| `segments_live` | 2 segments, idle timeout | every request is answered without the wait timeout (`EveryRequestAnswered`) |
| `jobs` | 2 jobs, 2 workers, 1 wait, 1 shutdown or crash, failing writes | a job has one runner (`OneRunner`); no worker sleeps while a job could run and no wakeup is on its way (`NoLostWakeup`); a deleted job leaves no files (`NoDebrisOfDeleted`); reruns start from zero (`RerunsFromZero`); what was recorded as ended stays ended (`TerminalIsFinal`) |
| `jobs_live` | 1 job, 2 workers, 1 wait, 1 subscriber with a channel of 2 | a listener of an ended job will be told (`ListenersWillHear`), the end is the last thing it hears (`ClosedBehindTerminal`), every job ends and every subscriber is released (`EverybodyEnds`) |
| `flight` | 3 callers of Do or of Join | one wanted execution at a time (`OneExecution`); a leaver takes nobody's work (`WorkNotStolen`); work nobody wants is cancelled (`AbandonedIsCancelled`); everyone returns, panics included (`EveryCallerReturns`) |
| `stream` | 2 requests, 2 entries, 2 slots, 3 tries, 1 eviction, a shutdown | one encode per key, and what is registered can be attached to (`RegistryIsSound`); a run holds its slot and Close waits for it (`RunsAreCounted`); the loop gives up only when the entry was lost under the request (`FlappingNeedsLoss`); requests are answered and slots come back (`Settles`) |
| `store` | 2 actors, progressive entries of 2 bytes, a variant of up to 2 files, budget 2; four choices of keys, crashes (up to 2) and failures (up to 2) | index and disk vouch for each other, also for a crash (`DiskIsVouchedFor`); the byte count is what the index adds up to (`BooksBalance`); an overrun is attended to (`OverrunIsAttended`) |
| `uploads` | 3 uploads of up to 2 bytes, spool of 3, 2 crashes, any failures | listed is whole and accepted survives (`WholeUploads`); no file without an owner, and gone stays gone (`NothingEscapes`); the total is that of the listed ones and grows only within the cap (`SpoolIsCounted`) |
| `timeline` | 3 timelines, cap 2, 2 requests, clock to 2, 1 crash, 1 unreadable document or failed removal | a timeline outlives its URLs, memory and document agree on its expiry (`TimelinesOutlive`); the cap is kept and takes the least recently used (`CapIsFair`) |
| `roots` | 2 paths, 1 directory, 1 opener, 1 settler, 2 checks, 3 looks, 3 states, 1 folder change | a stale check installs nothing (`ConfigurationRules`); the live handle is open and none leaks (`HandlesOwned`); an open of a root that is sound throughout is not refused (`SoundRootServes`); reports arrive in order (`ReportsInOrder`) |

Every property of a passing run has a mutant in `PROJECT.json`: a changed definition
(a dropped check, a missing wakeup, an off-by-one) under which TLC finds it violated.

### What the models showed of the code

The properties above hold with exceptions that are written into them, because the code
really behaves so. Worth a reader's attention:

- *An entry abandoned and indexed.* The last reader leaves while `promote` runs, the
  idle timer is armed and nothing disarms it (`internal/cache/entry.go:306`): it
  abandons an entry that is promoted. Harmless but for the reason a late writer hears;
  `cache.go:7` says an abandoned entry "caches nothing".
- *gc under a pin.* gc checks pins when it takes its snapshot
  (`internal/cache/store.go:413`) and evicts later, without the lock (`store.go:431`): a
  variant whose worker starts in between goes, with segments the manager goes on counting
  as landed (`internal/hls/manager.go:115` says the pin prevents it). A request for one of
  them then hears that it was evicted, as the handler's second pass asks the same count,
  until the worker ends or a seek past its window replaces it.
- *The worker's real failure.* Another request's respawn clears `lastErr`
  (`internal/hls/manager.go:203`) before the request whose worker failed reads it, so it
  may report something else than `manager.go:88` says.
- *Removal meets re-creation.* `dropIndexed` deletes the index entry under the lock and
  the directory after it (`internal/cache/store.go:374`). A key created again in between
  loses files it has just written; it stays indexed without them until the next miss or
  restart. `torn` marks it in `CacheStore`. A `RemoveAll` that fails (its error is dropped)
  has the same effect: an unindexed directory that may still have its `meta.json`.
- *Failures between two renames* leave files that only a boot scan removes (`leaked`): an
  `out` without a `meta.json` (`promote`), a directory with the temp file of a `meta.json`
  (`HLS`, `internal/cache/hls.go:55`). None of them leaves a `meta.json`, so the scan takes
  them for an abandoned partial.
- *The byte count of a variant.* Two writers of the same file (`init.mp4`) read the
  previous size before either renames, and count it twice; the boot scan counts a
  variant's `meta.json`, which a live store does not.
- *Delete before the cancel is registered.* Delete between a worker's claim and its
  registration finds no cancel func (`internal/jobs/runner.go:201`); the deleted job
  runs to its end and its files are removed then.
- *Flapping.* A request whose stream degrades to the ring and is short, or that loses
  its entry on each of its three tries, hears "stream slot flapping"; the third try has
  no last Lookup, so a completion it races is missed (`server/stream.go:146`).
- *Uploads and a crash.* A refused or deleted upload whose files are not yet removed
  comes back after a crash, and the scan may so list more than the cap. No answer had
  been given for it.
- *Timelines stored again during their removal.* GC removes files after unlocking
  (`internal/timeline/store.go:344`) and `Members` unlists after a failed load; a Put of
  the same digest in between loses its document or its listing (`raced`).
- *Documents that cannot be read.* `Members` unlists a timeline on any load error, one for
  want of a file descriptor too (`internal/timeline/store.go:285`): its URLs, which still
  verify, are answered with the re-mint error until the next boot, although the document is
  there (`unread`). A boot removes what it cannot load (`store.go:210`, `lost`). The upload
  scan treats a pair it cannot read likewise (`internal/uploads/uploads.go:149`, `unread`).

## 4. Bounds

- *Two readers, two requests, two workers.* The races are between two parties and a
  third that is the code's own goroutine (pipeline, worker, timer, gc); both are there.
- *Ring 2, stream 3, chunks up to 3.* A chunk can be larger than the ring, the ring
  wraps and is trimmed behind the slower of two readers, and the stream outlives it.
- *Four segments, lookahead 1.* A request can be behind the worker, in its window and
  past it; a seek ahead and one behind both happen. Four spawns are more than two
  requests with two passes each need to interfere.
- *Three callers of a flight.* One starts and leaves last, one arrives at the dying
  call and starts its replacement, one joins that. The theorems cover any number.
- *A channel of 2 for 8.* Overflow then happens within a job's few snapshots. Two is
  what Subscribe itself needs.
- *One wait, one restart.* Each of these re-enters states the model already
  had; the retry's second lap starts from the same state but for the count.
- *Two gc runs.* The first evicts the variant or spares it, the second meets what was
  written into the re-created one.
- *Two segments, lookahead 1, for liveness.* A seek behind the worker replaces it. That two
  seeks never cancel each other's workers for ever does not show in so short a stream:
  `WorkersAreSound`, checked on four segments, forbids the cancel that would allow it.
- *Two requests and three tries of a stream.* Each may lose its entry to an eviction,
  an abandonment or a degradation of the other's run, so that all three tries are used.
  A name of an entry is reused once nothing refers to it, and two are alive at once.
- *The cache store's `Bounds`.* Two actors, a budget of two and entries of two bytes, so
  that every addition beside another entry starts a sweep that removes what the other actor
  may be writing. A behaviour picks one of the module's `Instances`: a progressive key and a
  variant of one file, and a crash; a variant of both its files, a crash and a failure; one
  progressive key, two crashes and two failures; two progressive keys, each in the other's
  way. All together they would be too many states; the theorems have no bound.
- *Three uploads of two bytes, a spool of three.* Two fit in the copy and not together;
  the third finds what a crash resurrected. Two crashes: one in a removal, one after.
- *Three timelines, a cap of two.* The cap takes one while another is read. Clock 2:
  a URL may be extended once before it expires. The eviction loop never has to take more
  than one here: that it takes several in the right order is in `CapIsFairHolds` only.
- *Two checks, three states, one folder change.* A check outlives a reload and the
  reload's own check; a third state is what neither of them saw. A second folder change is
  too many states; the theorems have any number.

The largest runs reach 5.4 million states (`roots`), 3 million (`store`), 2.4 million
(`segments_gc`), 2 million (`timeline`), 1.3 million (`segments`) and 1.1 million (`stream`),
in one to three minutes each.

`MaxBytes` (of `CacheEntry`), `MaxChunk`, `MaxSpawns`, `MaxOthers`, `MaxGC`, `Jobs`, `MaxWaits`,
`MaxRestarts`, `MaxEvict`, `MaxCrash`, `MaxFault`, `MaxReboot`, `MaxTime`, `MaxSeq`, `MaxWorld` and `Bounds` bound what the
environment does. `RingCap`, `Slots`, `Lookahead`, `ChanCap`, `Tries`, `MaxLooks`,
`MaxEntries`, `MaxUpload`, `MaxTotal` and the cache store's `MaxBytes` are parameters of the
code.

## 5. Fairness

- `CacheEntry`: the pipeline goroutine and every reader in the middle of a call keep
  running, disk operations return, a started timer callback gets the lock. A reader
  keeps reading or closes, as an HTTP handler does. The request that started the pipeline
  attaches (`FirstAttach`: `serveViaCache` follows the entry it began); nobody else has to.
- `SegmentManager`: requests, workers and gc keep running once started; a worker
  eventually lands a segment or ends. No fairness on new requests, on timers, or on
  other sessions. The request's own timeout is not used.
- `Flight`: a goroutine keeps running, fn ends. Nobody has to call or to leave.
- `JobRunner`: workers run, a begun API call ends, holds expire, timers fire. Nobody
  has to create, delete, subscribe or restart.
- `StreamHandler`: handlers and pipelines are goroutines that keep running, a
  pipeline's work is finite, a reader that stays drains the ring. Nobody has to come or
  to leave, no disk has to fail, no timer to fire, nothing to be evicted.
- `CacheStore`, `Uploads`, `TimelineStore`, `SourceRoots`: safety only.

Weak fairness is enough everywhere: each of these steps stays enabled until it is taken.

## 6. What is proved

`CacheEntryProofs`, for any set of readers, ring capacity, stream length and chunk
size (assumptions: the ring holds at least one byte, the pipeline is not a reader):

- `TypeCorrect`: `TypeOK`, with the ring never above its capacity;
- `RetentionHolds`: every published byte an attached reader lacks is in the file or in
  the ring, so Read's "ring retention invariant broken" cannot be reached;
- `EOFHolds`: a reader told EOF was handed everything the pipeline wrote;
- `AbandonedHolds`: no reader is attached to an abandoned entry.

None of these is inductive. `EntryInvariant` proves the strengthening
`TypeOK /\ LifeInv /\ ByteInv`: `LifeInv` relates the lifecycle flags (what released,
abandoned, the off-lock phases of Write and Complete and the set of readers allow of
each other), `ByteInv` places every byte (file, ring or the Write under way, without a
gap), bounds every reader's position by what is published, and ties a result to the
position it was given at. Trimming is the hard step: the minimum over the readers'
positions is a lemma of its own (`MinPosProperty`), from well-founded induction.

Two more invariants stand on it:

- `StoreSoundHolds`: an entry is indexed only with its whole stream on disk, and a
  registered one can be joined. `StoreInv` says which of the two files exist at each
  place of the writer (`Files`), that an entry is in the registry exactly while it can be
  (`Registry`), and what `promote` has done when (`Index`).
- `ReadersServedHolds`: what a reader was handed is the first `pos` bytes of the stream in
  order (`Handed`), and nothing is released under it.

`EntryImplementsReadBehind` proves the refinement: every step of the entry, under the
mapping of `RB` (the stream is what was published, a reader's place is its position, a
promotion is no event), is a step of `ReadBehind` or a stutter. The writer's steps only
let the stream grow while it is open and may end it (`WriterGrows`); the trimming of the
ring, the degradation and the fallback to the ring all stutter.

`FlightProofs`, for any number of callers and either method:

- `OneExecutionHolds`, `WorkNotStolenHolds`, `AbandonedIsCancelledHolds`.

`FlightInvariant` proves the inductive `IInv`: a live execution is the one in the map
and somebody waits for it (`Listed`); who is counted waits, or the call is over
(`Counted`); a cancelled call has lost its last caller for good (`Dead`), which is why
a caller arriving at it must start its own; what ended has a result and no hold
(`Ended`, `Settled`).

`JobRunnerProofs`, for any number of jobs, workers, subscribers, waits and restarts
(assumption: a subscriber's channel holds at least two snapshots, the code has 8):

- `RunnerTypes`, `OneRunnerHolds`, `RerunsFromZeroHolds`, `NoDebrisHolds`,
  `TerminalIsFinalHolds` (an action property), `ListenersHear`,
  `ClosedBehindTerminalHolds`.

`RunnerInvariant` proves the inductive `IInv`. What the properties lack by themselves:
only a running record, or one deleted under its worker, is executed (`Claimed`, without
which a requeue could hand the job to a second worker); a worker about to settle or
to requeue carries a result that fits (`Results`); `job.json` is behind the index and
never ahead of it (`OnDisk`, which makes a restart safe); a job not yet created has no
trace (`Fresh`); and a subscriber about to register has room for the second snapshot
(`Joining`).

`NoLostWakeupHolds` has an invariant of its own over that one, `WakeInv`: a hold has its
timer set, or a worker about to set it (`Held`); a timer is of a wait that has begun, so
that no later wait lets it fire early (`Past`); and with a worker parked and a job to
claim, a wakeup is on its way (`Awake`): the token, a kick under way, a timer that is
due, or a worker that will look before it parks. A worker about to set a timer counts
only when that timer will be due.

`SegmentManagerProofs`, for any stream length, lookahead, number of slots, spawns and
gc runs, and any finite set of requests (`ConstantsAssumption`; finite because the code
counts them):

- `WorkersAreSoundHolds`, `NothingIsLostHolds`, `EvictionExplainsHolds`,
  `IdleSparesWaitersHolds` (an action property).

`ManagerInvariant` proves the inductive `IInv`. The three counters of the code
(`v.waiters`, the pins, the slots) are cardinalities of who they count (`WaitCount`,
`PinCount`, `SlotCount`); an
armed timer is the current worker's and nobody waits (`TimerInv`; that a fresh name for a
timer exists is a pigeonhole argument, `FreshTimerType`); a worker is current from its
spawn to its exit and wrote what it counts (`WorkerInv`, `WroteInv`); who means to cancel
a worker saw a segment of it land (`TargetInv`); who is parked waits on a current worker
for what has not landed (`ParkedInv`); a worker beside a gc run started after its snapshot
(`GCInv`: the pin keeps any other out of it), and without any no second pass misses its
segment (`PassInv`).

`StreamHandlerProofs`, for any requests, entries, slots, tries and evictions:

- `RegistryIsSoundHolds`, `RunsAreCountedHolds`.

`HandlerInvariant`: the flight has one leader (`FlightInv`); between Begin and
startPipeline the entry is the leader's alone (`StartInv`); a slot has a run or one about
to start, and a run its slot (`SlotInv`); what is registered is written to its file, and
what encodes is registered (`RegInv`, `EncInv`); a closed server has no run and starts none (`ClosedInv`).

- `FlappingNeedsLossHolds`, for `Tries >= 3` (the code's loop makes three, `server/stream.go`).

With two tries it is false. `SteadyOf` says why three suffice for a request nothing was
lost under: its first failed try leaves no stale entry registered, its second finds the
promoted one indexed, and its third is a lookup that hits. It needs what the flight's
leader is doing (`LeadInv`) and that only a promotion ends with the index updated
(`PhaseInv`).

`StoreProofs`, of the cache store, for any finite set of keys, any goroutines, sizes,
budget and number of crashes and failures:

- `TypeCorrect`, `DiskIsVouchedForHolds`, `BooksBalanceHolds`, `OverrunIsAttendedHolds`.

The inductive `IInv` has four parts. `Ready`: types, what an actor works on at each place,
and which files a key can have. `KeyOf`, of each key that no writer and no removal ever met
on: one actor at most works on it; with nobody at work it is `Whole` (its entry has its
files and a variant weighs what it counts for, or there is no entry and no file, or only
what a failure left, without a `meta.json`); and its one worker has left exactly what `At` says of the step it is at. The properties speak
of quiet keys only; this is what makes them inductive. `Balanced`: the byte count is the
sum of the sizes over all keys. `Attended`: over the budget, a sweep is due, or one is
under way that answers for the whole index. The latter is an account `w` of each key's
size, at most the sweep's `left` altogether, that agrees with its remaining victims and
covers every key's size now (`Account`): an addition after the snapshot breaks it, and
finds itself over the budget under the same lock. The set of victims may shrink, be
dropped by another sweep, or be re-created meanwhile.

Of the upload spool, for any finite set of uploads, caps and crashes:

- `UploadsTypeCorrect`, `WholeUploadsHolds`, `NothingEscapesHolds`, `SpoolIsCountedHolds`
  (an action property).

The invariant says of each phase of an operation exactly which of the three files exist
(`UploadPlace`), and what was answered in it (`Told`). The count is inductive by itself,
given that an upload still being copied is in no sum.

Both counts are `MapThenSumSet`s, a recursive function over the subsets of a finite set.
What sums obey (the order of the summands does not matter, an element or a part comes out
with its own share, a sum reads its function on its set alone) is proved in the module
from a smallest counterexample, strict inclusion of finite sets being well founded; no
induction rule is needed.

`TimelineStoreProofs`, for any finite set of timelines, any clients, cap, clock, crashes and
failures:

- `TimelinesOutliveHolds`, `CapIsFairHolds` (an action property).

`StoreInvariant` adds to the first that what a sweep or a failed load is about to
remove has no URL left that verifies, unless it was stored again or its document is there
and could not be loaded (`Busy`, `Gones`). For the
second, `FairInv`: the order of use is a strict total order of exactly what is listed
(`OrderMatchesIndex`), the cap holds (`CapConverges`), the timeline used last is its top, and no extension is to the time zero that means absence.

`SourceRootsProofs`, for any paths, directories, requests, settlers and checks:

- `ConfigurationRulesHolds`, `HandlesOwnedHolds`, `ReportsInOrderHolds` (an action
  property).

`RootsInvariant`: the state a check has made is known to no one else until it commits
(`Fresh`, `Unseen`, `Unread`), what it saw is live or replaced for good (`Seens`,
`Replaced`), so its sequence test decides; each open handle has one owner (`HandleInv`);
what a reporter reports is newer than anything reported and no newer than what is live
(`ReportInv`).

- `SoundRootServesHolds` (an action property), for `MaxLooks >= 3`; the code's `maxLooks`
  is 8.

`CalmInv` follows an open through a time in which the folder stays put. The live state then
goes, by a check's commit at a time, from sound with a stale check about to replace it, to
not sound, to settled, and never back; each lookup that does not serve the open used up
one of these changes (`Serving`), so three are enough, and two are not.

Every invariant and every action property that a run checks is proved, and so is the
refinement. Only model-checked is liveness, which is out of the prover's reach: `Progress`,
`EveryRequestAnswered`, `EverybodyEnds`, `EveryCallerReturns` and `Settles`.

## 7. What is not modelled

- Data: samples, codecs, containers, DSP, playlists' text. They are numeric or
  byte-format code with reference vectors, and their state is data.
- Signing, ids, configuration, metrics, metadata, the CLI, the client and the parsers:
  sequential, without state that two parties share.
- Several keys at once outside `CacheStore`. Entries, variants and flights of different
  keys share only a lock; what crosses keys is the byte budget, which `CacheStore` has.
- The live HLS input (`internal/hls/live.go`): one goroutine owns the feed and shares no
  field of it, so it is a function of the playlists it is handed. Of note for a reader: a
  stale, shorter playlist re-anchors the feed and delivers segments again, and a restarted
  stream that overlaps the cursor is taken for a continuation (`live.go:275`).
- The `.idx` sidecars (advisory, rewritten whole) and the track and grid caches (bounded
  maps over `Flight`).
- Playlist, init-segment and parameter handling of the HLS and stream handlers, and the
  choice of a rung: sequential request code.
- Failures of `RemoveAll` in the job store, and of `ReadDir`: logged and left to the
  operator. A cache directory that is empty and cannot be removed: the next `MkdirAll` takes
  it as it is. The temp file of an upload's sidecar, which the scan removes like the
  payload's.
- A source folder that is emptied in place, with a handle on it that stays healthy: for
  `SourceRoots` a directory serves as long as it is the same one.
- In `StreamHandler`, Begin's refusal of a key that is registered already: the flight lets
  one leader in, which has just found none. `CacheStore` has it (`DuplicateBegin`).
- The wait timeout of a segment request: liveness holds without it.

## 8. Plan

Done: the in-flight entry and its abstraction, the segment manager, the flight, the job
runner, the stream handler's composition, the cache store, the timeline store, the upload
spool and the source roots. Left, in this order:

1. The track cache on top of `Flight` (an exact measurement is not replaced by an
   advisory one), the byte total of the `.idx` sidecars, and the live feed against
   arbitrary sequences of playlists.
2. Retry delays and split spans of jobs as pure operators against reference definitions.
3. Proofs: the theorems of the components named in 1; and, of the composition, that an
   entry of `StreamHandler` is one of `CacheEntry` without its bytes.
