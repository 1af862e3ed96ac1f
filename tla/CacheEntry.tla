----------------------------- MODULE CacheEntry -----------------------------
(***************************************************************************)
(* One in-flight output stream of the transcode cache                      *)
(* (internal/cache/entry.go): a single pipeline goroutine appends bytes,   *)
(* any number of read-behind readers follow, an idle timer abandons an     *)
(* entry nobody reads, and a cache-volume failure degrades the entry from  *)
(* its temp file to a bounded in-memory ring.                              *)
(*                                                                         *)
(* Everything the code does under Entry.mu between two points where it     *)
(* gives the lock up (a disk write, a disk read, a promotion, cond.Wait)   *)
(* is one action.  A thread in cond.Wait is a member of `waiting', which   *)
(* only a Broadcast empties, so a forgotten Broadcast is a lost wakeup     *)
(* here as it is in the program.                                           *)
(*                                                                         *)
(* Byte k of the stream is the number k, so the content of the file, of    *)
(* the ring and of what a reader received can be told apart.               *)
(***************************************************************************)
EXTENDS Integers, Sequences

CONSTANTS
    Reader,     \* the readers that may attach, each at most once
    RingCap,    \* ringCap: bytes the ring holds
    MaxBytes,   \* bound: bytes the pipeline produces
    MaxChunk,   \* bound: bytes of one Write or Read call
    Writer      \* the pipeline goroutine, as a waiter on the condition

ASSUME RingCapAssumption == RingCap \in Nat \ {0}
ASSUME BoundsAssumption  == MaxBytes \in Nat /\ MaxChunk \in Nat
ASSUME WriterAssumption  == Writer \notin Reader

VARIABLES
    \* Entry
    backed,       \* store # nil: born of Store.Begin, not of NewMemEntry
    state,        \* "writing", "complete", "failed"
    size,         \* readable stream bytes
    fileBytes,    \* durable bytes readable from the file
    mem,          \* the ring's content
    memBase,      \* stream offset of the ring's first byte
    degraded, promoted, released, abandoned, everAttached,
    readers,      \* attached readers
    idle,         \* the armed idle timer's number, 0 when none is
    firing,       \* idle timers whose callback has started, lock not yet held
    timers,       \* idle timers armed so far
    waiting,      \* threads in cond.Wait
    \* Store, as far as this entry goes
    registered,   \* store.writing[key] = this entry
    disk,         \* the entry's own files: "tmp", "out", "meta"
    indexed,      \* promote has put the entry into store.index
    \* the pipeline goroutine
    wpc,          \* where it is
    p,            \* the bytes of the current Write not yet appended
    produced,     \* bytes handed to Write so far
    \* each reader
    rpc,          \* where it is
    pos,          \* Reader.pos
    want,         \* bytes asked of a disk read under way
    closed,       \* Reader.closed
    got,          \* the bytes it was handed
    result        \* how its last Read ended it, "none" while it goes on

entryVars  == <<backed, state, size, fileBytes, mem, memBase, degraded,
                promoted, released, abandoned, everAttached, readers>>
timerVars  == <<idle, firing, timers>>
storeVars  == <<registered, disk, indexed>>
writerVars == <<wpc, p, produced>>
readerVars == <<rpc, pos, want, closed, got, result>>
vars == <<entryVars, timerVars, waiting, storeVars, writerVars, readerVars>>

State   == {"writing", "complete", "failed"}
WPC     == {"run", "filewrite", "ring", "sync", "rename", "meta", "indexed", "erred", "done"}
RPC     == {"absent", "refused", "open", "readat", "blocked"}
Outcome == {"none", "eof", "err", "ioerr", "closed", "broken"}

\* e.file # nil: a file-backed entry keeps its descriptor until release.
FileOpen == backed /\ ~released

Smaller(a, b) == IF a <= b THEN a ELSE b

-----------------------------------------------------------------------------
(***************************************************************************)
(* newEntry by Store.Begin (the temp file exists and the entry is          *)
(* registered) or by NewMemEntry (ring-only from birth).                   *)
(***************************************************************************)
Init ==
    /\ backed \in BOOLEAN
    /\ state = "writing"
    /\ size = 0 /\ fileBytes = 0
    /\ mem = <<>> /\ memBase = 0
    /\ degraded = ~backed
    /\ promoted = FALSE /\ released = FALSE /\ abandoned = FALSE
    /\ everAttached = FALSE
    /\ readers = {}
    /\ idle = 0 /\ firing = {} /\ timers = 0
    /\ waiting = {}
    /\ registered = backed
    /\ disk = IF backed THEN {"tmp"} ELSE {}
    /\ indexed = FALSE
    /\ wpc = "run" /\ p = <<>> /\ produced = 0
    /\ rpc = [r \in Reader |-> "absent"]
    /\ pos = [r \in Reader |-> 0]
    /\ want = [r \in Reader |-> 0]
    /\ closed = [r \in Reader |-> FALSE]
    /\ got = [r \in Reader |-> <<>>]
    /\ result = [r \in Reader |-> "none"]

-----------------------------------------------------------------------------
(* Steps that several operations share, each under the lock.               *)

\* sync.Cond.Broadcast: every thread in cond.Wait goes on to contend for mu.
Broadcast == waiting' = {}

\* Store.unregister: InFlight no longer finds the entry.
Unregister == registered' = FALSE

\* disarmIdle: a callback that has already started (in firing) is not stopped.
DisarmIdle == idle' = 0

MaybeRelease_IgnoresReaders(st, rs, pr) ==
    IF ~released /\ st # "writing"
    THEN released' = TRUE /\ mem' = <<>> /\ disk' = IF pr THEN disk ELSE disk \ {"tmp"}
    ELSE UNCHANGED <<released, mem, disk>>

\* maybeRelease, for the state st, readers rs and promoted flag pr the step
\* leaves behind: close the file, free the ring and drop what never promoted.
MaybeRelease(st, rs, pr) ==
    IF ~released /\ st # "writing" /\ rs = {}
    THEN /\ released' = TRUE
         /\ mem' = <<>>
         /\ disk' = IF pr THEN disk ELSE disk \ {"tmp"}
    ELSE UNCHANGED <<released, mem, disk>>

\* fail: the terminal half of Fail, and of a writer that finds it was abandoned.
FailEntry ==
    /\ state' = "failed"
    /\ Unregister
    /\ DisarmIdle
    /\ Broadcast
    /\ MaybeRelease("failed", readers, promoted)

\* armIdle, for a step after which no reader is attached.  AbandonAfter = 0
\* (no timeout) is the behaviours in which the timer never expires.
ArmIdle ==
    IF backed /\ state = "writing" /\ ~abandoned
    THEN idle' = timers + 1 /\ timers' = timers + 1
    ELSE idle' = 0 /\ timers' = timers

-----------------------------------------------------------------------------
(* The pipeline goroutine: Write, Complete, Fail.                          *)

MinPos_Fastest == CHOOSE m \in {pos[r] : r \in readers} : \A r \in readers : m >= pos[r]

\* dropConsumed: ring bytes every attached reader has taken.  A reader still
\* in the file region (or no reader at all) holds everything back.
MinPos == CHOOSE m \in {pos[r] : r \in readers} : \A r \in readers : m <= pos[r]

Consumed ==
    IF readers = {} \/ mem = <<>> \/ MinPos <= memBase
    THEN 0
    ELSE Smaller(MinPos - memBase, Len(mem))

Remaining_Nothing(q, n) == <<>>

\* Room left in the ring, and what is left of a chunk once n bytes are placed.
RingSpace(held) == RingCap - held
Remaining(q, n) == SubSeq(q, n + 1, Len(q))

\* Write's ring loop over the pending bytes q, under the lock, from entering
\* it (or being woken in it) until it returns or waits: drop what was
\* consumed, append what fits and, should the ring be full, give up if every
\* reader has left.  base and sz are memBase and size on entry.  A degraded
\* entry is not in the registry, and stays out of it.
RingPass(q, base, sz) ==
    LET kept == SubSeq(mem, Consumed + 1, Len(mem))
        n    == Smaller(RingSpace(Len(kept)), Len(q))
        full == n < Len(q)
    IN  /\ memBase' = base + Consumed
        /\ size' = sz + n
        /\ p' = Remaining(q, n)
        /\ IF full /\ everAttached /\ readers = {}
           THEN /\ abandoned' = TRUE
                /\ wpc' = "erred"
                /\ FailEntry
           ELSE /\ mem' = kept \o SubSeq(q, 1, n)
                /\ wpc' = IF full THEN "ring" ELSE "run"
                /\ waiting' = (IF n > 0 THEN {} ELSE waiting) \cup (IF full THEN {Writer} ELSE {})
                /\ Unregister
                /\ UNCHANGED <<abandoned, state, idle, released, disk>>

Chunk(n) == [i \in 1..n |-> produced + i]

\* Write: an abandoned entry fails here, a degraded one runs the ring loop,
\* a healthy one drops the lock for the disk write.
WriteStart(n) ==
    /\ wpc = "run" /\ produced + n <= MaxBytes
    /\ \/ /\ abandoned
          /\ FailEntry
          /\ wpc' = "erred"
          /\ UNCHANGED <<p, produced, memBase, size, abandoned>>
       \/ /\ ~abandoned /\ degraded
          /\ produced' = produced + n
          /\ RingPass(Chunk(n), memBase, size)
       \/ /\ ~abandoned /\ ~degraded
          /\ produced' = produced + n
          /\ p' = Chunk(n)
          /\ wpc' = "filewrite"
          /\ UNCHANGED <<state, registered, idle, waiting, released, mem, disk,
                         memBase, size, abandoned>>
    /\ UNCHANGED <<backed, fileBytes, degraded, promoted, everAttached, readers,
                   firing, timers, indexed, readerVars>>

\* file.Write took the whole chunk; the relock publishes it.
FileWriteOK ==
    /\ wpc = "filewrite"
    /\ fileBytes' = fileBytes + Len(p)
    /\ size' = size + Len(p)
    /\ p' = <<>>
    /\ wpc' = "run"
    /\ Broadcast
    /\ UNCHANGED <<backed, state, mem, memBase, degraded, promoted, released,
                   abandoned, everAttached, readers, timerVars, storeVars,
                   produced, readerVars>>

\* The cache volume failed after n bytes: degrade to the ring, which starts
\* where the file ends, leave the registry, and go on in the ring loop.
FileWriteFail(n) ==
    /\ wpc = "filewrite" /\ n < Len(p)
    /\ fileBytes' = fileBytes + n
    /\ degraded' = TRUE
    /\ RingPass(Remaining(p, n), size + n, size + n)
    /\ UNCHANGED <<backed, promoted, everAttached, readers, firing, timers,
                   indexed, produced, readerVars>>

\* A Broadcast (a reader took ring bytes, or closed) woke the ring loop.
RingWake ==
    /\ wpc = "ring" /\ Writer \notin waiting
    /\ RingPass(p, memBase, size)
    /\ UNCHANGED <<backed, fileBytes, degraded, promoted, everAttached, readers,
                   firing, timers, indexed, produced, readerVars>>

FinishComplete_Silent(pr) ==
    /\ promoted' = pr
    /\ state' = "complete"
    /\ Unregister
    /\ waiting' = waiting
    /\ wpc' = "done"
    /\ MaybeRelease("complete", readers, pr)

\* The tail of Complete, once promotion has gone as pr says.
FinishComplete(pr) ==
    /\ promoted' = pr
    /\ state' = "complete"
    /\ Unregister
    /\ Broadcast
    /\ wpc' = "done"
    /\ MaybeRelease("complete", readers, pr)

Promotable_EvenDegraded == backed

\* Complete's test for having anything to promote.
Promotable == ~degraded

\* Complete, up to the point where it drops the lock for promote.  A degraded
\* or ring-only entry has nothing to promote.
CompleteStart ==
    /\ wpc = "run"
    /\ \/ /\ abandoned
          /\ FailEntry
          /\ wpc' = "erred" /\ promoted' = promoted
       \/ /\ ~abandoned /\ ~Promotable
          /\ DisarmIdle
          /\ FinishComplete(FALSE)
       \/ /\ ~abandoned /\ Promotable
          /\ DisarmIdle
          /\ wpc' = "sync"
          /\ UNCHANGED <<state, promoted, registered, waiting, released, mem, disk>>
    /\ UNCHANGED <<backed, size, fileBytes, memBase, degraded, abandoned,
                   everAttached, readers, firing, timers, indexed, p, produced, readerVars>>

\* Store.promote, with the entry lock released: fsync, rename the payload,
\* publish meta.json and index the entry.
PromoteStep ==
    /\ \/ wpc = "sync" /\ wpc' = "rename" /\ UNCHANGED <<disk, indexed>>
       \/ wpc = "rename" /\ wpc' = "meta" /\ disk' = (disk \ {"tmp"}) \cup {"out"}
          /\ UNCHANGED indexed
       \/ wpc = "meta" /\ wpc' = "indexed" /\ disk' = disk \cup {"meta"}
          /\ indexed' = TRUE
    /\ UNCHANGED <<entryVars, timerVars, waiting, registered, p, produced, readerVars>>

\* Complete takes the lock again after a promotion that succeeded ...
PromoteOK ==
    /\ wpc = "indexed"
    /\ FinishComplete(TRUE)
    /\ UNCHANGED <<backed, size, fileBytes, memBase, degraded, abandoned, everAttached,
                   readers, timerVars, indexed, p, produced, readerVars>>

\* ... or failed in one of its three steps: the entry degrades, and completes.
PromoteFail ==
    /\ wpc \in {"sync", "rename", "meta"}
    /\ degraded' = TRUE
    /\ FinishComplete(FALSE)
    /\ UNCHANGED <<backed, size, fileBytes, memBase, abandoned, everAttached,
                   readers, timerVars, indexed, p, produced, readerVars>>

\* Fail: startPipeline reports the run's error.  After a Write or Complete
\* that already failed the entry it changes nothing.
Fail ==
    /\ wpc \in {"run", "erred"}
    /\ wpc' = "done"
    /\ \/ state = "writing" /\ FailEntry
       \/ state # "writing"
          /\ UNCHANGED <<state, registered, idle, waiting, released, mem, disk>>
    /\ UNCHANGED <<backed, size, fileBytes, memBase, degraded, promoted, abandoned,
                   everAttached, readers, firing, timers, indexed, p, produced, readerVars>>

-----------------------------------------------------------------------------
(* Readers.                                                                *)

Joinable_Abandoned == ~released /\ ~(degraded /\ memBase > fileBytes)
Joinable_RingMovedOn == ~released /\ ~abandoned

\* NewReader attaches at offset zero, unless what it would read is gone.
Joinable == ~released /\ ~abandoned /\ ~(degraded /\ memBase > fileBytes)

NewReader(r) ==
    /\ rpc[r] = "absent"
    /\ IF Joinable
       THEN /\ rpc' = [rpc EXCEPT ![r] = "open"]
            /\ readers' = readers \cup {r}
            /\ everAttached' = TRUE
            /\ DisarmIdle
       ELSE /\ rpc' = [rpc EXCEPT ![r] = "refused"]
            /\ UNCHANGED <<readers, everAttached, idle>>
    /\ UNCHANGED <<backed, state, size, fileBytes, mem, memBase, degraded, promoted,
                   released, abandoned, firing, timers, waiting, storeVars,
                   writerVars, pos, want, closed, got, result>>

\* Read for at most n bytes, up to its return, its disk read or its wait.
\* A blocked Read runs this again each time a Broadcast wakes it.
Read(r, n) ==
    LET off   == pos[r] - memBase
        avail == Len(mem) - off
        take  == Smaller(n, avail)
        Return(res) == /\ result' = [result EXCEPT ![r] = res]
                       /\ rpc' = [rpc EXCEPT ![r] = "open"]
                       /\ UNCHANGED <<pos, want, got, waiting>>
    IN  /\ rpc[r] = "open" \/ (rpc[r] = "blocked" /\ r \notin waiting)
        /\ result[r] = "none"
        /\ CASE closed[r] -> Return("closed")
             [] ~closed[r] /\ pos[r] < size /\ FileOpen /\ pos[r] < fileBytes ->
                    /\ rpc' = [rpc EXCEPT ![r] = "readat"]
                    /\ want' = [want EXCEPT ![r] = Smaller(n, fileBytes - pos[r])]
                    /\ UNCHANGED <<pos, got, result, waiting>>
             [] ~closed[r] /\ pos[r] < size /\ ~(FileOpen /\ pos[r] < fileBytes) ->
                    IF avail <= 0 \/ off < 0 THEN Return("broken")
                    ELSE /\ pos' = [pos EXCEPT ![r] = @ + take]
                         /\ got' = [got EXCEPT ![r] = @ \o SubSeq(mem, off + 1, off + take)]
                         /\ rpc' = [rpc EXCEPT ![r] = "open"]
                         /\ Broadcast
                         /\ UNCHANGED <<want, result>>
             [] ~closed[r] /\ pos[r] >= size /\ state = "complete" -> Return("eof")
             [] ~closed[r] /\ pos[r] >= size /\ state = "failed" -> Return("err")
             [] OTHER ->
                    /\ rpc' = [rpc EXCEPT ![r] = "blocked"]
                    /\ waiting' = waiting \cup {r}
                    /\ UNCHANGED <<pos, want, got, result>>
        /\ UNCHANGED <<entryVars, timerVars, storeVars, writerVars, closed>>

\* The disk read outside the lock came back with n of the bytes it wanted
\* (none: an I/O error).  A Close meanwhile wins, whatever was read.
ReadAt(r, n) ==
    /\ rpc[r] = "readat" /\ n <= want[r]
    /\ rpc' = [rpc EXCEPT ![r] = "open"]
    /\ want' = [want EXCEPT ![r] = 0]
    /\ IF closed[r]
       THEN /\ result' = [result EXCEPT ![r] = "closed"]
            /\ UNCHANGED <<pos, got>>
       ELSE /\ pos' = [pos EXCEPT ![r] = @ + n]
            /\ got' = [got EXCEPT ![r] = @ \o [i \in 1..n |-> pos[r] + i]]
            /\ result' = [result EXCEPT ![r] = IF n > 0 THEN @ ELSE "ioerr"]
    /\ UNCHANGED <<entryVars, timerVars, waiting, storeVars, writerVars, closed>>

\* Close, by the handler or by its context watcher while a Read is pending.
Close(r) ==
    /\ r \in readers
    /\ closed' = [closed EXCEPT ![r] = TRUE]
    /\ readers' = readers \ {r}
    /\ IF readers = {r} THEN ArmIdle ELSE UNCHANGED <<idle, timers>>
    /\ Broadcast
    /\ MaybeRelease(state, readers \ {r}, promoted)
    /\ UNCHANGED <<backed, state, size, fileBytes, memBase, degraded, promoted, abandoned,
                   everAttached, firing, registered, indexed, writerVars, rpc, pos, want, got, result>>

-----------------------------------------------------------------------------
(* The idle timer.                                                         *)

\* time.AfterFunc's callback starts; it has yet to take the lock.
TimerExpire ==
    /\ idle # 0 /\ idle \notin firing
    /\ firing' = firing \cup {idle}
    /\ UNCHANGED <<entryVars, idle, timers, waiting, storeVars, writerVars, readerVars>>

\* idleFire: a callback that is not the armed timer's has been superseded.
IdleFire(it) ==
    /\ it \in firing
    /\ firing' = firing \ {it}
    /\ IF idle = it
       THEN /\ abandoned' = TRUE
            /\ DisarmIdle
            /\ Unregister
            /\ Broadcast
       ELSE UNCHANGED <<abandoned, idle, registered, waiting>>
    /\ UNCHANGED <<backed, state, size, fileBytes, mem, memBase, degraded, promoted,
                   released, everAttached, readers, timers, disk, indexed,
                   writerVars, readerVars>>

-----------------------------------------------------------------------------
WriterStep ==
    \/ \E n \in 1..MaxChunk : WriteStart(n)
    \/ FileWriteOK
    \/ \E n \in 0..(MaxChunk - 1) : FileWriteFail(n)
    \/ RingWake
    \/ CompleteStart
    \/ PromoteStep \/ PromoteOK \/ PromoteFail
    \/ Fail

ReaderStep(r) == \E n \in 1..MaxChunk : Read(r, n)

ReadAtStep(r) == \E n \in 0..MaxChunk : ReadAt(r, n)

\* The pipeline ended and the readers are gone: nothing more happens.
Ended ==
    /\ wpc = "done" /\ readers = {} /\ firing = {} /\ idle = 0
    /\ \A r \in Reader : rpc[r] = "refused" \/ result[r] # "none"
    /\ UNCHANGED vars

Next ==
    \/ WriterStep
    \/ \E r \in Reader : NewReader(r) \/ ReaderStep(r) \/ ReadAtStep(r) \/ Close(r)
    \/ TimerExpire
    \/ \E it \in firing : IdleFire(it)
    \/ Ended

Spec == Init /\ [][Next]_vars
-----------------------------------------------------------------------------
(***************************************************************************)
(* Fairness.  The pipeline goroutine, once started, keeps running; a disk  *)
(* read returns; an attached handler reads on until its Read ends it, and  *)
(* then closes (its deferred Close); the request that created the entry    *)
(* attaches to it.  No other client is obliged to attach, none to leave    *)
(* early, and no timer to expire.                                          *)
(***************************************************************************)
FirstAttach == ~everAttached /\ \E r \in Reader : NewReader(r)
ReadOrClose(r) == ReaderStep(r) \/ (result[r] # "none" /\ Close(r))

FairSpec ==
    /\ Spec
    /\ WF_vars(WriterStep)
    /\ WF_vars(FirstAttach)
    /\ \A r \in Reader : WF_vars(ReadOrClose(r)) /\ WF_vars(ReadAtStep(r))

-----------------------------------------------------------------------------
TypeFlags ==
    /\ backed \in BOOLEAN /\ degraded \in BOOLEAN /\ promoted \in BOOLEAN
    /\ released \in BOOLEAN /\ abandoned \in BOOLEAN /\ everAttached \in BOOLEAN
    /\ registered \in BOOLEAN /\ indexed \in BOOLEAN

TypeBytes ==
    /\ size \in Nat /\ fileBytes \in Nat /\ memBase \in Nat /\ produced \in Nat
    /\ mem \in Seq(Nat) /\ Len(mem) <= RingCap
    /\ p \in Seq(Nat)

TypeControl ==
    /\ state \in State /\ wpc \in WPC
    /\ readers \in SUBSET Reader
    /\ waiting \in SUBSET (Reader \cup {Writer})
    /\ idle \in Nat /\ firing \in SUBSET Nat /\ timers \in Nat
    /\ disk \in SUBSET {"tmp", "out", "meta"}

TypeReaders ==
    /\ rpc \in [Reader -> RPC]
    /\ pos \in [Reader -> Nat] /\ want \in [Reader -> Nat]
    /\ closed \in [Reader -> BOOLEAN]
    /\ got \in [Reader -> Seq(Nat)]
    /\ result \in [Reader -> Outcome]

\* Types, and the ring never holds more than ringCap bytes (Write).
TypeOK == TypeFlags /\ TypeBytes /\ TypeControl /\ TypeReaders

\* Byte b can still be read, from the file or from the ring, and is byte b.
Readable(b) ==
    \/ FileOpen /\ b <= fileBytes
    \/ memBase < b /\ b <= memBase + Len(mem) /\ mem[b - memBase] = b

\* The retention invariant Read relies on in its ring region (entry.go:464):
\* every published byte an attached reader has not taken yet is still held,
\* across degradation, dropConsumed and release, so "ring retention
\* invariant broken" is never returned.
RingRetention ==
    /\ \A r \in readers : \A b \in (pos[r] + 1)..size : Readable(b)
    /\ \A r \in Reader : result[r] # "broken"

\* A reader is handed the stream's bytes in order from the first one, none
\* lost and none twice, even where it crosses from file to ring (Read).
StreamPrefix ==
    \A r \in Reader : got[r] = [i \in 1..pos[r] |-> i]

\* io.EOF means the whole stream: every byte the pipeline wrote was handed
\* over, and the pipeline did complete (Read, Complete).
EOFMeansWhole ==
    \A r \in Reader : result[r] = "eof" => pos[r] = produced /\ state = "complete"

\* An abandoned entry has no reader to let down: abandon only runs with none
\* attached, and NewReader refuses from then on (abandon, NewReader, idleFire).
AbandonedHasNoReader == abandoned => readers = {}

\* What InFlight hands out can be joined: the registry holds exactly the
\* file-backed entries that are writing, not degraded and not abandoned, and
\* NewReader accepts on each (unregister, noteDegraded, abandon, Complete).
RegisteredIsJoinable ==
    /\ registered <=> backed /\ state = "writing" /\ ~degraded /\ ~abandoned
    /\ registered => Joinable

\* Only whole outputs are indexed: the file holds every byte written, under
\* its final name and with its meta.json (promote).
IndexedIsWhole ==
    indexed => fileBytes = produced /\ disk = {"out", "meta"}

\* Release takes nothing from anyone: the entry is terminal, no reader is
\* attached, a disk read still under way belongs to a closed reader, and the
\* temp file is gone (maybeRelease, dropAborted).
ReleaseIsSafe ==
    released =>
        /\ state # "writing" /\ readers = {}
        /\ \A r \in Reader : rpc[r] = "readat" => closed[r]
        /\ "tmp" \notin disk

RB == INSTANCE ReadBehind WITH
    avail  <- size,
    ending <- IF state = "writing" THEN "open" ELSE state,
    cur    <- [r \in Reader |-> IF rpc[r] \in {"absent", "refused"} THEN -1 ELSE pos[r]],
    told   <- result

\* The entry, whichever of file and ring carries it, is a read-behind stream
\* in the sense of ReadBehind (Write, Read, NewReader, Complete, Fail).
ImplementsReadBehind == RB!ReadBehindSpec

\* Nobody waits for ever: the pipeline ends, every reader leaves, and the
\* entry gives its file and its ring back (the condition variable's
\* Broadcasts, ring-full abandonment, maybeRelease).
EntryEnds == <>(wpc = "done" /\ released)

\* A Read that blocked returns (Broadcast in Write, Complete, fail, Close).
BlockedReadReturns ==
    \A r \in Reader : rpc[r] = "blocked" ~> rpc[r] = "open"

\* What a reader is handed is the stream from its first byte, and no release,
\* however close, idle timer and end interleave, takes it away under a reader
\* (Read, maybeRelease).
ReadersAreServed == StreamPrefix /\ ReleaseIsSafe

\* What the store hands out is good: a registered entry can be joined and an
\* indexed one is whole, whatever failed on the way (InFlight, promote).
StoreIsSound == RegisteredIsJoinable /\ IndexedIsWhole

\* The entry ends and is given back, and no blocked Read stays blocked (the
\* condition variable's Broadcasts).
Progress == EntryEnds /\ BlockedReadReturns
=============================================================================
