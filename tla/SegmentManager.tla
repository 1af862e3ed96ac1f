--------------------------- MODULE SegmentManager ---------------------------
(***************************************************************************)
(* One HLS variant: the requests for its segments (server/hls.go), the     *)
(* manager that serialises its workers (internal/hls/manager.go), the      *)
(* worker goroutine with its live slot and pin, and the variant's          *)
(* directory with the eviction that runs beside it (internal/cache).       *)
(*                                                                         *)
(* One action is what a goroutine does between two points where another    *)
(* can get in: what it does under Manager.mu, one stat, one file write,    *)
(* one index operation.  What a request read earlier (a stat, the worker   *)
(* it decided to cancel, the last error) it carries in its own variables.  *)
(* Variants share no state but the live slots, so the others are the       *)
(* sessions that come and go in `others'.                                  *)
(***************************************************************************)
EXTENDS Integers, FiniteSets

CONSTANTS
    Caller,      \* segment requests, one each
    Segments,    \* segments of the stream: 0 .. Segments - 1
    Lookahead,   \* Manager.Lookahead
    IdleTimeout, \* Manager.IdleTimeout > 0
    Slots,       \* live admission slots
    MaxOthers,   \* bound: slots held by other sessions
    MaxSpawns,   \* bound: workers spawned
    MaxGC        \* bound: gc runs that pick this variant

ASSUME ConstantsAssumption ==
    /\ IsFiniteSet(Caller)
    /\ Segments \in Nat \ {0} /\ Lookahead \in Nat \ {0}
    /\ IdleTimeout \in BOOLEAN
    /\ Slots \in Nat \ {0} /\ MaxOthers \in Nat /\ MaxSpawns \in Nat /\ MaxGC \in Nat

Seg    == 0 .. Segments - 1
Worker == 1 .. MaxSpawns
NoWorker == 0
Err    == {"nil", "failed", "canceled"}

VARIABLES
    \* Manager: the variant's bookkeeping
    tracked,    \* m.variants[key] exists
    waiters,    \* variant.waiters
    cur,        \* variant.cur, NoWorker when none runs
    lastErr,    \* variant.lastErr
    idle,       \* the armed idleTimer [id, wk], id 0 when none is
    firing,     \* idle timers whose callback has started, lock not yet held
    parked,     \* requests waiting on variant.notify
    \* the workers
    spawns,     \* workers spawned so far
    wk,         \* each worker: bookkeeping, goroutine and outcome
    \* admission
    used,       \* len(pools.live)
    others,     \* slots held by other sessions
    \* the variant in the cache
    indexed,    \* store.index[key] # nil
    dir,        \* its directory exists
    onDisk,     \* segments published in it
    pins,       \* store.pinned[key]
    gc,         \* a gc run: "none", "victim" (snapshot taken), "removing"
    gcs,        \* gc runs so far
    exposed,    \* history: cur's pin came after a gc run took its snapshot
    \* each request
    pc, seg, pass,
    mine,       \* the worker it spawned (spawned in the code)
    target,     \* the worker it means to cancel
    seen,       \* lastErr as it read it
    result

managerVars == <<tracked, waiters, cur, lastErr, idle, firing, parked>>
workerVars  == <<spawns, wk>>
slotVars    == <<used, others>>
diskVars    == <<indexed, dir, onDisk, pins, gc, gcs, exposed>>
callerVars  == <<pc, seg, pass, mine, target, seen, result>>
vars == <<managerVars, workerVars, slotVars, diskVars, callerVars>>

Disarmed == [id |-> 0, wk |-> NoWorker]
NoRun    == [pc |-> "off", start |-> 0, next |-> 0, at |-> 0, produced |-> FALSE,
             canceled |-> "no", slot |-> FALSE, err |-> "nil"]
WorkerPC == {"off", "run", "notify", "ended", "exited", "gone"}
CallerPC == {"idle", "mkdir", "register", "open", "touch", "acquire", "has", "lock",
             "parked", "kill", "cancel", "waitexit", "end", "respawn", "spawn",
             "release", "done"}
Outcome  == {"none", "served", "landed", "failed", "canceled", "notfound", "overloaded",
             "left", "unwritable", "evicted"}

\* A worker's goroutine is alive: it may still write into the variant.
Running(w) == wk[w].pc \in {"run", "notify"}

-----------------------------------------------------------------------------
Init ==
    /\ tracked = FALSE /\ waiters = 0 /\ cur = NoWorker /\ lastErr = "nil"
    /\ idle = Disarmed /\ firing = {} /\ parked = {}
    /\ spawns = 0 /\ wk = [w \in Worker |-> NoRun]
    /\ used = 0 /\ others = 0
    /\ indexed = FALSE /\ dir = FALSE /\ onDisk = {} /\ pins = 0
    /\ gc = "none" /\ gcs = 0 /\ exposed = FALSE
    /\ pc = [c \in Caller |-> "idle"]
    /\ seg = [c \in Caller |-> 0]
    /\ pass = [c \in Caller |-> 0]
    /\ mine = [c \in Caller |-> NoWorker]
    /\ target = [c \in Caller |-> NoWorker]
    /\ seen = [c \in Caller |-> "nil"]
    /\ result = [c \in Caller |-> "none"]

Goto(c, where) == pc' = [pc EXCEPT ![c] = where]

\* The request is answered; only the answer is kept.
Answer(c, res) ==
    /\ Goto(c, "done")
    /\ result' = [result EXCEPT ![c] = res]
    /\ seg' = [seg EXCEPT ![c] = 0]
    /\ pass' = [pass EXCEPT ![c] = 0]

\* Has: the stat, outside every lock.
Has(n) == n \in onDisk

-----------------------------------------------------------------------------
(* Manager steps that several operations share, under m.mu.                *)

\* The next timer: any that is not a callback still on its way.
FreshTimer == CHOOSE i \in 1 .. Cardinality(firing) + 1 : \A it \in firing : it.id # i

\* armIdle for ws waiters and worker w: armed only while a worker runs with
\* nobody waiting on it.
ArmIdle(ws, w) ==
    IF ~IdleTimeout \/ ws # 0 \/ w = NoWorker
    THEN idle' = Disarmed
    ELSE idle' = [id |-> FreshTimer, wk |-> w]

Wake_Nobody == parked' = parked

\* wake: every request parked on the notify channel goes on.
Wake == parked' = {}

\* maybeDrop: no waiter and no worker, so the bookkeeping goes.
MaybeDrop(ws, w) == tracked' = (tracked /\ ~(ws = 0 /\ w = NoWorker))

Disarm_Never == UNCHANGED idle

\* disarmIdle: a callback that has already started is not stopped.
DisarmIdle == idle' = Disarmed

ReleaseSlot_Never(w) == used' = used

\* A worker's release of its live slot: once only.
ReleaseSlot(w) == used' = IF wk[w].slot THEN used - 1 ELSE used

-----------------------------------------------------------------------------
(* The request: handleHLSSegment up to the manager.                        *)

\* A request for segment n; Store.HLS looks the variant up ...
Arrive(c, n) ==
    /\ pc[c] = "idle"
    /\ seg' = [seg EXCEPT ![c] = n]
    /\ pass' = [pass EXCEPT ![c] = 1]
    /\ Goto(c, IF indexed THEN "open" ELSE "mkdir")
    /\ UNCHANGED <<managerVars, workerVars, slotVars, diskVars, mine, target, seen, result>>

\* ... and at first touch creates the directory with its meta.json ...
MakeDir(c) ==
    /\ pc[c] = "mkdir"
    /\ dir' = TRUE
    /\ Goto(c, "register")
    /\ UNCHANGED <<managerVars, workerVars, slotVars, indexed, onDisk, pins, gc, gcs, exposed,
                   seg, pass, mine, target, seen, result>>

\* ... which the volume may refuse ...
MakeDirFails(c) ==
    /\ pc[c] = "mkdir"
    /\ Answer(c, "unwritable")
    /\ UNCHANGED <<managerVars, workerVars, slotVars, diskVars, mine, target, seen>>

\* ... and indexes the variant.
Register(c) ==
    /\ pc[c] = "register"
    /\ indexed' = TRUE
    /\ Goto(c, "open")
    /\ UNCHANGED <<managerVars, workerVars, slotVars, dir, onDisk, pins, gc, gcs, exposed,
                   seg, pass, mine, target, seen, result>>

\* Variant.Open: a hit needs the index entry and the file.
Open(c) ==
    /\ pc[c] = "open"
    /\ Goto(c, IF indexed /\ Has(seg[c]) THEN "touch" ELSE "acquire")
    /\ UNCHANGED <<managerVars, workerVars, slotVars, diskVars, seg, pass, mine, target, seen, result>>

\* Touch: a hit restarts the idle timeout of a worker that has one armed.
Touch(c) ==
    /\ pc[c] = "touch"
    /\ IF tracked /\ idle # Disarmed THEN ArmIdle(waiters, cur) ELSE UNCHANGED idle
    /\ Answer(c, "served")
    /\ UNCHANGED <<tracked, waiters, cur, lastErr, firing, parked, workerVars, slotVars,
                   diskVars, mine, target, seen>>

-----------------------------------------------------------------------------
(* Manager.Segment.                                                        *)

\* acquire: find or make the bookkeeping, become a waiter, disarm the timer.
Acquire(c) ==
    /\ pc[c] = "acquire"
    /\ tracked' = TRUE
    /\ waiters' = waiters + 1
    /\ lastErr' = IF tracked THEN lastErr ELSE "nil"
    /\ DisarmIdle
    /\ mine' = [mine EXCEPT ![c] = NoWorker]
    /\ Goto(c, "has")
    /\ UNCHANGED <<cur, firing, parked, workerVars, slotVars, diskVars, seg, pass,
                   target, seen, result>>

\* Segment returns; its deferred release has yet to run.
Return(c, res) ==
    /\ Goto(c, "release")
    /\ result' = [result EXCEPT ![c] = res]

\* The stat at the top of the loop.
CheckHas(c) ==
    /\ pc[c] = "has"
    /\ IF Has(seg[c]) THEN Return(c, "landed") ELSE Goto(c, "lock") /\ UNCHANGED result
    /\ UNCHANGED <<managerVars, workerVars, slotVars, diskVars, seg, pass, mine, target, seen>>

\* The running worker already landed n.
Landed(n) == cur # NoWorker /\ wk[cur].start <= n /\ n < wk[cur].next

\* The worker will get to n, or has not landed its first segment yet.
InWindow(n) ==
    /\ cur # NoWorker
    /\ \/ ~wk[cur].produced
       \/ wk[cur].next <= n /\ n <= wk[cur].next + Lookahead

\* The switch, under the lock: serve, park, restart, give up or spawn.
Decide(c) ==
    /\ pc[c] = "lock"
    /\ LET n == seg[c] IN
       \/ /\ Landed(n)
          /\ Return(c, "landed")
          /\ UNCHANGED <<parked, target, seen>>
       \/ /\ ~Landed(n) /\ InWindow(n)
          /\ parked' = parked \cup {c}
          /\ Goto(c, "parked")
          /\ UNCHANGED <<target, seen, result>>
       \/ /\ ~Landed(n) /\ ~InWindow(n) /\ cur # NoWorker
          /\ target' = [target EXCEPT ![c] = cur]
          /\ Goto(c, "kill")
          /\ UNCHANGED <<parked, seen, result>>
       \/ /\ cur = NoWorker /\ mine[c] # NoWorker
          /\ seen' = [seen EXCEPT ![c] = lastErr]
          /\ Goto(c, "end")
          /\ UNCHANGED <<parked, target, result>>
       \/ /\ cur = NoWorker /\ mine[c] = NoWorker
          /\ Goto(c, "respawn")
          /\ UNCHANGED <<parked, target, seen, result>>
    /\ UNCHANGED <<tracked, waiters, cur, lastErr, idle, firing, workerVars,
                   slotVars, diskVars, seg, pass, mine>>

\* A segment landed or the worker exited: round the loop again.
Woken(c) ==
    /\ pc[c] = "parked" /\ c \notin parked
    /\ Goto(c, "has")
    /\ UNCHANGED <<managerVars, workerVars, slotVars, diskVars, seg, pass, mine, target, seen, result>>

\* The wrong worker runs: re-check ...
Kill(c) ==
    /\ pc[c] = "kill"
    /\ IF Has(seg[c])
       THEN Return(c, "landed") /\ target' = [target EXCEPT ![c] = NoWorker]
       ELSE Goto(c, "cancel") /\ UNCHANGED <<target, result>>
    /\ UNCHANGED <<managerVars, workerVars, slotVars, diskVars, seg, pass, mine, seen>>

\* ... then tell it to stop, without the lock.  One that is already over
\* ignores the cancel.
Cancel(c) ==
    LET w == target[c] IN
    /\ pc[c] = "cancel"
    /\ wk' = [wk EXCEPT ![w].canceled = IF Running(w) /\ @ = "no" THEN "seek" ELSE @]
    /\ Goto(c, "waitexit")
    /\ UNCHANGED <<managerVars, spawns, slotVars, diskVars, seg, pass, mine, target, seen,
                   result>>

\* Our worker came and went: re-check, then its error is the answer, or the
\* segment is past the end.
GiveUp(c) ==
    /\ pc[c] = "end"
    /\ Return(c, CASE Has(seg[c]) -> "landed"
                   [] ~Has(seg[c]) /\ seen[c] = "nil" -> "notfound"
                   [] OTHER -> seen[c])
    /\ seen' = [seen EXCEPT ![c] = "nil"]
    /\ UNCHANGED <<managerVars, workerVars, slotVars, diskVars, seg, pass, mine, target>>

\* No worker runs: re-check before paying for one.
Confirm(c) ==
    /\ pc[c] = "respawn"
    /\ IF Has(seg[c]) THEN Return(c, "landed") ELSE Goto(c, "spawn") /\ UNCHANGED result
    /\ UNCHANGED <<managerVars, workerVars, slotVars, diskVars, seg, pass, mine, target, seen>>

\* The cancelled worker's exited channel is closed.
Exited(c) ==
    /\ pc[c] = "waitexit" /\ wk[target[c]].pc \in {"exited", "gone"}
    /\ target' = [target EXCEPT ![c] = NoWorker]
    /\ Goto(c, "has")
    /\ UNCHANGED <<managerVars, workerVars, slotVars, diskVars, seg, pass, mine, seen, result>>

\* waitSignal: the client left, or the wait timed out.
Leave(c) ==
    /\ pc[c] \in {"parked", "waitexit"}
    /\ Return(c, "left")
    /\ parked' = parked \ {c}
    /\ target' = [target EXCEPT ![c] = NoWorker]
    /\ UNCHANGED <<tracked, waiters, cur, lastErr, idle, firing, workerVars, slotVars,
                   diskVars, seg, pass, mine, seen>>

MustReevaluate_Never == FALSE

\* Someone spawned while we re-checked.
MustReevaluate == cur # NoWorker

\* Start a worker at n, the lock held across Spawn: a live slot, a pin, the
\* goroutine.  It is refused when the live slots are full, or when the daemon
\* is closing: that may be at any time, and gives the slot straight back.
Spawn(c) ==
    LET w == spawns + 1 IN
    /\ pc[c] = "spawn"
    /\ \/ /\ MustReevaluate
          /\ Goto(c, "has")
          /\ UNCHANGED <<cur, lastErr, workerVars, used, pins, exposed, mine, result>>
       \/ /\ ~MustReevaluate
          /\ Return(c, "overloaded")
          /\ UNCHANGED <<cur, lastErr, workerVars, used, pins, exposed, mine>>
       \/ /\ ~MustReevaluate /\ used < Slots /\ spawns < MaxSpawns
          /\ spawns' = w
          /\ wk' = [wk EXCEPT ![w] = [NoRun EXCEPT !.pc = "run", !.start = seg[c],
                                         !.next = seg[c], !.at = seg[c], !.slot = TRUE]]
          /\ used' = used + 1
          /\ pins' = pins + 1 /\ exposed' = (gc # "none")
          /\ cur' = w /\ lastErr' = "nil"
          /\ mine' = [mine EXCEPT ![c] = w]
          /\ Goto(c, "has")
          /\ UNCHANGED result
    /\ UNCHANGED <<tracked, waiters, idle, firing, parked, others, indexed, dir,
                   onDisk, gc, gcs, seg, pass, target, seen>>

\* Segment's deferred release, and what the handler makes of the answer: an
\* error ends the request, a landed segment is opened, at most twice.
ReleaseCaller(c) ==
    /\ pc[c] = "release"
    /\ waiters' = waiters - 1
    /\ ArmIdle(waiters - 1, cur)
    /\ MaybeDrop(waiters - 1, cur)
    /\ \/ /\ result[c] = "landed" /\ pass[c] = 1
          /\ pass' = [pass EXCEPT ![c] = 2]
          /\ result' = [result EXCEPT ![c] = "none"]
          /\ Goto(c, "open")
          /\ UNCHANGED seg
       \/ /\ result[c] = "landed" /\ pass[c] = 2
          /\ Answer(c, "evicted")
       \/ /\ result[c] # "landed"
          /\ Answer(c, result[c])
    /\ UNCHANGED <<cur, lastErr, firing, parked, workerVars, slotVars, diskVars, mine,
                   target, seen>>

-----------------------------------------------------------------------------
(* The worker: hlsSpawner's goroutine running runHLSWorker.                *)

\* publish: WriteFile puts the next segment into the variant's directory.
Publish(w) ==
    /\ wk[w].pc = "run" /\ wk[w].at < Segments /\ dir
    /\ onDisk' = onDisk \cup {wk[w].at}
    /\ wk' = [wk EXCEPT ![w].pc = "notify", ![w].at = @ + 1]
    /\ UNCHANGED <<managerVars, spawns, slotVars, indexed, dir, pins, gc, gcs, exposed,
                   callerVars>>

\* notify: record the progress, wake every waiter.
Notify(w) ==
    /\ wk[w].pc = "notify"
    /\ wk' = [wk EXCEPT ![w].pc = "run",
                        ![w].next = IF cur = w THEN wk[w].at ELSE @,
                        ![w].produced = @ \/ cur = w]
    /\ Wake
    /\ UNCHANGED <<tracked, waiters, cur, lastErr, idle, firing, spawns, slotVars,
                   diskVars, callerVars>>

\* The run is over: the end of the stream, a cancel it noticed, or a failure
\* (the source, the encoder, a write into a directory that is gone).  The
\* slot goes back before exit.
Finish(w, err) ==
    /\ wk[w].pc = "run"
    /\ \/ err = "nil" /\ wk[w].at = Segments
       \/ err = "canceled" /\ wk[w].canceled # "no"
       \/ err = "failed" /\ wk[w].at < Segments
    /\ ReleaseSlot(w)
    /\ wk' = [wk EXCEPT ![w].pc = "ended", ![w].err = err, ![w].slot = FALSE]
    /\ UNCHANGED <<managerVars, spawns, others, diskVars, callerVars>>

\* exit: retire the worker, record its error, wake everyone.
Exit(w) ==
    /\ wk[w].pc = "ended"
    /\ wk' = [wk EXCEPT ![w].pc = "exited"]
    /\ IF cur = w
       THEN /\ cur' = NoWorker /\ lastErr' = wk[w].err /\ DisarmIdle
            /\ MaybeDrop(waiters, NoWorker)
       ELSE UNCHANGED <<cur, lastErr, idle>> /\ MaybeDrop(waiters, cur)
    /\ Wake
    /\ UNCHANGED <<waiters, firing, spawns, slotVars, diskVars, callerVars>>

\* The deferred Unpin runs once exit has returned.
UnpinDue(w) == wk[w].pc = "exited"

\* The worker is gone; only how it ended is kept.
Unpin(w) ==
    /\ UnpinDue(w)
    /\ wk' = [wk EXCEPT ![w] = [NoRun EXCEPT !.pc = "gone", !.err = wk[w].err,
                                                !.produced = wk[w].produced]]
    /\ pins' = pins - 1
    /\ UNCHANGED <<managerVars, spawns, slotVars, indexed, dir, onDisk, gc, gcs, exposed,
                   callerVars>>

-----------------------------------------------------------------------------
(* Timers, other sessions, eviction.                                       *)

\* time.AfterFunc's callback starts; it has yet to take the lock.
TimerExpire ==
    /\ idle # Disarmed /\ idle \notin firing
    /\ firing' = firing \cup {idle}
    /\ UNCHANGED <<tracked, waiters, cur, lastErr, idle, parked, workerVars, slotVars,
                   diskVars, callerVars>>

\* idleCancel: if this timer is still the armed one, its worker is cancelled
\* and gives its slot back at once.
IdleCancel(it) ==
    /\ it \in firing
    /\ firing' = firing \ {it}
    /\ IF idle = it
       THEN /\ idle' = Disarmed
            /\ ReleaseSlot(it.wk)
            /\ wk' = [wk EXCEPT ![it.wk].canceled = IF @ = "no" THEN "idle" ELSE @,
                                ![it.wk].slot = FALSE]
       ELSE UNCHANGED <<idle, used, wk>>
    /\ UNCHANGED <<tracked, waiters, cur, lastErr, parked, spawns, others, diskVars,
                   callerVars>>

\* Another session takes a live slot, or gives one back.
OtherSession ==
    /\ \/ used < Slots /\ others < MaxOthers /\ used' = used + 1 /\ others' = others + 1
       \/ others > 0 /\ used' = used - 1 /\ others' = others - 1
    /\ UNCHANGED <<managerVars, workerVars, diskVars, callerVars>>

NotPinned_Unchecked == TRUE

\* A pinned key is being filled: evicting under the worker would race it.
NotPinned == pins = 0

\* gc's snapshot, under store.mu, leaves pinned keys out ...
GCSnapshot ==
    /\ gc = "none" /\ gcs < MaxGC
    /\ indexed /\ NotPinned
    /\ gc' = "victim" /\ gcs' = gcs + 1
    /\ UNCHANGED <<managerVars, workerVars, slotVars, indexed, dir, onDisk, pins, exposed,
                   callerVars>>

\* ... dropIndexed takes the victim out of the index ...
GCDropIndex ==
    /\ gc = "victim"
    /\ gc' = IF indexed THEN "removing" ELSE "none"
    /\ indexed' = FALSE
    /\ UNCHANGED <<managerVars, workerVars, slotVars, dir, onDisk, pins, gcs, exposed, callerVars>>

\* ... and, the lock released, removes its directory.
GCRemoveAll ==
    /\ gc = "removing"
    /\ gc' = "none"
    /\ dir' = FALSE /\ onDisk' = {}
    /\ UNCHANGED <<managerVars, workerVars, slotVars, indexed, pins, gcs, exposed, callerVars>>

-----------------------------------------------------------------------------
CallerStep(c) ==
    \/ MakeDir(c) \/ MakeDirFails(c) \/ Register(c) \/ Open(c) \/ Touch(c)
    \/ Acquire(c) \/ CheckHas(c) \/ Decide(c) \/ Woken(c) \/ Kill(c) \/ Cancel(c)
    \/ GiveUp(c) \/ Confirm(c) \/ Exited(c) \/ Spawn(c) \/ ReleaseCaller(c)

WorkerStep(w) ==
    \/ Publish(w) \/ Notify(w) \/ Exit(w) \/ Unpin(w)
    \/ \E err \in Err : Finish(w, err)

GCStep == GCDropIndex \/ GCRemoveAll

\* Every request was answered and every worker is gone.
Quiet ==
    /\ \A c \in Caller : pc[c] = "done"
    /\ \A w \in Worker : wk[w].pc \in {"off", "gone"}
    /\ UNCHANGED vars

Next ==
    \/ \E c \in Caller : \/ \E n \in Seg : Arrive(c, n)
                         \/ CallerStep(c)
                         \/ Leave(c)
    \/ \E w \in Worker : WorkerStep(w)
    \/ TimerExpire
    \/ \E it \in firing : IdleCancel(it)
    \/ OtherSession
    \/ GCSnapshot \/ GCStep
    \/ Quiet

Spec == Init /\ [][Next]_vars

-----------------------------------------------------------------------------
(***************************************************************************)
(* Fairness.  A request that runs goes on; a worker goes on to its end (it *)
(* publishes, fails or notices its cancel); a gc run goes on.  No client   *)
(* is obliged to leave, no wait to time out and no timer to expire.        *)
(***************************************************************************)
FairSpec ==
    /\ Spec
    /\ \A c \in Caller : WF_vars(CallerStep(c))
    /\ \A w \in Worker : WF_vars(WorkerStep(w))
    /\ WF_vars(GCStep)

-----------------------------------------------------------------------------
\* Types; the live slots in use never go below zero or above the pool's size
\* (AcquireLive and its release).
TypeOK ==
    /\ tracked \in BOOLEAN /\ waiters \in Nat /\ cur \in Worker \cup {NoWorker}
    /\ lastErr \in Err /\ parked \subseteq Caller
    /\ idle \in [id : Nat, wk : Worker \cup {NoWorker}]
    /\ firing \subseteq [id : Nat \ {0}, wk : Worker]
    /\ spawns \in 0 .. MaxSpawns
    /\ wk \in [Worker -> [pc : WorkerPC, start : Seg, next : 0 .. Segments,
                          at : 0 .. Segments, produced : BOOLEAN,
                          canceled : {"no", "seek", "idle"}, slot : BOOLEAN, err : Err]]
    /\ used \in 0 .. Slots /\ others \in 0 .. Slots
    /\ indexed \in BOOLEAN /\ dir \in BOOLEAN /\ onDisk \subseteq Seg /\ pins \in Nat
    /\ gc \in {"none", "victim", "removing"} /\ gcs \in 0 .. MaxGC
    /\ exposed \in BOOLEAN
    /\ pc \in [Caller -> CallerPC] /\ seg \in [Caller -> Seg] /\ pass \in [Caller -> 0 .. 2]
    /\ mine \in [Caller -> Worker \cup {NoWorker}]
    /\ target \in [Caller -> Worker \cup {NoWorker}]
    /\ seen \in [Caller -> Err] /\ result \in [Caller -> Outcome]

\* At most one worker of the variant runs, and it is the one the manager
\* knows: restarts and racing spawns never overlap (Manager, "at most one per
\* variant key").
OneWorker ==
    \A w \in Worker : wk[w].pc \in {"run", "notify", "ended"} => cur = w

\* A seek never stops a worker that has not landed a segment: competing
\* seeks cannot cancel each other's workers for ever (Segment's second case).
SeekSparesUnproduced ==
    \A w \in Worker : wk[w].canceled = "seek" => wk[w].produced

\* The manager's view of a worker is pinned until after exit, so that its
\* progress stays evidence for what is on disk (hlsSpawner).
RunningIsPinned == cur # NoWorker => pins > 0

\* Every live slot in use has one owner, whatever the order of idle cancel,
\* restart and end (acquire's once, hlsSpawner's release).
SlotsConserved ==
    used = others + Cardinality({w \in Worker : wk[w].slot})

\* Bookkeeping exists exactly while somebody waits or works (acquire, exit,
\* release, maybeDrop): nothing leaks and nothing in use is dropped.
TrackedWhileActive == tracked <=> waiters > 0 \/ cur # NoWorker

\* A parked request is parked on a worker that will wake it: no exit and no
\* landed segment is missed between the switch and the wait (wake).
ParkedHasWaker ==
    \A c \in parked : cur # NoWorker /\ ~Landed(seg[c])

\* The idle timeout cancels a worker only while nobody waits on its variant
\* (acquire's disarm, idleCancel's check).
IdleSparesWaiters ==
    [][\A w \in Worker : wk[w].canceled # "idle" /\ wk'[w].canceled = "idle"
          => waiters = 0 /\ cur = w]_vars

\* The handler's two passes are enough unless eviction races it: "segment
\* evicted while being served" is only ever said when a gc run picked the
\* variant (handleHLSSegment, Segment's claim that a landed segment is there).
EvictedNeedsGC == \A c \in Caller : result[c] = "evicted" => gcs > 0

\* Every request is answered without any timeout: parked requests are woken,
\* restarts converge and cancelled workers are waited out (Segment).
EveryRequestAnswered ==
    \A c \in Caller : pc[c] # "idle" ~> pc[c] = "done"

\* What the manager counts as landed is on disk: a request answered from
\* start <= n < next finds its file, whatever workers were replaced and
\* whatever was evicted before (Segment, "the variant is pinned against
\* eviction while its worker runs").  The pin is no help against a gc run whose
\* snapshot is older than it; workers that start beside one are left out.
LandedIsOnDisk == ~exposed => \A n \in Seg : Landed(n) => Has(n)

\* The variant's worker is one, known, pinned and, until its first segment,
\* safe from seeks, through every restart and racing spawn (Segment, exit).
WorkersAreSound ==
    /\ TypeOK
    /\ OneWorker /\ RunningIsPinned /\ SeekSparesUnproduced

\* No slot, no bookkeeping and no wakeup is lost between requests, workers and
\* the idle timer (acquire, release, exit, wake).
NothingIsLost == SlotsConserved /\ TrackedWhileActive /\ ParkedHasWaker

\* Only a gc run that was already under way when the worker started makes the
\* manager's view of the disk wrong, and only eviction makes the handler give
\* up on a segment (Segment's landed case, Store.gc's pin check, the second
\* pass of handleHLSSegment).
EvictionExplains == LandedIsOnDisk /\ EvictedNeedsGC
=============================================================================
