------------------------ MODULE SegmentManagerProofs ------------------------
(***************************************************************************)
(* Theorems about SegmentManager: the worker of a variant is one, known,   *)
(* pinned and safe from seeks until it has landed a segment; no slot, no   *)
(* bookkeeping and no wakeup is lost; the idle timeout spares waiters; and *)
(* only eviction makes the manager's view of the disk wrong.  They hold    *)
(* for any number of requests, segments, slots, workers and evictions.     *)
(***************************************************************************)
EXTENDS SegmentManager, FiniteSetTheorems, TLAPS

-----------------------------------------------------------------------------
(* The inductive invariant.                                                *)

WorkerRec == [pc : WorkerPC, start : Seg, next : 0 .. Segments,
              at : 0 .. Segments, produced : BOOLEAN,
              canceled : {"no", "seek", "idle"}, slot : BOOLEAN, err : Err]

TypeM == tracked \in BOOLEAN /\ cur \in Worker \cup {NoWorker} /\ lastErr \in Err /\ parked
   \subseteq Caller
TypeT == /\ idle \in [id : Nat, wk : Worker \cup {NoWorker}]
         /\ firing \subseteq [id : Nat \ {0}, wk : Worker] /\ IsFiniteSet(firing)
TypeW == spawns \in 0 .. MaxSpawns /\ wk \in [Worker -> WorkerRec]
TypeD == /\ indexed \in BOOLEAN /\ dir \in BOOLEAN /\ onDisk \subseteq Seg
         /\ gc \in {"none", "victim", "removing"} /\ gcs \in 0 .. MaxGC
         /\ exposed \in BOOLEAN
TypeC == /\ pc \in [Caller -> CallerPC] /\ seg \in [Caller -> Seg] /\ pass \in [Caller -> 0 .. 2]
         /\ mine \in [Caller -> Worker \cup {NoWorker}]
         /\ target \in [Caller -> Worker \cup {NoWorker}]
         /\ seen \in [Caller -> Err] /\ result \in [Caller -> Outcome]
Types == TypeM /\ TypeT /\ TypeW /\ TypeD /\ TypeC

\* The counters count: requests inside Segment, workers whose Unpin is still
\* to come, workers that hold a live slot.
Waiting(c) == pc[c] \in {"has", "lock", "parked", "kill", "cancel", "waitexit", "end",
                         "respawn", "spawn", "release"}
Waits      == {c \in Caller : Waiting(c)}
WaitCount  == waiters = Cardinality(Waits)
Pinners    == {w \in Worker : wk[w].pc \in {"run", "notify", "ended", "exited"}}
PinCount   == pins = Cardinality(Pinners)
Holders    == {w \in Worker : wk[w].slot}
SlotCount  == used = others + Cardinality(Holders) /\ others \in Nat /\ used \in 0 .. Slots

\* The armed timer is the current worker's, and nobody waits.
TimerInv == idle # Disarmed => waiters = 0 /\ cur # NoWorker /\ idle.wk = cur /\ idle.id # 0

\* A worker is current from its spawn to its exit, produced before a seek
\* could cancel it, holds a slot only while it runs, and wrote what it counts.
WorkerOf(w) ==
    /\ wk[w].pc \in {"run", "notify", "ended"} <=> cur = w
    /\ w > spawns => wk[w] = NoRun
    /\ wk[w].canceled = "seek" => wk[w].produced
    /\ wk[w].slot => wk[w].pc \in {"run", "notify"}
WorkerInv == \A w \in Worker : WorkerOf(w)

WroteOf(w) ==
    wk[w].pc \in {"run", "notify", "ended"} =>
        /\ wk[w].next <= wk[w].at
        /\ ~exposed => \A n \in Seg : wk[w].start <= n /\ n < wk[w].at => n \in onDisk
WroteInv == \A w \in Worker : WroteOf(w)

\* Who means to cancel a worker saw a segment of it land.
TargetOf(c) ==
    pc[c] \in {"kill", "cancel", "waitexit"} =>
        target[c] \in Worker /\ target[c] <= spawns /\ wk[target[c]].produced
TargetInv == \A c \in Caller : TargetOf(c)

ParkedOf(c) == c \in parked => pc[c] = "parked" /\ cur # NoWorker /\ ~Landed(seg[c])
ParkedInv   == \A c \in Caller : ParkedOf(c)

\* A worker that runs beside a gc run with this variant in its snapshot
\* started after it: the pin keeps every older one out.
GCInv ==
    /\ gc # "none" /\ cur # NoWorker => exposed
    /\ gc # "none" \/ exposed => gcs > 0

\* Without an eviction, an opened variant stays indexed, a segment once landed
\* stays, and no second pass misses it.
PassOf(c) ==
    /\ result[c] = "evicted" => gcs > 0
    /\ gcs = 0 /\ pc[c] \notin {"idle", "mkdir", "register", "done"} => indexed
    /\ gcs = 0 /\ pc[c] = "release" /\ result[c] = "landed" => seg[c] \in onDisk
    /\ gcs = 0 /\ pass[c] = 2 => pc[c] = "touch" \/ (pc[c] = "open" /\ seg[c] \in onDisk)
PassInv == \A c \in Caller : PassOf(c)

IInv == /\ Types /\ WaitCount /\ PinCount /\ SlotCount /\ TimerInv /\ WorkerInv
        /\ WroteInv /\ TargetInv /\ ParkedInv /\ GCInv /\ PassInv /\ TrackedWhileActive

-----------------------------------------------------------------------------
(* Counting.                                                               *)

LEMMA WaitsFinite == IsFiniteSet(Waits) /\ Cardinality(Waits) \in Nat
  BY ConstantsAssumption, FS_Subset, FS_CardinalityType DEF Waits

LEMMA WorkerFinite == IsFiniteSet(Worker)
  BY ConstantsAssumption, FS_Interval DEF Worker

LEMMA PinnersFinite == IsFiniteSet(Pinners) /\ Cardinality(Pinners) \in Nat
  BY WorkerFinite, FS_Subset, FS_CardinalityType DEF Pinners

LEMMA HoldersFinite == IsFiniteSet(Holders) /\ Cardinality(Holders) \in Nat
  BY WorkerFinite, FS_Subset, FS_CardinalityType DEF Holders

\* A request inside Segment is counted.
LEMMA WaiterCounts ==
    ASSUME WaitCount, NEW c \in Caller, Waiting(c) PROVE waiters \in Nat /\ waiters > 0
<1>1. c \in Waits
  BY DEF Waits
<1>2. Cardinality(Waits) # 0
  BY <1>1, WaitsFinite, FS_EmptySet
<1> QED
  BY <1>2, WaitsFinite DEF WaitCount

\* The pin of the worker the manager knows is still held.
LEMMA CurrentIsPinned == ASSUME IInv, cur # NoWorker PROVE pins > 0
<1>1. cur \in Pinners
  BY DEF IInv, Types, TypeM, WorkerInv, WorkerOf, Pinners
<1>2. Cardinality(Pinners) # 0
  BY <1>1, PinnersFinite, FS_EmptySet
<1> QED
  BY <1>2, PinnersFinite DEF IInv, PinCount

\* Some timer id is free: the callbacks on their way use fewer than one more
\* than their number.
LEMMA FreshTimerType == ASSUME TypeT PROVE FreshTimer \in Nat \ {0}
<1> DEFINE n == Cardinality(firing)
           ids == {it.id : it \in firing}
           f == [it \in firing |-> it.id]
<1>1. IsFiniteSet(firing) /\ n \in Nat
  BY FS_CardinalityType DEF TypeT
<1>2. f \in Surjection(firing, ids)
  BY DEF Surjection
<1>3. IsFiniteSet(ids) /\ Cardinality(ids) <= n /\ Cardinality(ids) \in Nat
  BY <1>1, <1>2, FS_Surjection, FS_CardinalityType
<1>4. IsFiniteSet(1 .. n + 1) /\ Cardinality(1 .. n + 1) = n + 1
  BY <1>1, FS_Interval
<1>5. ~(1 .. n + 1 \subseteq ids)
  <2> SUFFICES ASSUME 1 .. n + 1 \subseteq ids PROVE FALSE
    OBVIOUS
  <2>1. Cardinality(1 .. n + 1) <= Cardinality(ids)
    BY <1>3, FS_Subset
  <2> HIDE DEF n, ids
  <2> QED
    BY <1>1, <1>3, <1>4, <2>1
<1>6. \E i \in 1 .. n + 1 : \A it \in firing : it.id # i
  BY <1>5
<1> DEFINE m == FreshTimer
<1>7. m \in 1 .. n + 1
  BY <1>6 DEF FreshTimer
<1> QED
  BY <1>1, <1>7


-----------------------------------------------------------------------------
(* What the steps do to a worker, field by field.                          *)

Same(q, r) ==
    /\ q.pc = r.pc /\ q.start = r.start /\ q.next = r.next /\ q.at = r.at
    /\ q.produced = r.produced /\ q.canceled = r.canceled /\ q.slot = r.slot /\ q.err = r.err

\* Worker w's fields become those of r, and no other worker changes.
Sets(w, r) ==
    /\ wk' \in [Worker -> WorkerRec]
    /\ \A x \in Worker : x # w => wk'[x] = wk[x]
    /\ Same(wk'[w], r)

LEMMA SetWorker ==
    ASSUME TypeW, NEW w \in Worker, NEW q \in WorkerRec, NEW r, Same(q, r),
           wk' = [wk EXCEPT ![w] = q]
    PROVE  Sets(w, r)
<1>1. wk'[w] = q
  BY DEF TypeW
<1>2. Same(wk'[w], r)
  BY <1>1
<1> QED
  BY <1>2 DEF TypeW, Sets

LEMMA FieldTypes ==
    ASSUME NEW r \in WorkerRec
    PROVE  /\ r.pc \in WorkerPC /\ r.start \in Seg /\ r.next \in 0 .. Segments
           /\ r.at \in 0 .. Segments /\ r.produced \in BOOLEAN
           /\ r.canceled \in {"no", "seek", "idle"} /\ r.slot \in BOOLEAN /\ r.err \in Err
  BY DEF WorkerRec

LEMMA PublishSets ==
    ASSUME TypeW, NEW w \in Worker, Publish(w)
    PROVE  Sets(w, [pc |-> "notify", start |-> wk[w].start, next |-> wk[w].next, at |-> wk[w].at +
       1,
                    produced |-> wk[w].produced, canceled |-> wk[w].canceled, slot |-> wk[w].slot,
                    err |-> wk[w].err])
<1> DEFINE q == [wk[w] EXCEPT !.pc = "notify", !.at = wk[w].at + 1]
<1>1. wk[w].at + 1 \in 0 .. Segments /\ "notify" \in WorkerPC
  BY ConstantsAssumption, FieldTypes DEF Publish, TypeW, WorkerPC
<1>2. q \in WorkerRec
  BY <1>1 DEF TypeW, WorkerRec
<1>3. wk' = [wk EXCEPT ![w] = q]
  BY DEF Publish, TypeW
<1>4. Same(q, [pc |-> "notify", start |-> wk[w].start, next |-> wk[w].next, at |-> wk[w].at + 1,
               produced |-> wk[w].produced, canceled |-> wk[w].canceled, slot |-> wk[w].slot,
               err |-> wk[w].err])
  BY DEF Same, TypeW, WorkerRec
<1> QED
  BY <1>2, <1>3, <1>4, SetWorker

LEMMA NotifySets ==
    ASSUME TypeW, NEW w \in Worker, Notify(w)
    PROVE  Sets(w, [pc |-> "run", start |-> wk[w].start,
                    next |-> IF cur = w THEN wk[w].at ELSE wk[w].next, at |-> wk[w].at,
                    produced |-> wk[w].produced \/ cur = w, canceled |-> wk[w].canceled,
                    slot |-> wk[w].slot, err |-> wk[w].err])
<1> DEFINE q == [wk[w] EXCEPT !.pc = "run", !.next = IF cur = w THEN wk[w].at ELSE wk[w].next,
        !.produced = wk[w].produced \/ cur = w]
<1>1. "run" \in WorkerPC /\ wk[w].at \in 0 .. Segments /\ wk[w].next \in 0 .. Segments /\
        wk[w].produced \in BOOLEAN
  BY ConstantsAssumption, FieldTypes DEF Notify, TypeW, WorkerPC
<1>2. q \in WorkerRec
  BY <1>1 DEF TypeW, WorkerRec
<1>3. wk' = [wk EXCEPT ![w] = q]
  BY DEF Notify, TypeW
<1>4. Same(q, [pc |-> "run", start |-> wk[w].start,
               next |-> IF cur = w THEN wk[w].at ELSE wk[w].next, at |-> wk[w].at,
               produced |-> wk[w].produced \/ cur = w, canceled |-> wk[w].canceled,
               slot |-> wk[w].slot, err |-> wk[w].err])
  BY DEF Same, TypeW, WorkerRec
<1> QED
  BY <1>2, <1>3, <1>4, SetWorker

LEMMA FinishSets ==
    ASSUME TypeW, NEW w \in Worker, NEW err \in Err, Finish(w, err)
    PROVE  Sets(w, [pc |-> "ended", start |-> wk[w].start, next |-> wk[w].next, at |-> wk[w].at,
                    produced |-> wk[w].produced, canceled |-> wk[w].canceled, slot |-> FALSE,
                    err |-> err])
<1> DEFINE q == [wk[w] EXCEPT !.pc = "ended", !.slot = FALSE, !.err = err]
<1>1. "ended" \in WorkerPC
  BY ConstantsAssumption, FieldTypes DEF Finish, TypeW, WorkerPC
<1>2. q \in WorkerRec
  BY <1>1 DEF TypeW, WorkerRec
<1>3. wk' = [wk EXCEPT ![w] = q]
  BY DEF Finish, TypeW
<1>4. Same(q, [pc |-> "ended", start |-> wk[w].start, next |-> wk[w].next, at |-> wk[w].at,
               produced |-> wk[w].produced, canceled |-> wk[w].canceled, slot |-> FALSE,
               err |-> err])
  BY DEF Same, TypeW, WorkerRec
<1> QED
  BY <1>2, <1>3, <1>4, SetWorker

LEMMA ExitSets ==
    ASSUME TypeW, NEW w \in Worker, Exit(w)
    PROVE  Sets(w, [pc |-> "exited", start |-> wk[w].start, next |-> wk[w].next, at |-> wk[w].at,
                    produced |-> wk[w].produced, canceled |-> wk[w].canceled, slot |-> wk[w].slot,
                    err |-> wk[w].err])
<1> DEFINE q == [wk[w] EXCEPT !.pc = "exited"]
<1>1. "exited" \in WorkerPC
  BY ConstantsAssumption, FieldTypes DEF Exit, TypeW, WorkerPC
<1>2. q \in WorkerRec
  BY <1>1 DEF TypeW, WorkerRec
<1>3. wk' = [wk EXCEPT ![w] = q]
  BY DEF Exit, TypeW
<1>4. Same(q, [pc |-> "exited", start |-> wk[w].start, next |-> wk[w].next, at |-> wk[w].at,
               produced |-> wk[w].produced, canceled |-> wk[w].canceled, slot |-> wk[w].slot,
               err |-> wk[w].err])
  BY DEF Same, TypeW, WorkerRec
<1> QED
  BY <1>2, <1>3, <1>4, SetWorker

LEMMA UnpinSets ==
    ASSUME TypeW, NEW w \in Worker, Unpin(w)
    PROVE  Sets(w, [pc |-> "gone", start |-> 0, next |-> 0, at |-> 0, produced |-> wk[w].produced,
                    canceled |-> "no", slot |-> FALSE, err |-> wk[w].err])
<1> DEFINE q == [NoRun EXCEPT !.pc = "gone", !.produced = wk[w].produced, !.err = wk[w].err]
<1>1. "gone" \in WorkerPC /\ 0 \in Seg /\ 0 \in 0 .. Segments
  BY ConstantsAssumption, FieldTypes DEF Unpin, TypeW, WorkerPC, Seg, NoRun
<1>2. q \in WorkerRec
  BY <1>1 DEF TypeW, WorkerRec, NoRun, Err
<1>3. wk' = [wk EXCEPT ![w] = q]
  BY DEF Unpin, TypeW
<1>4. Same(q, [pc |-> "gone", start |-> 0, next |-> 0, at |-> 0, produced |-> wk[w].produced,
               canceled |-> "no", slot |-> FALSE, err |-> wk[w].err])
  BY DEF Same, TypeW, WorkerRec, NoRun
<1> QED
  BY <1>2, <1>3, <1>4, SetWorker

\* The next worker's record is untouched.
LEMMA WorkerIsOff ==
    ASSUME TypeW, WorkerInv, spawns + 1 \in Worker PROVE wk[spawns + 1] = NoRun
  BY DEF TypeW, WorkerInv, WorkerOf

LEMMA SpawnSets ==
    ASSUME TypeW, TypeC, NEW c \in Caller, Spawn(c), ~UNCHANGED <<cur, spawns, wk, used, pins>>
    PROVE  /\ spawns + 1 \in Worker /\ spawns' = spawns + 1 /\ cur = NoWorker /\ cur' = spawns + 1
           /\ used < Slots /\ used' = used + 1 /\ pins' = pins + 1
           /\ Sets(spawns + 1, [pc |-> "run", start |-> seg[c], next |-> seg[c], at |-> seg[c],
                                produced |-> FALSE, canceled |-> "no", slot |-> TRUE, err |->
                                   "nil"])
<1> DEFINE w == spawns + 1
           q == [NoRun EXCEPT !.pc = "run", !.start = seg[c], !.next = seg[c], !.at = seg[c],
                              !.slot = TRUE]
           r == [pc |-> "run", start |-> seg[c], next |-> seg[c], at |-> seg[c],
                 produced |-> FALSE, canceled |-> "no", slot |-> TRUE, err |-> "nil"]
<1>1. /\ wk' = [wk EXCEPT ![w] = q] /\ spawns < MaxSpawns /\ spawns' = w /\ cur' = w
      /\ cur = NoWorker /\ used < Slots /\ used' = used + 1 /\ pins' = pins + 1
  BY DEF Spawn, workerVars, MustReevaluate
<1>2. w \in Worker
  BY <1>1, ConstantsAssumption DEF TypeW, Worker
<1>3. "run" \in WorkerPC /\ seg[c] \in Seg /\ seg[c] \in 0 .. Segments
  BY ConstantsAssumption DEF TypeC, WorkerPC, Seg
<1>4. q \in WorkerRec
  BY <1>3 DEF WorkerRec, Err, NoRun
<1>r. Same(q, r)
  BY DEF Same, NoRun
<1> HIDE DEF q, r
<1>5. Sets(w, r)
  BY <1>1, <1>2, <1>4, <1>r, SetWorker
<1> QED
  BY <1>1, <1>2, <1>5 DEF r

LEMMA CancelSets ==
    ASSUME TypeW, NEW c \in Caller, NEW v \in Worker, v = target[c], Cancel(c), wk' # wk
    PROVE  /\ Running(v)
           /\ Sets(v, [pc |-> wk[v].pc, start |-> wk[v].start, next |-> wk[v].next, at |-> wk[v].at,
                       produced |-> wk[v].produced, canceled |-> "seek", slot |-> wk[v].slot,
                       err |-> wk[v].err])
<1> DEFINE q == [wk[v] EXCEPT !.canceled = "seek"]
<1>1. wk' = [wk EXCEPT ![v].canceled = IF Running(v) /\ @ = "no" THEN "seek" ELSE @]
  BY DEF Cancel
<1>2. Running(v) /\ wk[v].canceled = "no"
  BY <1>1 DEF TypeW, WorkerRec
<1>3. wk' = [wk EXCEPT ![v] = q]
  BY <1>1, <1>2 DEF TypeW
<1>4. q \in WorkerRec
  BY DEF TypeW, WorkerRec
<1>5. Same(q, [pc |-> wk[v].pc, start |-> wk[v].start, next |-> wk[v].next, at |-> wk[v].at,
               produced |-> wk[v].produced, canceled |-> "seek", slot |-> wk[v].slot,
               err |-> wk[v].err])
  BY DEF Same, TypeW, WorkerRec
<1> QED
  BY <1>2, <1>3, <1>4, <1>5, SetWorker

LEMMA IdleCancelSets ==
    ASSUME TypeW, TypeT, NEW it \in firing, NEW v, v = it.wk, IdleCancel(it),
           ~UNCHANGED <<idle, used, wk>>
    PROVE  /\ v \in Worker /\ idle = it /\ idle' = Disarmed
           /\ used' = IF wk[v].slot THEN used - 1 ELSE used
           /\ Sets(v, [pc |-> wk[v].pc, start |-> wk[v].start, next |-> wk[v].next, at |-> wk[v].at,
                       produced |-> wk[v].produced,
                       canceled |-> IF wk[v].canceled = "no" THEN "idle" ELSE wk[v].canceled,
                       slot |-> FALSE, err |-> wk[v].err])
<1> DEFINE q == [wk[v] EXCEPT !.canceled = IF wk[v].canceled = "no" THEN "idle" ELSE wk[v].canceled,
                             !.slot = FALSE]
<1>1. v \in Worker
  BY DEF TypeT
<1>2. /\ idle = it /\ idle' = Disarmed /\ used' = IF wk[v].slot THEN used - 1 ELSE used
      /\ wk' = [wk EXCEPT ![v].canceled = IF @ = "no" THEN "idle" ELSE @, ![v].slot = FALSE]
  BY DEF IdleCancel, ReleaseSlot
<1>3. wk' = [wk EXCEPT ![v] = q]
  BY <1>1, <1>2 DEF TypeW
<1>4. q \in WorkerRec
  <2> DEFINE k == IF wk[v].canceled = "no" THEN "idle" ELSE wk[v].canceled
  <2>1. k \in {"no", "seek", "idle"} /\ wk[v] \in WorkerRec
    BY <1>1, FieldTypes DEF TypeW
  <2> HIDE DEF k
  <2>2. [wk[v] EXCEPT !.canceled = k, !.slot = FALSE] \in WorkerRec
    BY <2>1 DEF WorkerRec
  <2> QED
    BY <2>2 DEF k
<1>5. Same(q, [pc |-> wk[v].pc, start |-> wk[v].start, next |-> wk[v].next, at |-> wk[v].at,
               produced |-> wk[v].produced,
               canceled |-> IF wk[v].canceled = "no" THEN "idle" ELSE wk[v].canceled,
               slot |-> FALSE, err |-> wk[v].err])
  BY <1>1 DEF Same, TypeW, WorkerRec
<1> QED
  BY <1>1, <1>2, <1>3, <1>4, <1>5, SetWorker


-----------------------------------------------------------------------------
(* Every step.                                                             *)

Acts ==
    \/ \E c \in Caller :
        \/ \E n \in Seg : Arrive(c, n)
        \/ MakeDir(c) \/ MakeDirFails(c) \/ Register(c) \/ Open(c) \/ Touch(c)
        \/ Acquire(c) \/ CheckHas(c) \/ Decide(c) \/ Woken(c) \/ Kill(c) \/ Cancel(c)
        \/ GiveUp(c) \/ Confirm(c) \/ Exited(c) \/ Leave(c) \/ Spawn(c) \/ ReleaseCaller(c)
    \/ \E w \in Worker :
        \/ Publish(w) \/ Notify(w) \/ Exit(w) \/ Unpin(w)
        \/ \E err \in Err : Finish(w, err)
    \/ TimerExpire \/ (\E it \in firing : IdleCancel(it)) \/ OtherSession
    \/ GCSnapshot \/ GCDropIndex \/ GCRemoveAll
    \/ UNCHANGED vars

LEMMA StepActs == ASSUME [Next]_vars PROVE Acts
  BY DEF Next, CallerStep, WorkerStep, GCStep, Quiet, Acts


-----------------------------------------------------------------------------
(* Types.                                                                  *)

LEMMA NextM == ASSUME IInv, Acts PROVE TypeM'
<1>a. TypeM /\ TypeW
  BY DEF IInv, Types
<1> USE <1>a, ConstantsAssumption DEF managerVars, workerVars, slotVars, diskVars, callerVars,
        TypeM, TypeW, WorkerRec, NoWorker, Worker, Err
<1>1. ASSUME NEW c \in Caller, NEW n \in Seg, Arrive(c, n) PROVE TypeM'
  BY <1>1 DEF Arrive, Goto
<1>2. ASSUME NEW c \in Caller, MakeDir(c) PROVE TypeM'
  BY <1>2 DEF MakeDir, Goto
<1>3. ASSUME NEW c \in Caller, MakeDirFails(c) PROVE TypeM'
  BY <1>3 DEF MakeDirFails, Answer, Goto
<1>4. ASSUME NEW c \in Caller, Register(c) PROVE TypeM'
  BY <1>4 DEF Register, Goto
<1>5. ASSUME NEW c \in Caller, Open(c) PROVE TypeM'
  BY <1>5 DEF Open, Has, Goto
<1>6. ASSUME NEW c \in Caller, Touch(c) PROVE TypeM'
  BY <1>6 DEF Touch, ArmIdle, Answer, Goto
<1>7. ASSUME NEW c \in Caller, Acquire(c) PROVE TypeM'
  BY <1>7 DEF Acquire, DisarmIdle, Goto
<1>8. ASSUME NEW c \in Caller, CheckHas(c) PROVE TypeM'
  BY <1>8 DEF CheckHas, Has, Return, Goto
<1>9. ASSUME NEW c \in Caller, Decide(c) PROVE TypeM'
  BY <1>9 DEF Decide, Return, Goto
<1>10. ASSUME NEW c \in Caller, Woken(c) PROVE TypeM'
  BY <1>10 DEF Woken, Goto
<1>11. ASSUME NEW c \in Caller, Kill(c) PROVE TypeM'
  BY <1>11 DEF Kill, Has, Return, Goto
<1>11b. ASSUME NEW c \in Caller, Cancel(c) PROVE TypeM'
  BY <1>11b DEF Cancel, Running, Goto
<1>12. ASSUME NEW c \in Caller, GiveUp(c) PROVE TypeM'
  BY <1>12 DEF GiveUp, Has, Return, Goto
<1>13. ASSUME NEW c \in Caller, Confirm(c) PROVE TypeM'
  BY <1>13 DEF Confirm, Has, Return, Goto
<1>14. ASSUME NEW c \in Caller, Exited(c) PROVE TypeM'
  BY <1>14 DEF Exited, Goto
<1>15. ASSUME NEW c \in Caller, Leave(c) PROVE TypeM'
  BY <1>15 DEF Leave, Return, Goto
<1>16. ASSUME NEW c \in Caller, Spawn(c) PROVE TypeM'
  BY <1>16 DEF Spawn, MustReevaluate, Return, Goto, NoRun
<1>17. ASSUME NEW c \in Caller, ReleaseCaller(c) PROVE TypeM'
  BY <1>17 DEF ReleaseCaller, ArmIdle, MaybeDrop, Answer, Goto
<1>18. ASSUME NEW w \in Worker, Publish(w) PROVE TypeM'
  BY <1>18 DEF Publish
<1>19. ASSUME NEW w \in Worker, Notify(w) PROVE TypeM'
  BY <1>19 DEF Notify, Wake
<1>20. ASSUME NEW w \in Worker, NEW err \in Err, Finish(w, err) PROVE TypeM'
  BY <1>20 DEF Finish, ReleaseSlot
<1>21. ASSUME NEW w \in Worker, Exit(w) PROVE TypeM'
  BY <1>21 DEF Exit, DisarmIdle, MaybeDrop, Wake
<1>22. ASSUME NEW w \in Worker, Unpin(w) PROVE TypeM'
  BY <1>22 DEF Unpin, UnpinDue, NoRun
<1>23. ASSUME TimerExpire PROVE TypeM'
  BY <1>23 DEF TimerExpire
<1>24. ASSUME NEW it \in firing, IdleCancel(it) PROVE TypeM'
  BY <1>24 DEF IdleCancel, ReleaseSlot
<1>25. ASSUME OtherSession PROVE TypeM'
  BY <1>25 DEF OtherSession
<1>26. ASSUME GCSnapshot PROVE TypeM'
  BY <1>26 DEF GCSnapshot
<1>27. ASSUME GCDropIndex PROVE TypeM'
  BY <1>27 DEF GCDropIndex
<1>28. ASSUME GCRemoveAll PROVE TypeM'
  BY <1>28 DEF GCRemoveAll
<1>29. ASSUME UNCHANGED vars PROVE TypeM'
  BY <1>29 DEF vars
<1> QED
  BY <1>1, <1>2, <1>3, <1>4, <1>5, <1>6, <1>7, <1>8, <1>9, <1>10, <1>11, <1>11b, <1>12, <1>13, <1>14, <1>15,
     <1>16, <1>17, <1>18, <1>19, <1>20, <1>21, <1>22, <1>23, <1>24, <1>25, <1>26, <1>27, <1>28,
     <1>29 DEF Acts

LEMMA NextT == ASSUME IInv, Acts PROVE TypeT'
<1>a. TypeM /\ TypeT /\ TimerInv
  BY DEF IInv, Types
<1> USE <1>a, ConstantsAssumption DEF managerVars, workerVars, slotVars, diskVars, callerVars,
        TypeM, TypeT, NoWorker, Disarmed
<1>1. ASSUME NEW c \in Caller, NEW n \in Seg, Arrive(c, n) PROVE TypeT'
  BY <1>1 DEF Arrive, Goto
<1>2. ASSUME NEW c \in Caller, MakeDir(c) PROVE TypeT'
  BY <1>2 DEF MakeDir, Goto
<1>3. ASSUME NEW c \in Caller, MakeDirFails(c) PROVE TypeT'
  BY <1>3 DEF MakeDirFails, Answer, Goto
<1>4. ASSUME NEW c \in Caller, Register(c) PROVE TypeT'
  BY <1>4 DEF Register, Goto
<1>5. ASSUME NEW c \in Caller, Open(c) PROVE TypeT'
  BY <1>5 DEF Open, Has, Goto
<1>6. ASSUME NEW c \in Caller, Touch(c) PROVE TypeT'
  BY <1>6, FreshTimerType DEF Touch, ArmIdle, Answer, Goto
<1>7. ASSUME NEW c \in Caller, Acquire(c) PROVE TypeT'
  BY <1>7 DEF Acquire, DisarmIdle, Goto
<1>8. ASSUME NEW c \in Caller, CheckHas(c) PROVE TypeT'
  BY <1>8 DEF CheckHas, Has, Return, Goto
<1>9. ASSUME NEW c \in Caller, Decide(c) PROVE TypeT'
  BY <1>9 DEF Decide, Return, Goto
<1>10. ASSUME NEW c \in Caller, Woken(c) PROVE TypeT'
  BY <1>10 DEF Woken, Goto
<1>11. ASSUME NEW c \in Caller, Kill(c) PROVE TypeT'
  BY <1>11 DEF Kill, Has, Return, Goto
<1>11b. ASSUME NEW c \in Caller, Cancel(c) PROVE TypeT'
  BY <1>11b DEF Cancel, Running, Goto
<1>12. ASSUME NEW c \in Caller, GiveUp(c) PROVE TypeT'
  BY <1>12 DEF GiveUp, Has, Return, Goto
<1>13. ASSUME NEW c \in Caller, Confirm(c) PROVE TypeT'
  BY <1>13 DEF Confirm, Has, Return, Goto
<1>14. ASSUME NEW c \in Caller, Exited(c) PROVE TypeT'
  BY <1>14 DEF Exited, Goto
<1>15. ASSUME NEW c \in Caller, Leave(c) PROVE TypeT'
  BY <1>15 DEF Leave, Return, Goto
<1>16. ASSUME NEW c \in Caller, Spawn(c) PROVE TypeT'
  BY <1>16 DEF Spawn, MustReevaluate, Return, Goto, NoRun
<1>17. ASSUME NEW c \in Caller, ReleaseCaller(c) PROVE TypeT'
  BY <1>17, FreshTimerType DEF ReleaseCaller, ArmIdle, MaybeDrop, Answer, Goto
<1>18. ASSUME NEW w \in Worker, Publish(w) PROVE TypeT'
  BY <1>18 DEF Publish
<1>19. ASSUME NEW w \in Worker, Notify(w) PROVE TypeT'
  BY <1>19 DEF Notify, Wake
<1>20. ASSUME NEW w \in Worker, NEW err \in Err, Finish(w, err) PROVE TypeT'
  BY <1>20 DEF Finish, ReleaseSlot
<1>21. ASSUME NEW w \in Worker, Exit(w) PROVE TypeT'
  BY <1>21 DEF Exit, DisarmIdle, MaybeDrop, Wake
<1>22. ASSUME NEW w \in Worker, Unpin(w) PROVE TypeT'
  BY <1>22 DEF Unpin, UnpinDue, NoRun
<1>23. ASSUME TimerExpire PROVE TypeT'
  <2>1. idle \in [id : Nat \ {0}, wk : Worker]
    BY <1>23 DEF TimerExpire, TimerInv
  <2> QED
    BY <1>23, <2>1, FS_AddElement DEF TimerExpire
<1>24. ASSUME NEW it \in firing, IdleCancel(it) PROVE TypeT'
  BY <1>24, FS_RemoveElement DEF IdleCancel, ReleaseSlot
<1>25. ASSUME OtherSession PROVE TypeT'
  BY <1>25 DEF OtherSession
<1>26. ASSUME GCSnapshot PROVE TypeT'
  BY <1>26 DEF GCSnapshot
<1>27. ASSUME GCDropIndex PROVE TypeT'
  BY <1>27 DEF GCDropIndex
<1>28. ASSUME GCRemoveAll PROVE TypeT'
  BY <1>28 DEF GCRemoveAll
<1>29. ASSUME UNCHANGED vars PROVE TypeT'
  BY <1>29 DEF vars
<1> QED
  BY <1>1, <1>2, <1>3, <1>4, <1>5, <1>6, <1>7, <1>8, <1>9, <1>10, <1>11, <1>11b, <1>12, <1>13, <1>14, <1>15,
     <1>16, <1>17, <1>18, <1>19, <1>20, <1>21, <1>22, <1>23, <1>24, <1>25, <1>26, <1>27, <1>28,
     <1>29 DEF Acts

LEMMA NextW == ASSUME IInv, Acts PROVE TypeW'
<1>a. TypeT /\ TypeW /\ TypeC /\ TargetInv
  BY DEF IInv, Types
<1> USE <1>a, ConstantsAssumption DEF managerVars, workerVars, slotVars, diskVars, callerVars, TypeW
<1>1. ASSUME NEW c \in Caller, NEW n \in Seg, Arrive(c, n) PROVE TypeW'
  BY <1>1 DEF Arrive, Goto
<1>2. ASSUME NEW c \in Caller, MakeDir(c) PROVE TypeW'
  BY <1>2 DEF MakeDir, Goto
<1>3. ASSUME NEW c \in Caller, MakeDirFails(c) PROVE TypeW'
  BY <1>3 DEF MakeDirFails, Answer, Goto
<1>4. ASSUME NEW c \in Caller, Register(c) PROVE TypeW'
  BY <1>4 DEF Register, Goto
<1>5. ASSUME NEW c \in Caller, Open(c) PROVE TypeW'
  BY <1>5 DEF Open, Has, Goto
<1>6. ASSUME NEW c \in Caller, Touch(c) PROVE TypeW'
  BY <1>6 DEF Touch, ArmIdle, Answer, Goto
<1>7. ASSUME NEW c \in Caller, Acquire(c) PROVE TypeW'
  BY <1>7 DEF Acquire, DisarmIdle, Goto
<1>8. ASSUME NEW c \in Caller, CheckHas(c) PROVE TypeW'
  BY <1>8 DEF CheckHas, Has, Return, Goto
<1>9. ASSUME NEW c \in Caller, Decide(c) PROVE TypeW'
  BY <1>9 DEF Decide, Return, Goto
<1>10. ASSUME NEW c \in Caller, Woken(c) PROVE TypeW'
  BY <1>10 DEF Woken, Goto
<1>11. ASSUME NEW c \in Caller, Kill(c) PROVE TypeW'
  BY <1>11 DEF Kill, Has, Return, Goto
<1>11b. ASSUME NEW c \in Caller, Cancel(c) PROVE TypeW'
  <2>1. target[c] \in Worker /\ spawns' = spawns
    BY <1>11b DEF Cancel, TargetInv, TargetOf
  <2>2. wk' = wk \/ wk' \in [Worker -> WorkerRec]
    BY <1>11b, <2>1, CancelSets DEF Sets
  <2> QED
    BY <2>1, <2>2
<1>12. ASSUME NEW c \in Caller, GiveUp(c) PROVE TypeW'
  BY <1>12 DEF GiveUp, Has, Return, Goto
<1>13. ASSUME NEW c \in Caller, Confirm(c) PROVE TypeW'
  BY <1>13 DEF Confirm, Has, Return, Goto
<1>14. ASSUME NEW c \in Caller, Exited(c) PROVE TypeW'
  BY <1>14 DEF Exited, Goto
<1>15. ASSUME NEW c \in Caller, Leave(c) PROVE TypeW'
  BY <1>15 DEF Leave, Return, Goto
<1>16. ASSUME NEW c \in Caller, Spawn(c) PROVE TypeW'
  <2>1. CASE UNCHANGED <<cur, spawns, wk, used, pins>>
    BY <2>1
  <2>2. CASE ~UNCHANGED <<cur, spawns, wk, used, pins>>
    <3>1. spawns' \in Worker /\ wk' \in [Worker -> WorkerRec]
      BY <1>16, <2>2, SpawnSets DEF Sets
    <3> QED
      BY <3>1 DEF Worker
  <2> QED
    BY <2>1, <2>2
<1>17. ASSUME NEW c \in Caller, ReleaseCaller(c) PROVE TypeW'
  BY <1>17 DEF ReleaseCaller, ArmIdle, MaybeDrop, Answer, Goto
<1>18. ASSUME NEW w \in Worker, Publish(w) PROVE TypeW'
  BY <1>18, PublishSets DEF Sets, Publish
<1>19. ASSUME NEW w \in Worker, Notify(w) PROVE TypeW'
  BY <1>19, NotifySets DEF Sets, Notify
<1>20. ASSUME NEW w \in Worker, NEW err \in Err, Finish(w, err) PROVE TypeW'
  BY <1>20, FinishSets DEF Sets, Finish
<1>21. ASSUME NEW w \in Worker, Exit(w) PROVE TypeW'
  BY <1>21, ExitSets DEF Sets, Exit
<1>22. ASSUME NEW w \in Worker, Unpin(w) PROVE TypeW'
  BY <1>22, UnpinSets DEF Sets, Unpin
<1>23. ASSUME TimerExpire PROVE TypeW'
  BY <1>23 DEF TimerExpire
<1>24. ASSUME NEW it \in firing, IdleCancel(it) PROVE TypeW'
  <2>1. spawns' = spawns
    BY <1>24 DEF IdleCancel
  <2>2. wk' = wk \/ wk' \in [Worker -> WorkerRec]
    BY <1>24, IdleCancelSets DEF Sets
  <2> QED
    BY <2>1, <2>2
<1>25. ASSUME OtherSession PROVE TypeW'
  BY <1>25 DEF OtherSession
<1>26. ASSUME GCSnapshot PROVE TypeW'
  BY <1>26 DEF GCSnapshot
<1>27. ASSUME GCDropIndex PROVE TypeW'
  BY <1>27 DEF GCDropIndex
<1>28. ASSUME GCRemoveAll PROVE TypeW'
  BY <1>28 DEF GCRemoveAll
<1>29. ASSUME UNCHANGED vars PROVE TypeW'
  BY <1>29 DEF vars
<1> QED
  BY <1>1, <1>2, <1>3, <1>4, <1>5, <1>6, <1>7, <1>8, <1>9, <1>10, <1>11, <1>11b, <1>12, <1>13, <1>14, <1>15,
     <1>16, <1>17, <1>18, <1>19, <1>20, <1>21, <1>22, <1>23, <1>24, <1>25, <1>26, <1>27, <1>28,
     <1>29 DEF Acts

LEMMA NextD == ASSUME IInv, Acts PROVE TypeD'
<1>a. TypeW /\ TypeD
  BY DEF IInv, Types
<1> USE <1>a, ConstantsAssumption DEF managerVars, workerVars, slotVars, diskVars, callerVars,
        TypeW, TypeD, WorkerRec, Seg
<1>1. ASSUME NEW c \in Caller, NEW n \in Seg, Arrive(c, n) PROVE TypeD'
  BY <1>1 DEF Arrive, Goto
<1>2. ASSUME NEW c \in Caller, MakeDir(c) PROVE TypeD'
  BY <1>2 DEF MakeDir, Goto
<1>3. ASSUME NEW c \in Caller, MakeDirFails(c) PROVE TypeD'
  BY <1>3 DEF MakeDirFails, Answer, Goto
<1>4. ASSUME NEW c \in Caller, Register(c) PROVE TypeD'
  BY <1>4 DEF Register, Goto
<1>5. ASSUME NEW c \in Caller, Open(c) PROVE TypeD'
  BY <1>5 DEF Open, Has, Goto
<1>6. ASSUME NEW c \in Caller, Touch(c) PROVE TypeD'
  BY <1>6 DEF Touch, ArmIdle, Answer, Goto
<1>7. ASSUME NEW c \in Caller, Acquire(c) PROVE TypeD'
  BY <1>7 DEF Acquire, DisarmIdle, Goto
<1>8. ASSUME NEW c \in Caller, CheckHas(c) PROVE TypeD'
  BY <1>8 DEF CheckHas, Has, Return, Goto
<1>9. ASSUME NEW c \in Caller, Decide(c) PROVE TypeD'
  BY <1>9 DEF Decide, Return, Goto
<1>10. ASSUME NEW c \in Caller, Woken(c) PROVE TypeD'
  BY <1>10 DEF Woken, Goto
<1>11. ASSUME NEW c \in Caller, Kill(c) PROVE TypeD'
  BY <1>11 DEF Kill, Has, Return, Goto
<1>11b. ASSUME NEW c \in Caller, Cancel(c) PROVE TypeD'
  BY <1>11b DEF Cancel, Running, Goto
<1>12. ASSUME NEW c \in Caller, GiveUp(c) PROVE TypeD'
  BY <1>12 DEF GiveUp, Has, Return, Goto
<1>13. ASSUME NEW c \in Caller, Confirm(c) PROVE TypeD'
  BY <1>13 DEF Confirm, Has, Return, Goto
<1>14. ASSUME NEW c \in Caller, Exited(c) PROVE TypeD'
  BY <1>14 DEF Exited, Goto
<1>15. ASSUME NEW c \in Caller, Leave(c) PROVE TypeD'
  BY <1>15 DEF Leave, Return, Goto
<1>16. ASSUME NEW c \in Caller, Spawn(c) PROVE TypeD'
  BY <1>16 DEF Spawn, MustReevaluate, Return, Goto, NoRun
<1>17. ASSUME NEW c \in Caller, ReleaseCaller(c) PROVE TypeD'
  BY <1>17 DEF ReleaseCaller, ArmIdle, MaybeDrop, Answer, Goto
<1>18. ASSUME NEW w \in Worker, Publish(w) PROVE TypeD'
  BY <1>18 DEF Publish
<1>19. ASSUME NEW w \in Worker, Notify(w) PROVE TypeD'
  BY <1>19 DEF Notify, Wake
<1>20. ASSUME NEW w \in Worker, NEW err \in Err, Finish(w, err) PROVE TypeD'
  BY <1>20 DEF Finish, ReleaseSlot
<1>21. ASSUME NEW w \in Worker, Exit(w) PROVE TypeD'
  BY <1>21 DEF Exit, DisarmIdle, MaybeDrop, Wake
<1>22. ASSUME NEW w \in Worker, Unpin(w) PROVE TypeD'
  BY <1>22 DEF Unpin, UnpinDue, NoRun
<1>23. ASSUME TimerExpire PROVE TypeD'
  BY <1>23 DEF TimerExpire
<1>24. ASSUME NEW it \in firing, IdleCancel(it) PROVE TypeD'
  BY <1>24 DEF IdleCancel, ReleaseSlot
<1>25. ASSUME OtherSession PROVE TypeD'
  BY <1>25 DEF OtherSession
<1>26. ASSUME GCSnapshot PROVE TypeD'
  BY <1>26 DEF GCSnapshot
<1>27. ASSUME GCDropIndex PROVE TypeD'
  BY <1>27 DEF GCDropIndex
<1>28. ASSUME GCRemoveAll PROVE TypeD'
  BY <1>28 DEF GCRemoveAll
<1>29. ASSUME UNCHANGED vars PROVE TypeD'
  BY <1>29 DEF vars
<1> QED
  BY <1>1, <1>2, <1>3, <1>4, <1>5, <1>6, <1>7, <1>8, <1>9, <1>10, <1>11, <1>11b, <1>12, <1>13, <1>14, <1>15,
     <1>16, <1>17, <1>18, <1>19, <1>20, <1>21, <1>22, <1>23, <1>24, <1>25, <1>26, <1>27, <1>28,
     <1>29 DEF Acts

LEMMA NextC == ASSUME IInv, Acts PROVE TypeC'
<1>a. TypeM /\ TypeW /\ TypeC
  BY DEF IInv, Types
<1> USE <1>a, ConstantsAssumption DEF managerVars, workerVars, slotVars, diskVars, callerVars,
        TypeM, TypeW, TypeC, CallerPC, Outcome, Err, Seg, Worker, NoWorker
<1>1. ASSUME NEW c \in Caller, NEW n \in Seg, Arrive(c, n) PROVE TypeC'
  BY <1>1 DEF Arrive, Goto
<1>2. ASSUME NEW c \in Caller, MakeDir(c) PROVE TypeC'
  BY <1>2 DEF MakeDir, Goto
<1>3. ASSUME NEW c \in Caller, MakeDirFails(c) PROVE TypeC'
  BY <1>3 DEF MakeDirFails, Answer, Goto
<1>4. ASSUME NEW c \in Caller, Register(c) PROVE TypeC'
  BY <1>4 DEF Register, Goto
<1>5. ASSUME NEW c \in Caller, Open(c) PROVE TypeC'
  BY <1>5 DEF Open, Has, Goto
<1>6. ASSUME NEW c \in Caller, Touch(c) PROVE TypeC'
  BY <1>6 DEF Touch, ArmIdle, Answer, Goto
<1>7. ASSUME NEW c \in Caller, Acquire(c) PROVE TypeC'
  BY <1>7 DEF Acquire, DisarmIdle, Goto
<1>8. ASSUME NEW c \in Caller, CheckHas(c) PROVE TypeC'
  BY <1>8 DEF CheckHas, Has, Return, Goto
<1>9. ASSUME NEW c \in Caller, Decide(c) PROVE TypeC'
  <2>1. UNCHANGED <<seg, pass, mine>>
    BY <1>9 DEF Decide
  <2>2. pc' \in [Caller -> CallerPC] /\ result' \in [Caller -> Outcome]
    BY <1>9 DEF Decide, Return, Goto
  <2>3. target' \in [Caller -> Worker \cup {NoWorker}] /\ seen' \in [Caller -> Err]
    BY <1>9, ZenonT(30) DEF Decide
  <2> QED
    BY <2>1, <2>2, <2>3
<1>10. ASSUME NEW c \in Caller, Woken(c) PROVE TypeC'
  BY <1>10 DEF Woken, Goto
<1>11. ASSUME NEW c \in Caller, Kill(c) PROVE TypeC'
  BY <1>11 DEF Kill, Has, Return, Goto
<1>11b. ASSUME NEW c \in Caller, Cancel(c) PROVE TypeC'
  BY <1>11b DEF Cancel, Running, Goto
<1>12. ASSUME NEW c \in Caller, GiveUp(c) PROVE TypeC'
  BY <1>12 DEF GiveUp, Has, Return, Goto
<1>13. ASSUME NEW c \in Caller, Confirm(c) PROVE TypeC'
  BY <1>13 DEF Confirm, Has, Return, Goto
<1>14. ASSUME NEW c \in Caller, Exited(c) PROVE TypeC'
  BY <1>14 DEF Exited, Goto
<1>15. ASSUME NEW c \in Caller, Leave(c) PROVE TypeC'
  BY <1>15 DEF Leave, Return, Goto
<1>16. ASSUME NEW c \in Caller, Spawn(c) PROVE TypeC'
  <2>1. UNCHANGED <<seg, pass, target, seen>>
    BY <1>16 DEF Spawn
  <2>2. pc' \in [Caller -> CallerPC] /\ result' \in [Caller -> Outcome]
    BY <1>16 DEF Spawn, Return, Goto
  <2>3. mine' \in [Caller -> Worker \cup {NoWorker}]
    <3>1. mine' = mine \/ (spawns + 1 \in Worker /\ mine' = [mine EXCEPT ![c] = spawns + 1])
      BY <1>16 DEF Spawn
    <3> QED
      BY <3>1
  <2> QED
    BY <2>1, <2>2, <2>3
<1>17. ASSUME NEW c \in Caller, ReleaseCaller(c) PROVE TypeC'
  <2>1. UNCHANGED <<mine, target, seen>>
    BY <1>17 DEF ReleaseCaller
  <2>2. pc' \in [Caller -> CallerPC] /\ result' \in [Caller -> Outcome]
    BY <1>17 DEF ReleaseCaller, Answer, Goto
  <2>3. seg' = seg \/ seg' = [seg EXCEPT ![c] = 0]
    BY <1>17 DEF ReleaseCaller, Answer
  <2>4. pass' = [pass EXCEPT ![c] = 2] \/ pass' = [pass EXCEPT ![c] = 0]
    BY <1>17 DEF ReleaseCaller, Answer
  <2>c. c \in Caller /\ 0 \in Seg /\ seg \in [Caller -> Seg] /\ pass \in [Caller -> 0 .. 2]
    BY <1>17
  <2> HIDE <1>a DEF TypeC, TypeM, TypeW, Seg
  <2>5. seg' \in [Caller -> Seg]
    BY <2>3, <2>c
  <2>6. pass' \in [Caller -> 0 .. 2]
    BY <2>4, <2>c
  <2> QED
    BY <1>a, <2>1, <2>2, <2>5, <2>6 DEF TypeC
<1>18. ASSUME NEW w \in Worker, Publish(w) PROVE TypeC'
  BY <1>18 DEF Publish
<1>19. ASSUME NEW w \in Worker, Notify(w) PROVE TypeC'
  BY <1>19 DEF Notify, Wake
<1>20. ASSUME NEW w \in Worker, NEW err \in Err, Finish(w, err) PROVE TypeC'
  BY <1>20 DEF Finish, ReleaseSlot
<1>21. ASSUME NEW w \in Worker, Exit(w) PROVE TypeC'
  BY <1>21 DEF Exit, DisarmIdle, MaybeDrop, Wake
<1>22. ASSUME NEW w \in Worker, Unpin(w) PROVE TypeC'
  BY <1>22 DEF Unpin, UnpinDue, NoRun
<1>23. ASSUME TimerExpire PROVE TypeC'
  BY <1>23 DEF TimerExpire
<1>24. ASSUME NEW it \in firing, IdleCancel(it) PROVE TypeC'
  BY <1>24 DEF IdleCancel, ReleaseSlot
<1>25. ASSUME OtherSession PROVE TypeC'
  BY <1>25 DEF OtherSession
<1>26. ASSUME GCSnapshot PROVE TypeC'
  BY <1>26 DEF GCSnapshot
<1>27. ASSUME GCDropIndex PROVE TypeC'
  BY <1>27 DEF GCDropIndex
<1>28. ASSUME GCRemoveAll PROVE TypeC'
  BY <1>28 DEF GCRemoveAll
<1>29. ASSUME UNCHANGED vars PROVE TypeC'
  BY <1>29 DEF vars
<1> QED
  BY <1>1, <1>2, <1>3, <1>4, <1>5, <1>6, <1>7, <1>8, <1>9, <1>10, <1>11, <1>11b, <1>12, <1>13, <1>14, <1>15,
     <1>16, <1>17, <1>18, <1>19, <1>20, <1>21, <1>22, <1>23, <1>24, <1>25, <1>26, <1>27, <1>28,
     <1>29 DEF Acts

-----------------------------------------------------------------------------
(* The counters.                                                           *)

\* The set S of what a counter m counts becomes T as the counter becomes n.
Moves(S, T, m, n) ==
    \/ T = S /\ n = m
    \/ \E x : x \notin S /\ T = S \cup {x} /\ n = m + 1
    \/ \E x \in S : T = S \ {x} /\ n = m - 1

LEMMA MovesCount ==
    ASSUME NEW S, NEW T, NEW m, NEW n, IsFiniteSet(S), m = Cardinality(S), Moves(S, T, m, n)
    PROVE  n = Cardinality(T)
<1>1. CASE T = S /\ n = m
  BY <1>1
<1>2. ASSUME NEW x, x \notin S, T = S \cup {x}, n = m + 1 PROVE n = Cardinality(T)
  BY <1>2, FS_AddElement
<1>3. ASSUME NEW x \in S, T = S \ {x}, n = m - 1 PROVE n = Cardinality(T)
  BY <1>3, FS_RemoveElement
<1> QED
  BY <1>1, <1>2, <1>3 DEF Moves


LEMMA NextWaits == ASSUME IInv, Acts PROVE Moves(Waits, Waits', waiters, waiters')
<1>a. TypeC
  BY DEF IInv, Types
<1> USE <1>a, ConstantsAssumption DEF managerVars, workerVars, slotVars, diskVars, callerVars,
        TypeC, Waits, Waiting, Moves
<1>1. ASSUME NEW c \in Caller, NEW n \in Seg, Arrive(c, n) PROVE Moves(Waits, Waits', waiters,
        waiters')
  BY <1>1 DEF Arrive, Goto
<1>2. ASSUME NEW c \in Caller, MakeDir(c) PROVE Moves(Waits, Waits', waiters, waiters')
  BY <1>2 DEF MakeDir, Goto
<1>3. ASSUME NEW c \in Caller, MakeDirFails(c) PROVE Moves(Waits, Waits', waiters, waiters')
  BY <1>3 DEF MakeDirFails, Answer, Goto
<1>4. ASSUME NEW c \in Caller, Register(c) PROVE Moves(Waits, Waits', waiters, waiters')
  BY <1>4 DEF Register, Goto
<1>5. ASSUME NEW c \in Caller, Open(c) PROVE Moves(Waits, Waits', waiters, waiters')
  BY <1>5 DEF Open, Has, Goto
<1>6. ASSUME NEW c \in Caller, Touch(c) PROVE Moves(Waits, Waits', waiters, waiters')
  BY <1>6 DEF Touch, ArmIdle, Answer, Goto
<1>7. ASSUME NEW c \in Caller, Acquire(c) PROVE Moves(Waits, Waits', waiters, waiters')
  <2>1. c \notin Waits /\ Waits' = Waits \cup {c} /\ waiters' = waiters + 1
    BY <1>7 DEF Acquire, Goto
  <2> QED
    BY <2>1
<1>8. ASSUME NEW c \in Caller, CheckHas(c) PROVE Moves(Waits, Waits', waiters, waiters')
  BY <1>8 DEF CheckHas, Has, Return, Goto
<1>9. ASSUME NEW c \in Caller, Decide(c) PROVE Moves(Waits, Waits', waiters, waiters')
  BY <1>9 DEF Decide, Return, Goto
<1>10. ASSUME NEW c \in Caller, Woken(c) PROVE Moves(Waits, Waits', waiters, waiters')
  BY <1>10 DEF Woken, Goto
<1>11. ASSUME NEW c \in Caller, Kill(c) PROVE Moves(Waits, Waits', waiters, waiters')
  BY <1>11 DEF Kill, Has, Return, Goto
<1>11b. ASSUME NEW c \in Caller, Cancel(c) PROVE Moves(Waits, Waits', waiters, waiters')
  BY <1>11b DEF Cancel, Running, Goto
<1>12. ASSUME NEW c \in Caller, GiveUp(c) PROVE Moves(Waits, Waits', waiters, waiters')
  BY <1>12 DEF GiveUp, Has, Return, Goto
<1>13. ASSUME NEW c \in Caller, Confirm(c) PROVE Moves(Waits, Waits', waiters, waiters')
  BY <1>13 DEF Confirm, Has, Return, Goto
<1>14. ASSUME NEW c \in Caller, Exited(c) PROVE Moves(Waits, Waits', waiters, waiters')
  BY <1>14 DEF Exited, Goto
<1>15. ASSUME NEW c \in Caller, Leave(c) PROVE Moves(Waits, Waits', waiters, waiters')
  BY <1>15 DEF Leave, Return, Goto
<1>16. ASSUME NEW c \in Caller, Spawn(c) PROVE Moves(Waits, Waits', waiters, waiters')
  BY <1>16 DEF Spawn, MustReevaluate, Return, Goto, NoRun
<1>17. ASSUME NEW c \in Caller, ReleaseCaller(c) PROVE Moves(Waits, Waits', waiters, waiters')
  <2>1. c \in Waits /\ Waits' = Waits \ {c} /\ waiters' = waiters - 1
    BY <1>17 DEF ReleaseCaller, Answer, Goto
  <2> QED
    BY <2>1
<1>18. ASSUME NEW w \in Worker, Publish(w) PROVE Moves(Waits, Waits', waiters, waiters')
  BY <1>18 DEF Publish
<1>19. ASSUME NEW w \in Worker, Notify(w) PROVE Moves(Waits, Waits', waiters, waiters')
  BY <1>19 DEF Notify, Wake
<1>20. ASSUME NEW w \in Worker, NEW err \in Err, Finish(w, err) PROVE Moves(Waits, Waits', waiters,
        waiters')
  BY <1>20 DEF Finish, ReleaseSlot
<1>21. ASSUME NEW w \in Worker, Exit(w) PROVE Moves(Waits, Waits', waiters, waiters')
  BY <1>21 DEF Exit, DisarmIdle, MaybeDrop, Wake
<1>22. ASSUME NEW w \in Worker, Unpin(w) PROVE Moves(Waits, Waits', waiters, waiters')
  BY <1>22 DEF Unpin, UnpinDue, NoRun
<1>23. ASSUME TimerExpire PROVE Moves(Waits, Waits', waiters, waiters')
  BY <1>23 DEF TimerExpire
<1>24. ASSUME NEW it \in firing, IdleCancel(it) PROVE Moves(Waits, Waits', waiters, waiters')
  BY <1>24 DEF IdleCancel, ReleaseSlot
<1>25. ASSUME OtherSession PROVE Moves(Waits, Waits', waiters, waiters')
  BY <1>25 DEF OtherSession
<1>26. ASSUME GCSnapshot PROVE Moves(Waits, Waits', waiters, waiters')
  BY <1>26 DEF GCSnapshot
<1>27. ASSUME GCDropIndex PROVE Moves(Waits, Waits', waiters, waiters')
  BY <1>27 DEF GCDropIndex
<1>28. ASSUME GCRemoveAll PROVE Moves(Waits, Waits', waiters, waiters')
  BY <1>28 DEF GCRemoveAll
<1>29. ASSUME UNCHANGED vars PROVE Moves(Waits, Waits', waiters, waiters')
  BY <1>29 DEF vars
<1> QED
  BY <1>1, <1>2, <1>3, <1>4, <1>5, <1>6, <1>7, <1>8, <1>9, <1>10, <1>11, <1>11b, <1>12, <1>13, <1>14, <1>15,
     <1>16, <1>17, <1>18, <1>19, <1>20, <1>21, <1>22, <1>23, <1>24, <1>25, <1>26, <1>27, <1>28,
     <1>29 DEF Acts

LEMMA NextPins == ASSUME IInv, Acts PROVE Moves(Pinners, Pinners', pins, pins')
<1>a. TypeT /\ TypeW /\ TypeC /\ WorkerInv /\ TargetInv
  BY DEF IInv, Types
<1> USE <1>a, ConstantsAssumption DEF managerVars, workerVars, slotVars, diskVars, callerVars,
        Pinners, Moves
<1>1. ASSUME NEW c \in Caller, NEW n \in Seg, Arrive(c, n) PROVE Moves(Pinners, Pinners', pins,
        pins')
  BY <1>1 DEF Arrive, Goto
<1>2. ASSUME NEW c \in Caller, MakeDir(c) PROVE Moves(Pinners, Pinners', pins, pins')
  BY <1>2 DEF MakeDir, Goto
<1>3. ASSUME NEW c \in Caller, MakeDirFails(c) PROVE Moves(Pinners, Pinners', pins, pins')
  BY <1>3 DEF MakeDirFails, Answer, Goto
<1>4. ASSUME NEW c \in Caller, Register(c) PROVE Moves(Pinners, Pinners', pins, pins')
  BY <1>4 DEF Register, Goto
<1>5. ASSUME NEW c \in Caller, Open(c) PROVE Moves(Pinners, Pinners', pins, pins')
  BY <1>5 DEF Open, Has, Goto
<1>6. ASSUME NEW c \in Caller, Touch(c) PROVE Moves(Pinners, Pinners', pins, pins')
  BY <1>6 DEF Touch, ArmIdle, Answer, Goto
<1>7. ASSUME NEW c \in Caller, Acquire(c) PROVE Moves(Pinners, Pinners', pins, pins')
  BY <1>7 DEF Acquire, DisarmIdle, Goto
<1>8. ASSUME NEW c \in Caller, CheckHas(c) PROVE Moves(Pinners, Pinners', pins, pins')
  BY <1>8 DEF CheckHas, Has, Return, Goto
<1>9. ASSUME NEW c \in Caller, Decide(c) PROVE Moves(Pinners, Pinners', pins, pins')
  BY <1>9 DEF Decide, Return, Goto
<1>10. ASSUME NEW c \in Caller, Woken(c) PROVE Moves(Pinners, Pinners', pins, pins')
  BY <1>10 DEF Woken, Goto
<1>11. ASSUME NEW c \in Caller, Kill(c) PROVE Moves(Pinners, Pinners', pins, pins')
  BY <1>11 DEF Kill, Has, Return, Goto
<1>11b. ASSUME NEW c \in Caller, Cancel(c) PROVE Moves(Pinners, Pinners', pins, pins')
  <2>1. target[c] \in Worker /\ pins' = pins
    BY <1>11b DEF Cancel, TargetInv, TargetOf
  <2>2. \A x \in Worker : wk'[x].pc = wk[x].pc
    BY <1>11b, <2>1, CancelSets DEF Sets, Same
  <2> QED
    BY <2>1, <2>2
<1>12. ASSUME NEW c \in Caller, GiveUp(c) PROVE Moves(Pinners, Pinners', pins, pins')
  BY <1>12 DEF GiveUp, Has, Return, Goto
<1>13. ASSUME NEW c \in Caller, Confirm(c) PROVE Moves(Pinners, Pinners', pins, pins')
  BY <1>13 DEF Confirm, Has, Return, Goto
<1>14. ASSUME NEW c \in Caller, Exited(c) PROVE Moves(Pinners, Pinners', pins, pins')
  BY <1>14 DEF Exited, Goto
<1>15. ASSUME NEW c \in Caller, Leave(c) PROVE Moves(Pinners, Pinners', pins, pins')
  BY <1>15 DEF Leave, Return, Goto
<1>16. ASSUME NEW c \in Caller, Spawn(c) PROVE Moves(Pinners, Pinners', pins, pins')
  <2>1. CASE UNCHANGED <<cur, spawns, wk, used, pins>>
    BY <2>1
  <2>2. CASE ~UNCHANGED <<cur, spawns, wk, used, pins>>
    <3> DEFINE v == spawns + 1
    <3>1. /\ v \in Worker /\ pins' = pins + 1 /\ \A x \in Worker : x # v => wk'[x] = wk[x]
          /\ wk'[v].pc = "run"
      BY <1>16, <2>2, SpawnSets DEF Sets, Same
    <3>2. wk[v].pc = "off"
      BY <3>1, WorkerIsOff DEF NoRun
    <3>3. v \notin Pinners /\ Pinners' = Pinners \cup {v}
      BY <3>1, <3>2
    <3> QED
      BY <3>1, <3>3
  <2> QED
    BY <2>1, <2>2
<1>17. ASSUME NEW c \in Caller, ReleaseCaller(c) PROVE Moves(Pinners, Pinners', pins, pins')
  BY <1>17 DEF ReleaseCaller, ArmIdle, MaybeDrop, Answer, Goto
<1>18. ASSUME NEW w \in Worker, Publish(w) PROVE Moves(Pinners, Pinners', pins, pins')
  <2>1. pins' = pins /\ wk[w].pc = "run" /\ wk'[w].pc = "notify" /\ \A x \in Worker : x # w =>
     wk'[x] = wk[x]
    BY <1>18, PublishSets, ZenonT(30) DEF Publish, Sets, Same
  <2> QED
    BY <1>18, <2>1
<1>19. ASSUME NEW w \in Worker, Notify(w) PROVE Moves(Pinners, Pinners', pins, pins')
  <2>1. pins' = pins /\ wk[w].pc = "notify" /\ wk'[w].pc = "run" /\ \A x \in Worker : x # w =>
     wk'[x] = wk[x]
    BY <1>19, NotifySets, ZenonT(30) DEF Notify, Sets, Same
  <2> QED
    BY <1>19, <2>1
<1>20. ASSUME NEW w \in Worker, NEW err \in Err, Finish(w, err) PROVE Moves(Pinners, Pinners', pins,
        pins')
  <2>1. pins' = pins /\ wk[w].pc = "run"
    BY <1>20 DEF Finish
  <2>2. wk'[w].pc = "ended" /\ \A x \in Worker : x # w => wk'[x] = wk[x]
    BY <1>20, FinishSets DEF Sets, Same
  <2> QED
    BY <1>20, <2>1, <2>2
<1>21. ASSUME NEW w \in Worker, Exit(w) PROVE Moves(Pinners, Pinners', pins, pins')
  <2>1. pins' = pins /\ wk[w].pc = "ended" /\ wk'[w].pc = "exited" /\ \A x \in Worker : x # w =>
     wk'[x] = wk[x]
    BY <1>21, ExitSets, ZenonT(30) DEF Exit, Sets, Same
  <2> QED
    BY <1>21, <2>1
<1>22. ASSUME NEW w \in Worker, Unpin(w) PROVE Moves(Pinners, Pinners', pins, pins')
  <2>1. /\ pins' = pins - 1 /\ wk[w].pc = "exited" /\ wk'[w].pc = "gone"
        /\ \A x \in Worker : x # w => wk'[x] = wk[x]
    BY <1>22, UnpinSets, ZenonT(30) DEF Unpin, UnpinDue, Sets, Same
  <2>2. w \in Pinners /\ Pinners' = Pinners \ {w}
    BY <1>22, <2>1
  <2> QED
    BY <2>1, <2>2
<1>23. ASSUME TimerExpire PROVE Moves(Pinners, Pinners', pins, pins')
  BY <1>23 DEF TimerExpire
<1>24. ASSUME NEW it \in firing, IdleCancel(it) PROVE Moves(Pinners, Pinners', pins, pins')
  <2>1. pins' = pins
    BY <1>24 DEF IdleCancel
  <2>2. \A x \in Worker : wk'[x].pc = wk[x].pc
    BY <1>24, IdleCancelSets, ZenonT(30) DEF Sets, Same
  <2> QED
    BY <2>1, <2>2
<1>25. ASSUME OtherSession PROVE Moves(Pinners, Pinners', pins, pins')
  BY <1>25 DEF OtherSession
<1>26. ASSUME GCSnapshot PROVE Moves(Pinners, Pinners', pins, pins')
  BY <1>26 DEF GCSnapshot
<1>27. ASSUME GCDropIndex PROVE Moves(Pinners, Pinners', pins, pins')
  BY <1>27 DEF GCDropIndex
<1>28. ASSUME GCRemoveAll PROVE Moves(Pinners, Pinners', pins, pins')
  BY <1>28 DEF GCRemoveAll
<1>29. ASSUME UNCHANGED vars PROVE Moves(Pinners, Pinners', pins, pins')
  BY <1>29 DEF vars
<1> QED
  BY <1>1, <1>2, <1>3, <1>4, <1>5, <1>6, <1>7, <1>8, <1>9, <1>10, <1>11, <1>11b, <1>12, <1>13, <1>14, <1>15,
     <1>16, <1>17, <1>18, <1>19, <1>20, <1>21, <1>22, <1>23, <1>24, <1>25, <1>26, <1>27, <1>28,
     <1>29 DEF Acts

LEMMA NextHolders == ASSUME IInv, Acts PROVE Moves(Holders, Holders', used - others, used' -
   others')
<1>a. TypeT /\ TypeW /\ TypeC /\ WorkerInv /\ TargetInv /\ SlotCount
  BY DEF IInv, Types
<1> USE <1>a, ConstantsAssumption DEF managerVars, workerVars, slotVars, diskVars, callerVars,
        Holders, Moves, SlotCount
<1>1. ASSUME NEW c \in Caller, NEW n \in Seg, Arrive(c, n) PROVE Moves(Holders, Holders', used -
        others, used' - others')
  BY <1>1 DEF Arrive, Goto
<1>2. ASSUME NEW c \in Caller, MakeDir(c) PROVE Moves(Holders, Holders', used - others, used' -
        others')
  BY <1>2 DEF MakeDir, Goto
<1>3. ASSUME NEW c \in Caller, MakeDirFails(c) PROVE Moves(Holders, Holders', used - others, used' -
        others')
  BY <1>3 DEF MakeDirFails, Answer, Goto
<1>4. ASSUME NEW c \in Caller, Register(c) PROVE Moves(Holders, Holders', used - others, used' -
        others')
  BY <1>4 DEF Register, Goto
<1>5. ASSUME NEW c \in Caller, Open(c) PROVE Moves(Holders, Holders', used - others, used' -
        others')
  BY <1>5 DEF Open, Has, Goto
<1>6. ASSUME NEW c \in Caller, Touch(c) PROVE Moves(Holders, Holders', used - others, used' -
        others')
  BY <1>6 DEF Touch, ArmIdle, Answer, Goto
<1>7. ASSUME NEW c \in Caller, Acquire(c) PROVE Moves(Holders, Holders', used - others, used' -
        others')
  BY <1>7 DEF Acquire, DisarmIdle, Goto
<1>8. ASSUME NEW c \in Caller, CheckHas(c) PROVE Moves(Holders, Holders', used - others, used' -
        others')
  BY <1>8 DEF CheckHas, Has, Return, Goto
<1>9. ASSUME NEW c \in Caller, Decide(c) PROVE Moves(Holders, Holders', used - others, used' -
        others')
  BY <1>9 DEF Decide, Return, Goto
<1>10. ASSUME NEW c \in Caller, Woken(c) PROVE Moves(Holders, Holders', used - others, used' -
        others')
  BY <1>10 DEF Woken, Goto
<1>11. ASSUME NEW c \in Caller, Kill(c) PROVE Moves(Holders, Holders', used - others, used' -
        others')
  BY <1>11 DEF Kill, Has, Return, Goto
<1>11b. ASSUME NEW c \in Caller, Cancel(c) PROVE Moves(Holders, Holders', used - others, used' -
        others')
  <2>1. target[c] \in Worker /\ used' = used /\ others' = others
    BY <1>11b DEF Cancel, TargetInv, TargetOf
  <2>2. \A x \in Worker : wk'[x].slot = wk[x].slot
    BY <1>11b, <2>1, CancelSets DEF Sets, Same
  <2> QED
    BY <2>1, <2>2
<1>12. ASSUME NEW c \in Caller, GiveUp(c) PROVE Moves(Holders, Holders', used - others, used' -
        others')
  BY <1>12 DEF GiveUp, Has, Return, Goto
<1>13. ASSUME NEW c \in Caller, Confirm(c) PROVE Moves(Holders, Holders', used - others, used' -
        others')
  BY <1>13 DEF Confirm, Has, Return, Goto
<1>14. ASSUME NEW c \in Caller, Exited(c) PROVE Moves(Holders, Holders', used - others, used' -
        others')
  BY <1>14 DEF Exited, Goto
<1>15. ASSUME NEW c \in Caller, Leave(c) PROVE Moves(Holders, Holders', used - others, used' -
        others')
  BY <1>15 DEF Leave, Return, Goto
<1>16. ASSUME NEW c \in Caller, Spawn(c) PROVE Moves(Holders, Holders', used - others, used' -
        others')
  <2>0. others' = others
    BY <1>16 DEF Spawn
  <2>1. CASE UNCHANGED <<cur, spawns, wk, used, pins>>
    BY <2>0, <2>1
  <2>2. CASE ~UNCHANGED <<cur, spawns, wk, used, pins>>
    <3> DEFINE v == spawns + 1
    <3>1. /\ v \in Worker /\ used' = used + 1 /\ \A x \in Worker : x # v => wk'[x] = wk[x]
          /\ wk'[v].slot = TRUE
      BY <1>16, <2>2, SpawnSets DEF Sets, Same
    <3>2. wk[v].slot = FALSE
      BY <3>1, WorkerIsOff DEF NoRun
    <3>3. v \notin Holders /\ Holders' = Holders \cup {v}
      BY <3>1, <3>2
    <3>4. used' - others' = (used - others) + 1
      BY <2>0, <3>1
    <3> HIDE DEF Holders
    <3> QED
      BY <3>3, <3>4
  <2> QED
    BY <2>1, <2>2
<1>17. ASSUME NEW c \in Caller, ReleaseCaller(c) PROVE Moves(Holders, Holders', used - others, used'
        - others')
  BY <1>17 DEF ReleaseCaller, ArmIdle, MaybeDrop, Answer, Goto
<1>18. ASSUME NEW w \in Worker, Publish(w) PROVE Moves(Holders, Holders', used - others, used' -
        others')
  <2>1. used' = used /\ others' = others /\ \A x \in Worker : wk'[x].slot = wk[x].slot
    BY <1>18, PublishSets, ZenonT(30) DEF Publish, Sets, Same
  <2> QED
    BY <2>1
<1>19. ASSUME NEW w \in Worker, Notify(w) PROVE Moves(Holders, Holders', used - others, used' -
        others')
  <2>1. used' = used /\ others' = others /\ \A x \in Worker : wk'[x].slot = wk[x].slot
    BY <1>19, NotifySets, ZenonT(30) DEF Notify, Sets, Same
  <2> QED
    BY <2>1
<1>20. ASSUME NEW w \in Worker, NEW err \in Err, Finish(w, err) PROVE Moves(Holders, Holders', used
        - others, used' - others')
  <2>0. wk'[w].slot = FALSE /\ \A x \in Worker : x # w => wk'[x] = wk[x]
    BY <1>20, FinishSets DEF Sets, Same
  <2>1. others' = others /\ used' = IF wk[w].slot THEN used - 1 ELSE used
    BY <1>20 DEF Finish, ReleaseSlot
  <2>2. CASE wk[w].slot
    <3>1. w \in Holders /\ Holders' = Holders \ {w}
      BY <1>20, <2>0, <2>2
    <3>2. used' - others' = (used - others) - 1
      BY <2>1, <2>2
    <3> HIDE DEF Holders
    <3> QED
      BY <3>1, <3>2
  <2>3. CASE ~wk[w].slot
    BY <1>20, <2>0, <2>1, <2>3
  <2> QED
    BY <2>2, <2>3
<1>21. ASSUME NEW w \in Worker, Exit(w) PROVE Moves(Holders, Holders', used - others, used' -
        others')
  <2>1. used' = used /\ others' = others /\ \A x \in Worker : wk'[x].slot = wk[x].slot
    BY <1>21, ExitSets, ZenonT(30) DEF Exit, Sets, Same
  <2> QED
    BY <2>1
<1>22. ASSUME NEW w \in Worker, Unpin(w) PROVE Moves(Holders, Holders', used - others, used' -
        others')
  <2>1. /\ others' = others /\ used' = used /\ wk'[w].slot = FALSE
        /\ \A x \in Worker : x # w => wk'[x] = wk[x]
    BY <1>22, UnpinSets, ZenonT(30) DEF Unpin, Sets, Same
  <2>2. wk[w].slot = FALSE
    BY <1>22 DEF Unpin, UnpinDue, WorkerInv, WorkerOf, TypeW, WorkerRec
  <2> QED
    BY <2>1, <2>2
<1>23. ASSUME TimerExpire PROVE Moves(Holders, Holders', used - others, used' - others')
  BY <1>23 DEF TimerExpire
<1>24. ASSUME NEW it \in firing, IdleCancel(it) PROVE Moves(Holders, Holders', used - others, used'
        - others')
  <2>1. others' = others
    BY <1>24 DEF IdleCancel
  <2>2. CASE UNCHANGED <<idle, used, wk>>
    BY <2>1, <2>2
  <2>3. CASE ~UNCHANGED <<idle, used, wk>>
    <3> DEFINE v == it.wk
    <3>1. /\ v \in Worker /\ used' = IF wk[v].slot THEN used - 1 ELSE used
          /\ wk'[v].slot = FALSE /\ \A x \in Worker : x # v => wk'[x] = wk[x]
      BY <1>24, <2>3, IdleCancelSets, ZenonT(30) DEF Sets, Same
    <3>2. CASE wk[v].slot
      <4>1. v \in Holders /\ Holders' = Holders \ {v}
        BY <3>1, <3>2
      <4>2. used' - others' = (used - others) - 1
        BY <2>1, <3>1, <3>2
      <4> HIDE DEF Holders
      <4> QED
        BY <4>1, <4>2
    <3>3. CASE ~wk[v].slot
      BY <2>1, <3>1, <3>3
    <3> QED
      BY <3>2, <3>3
  <2> QED
    BY <2>2, <2>3
<1>25. ASSUME OtherSession PROVE Moves(Holders, Holders', used - others, used' - others')
  BY <1>25 DEF OtherSession
<1>26. ASSUME GCSnapshot PROVE Moves(Holders, Holders', used - others, used' - others')
  BY <1>26 DEF GCSnapshot
<1>27. ASSUME GCDropIndex PROVE Moves(Holders, Holders', used - others, used' - others')
  BY <1>27 DEF GCDropIndex
<1>28. ASSUME GCRemoveAll PROVE Moves(Holders, Holders', used - others, used' - others')
  BY <1>28 DEF GCRemoveAll
<1>29. ASSUME UNCHANGED vars PROVE Moves(Holders, Holders', used - others, used' - others')
  BY <1>29 DEF vars
<1> QED
  BY <1>1, <1>2, <1>3, <1>4, <1>5, <1>6, <1>7, <1>8, <1>9, <1>10, <1>11, <1>11b, <1>12, <1>13, <1>14, <1>15,
     <1>16, <1>17, <1>18, <1>19, <1>20, <1>21, <1>22, <1>23, <1>24, <1>25, <1>26, <1>27, <1>28,
     <1>29 DEF Acts

LEMMA NextSlots == ASSUME IInv, Acts PROVE others' \in Nat /\ used' \in Int /\ used' <= Slots
<1>a. SlotCount /\ TypeW /\ TypeC /\ TypeT
  BY DEF IInv, Types
<1> USE <1>a, ConstantsAssumption DEF managerVars, workerVars, slotVars, diskVars, callerVars,
        SlotCount
<1>1. ASSUME NEW c \in Caller, NEW n \in Seg, Arrive(c, n) PROVE others' \in Nat /\ used' \in Int /\
        used' <= Slots
  BY <1>1 DEF Arrive, Goto
<1>2. ASSUME NEW c \in Caller, MakeDir(c) PROVE others' \in Nat /\ used' \in Int /\ used' <= Slots
  BY <1>2 DEF MakeDir, Goto
<1>3. ASSUME NEW c \in Caller, MakeDirFails(c) PROVE others' \in Nat /\ used' \in Int /\ used' <=
        Slots
  BY <1>3 DEF MakeDirFails, Answer, Goto
<1>4. ASSUME NEW c \in Caller, Register(c) PROVE others' \in Nat /\ used' \in Int /\ used' <= Slots
  BY <1>4 DEF Register, Goto
<1>5. ASSUME NEW c \in Caller, Open(c) PROVE others' \in Nat /\ used' \in Int /\ used' <= Slots
  BY <1>5 DEF Open, Has, Goto
<1>6. ASSUME NEW c \in Caller, Touch(c) PROVE others' \in Nat /\ used' \in Int /\ used' <= Slots
  BY <1>6 DEF Touch, ArmIdle, Answer, Goto
<1>7. ASSUME NEW c \in Caller, Acquire(c) PROVE others' \in Nat /\ used' \in Int /\ used' <= Slots
  BY <1>7 DEF Acquire, DisarmIdle, Goto
<1>8. ASSUME NEW c \in Caller, CheckHas(c) PROVE others' \in Nat /\ used' \in Int /\ used' <= Slots
  BY <1>8 DEF CheckHas, Has, Return, Goto
<1>9. ASSUME NEW c \in Caller, Decide(c) PROVE others' \in Nat /\ used' \in Int /\ used' <= Slots
  BY <1>9 DEF Decide, Return, Goto
<1>10. ASSUME NEW c \in Caller, Woken(c) PROVE others' \in Nat /\ used' \in Int /\ used' <= Slots
  BY <1>10 DEF Woken, Goto
<1>11. ASSUME NEW c \in Caller, Kill(c) PROVE others' \in Nat /\ used' \in Int /\ used' <= Slots
  BY <1>11 DEF Kill, Has, Return, Goto
<1>11b. ASSUME NEW c \in Caller, Cancel(c) PROVE others' \in Nat /\ used' \in Int /\ used' <= Slots
  BY <1>11b DEF Cancel, Running, Goto
<1>12. ASSUME NEW c \in Caller, GiveUp(c) PROVE others' \in Nat /\ used' \in Int /\ used' <= Slots
  BY <1>12 DEF GiveUp, Has, Return, Goto
<1>13. ASSUME NEW c \in Caller, Confirm(c) PROVE others' \in Nat /\ used' \in Int /\ used' <= Slots
  BY <1>13 DEF Confirm, Has, Return, Goto
<1>14. ASSUME NEW c \in Caller, Exited(c) PROVE others' \in Nat /\ used' \in Int /\ used' <= Slots
  BY <1>14 DEF Exited, Goto
<1>15. ASSUME NEW c \in Caller, Leave(c) PROVE others' \in Nat /\ used' \in Int /\ used' <= Slots
  BY <1>15 DEF Leave, Return, Goto
<1>16. ASSUME NEW c \in Caller, Spawn(c) PROVE others' \in Nat /\ used' \in Int /\ used' <= Slots
  <2>0. others' = others
    BY <1>16 DEF Spawn
  <2>1. CASE UNCHANGED <<cur, spawns, wk, used, pins>>
    BY <2>0, <2>1
  <2>2. CASE ~UNCHANGED <<cur, spawns, wk, used, pins>>
    <3>1. used < Slots /\ used' = used + 1
      BY <1>16, <2>2, SpawnSets
    <3> QED
      BY <2>0, <3>1
  <2> QED
    BY <2>1, <2>2
<1>17. ASSUME NEW c \in Caller, ReleaseCaller(c) PROVE others' \in Nat /\ used' \in Int /\ used' <=
        Slots
  BY <1>17 DEF ReleaseCaller, ArmIdle, MaybeDrop, Answer, Goto
<1>18. ASSUME NEW w \in Worker, Publish(w) PROVE others' \in Nat /\ used' \in Int /\ used' <= Slots
  BY <1>18 DEF Publish
<1>19. ASSUME NEW w \in Worker, Notify(w) PROVE others' \in Nat /\ used' \in Int /\ used' <= Slots
  BY <1>19 DEF Notify, Wake
<1>20. ASSUME NEW w \in Worker, NEW err \in Err, Finish(w, err) PROVE others' \in Nat /\ used' \in
        Int /\ used' <= Slots
  BY <1>20 DEF Finish, ReleaseSlot
<1>21. ASSUME NEW w \in Worker, Exit(w) PROVE others' \in Nat /\ used' \in Int /\ used' <= Slots
  BY <1>21 DEF Exit, DisarmIdle, MaybeDrop, Wake
<1>22. ASSUME NEW w \in Worker, Unpin(w) PROVE others' \in Nat /\ used' \in Int /\ used' <= Slots
  BY <1>22 DEF Unpin, UnpinDue, NoRun
<1>23. ASSUME TimerExpire PROVE others' \in Nat /\ used' \in Int /\ used' <= Slots
  BY <1>23 DEF TimerExpire
<1>24. ASSUME NEW it \in firing, IdleCancel(it) PROVE others' \in Nat /\ used' \in Int /\ used' <=
        Slots
  BY <1>24 DEF IdleCancel, ReleaseSlot
<1>25. ASSUME OtherSession PROVE others' \in Nat /\ used' \in Int /\ used' <= Slots
  BY <1>25 DEF OtherSession
<1>26. ASSUME GCSnapshot PROVE others' \in Nat /\ used' \in Int /\ used' <= Slots
  BY <1>26 DEF GCSnapshot
<1>27. ASSUME GCDropIndex PROVE others' \in Nat /\ used' \in Int /\ used' <= Slots
  BY <1>27 DEF GCDropIndex
<1>28. ASSUME GCRemoveAll PROVE others' \in Nat /\ used' \in Int /\ used' <= Slots
  BY <1>28 DEF GCRemoveAll
<1>29. ASSUME UNCHANGED vars PROVE others' \in Nat /\ used' \in Int /\ used' <= Slots
  BY <1>29 DEF vars
<1> QED
  BY <1>1, <1>2, <1>3, <1>4, <1>5, <1>6, <1>7, <1>8, <1>9, <1>10, <1>11, <1>11b, <1>12, <1>13, <1>14, <1>15,
     <1>16, <1>17, <1>18, <1>19, <1>20, <1>21, <1>22, <1>23, <1>24, <1>25, <1>26, <1>27, <1>28,
     <1>29 DEF Acts

\* The counters stay counts, and the live slots in use stay within the pool.
LEMMA NextCounts == ASSUME IInv, Acts PROVE WaitCount' /\ PinCount' /\ SlotCount'
<1>1. waiters' = Cardinality(Waits')
  BY NextWaits, WaitsFinite, MovesCount DEF IInv, WaitCount
<1>2. pins' = Cardinality(Pinners')
  BY NextPins, PinnersFinite, MovesCount DEF IInv, PinCount
<1>3. used' - others' = Cardinality(Holders')
  <2>1. used - others = Cardinality(Holders)
    BY HoldersFinite, ConstantsAssumption DEF IInv, SlotCount
  <2> QED
    BY <2>1, NextHolders, HoldersFinite, MovesCount
<1>4. others' \in Nat /\ used' \in Int /\ used' <= Slots
  BY NextSlots
<1>5. Cardinality(Holders') \in Nat
  BY WorkerFinite, FS_Subset, FS_CardinalityType DEF Holders
<1> QED
  BY <1>1, <1>2, <1>3, <1>4, <1>5, ConstantsAssumption DEF WaitCount, PinCount, SlotCount


-----------------------------------------------------------------------------
(* Timers, workers and requests.                                           *)

LEMMA NextTimer == ASSUME IInv, Acts PROVE TimerInv'
<1>a. TypeM /\ TypeT /\ TypeW /\ TimerInv /\ WaitCount /\ WorkerInv
  BY DEF IInv, Types
<1> USE <1>a, ConstantsAssumption DEF managerVars, workerVars, slotVars, diskVars, callerVars,
        TimerInv, TypeM, TypeT, Disarmed, NoWorker
<1>1. ASSUME NEW c \in Caller, NEW n \in Seg, Arrive(c, n) PROVE TimerInv'
  BY <1>1 DEF Arrive, Goto
<1>2. ASSUME NEW c \in Caller, MakeDir(c) PROVE TimerInv'
  BY <1>2 DEF MakeDir, Goto
<1>3. ASSUME NEW c \in Caller, MakeDirFails(c) PROVE TimerInv'
  BY <1>3 DEF MakeDirFails, Answer, Goto
<1>4. ASSUME NEW c \in Caller, Register(c) PROVE TimerInv'
  BY <1>4 DEF Register, Goto
<1>5. ASSUME NEW c \in Caller, Open(c) PROVE TimerInv'
  BY <1>5 DEF Open, Has, Goto
<1>6. ASSUME NEW c \in Caller, Touch(c) PROVE TimerInv'
  BY <1>6, FreshTimerType DEF Touch, ArmIdle, Answer, Goto
<1>7. ASSUME NEW c \in Caller, Acquire(c) PROVE TimerInv'
  BY <1>7 DEF Acquire, DisarmIdle, Goto
<1>8. ASSUME NEW c \in Caller, CheckHas(c) PROVE TimerInv'
  BY <1>8 DEF CheckHas, Has, Return, Goto
<1>9. ASSUME NEW c \in Caller, Decide(c) PROVE TimerInv'
  BY <1>9 DEF Decide, Return, Goto
<1>10. ASSUME NEW c \in Caller, Woken(c) PROVE TimerInv'
  BY <1>10 DEF Woken, Goto
<1>11. ASSUME NEW c \in Caller, Kill(c) PROVE TimerInv'
  BY <1>11 DEF Kill, Has, Return, Goto
<1>11b. ASSUME NEW c \in Caller, Cancel(c) PROVE TimerInv'
  BY <1>11b DEF Cancel, Running, Goto
<1>12. ASSUME NEW c \in Caller, GiveUp(c) PROVE TimerInv'
  BY <1>12 DEF GiveUp, Has, Return, Goto
<1>13. ASSUME NEW c \in Caller, Confirm(c) PROVE TimerInv'
  BY <1>13 DEF Confirm, Has, Return, Goto
<1>14. ASSUME NEW c \in Caller, Exited(c) PROVE TimerInv'
  BY <1>14 DEF Exited, Goto
<1>15. ASSUME NEW c \in Caller, Leave(c) PROVE TimerInv'
  BY <1>15 DEF Leave, Return, Goto
<1>16. ASSUME NEW c \in Caller, Spawn(c) PROVE TimerInv'
  <2>1. waiters \in Nat /\ waiters > 0
    BY <1>16, WaiterCounts DEF Spawn, Waiting
  <2> QED
    BY <1>16, <2>1 DEF Spawn, MustReevaluate
<1>17. ASSUME NEW c \in Caller, ReleaseCaller(c) PROVE TimerInv'
  BY <1>17, FreshTimerType DEF ReleaseCaller, ArmIdle, MaybeDrop, Answer, Goto
<1>18. ASSUME NEW w \in Worker, Publish(w) PROVE TimerInv'
  BY <1>18 DEF Publish
<1>19. ASSUME NEW w \in Worker, Notify(w) PROVE TimerInv'
  BY <1>19 DEF Notify, Wake
<1>20. ASSUME NEW w \in Worker, NEW err \in Err, Finish(w, err) PROVE TimerInv'
  BY <1>20 DEF Finish, ReleaseSlot
<1>21. ASSUME NEW w \in Worker, Exit(w) PROVE TimerInv'
  BY <1>21, WorkerInv DEF WorkerInv, WorkerOf, Exit, DisarmIdle, MaybeDrop, Wake
<1>22. ASSUME NEW w \in Worker, Unpin(w) PROVE TimerInv'
  BY <1>22 DEF Unpin, UnpinDue, NoRun
<1>23. ASSUME TimerExpire PROVE TimerInv'
  BY <1>23 DEF TimerExpire
<1>24. ASSUME NEW it \in firing, IdleCancel(it) PROVE TimerInv'
  BY <1>24 DEF IdleCancel, ReleaseSlot
<1>25. ASSUME OtherSession PROVE TimerInv'
  BY <1>25 DEF OtherSession
<1>26. ASSUME GCSnapshot PROVE TimerInv'
  BY <1>26 DEF GCSnapshot
<1>27. ASSUME GCDropIndex PROVE TimerInv'
  BY <1>27 DEF GCDropIndex
<1>28. ASSUME GCRemoveAll PROVE TimerInv'
  BY <1>28 DEF GCRemoveAll
<1>29. ASSUME UNCHANGED vars PROVE TimerInv'
  BY <1>29 DEF vars
<1> QED
  BY <1>1, <1>2, <1>3, <1>4, <1>5, <1>6, <1>7, <1>8, <1>9, <1>10, <1>11, <1>11b, <1>12, <1>13, <1>14, <1>15,
     <1>16, <1>17, <1>18, <1>19, <1>20, <1>21, <1>22, <1>23, <1>24, <1>25, <1>26, <1>27, <1>28,
     <1>29 DEF Acts

LEMMA NextWorker == ASSUME IInv, Acts PROVE WorkerInv'
<1> SUFFICES ASSUME NEW x \in Worker PROVE WorkerOf(x)'
  BY DEF WorkerInv
<1>a. TypeM /\ TypeT /\ TypeW /\ TypeC /\ TargetInv /\ WorkerInv /\ WorkerOf(x) /\ TimerInv
  BY DEF IInv, Types, WorkerInv
<1> USE <1>a, ConstantsAssumption DEF managerVars, workerVars, slotVars, diskVars, callerVars,
        WorkerOf
<1>1. ASSUME NEW c \in Caller, NEW n \in Seg, Arrive(c, n) PROVE WorkerOf(x)'
  BY <1>1 DEF Arrive, Goto
<1>2. ASSUME NEW c \in Caller, MakeDir(c) PROVE WorkerOf(x)'
  BY <1>2 DEF MakeDir, Goto
<1>3. ASSUME NEW c \in Caller, MakeDirFails(c) PROVE WorkerOf(x)'
  BY <1>3 DEF MakeDirFails, Answer, Goto
<1>4. ASSUME NEW c \in Caller, Register(c) PROVE WorkerOf(x)'
  BY <1>4 DEF Register, Goto
<1>5. ASSUME NEW c \in Caller, Open(c) PROVE WorkerOf(x)'
  BY <1>5 DEF Open, Has, Goto
<1>6. ASSUME NEW c \in Caller, Touch(c) PROVE WorkerOf(x)'
  BY <1>6 DEF Touch, ArmIdle, Answer, Goto
<1>7. ASSUME NEW c \in Caller, Acquire(c) PROVE WorkerOf(x)'
  BY <1>7 DEF Acquire, DisarmIdle, Goto
<1>8. ASSUME NEW c \in Caller, CheckHas(c) PROVE WorkerOf(x)'
  BY <1>8 DEF CheckHas, Has, Return, Goto
<1>9. ASSUME NEW c \in Caller, Decide(c) PROVE WorkerOf(x)'
  BY <1>9 DEF Decide, Return, Goto
<1>10. ASSUME NEW c \in Caller, Woken(c) PROVE WorkerOf(x)'
  BY <1>10 DEF Woken, Goto
<1>11. ASSUME NEW c \in Caller, Kill(c) PROVE WorkerOf(x)'
  BY <1>11 DEF Kill, Has, Return, Goto
<1>11b. ASSUME NEW c \in Caller, Cancel(c) PROVE WorkerOf(x)'
  <2>1. target[c] \in Worker /\ wk[target[c]].produced /\ cur' = cur /\ spawns' = spawns
    BY <1>11b DEF Cancel, TargetInv, TargetOf
  <2>2. CASE wk' = wk
    BY <2>1, <2>2
  <2>3. CASE wk' # wk
    <3>1. /\ wk'[x].pc = wk[x].pc /\ wk'[x].slot = wk[x].slot /\ wk'[x].produced = wk[x].produced
          /\ x # target[c] => wk'[x] = wk[x]
          /\ Running(target[c])
      BY <1>11b, <2>1, <2>3, CancelSets DEF Sets, Same
    <3>2. wk[target[c]] # NoRun
      BY <3>1 DEF Running, NoRun
    <3> QED
      BY <2>1, <3>1, <3>2
  <2> QED
    BY <2>2, <2>3
<1>12. ASSUME NEW c \in Caller, GiveUp(c) PROVE WorkerOf(x)'
  BY <1>12 DEF GiveUp, Has, Return, Goto
<1>13. ASSUME NEW c \in Caller, Confirm(c) PROVE WorkerOf(x)'
  BY <1>13 DEF Confirm, Has, Return, Goto
<1>14. ASSUME NEW c \in Caller, Exited(c) PROVE WorkerOf(x)'
  BY <1>14 DEF Exited, Goto
<1>15. ASSUME NEW c \in Caller, Leave(c) PROVE WorkerOf(x)'
  BY <1>15 DEF Leave, Return, Goto
<1>16. ASSUME NEW c \in Caller, Spawn(c) PROVE WorkerOf(x)'
  <2>1. CASE UNCHANGED <<cur, spawns, wk, used, pins>>
    BY <2>1
  <2>2. CASE ~UNCHANGED <<cur, spawns, wk, used, pins>>
    <3> DEFINE v == spawns + 1
    <3>1. /\ v \in Worker /\ spawns' = v /\ cur = NoWorker /\ cur' = v
          /\ wk'[v].pc = "run" /\ wk'[v].canceled = "no" /\ wk'[v].slot
          /\ x # v => wk'[x] = wk[x]
      BY <1>16, <2>2, SpawnSets DEF Sets, Same
    <3>2. CASE x = v
      BY <3>1, <3>2 DEF TypeW
    <3>3. CASE x # v
      BY <3>1, <3>3 DEF TypeW, Worker, NoWorker
    <3> QED
      BY <3>2, <3>3
  <2> QED
    BY <2>1, <2>2
<1>17. ASSUME NEW c \in Caller, ReleaseCaller(c) PROVE WorkerOf(x)'
  BY <1>17 DEF ReleaseCaller, ArmIdle, MaybeDrop, Answer, Goto
<1>18. ASSUME NEW w \in Worker, Publish(w) PROVE WorkerOf(x)'
  <2>1. /\ cur' = cur /\ spawns' = spawns /\ wk[w].pc = "run"
        /\ wk'[w].pc = "notify" /\ wk'[w].canceled = wk[w].canceled /\ wk'[w].slot = wk[w].slot
        /\ wk'[w].produced = wk[w].produced /\ (x # w => wk'[x] = wk[x])
    BY <1>18, PublishSets, ZenonT(30) DEF Publish, Sets, Same
  <2> QED
    BY <1>18, <2>1 DEF NoRun
<1>19. ASSUME NEW w \in Worker, Notify(w) PROVE WorkerOf(x)'
  <2>0. cur' = cur /\ spawns' = spawns /\ wk[w].pc = "notify"
    BY <1>19 DEF Notify
  <2>1. /\ wk'[w].pc = "run" /\ wk'[w].canceled = wk[w].canceled /\ wk'[w].slot = wk[w].slot
        /\ (wk[w].produced => wk'[w].produced) /\ (x # w => wk'[x] = wk[x])
    BY <1>19, NotifySets, ZenonT(30) DEF Sets, Same
  <2> QED
    BY <1>19, <2>0, <2>1 DEF NoRun
<1>20. ASSUME NEW w \in Worker, NEW err \in Err, Finish(w, err) PROVE WorkerOf(x)'
  <2>0. cur' = cur /\ spawns' = spawns /\ wk[w].pc = "run"
    BY <1>20 DEF Finish
  <2>1. /\ wk'[w].pc = "ended" /\ wk'[w].canceled = wk[w].canceled /\ wk'[w].slot = FALSE
        /\ wk'[w].produced = wk[w].produced /\ (x # w => wk'[x] = wk[x])
    BY <1>20, FinishSets DEF Sets, Same
  <2> QED
    BY <1>20, <2>0, <2>1 DEF NoRun
<1>21. ASSUME NEW w \in Worker, Exit(w) PROVE WorkerOf(x)'
  <2>0. spawns' = spawns /\ wk[w].pc = "ended" /\ cur = w /\ cur' = NoWorker
    BY <1>21 DEF Exit, WorkerInv, WorkerOf
  <2>1. /\ wk'[w].pc = "exited" /\ wk'[w].canceled = wk[w].canceled /\ wk'[w].slot = wk[w].slot
        /\ wk'[w].produced = wk[w].produced /\ (x # w => wk'[x] = wk[x])
    BY <1>21, ExitSets, ZenonT(30) DEF Sets, Same
  <2>2. wk[w] # NoRun /\ ~wk[w].slot /\ NoWorker \notin Worker
    BY <1>21, <2>0 DEF NoRun, WorkerInv, WorkerOf, NoWorker, Worker
  <2> QED
    BY <1>21, <2>0, <2>1, <2>2
<1>22. ASSUME NEW w \in Worker, Unpin(w) PROVE WorkerOf(x)'
  <2>0. spawns' = spawns /\ wk[w].pc = "exited" /\ cur' = cur
    BY <1>22 DEF Unpin, UnpinDue
  <2>1. /\ wk'[w].pc = "gone" /\ wk'[w].canceled = "no" /\ wk'[w].slot = FALSE
        /\ (x # w => wk'[x] = wk[x])
    BY <1>22, UnpinSets, ZenonT(30) DEF Sets, Same
  <2> QED
    BY <1>22, <2>0, <2>1 DEF NoRun
<1>23. ASSUME TimerExpire PROVE WorkerOf(x)'
  BY <1>23 DEF TimerExpire
<1>24. ASSUME NEW it \in firing, IdleCancel(it) PROVE WorkerOf(x)'
  <2>1. cur' = cur /\ spawns' = spawns
    BY <1>24 DEF IdleCancel
  <2>2. CASE UNCHANGED <<idle, used, wk>>
    BY <2>1, <2>2
  <2>3. CASE ~UNCHANGED <<idle, used, wk>>
    <3> DEFINE v == it.wk
    <3>0. /\ v \in Worker /\ idle = it
          /\ Sets(v, [pc |-> wk[v].pc, start |-> wk[v].start, next |-> wk[v].next, at |-> wk[v].at,
                      produced |-> wk[v].produced,
                      canceled |-> IF wk[v].canceled = "no" THEN "idle" ELSE wk[v].canceled,
                      slot |-> FALSE, err |-> wk[v].err])
      BY <1>24, <2>3, IdleCancelSets
    <3>1. /\ wk'[v].pc = wk[v].pc /\ wk'[v].slot = FALSE
          /\ wk'[v].produced = wk[v].produced /\ (x # v => wk'[x] = wk[x])
          /\ wk'[v].canceled = "seek" => wk[v].canceled = "seek"
      BY <3>0 DEF Sets, Same
    <3>2. cur = v
      BY <1>24, <3>0 DEF TypeT, TimerInv, Disarmed
    <3>3. wk[v] # NoRun
      BY <3>0, <3>2 DEF WorkerInv, WorkerOf, NoRun
    <3> QED
      BY <2>1, <3>0, <3>1, <3>2, <3>3
  <2> QED
    BY <2>2, <2>3
<1>25. ASSUME OtherSession PROVE WorkerOf(x)'
  BY <1>25 DEF OtherSession
<1>26. ASSUME GCSnapshot PROVE WorkerOf(x)'
  BY <1>26 DEF GCSnapshot
<1>27. ASSUME GCDropIndex PROVE WorkerOf(x)'
  BY <1>27 DEF GCDropIndex
<1>28. ASSUME GCRemoveAll PROVE WorkerOf(x)'
  BY <1>28 DEF GCRemoveAll
<1>29. ASSUME UNCHANGED vars PROVE WorkerOf(x)'
  BY <1>29 DEF vars
<1> QED
  BY <1>1, <1>2, <1>3, <1>4, <1>5, <1>6, <1>7, <1>8, <1>9, <1>10, <1>11, <1>11b, <1>12, <1>13, <1>14, <1>15,
     <1>16, <1>17, <1>18, <1>19, <1>20, <1>21, <1>22, <1>23, <1>24, <1>25, <1>26, <1>27, <1>28,
     <1>29 DEF Acts

LEMMA NextWrote == ASSUME IInv, Acts PROVE WroteInv'
<1> SUFFICES ASSUME NEW x \in Worker PROVE WroteOf(x)'
  BY DEF WroteInv
<1>a. /\ TypeM /\ TypeT /\ TypeW /\ TypeC /\ TypeD /\ TargetInv /\ WroteOf(x) /\ GCInv
      /\ WorkerOf(x)
  BY DEF IInv, Types, WroteInv, WorkerInv
<1> USE <1>a, ConstantsAssumption DEF managerVars, workerVars, slotVars, diskVars, callerVars,
        WroteOf
<1>1. ASSUME NEW c \in Caller, NEW n \in Seg, Arrive(c, n) PROVE WroteOf(x)'
  BY <1>1 DEF Arrive, Goto
<1>2. ASSUME NEW c \in Caller, MakeDir(c) PROVE WroteOf(x)'
  BY <1>2 DEF MakeDir, Goto
<1>3. ASSUME NEW c \in Caller, MakeDirFails(c) PROVE WroteOf(x)'
  BY <1>3 DEF MakeDirFails, Answer, Goto
<1>4. ASSUME NEW c \in Caller, Register(c) PROVE WroteOf(x)'
  BY <1>4 DEF Register, Goto
<1>5. ASSUME NEW c \in Caller, Open(c) PROVE WroteOf(x)'
  BY <1>5 DEF Open, Has, Goto
<1>6. ASSUME NEW c \in Caller, Touch(c) PROVE WroteOf(x)'
  BY <1>6 DEF Touch, ArmIdle, Answer, Goto
<1>7. ASSUME NEW c \in Caller, Acquire(c) PROVE WroteOf(x)'
  BY <1>7 DEF Acquire, DisarmIdle, Goto
<1>8. ASSUME NEW c \in Caller, CheckHas(c) PROVE WroteOf(x)'
  BY <1>8 DEF CheckHas, Has, Return, Goto
<1>9. ASSUME NEW c \in Caller, Decide(c) PROVE WroteOf(x)'
  BY <1>9 DEF Decide, Return, Goto
<1>10. ASSUME NEW c \in Caller, Woken(c) PROVE WroteOf(x)'
  BY <1>10 DEF Woken, Goto
<1>11. ASSUME NEW c \in Caller, Kill(c) PROVE WroteOf(x)'
  BY <1>11 DEF Kill, Has, Return, Goto
<1>11b. ASSUME NEW c \in Caller, Cancel(c) PROVE WroteOf(x)'
  <2>1. target[c] \in Worker /\ UNCHANGED <<exposed, onDisk>>
    BY <1>11b DEF Cancel, TargetInv, TargetOf
  <2>2. /\ wk'[x].pc = wk[x].pc /\ wk'[x].start = wk[x].start /\ wk'[x].next = wk[x].next
        /\ wk'[x].at = wk[x].at
    BY <1>11b, <2>1, CancelSets DEF Sets, Same
  <2> QED
    BY <2>1, <2>2
<1>12. ASSUME NEW c \in Caller, GiveUp(c) PROVE WroteOf(x)'
  BY <1>12 DEF GiveUp, Has, Return, Goto
<1>13. ASSUME NEW c \in Caller, Confirm(c) PROVE WroteOf(x)'
  BY <1>13 DEF Confirm, Has, Return, Goto
<1>14. ASSUME NEW c \in Caller, Exited(c) PROVE WroteOf(x)'
  BY <1>14 DEF Exited, Goto
<1>15. ASSUME NEW c \in Caller, Leave(c) PROVE WroteOf(x)'
  BY <1>15 DEF Leave, Return, Goto
<1>16. ASSUME NEW c \in Caller, Spawn(c) PROVE WroteOf(x)'
  <2>0. onDisk' = onDisk
    BY <1>16 DEF Spawn
  <2>1. CASE UNCHANGED <<cur, spawns, wk, used, pins>>
    <3>1. exposed' = exposed
      BY <1>16, <2>1 DEF Spawn, MustReevaluate, TypeW
    <3> QED
      BY <2>0, <2>1, <3>1
  <2>2. CASE ~UNCHANGED <<cur, spawns, wk, used, pins>>
    <3>1. /\ x = spawns + 1 => wk'[x].start = seg[c] /\ wk'[x].at = seg[c] /\ wk'[x].next = seg[c]
          /\ x # spawns + 1 => wk'[x] = wk[x]
          /\ cur = NoWorker
      BY <1>16, <2>2, SpawnSets DEF Sets, Same
    <3>2. seg[c] \in Int
      BY <1>16 DEF TypeC, Seg
    <3>3. x # NoWorker
      BY DEF Worker, NoWorker
    <3>4. x # spawns + 1 => wk[x].pc \notin {"run", "notify", "ended"}
      BY <3>1, <3>3 DEF WorkerOf
    <3> QED
      BY <2>0, <3>1, <3>2, <3>4 DEF Seg
  <2> QED
    BY <2>1, <2>2
<1>17. ASSUME NEW c \in Caller, ReleaseCaller(c) PROVE WroteOf(x)'
  BY <1>17 DEF ReleaseCaller, ArmIdle, MaybeDrop, Answer, Goto
<1>18. ASSUME NEW w \in Worker, Publish(w) PROVE WroteOf(x)'
  <2>1. /\ x = w => /\ wk'[x].start = wk[x].start /\ wk'[x].next = wk[x].next
                    /\ wk'[x].at = wk[x].at + 1
        /\ x # w => wk'[x] = wk[x]
    BY <1>18, PublishSets DEF Sets, Same
  <2>2. exposed' = exposed /\ onDisk' = onDisk \cup {wk[w].at} /\ wk[w].pc = "run"
    BY <1>18 DEF Publish
  <2>3. wk[x].at \in Int /\ wk[x].next \in Int /\ wk[x].start \in Int
    BY FieldTypes DEF TypeW, Seg
  <2> QED
    BY <1>18, <2>1, <2>2, <2>3 DEF Seg
<1>19. ASSUME NEW w \in Worker, Notify(w) PROVE WroteOf(x)'
  <2>1. /\ x = w => /\ wk'[x].start = wk[x].start /\ wk'[x].at = wk[x].at
                    /\ wk'[x].next = IF cur = w THEN wk[x].at ELSE wk[x].next
        /\ x # w => wk'[x] = wk[x]
    BY <1>19, NotifySets DEF Sets, Same
  <2>2. UNCHANGED <<exposed, onDisk>> /\ wk[w].pc = "notify"
    BY <1>19 DEF Notify
  <2>3. wk[x].at \in Int /\ wk[x].next \in Int
    BY FieldTypes DEF TypeW
  <2> QED
    BY <1>19, <2>1, <2>2, <2>3
<1>20. ASSUME NEW w \in Worker, NEW err \in Err, Finish(w, err) PROVE WroteOf(x)'
  <2>1. /\ x = w => wk'[x].start = wk[x].start /\ wk'[x].next = wk[x].next /\ wk'[x].at = wk[x].at
        /\ x # w => wk'[x] = wk[x]
    BY <1>20, FinishSets DEF Sets, Same
  <2>2. UNCHANGED <<exposed, onDisk>> /\ wk[w].pc = "run"
    BY <1>20 DEF Finish
  <2> QED
    BY <1>20, <2>1, <2>2
<1>21. ASSUME NEW w \in Worker, Exit(w) PROVE WroteOf(x)'
  <2>1. (x = w => wk'[x].pc = "exited") /\ (x # w => wk'[x] = wk[x])
    BY <1>21, ExitSets DEF Sets, Same
  <2>2. UNCHANGED <<exposed, onDisk>>
    BY <1>21 DEF Exit
  <2> QED
    BY <2>1, <2>2
<1>22. ASSUME NEW w \in Worker, Unpin(w) PROVE WroteOf(x)'
  <2>1. (x = w => wk'[x].pc = "gone") /\ (x # w => wk'[x] = wk[x])
    BY <1>22, UnpinSets DEF Sets, Same
  <2>2. UNCHANGED <<exposed, onDisk>>
    BY <1>22 DEF Unpin
  <2> QED
    BY <2>1, <2>2
<1>23. ASSUME TimerExpire PROVE WroteOf(x)'
  BY <1>23 DEF TimerExpire
<1>24. ASSUME NEW it \in firing, IdleCancel(it) PROVE WroteOf(x)'
  <2>1. UNCHANGED <<exposed, onDisk>>
    BY <1>24 DEF IdleCancel
  <2>2. /\ wk'[x].pc = wk[x].pc /\ wk'[x].start = wk[x].start /\ wk'[x].next = wk[x].next
        /\ wk'[x].at = wk[x].at
    BY <1>24, IdleCancelSets DEF Sets, Same
  <2> QED
    BY <2>1, <2>2
<1>25. ASSUME OtherSession PROVE WroteOf(x)'
  BY <1>25 DEF OtherSession
<1>26. ASSUME GCSnapshot PROVE WroteOf(x)'
  BY <1>26, <1>a DEF TypeD, GCSnapshot
<1>27. ASSUME GCDropIndex PROVE WroteOf(x)'
  BY <1>27, <1>a DEF TypeD, GCInv, GCDropIndex
<1>28. ASSUME GCRemoveAll PROVE WroteOf(x)'
  BY <1>28, <1>a DEF GCInv, GCRemoveAll, WorkerOf, Worker, NoWorker
<1>29. ASSUME UNCHANGED vars PROVE WroteOf(x)'
  BY <1>29 DEF vars
<1> QED
  BY <1>1, <1>2, <1>3, <1>4, <1>5, <1>6, <1>7, <1>8, <1>9, <1>10, <1>11, <1>11b, <1>12, <1>13, <1>14, <1>15,
     <1>16, <1>17, <1>18, <1>19, <1>20, <1>21, <1>22, <1>23, <1>24, <1>25, <1>26, <1>27, <1>28,
     <1>29 DEF Acts

LEMMA NextTarget == ASSUME IInv, Acts PROVE TargetInv'
<1> SUFFICES ASSUME NEW y \in Caller PROVE TargetOf(y)'
  BY DEF TargetInv
<1>a. TypeM /\ TypeT /\ TypeW /\ TypeC /\ TargetInv /\ WorkerInv /\ TargetOf(y)
  BY DEF IInv, Types, TargetInv
<1> USE <1>a, ConstantsAssumption DEF managerVars, workerVars, slotVars, diskVars, callerVars,
        TargetOf, TypeC
<1>1. ASSUME NEW c \in Caller, NEW n \in Seg, Arrive(c, n) PROVE TargetOf(y)'
  BY <1>1 DEF Arrive, Goto
<1>2. ASSUME NEW c \in Caller, MakeDir(c) PROVE TargetOf(y)'
  BY <1>2 DEF MakeDir, Goto
<1>3. ASSUME NEW c \in Caller, MakeDirFails(c) PROVE TargetOf(y)'
  BY <1>3 DEF MakeDirFails, Answer, Goto
<1>4. ASSUME NEW c \in Caller, Register(c) PROVE TargetOf(y)'
  BY <1>4 DEF Register, Goto
<1>5. ASSUME NEW c \in Caller, Open(c) PROVE TargetOf(y)'
  BY <1>5 DEF Open, Has, Goto
<1>6. ASSUME NEW c \in Caller, Touch(c) PROVE TargetOf(y)'
  BY <1>6 DEF Touch, ArmIdle, Answer, Goto
<1>7. ASSUME NEW c \in Caller, Acquire(c) PROVE TargetOf(y)'
  BY <1>7 DEF Acquire, DisarmIdle, Goto
<1>8. ASSUME NEW c \in Caller, CheckHas(c) PROVE TargetOf(y)'
  BY <1>8 DEF CheckHas, Has, Return, Goto
<1>9. ASSUME NEW c \in Caller, Decide(c) PROVE TargetOf(y)'
  <2>1. CASE ~Landed(seg[c]) /\ ~InWindow(seg[c]) /\ cur # NoWorker /\ pc' = [pc EXCEPT ![c] =
     "kill"] /\ target' = [target EXCEPT ![c] = cur]
    <3>1. cur \in Worker /\ wk[cur].produced
      BY <2>1 DEF InWindow, TypeM
    <3>2. cur <= spawns
      <4>1. wk[cur] # NoRun
        BY <3>1 DEF WorkerInv, WorkerOf, NoRun
      <4>2. ~(cur > spawns)
        BY <3>1, <4>1 DEF WorkerInv, WorkerOf
      <4> QED
        BY <3>1, <4>2 DEF TypeW, Worker
    <3>3. UNCHANGED workerVars
      BY <1>9 DEF Decide
    <3> QED
      BY <2>1, <3>1, <3>2, <3>3
  <2>2. CASE target' = target /\ \A q \in Caller : pc'[q] \in {"kill", "cancel", "waitexit"} => pc'[q] = pc[q]
    BY <1>9, <2>2 DEF Decide
  <2> QED
    BY <1>9, <2>1, <2>2 DEF Decide, Return, Goto
<1>10. ASSUME NEW c \in Caller, Woken(c) PROVE TargetOf(y)'
  BY <1>10 DEF Woken, Goto
<1>11. ASSUME NEW c \in Caller, Kill(c) PROVE TargetOf(y)'
  BY <1>11 DEF Kill, Has, Return, Goto
<1>11b. ASSUME NEW c \in Caller, Cancel(c) PROVE TargetOf(y)'
  <2>1. target[c] \in Worker
    BY <1>11b DEF Cancel, TargetInv, TargetOf
  <2>2. \A x \in Worker : wk[x].produced => wk'[x].produced
    BY <1>11b, <2>1, CancelSets DEF Sets, Same
  <2>3. /\ spawns' = spawns /\ (y # c => pc'[y] = pc[y] /\ target'[y] = target[y])
        /\ pc'[c] = "waitexit" /\ target' = target /\ pc[c] = "cancel"
    BY <1>11b DEF Cancel, Goto
  <2> QED
    BY <2>2, <2>3
<1>12. ASSUME NEW c \in Caller, GiveUp(c) PROVE TargetOf(y)'
  BY <1>12 DEF GiveUp, Has, Return, Goto
<1>13. ASSUME NEW c \in Caller, Confirm(c) PROVE TargetOf(y)'
  BY <1>13 DEF Confirm, Has, Return, Goto
<1>14. ASSUME NEW c \in Caller, Exited(c) PROVE TargetOf(y)'
  BY <1>14 DEF Exited, Goto
<1>15. ASSUME NEW c \in Caller, Leave(c) PROVE TargetOf(y)'
  BY <1>15 DEF Leave, Return, Goto
<1>16. ASSUME NEW c \in Caller, Spawn(c) PROVE TargetOf(y)'
  <2>1. target' = target /\ (pc'[y] \in {"kill", "cancel", "waitexit"} => pc'[y] = pc[y])
    BY <1>16 DEF Spawn, Return, Goto
  <2>2. CASE UNCHANGED <<cur, spawns, wk, used, pins>>
    BY <2>1, <2>2
  <2>3. CASE ~UNCHANGED <<cur, spawns, wk, used, pins>>
    <3>1. spawns' = spawns + 1 /\ \A x \in Worker : x # spawns + 1 => wk'[x] = wk[x]
      BY <1>16, <2>3, SpawnSets DEF Sets
    <3>2. spawns \in Nat
      BY DEF TypeW
    <3> QED
      BY <2>1, <3>1, <3>2 DEF Worker
  <2> QED
    BY <2>2, <2>3
<1>17. ASSUME NEW c \in Caller, ReleaseCaller(c) PROVE TargetOf(y)'
  BY <1>17 DEF ReleaseCaller, ArmIdle, MaybeDrop, Answer, Goto
<1>18. ASSUME NEW w \in Worker, Publish(w) PROVE TargetOf(y)'
  <2>1. \A x \in Worker : wk[x].produced => wk'[x].produced
    BY <1>18, PublishSets DEF Sets, Same
  <2>2. UNCHANGED <<spawns, pc, target>>
    BY <1>18 DEF Publish
  <2> QED
    BY <2>1, <2>2
<1>19. ASSUME NEW w \in Worker, Notify(w) PROVE TargetOf(y)'
  <2>1. \A x \in Worker : wk[x].produced => wk'[x].produced
    BY <1>19, NotifySets DEF Sets, Same
  <2>2. UNCHANGED <<spawns, pc, target>>
    BY <1>19 DEF Notify
  <2> QED
    BY <2>1, <2>2
<1>20. ASSUME NEW w \in Worker, NEW err \in Err, Finish(w, err) PROVE TargetOf(y)'
  <2>1. \A x \in Worker : wk[x].produced => wk'[x].produced
    BY <1>20, FinishSets DEF Sets, Same
  <2>2. UNCHANGED <<spawns, pc, target>>
    BY <1>20 DEF Finish
  <2> QED
    BY <2>1, <2>2
<1>21. ASSUME NEW w \in Worker, Exit(w) PROVE TargetOf(y)'
  <2>1. \A x \in Worker : wk[x].produced => wk'[x].produced
    BY <1>21, ExitSets DEF Sets, Same
  <2>2. UNCHANGED <<spawns, pc, target>>
    BY <1>21 DEF Exit
  <2> QED
    BY <2>1, <2>2
<1>22. ASSUME NEW w \in Worker, Unpin(w) PROVE TargetOf(y)'
  <2>1. \A x \in Worker : wk[x].produced => wk'[x].produced
    BY <1>22, UnpinSets DEF Sets, Same
  <2>2. UNCHANGED <<spawns, pc, target>>
    BY <1>22 DEF Unpin
  <2> QED
    BY <2>1, <2>2
<1>23. ASSUME TimerExpire PROVE TargetOf(y)'
  BY <1>23 DEF TimerExpire
<1>24. ASSUME NEW it \in firing, IdleCancel(it) PROVE TargetOf(y)'
  <2>1. \A x \in Worker : wk[x].produced => wk'[x].produced
    BY <1>24, IdleCancelSets DEF Sets, Same
  <2>2. UNCHANGED <<spawns, pc, target>>
    BY <1>24 DEF IdleCancel
  <2> QED
    BY <2>1, <2>2
<1>25. ASSUME OtherSession PROVE TargetOf(y)'
  BY <1>25 DEF OtherSession
<1>26. ASSUME GCSnapshot PROVE TargetOf(y)'
  BY <1>26 DEF GCSnapshot
<1>27. ASSUME GCDropIndex PROVE TargetOf(y)'
  BY <1>27 DEF GCDropIndex
<1>28. ASSUME GCRemoveAll PROVE TargetOf(y)'
  BY <1>28 DEF GCRemoveAll
<1>29. ASSUME UNCHANGED vars PROVE TargetOf(y)'
  BY <1>29 DEF vars
<1> QED
  BY <1>1, <1>2, <1>3, <1>4, <1>5, <1>6, <1>7, <1>8, <1>9, <1>10, <1>11, <1>11b, <1>12, <1>13, <1>14, <1>15,
     <1>16, <1>17, <1>18, <1>19, <1>20, <1>21, <1>22, <1>23, <1>24, <1>25, <1>26, <1>27, <1>28,
     <1>29 DEF Acts

LEMMA NextParked == ASSUME IInv, Acts PROVE ParkedInv'
<1> SUFFICES ASSUME NEW y \in Caller PROVE ParkedOf(y)'
  BY DEF ParkedInv
<1>a. TypeM /\ TypeT /\ TypeW /\ TypeC /\ TargetInv /\ WorkerInv /\ ParkedInv /\ ParkedOf(y)
  BY DEF IInv, Types, ParkedInv
<1> USE <1>a, ConstantsAssumption DEF managerVars, workerVars, slotVars, diskVars, callerVars,
        ParkedOf, ParkedInv, Landed, TypeC, TypeM
<1>1. ASSUME NEW c \in Caller, NEW n \in Seg, Arrive(c, n) PROVE ParkedOf(y)'
  BY <1>1 DEF Arrive, Goto
<1>2. ASSUME NEW c \in Caller, MakeDir(c) PROVE ParkedOf(y)'
  BY <1>2 DEF MakeDir, Goto
<1>3. ASSUME NEW c \in Caller, MakeDirFails(c) PROVE ParkedOf(y)'
  BY <1>3 DEF MakeDirFails, Answer, Goto
<1>4. ASSUME NEW c \in Caller, Register(c) PROVE ParkedOf(y)'
  BY <1>4 DEF Register, Goto
<1>5. ASSUME NEW c \in Caller, Open(c) PROVE ParkedOf(y)'
  BY <1>5 DEF Open, Has, Goto
<1>6. ASSUME NEW c \in Caller, Touch(c) PROVE ParkedOf(y)'
  BY <1>6 DEF Touch, ArmIdle, Answer, Goto
<1>7. ASSUME NEW c \in Caller, Acquire(c) PROVE ParkedOf(y)'
  BY <1>7 DEF Acquire, DisarmIdle, Goto
<1>8. ASSUME NEW c \in Caller, CheckHas(c) PROVE ParkedOf(y)'
  BY <1>8 DEF CheckHas, Has, Return, Goto
<1>9. ASSUME NEW c \in Caller, Decide(c) PROVE ParkedOf(y)'
  <2>1. UNCHANGED <<cur, wk, seg>> /\ pc[c] = "lock" /\ (y # c => pc'[y] = pc[y])
    BY <1>9 DEF Decide, Return, Goto
  <2>2. \/ parked' = parked
        \/ /\ parked' = parked \cup {c} /\ pc'[c] = "parked"
           /\ cur # NoWorker /\ ~Landed(seg[c])
    BY <1>9 DEF Decide, InWindow, Return, Goto
  <2> QED
    BY <1>9, <2>1, <2>2
<1>10. ASSUME NEW c \in Caller, Woken(c) PROVE ParkedOf(y)'
  BY <1>10 DEF Woken, Goto
<1>11. ASSUME NEW c \in Caller, Kill(c) PROVE ParkedOf(y)'
  BY <1>11 DEF Kill, Has, Return, Goto
<1>11b. ASSUME NEW c \in Caller, Cancel(c) PROVE ParkedOf(y)'
  <2>1. target[c] \in Worker
    BY <1>11b DEF Cancel, TargetInv, TargetOf
  <2>2. \A x \in Worker : wk'[x].start = wk[x].start /\ wk'[x].next = wk[x].next
    BY <1>11b, <2>1, CancelSets DEF Sets, Same
  <2>3. UNCHANGED <<cur, parked, seg>> /\ (y # c => pc'[y] = pc[y]) /\ pc[c] = "cancel"
    BY <1>11b DEF Cancel, Goto
  <2> QED
    BY <1>11b, <2>2, <2>3
<1>12. ASSUME NEW c \in Caller, GiveUp(c) PROVE ParkedOf(y)'
  BY <1>12 DEF GiveUp, Has, Return, Goto
<1>13. ASSUME NEW c \in Caller, Confirm(c) PROVE ParkedOf(y)'
  BY <1>13 DEF Confirm, Has, Return, Goto
<1>14. ASSUME NEW c \in Caller, Exited(c) PROVE ParkedOf(y)'
  BY <1>14 DEF Exited, Goto
<1>15. ASSUME NEW c \in Caller, Leave(c) PROVE ParkedOf(y)'
  BY <1>15 DEF Leave, Return, Goto
<1>16. ASSUME NEW c \in Caller, Spawn(c) PROVE ParkedOf(y)'
  <2>1. UNCHANGED <<parked, seg>> /\ (y # c => pc'[y] = pc[y]) /\ pc[c] = "spawn"
    BY <1>16 DEF Spawn, Return, Goto
  <2>2. CASE UNCHANGED <<cur, spawns, wk, used, pins>>
    BY <1>16, <2>1, <2>2
  <2>3. CASE ~UNCHANGED <<cur, spawns, wk, used, pins>>
    BY <1>16, <2>1, <2>3, SpawnSets
  <2> QED
    BY <2>2, <2>3
<1>17. ASSUME NEW c \in Caller, ReleaseCaller(c) PROVE ParkedOf(y)'
  BY <1>17 DEF ReleaseCaller, ArmIdle, MaybeDrop, Answer, Goto
<1>18. ASSUME NEW w \in Worker, Publish(w) PROVE ParkedOf(y)'
  <2>1. \A x \in Worker : wk'[x].start = wk[x].start /\ wk'[x].next = wk[x].next
    BY <1>18, PublishSets DEF Sets, Same
  <2>2. UNCHANGED <<cur, parked, pc, seg>>
    BY <1>18 DEF Publish
  <2> QED
    BY <2>1, <2>2
<1>19. ASSUME NEW w \in Worker, Notify(w) PROVE ParkedOf(y)'
  BY <1>19 DEF Notify, Wake
<1>20. ASSUME NEW w \in Worker, NEW err \in Err, Finish(w, err) PROVE ParkedOf(y)'
  <2>1. \A x \in Worker : wk'[x].start = wk[x].start /\ wk'[x].next = wk[x].next
    BY <1>20, FinishSets DEF Sets, Same
  <2>2. UNCHANGED <<cur, parked, pc, seg>>
    BY <1>20 DEF Finish
  <2> QED
    BY <2>1, <2>2
<1>21. ASSUME NEW w \in Worker, Exit(w) PROVE ParkedOf(y)'
  BY <1>21 DEF Exit, DisarmIdle, MaybeDrop, Wake
<1>22. ASSUME NEW w \in Worker, Unpin(w) PROVE ParkedOf(y)'
  <2>1. UNCHANGED <<cur, parked, pc, seg>> /\ cur # w
    BY <1>22 DEF Unpin, UnpinDue, WorkerInv, WorkerOf
  <2>2. \A x \in Worker : x # w => wk'[x] = wk[x]
    BY <1>22, UnpinSets DEF Sets
  <2> QED
    BY <2>1, <2>2
<1>23. ASSUME TimerExpire PROVE ParkedOf(y)'
  BY <1>23 DEF TimerExpire
<1>24. ASSUME NEW it \in firing, IdleCancel(it) PROVE ParkedOf(y)'
  <2>1. \A x \in Worker : wk'[x].start = wk[x].start /\ wk'[x].next = wk[x].next
    BY <1>24, IdleCancelSets DEF Sets, Same
  <2>2. UNCHANGED <<cur, parked, pc, seg>>
    BY <1>24 DEF IdleCancel
  <2> QED
    BY <2>1, <2>2
<1>25. ASSUME OtherSession PROVE ParkedOf(y)'
  BY <1>25 DEF OtherSession
<1>26. ASSUME GCSnapshot PROVE ParkedOf(y)'
  BY <1>26 DEF GCSnapshot
<1>27. ASSUME GCDropIndex PROVE ParkedOf(y)'
  BY <1>27 DEF GCDropIndex
<1>28. ASSUME GCRemoveAll PROVE ParkedOf(y)'
  BY <1>28 DEF GCRemoveAll
<1>29. ASSUME UNCHANGED vars PROVE ParkedOf(y)'
  BY <1>29 DEF vars
<1> QED
  BY <1>1, <1>2, <1>3, <1>4, <1>5, <1>6, <1>7, <1>8, <1>9, <1>10, <1>11, <1>11b, <1>12, <1>13, <1>14, <1>15,
     <1>16, <1>17, <1>18, <1>19, <1>20, <1>21, <1>22, <1>23, <1>24, <1>25, <1>26, <1>27, <1>28,
     <1>29 DEF Acts

LEMMA NextGC == ASSUME IInv, Acts PROVE GCInv'
<1>a. TypeD /\ GCInv
  BY DEF IInv, Types
<1> USE <1>a, ConstantsAssumption DEF managerVars, workerVars, slotVars, diskVars, callerVars,
        TypeD, GCInv
<1>1. ASSUME NEW c \in Caller, NEW n \in Seg, Arrive(c, n) PROVE GCInv'
  BY <1>1 DEF Arrive, Goto
<1>2. ASSUME NEW c \in Caller, MakeDir(c) PROVE GCInv'
  BY <1>2 DEF MakeDir, Goto
<1>3. ASSUME NEW c \in Caller, MakeDirFails(c) PROVE GCInv'
  BY <1>3 DEF MakeDirFails, Answer, Goto
<1>4. ASSUME NEW c \in Caller, Register(c) PROVE GCInv'
  BY <1>4 DEF Register, Goto
<1>5. ASSUME NEW c \in Caller, Open(c) PROVE GCInv'
  BY <1>5 DEF Open, Has, Goto
<1>6. ASSUME NEW c \in Caller, Touch(c) PROVE GCInv'
  BY <1>6 DEF Touch, ArmIdle, Answer, Goto
<1>7. ASSUME NEW c \in Caller, Acquire(c) PROVE GCInv'
  BY <1>7 DEF Acquire, DisarmIdle, Goto
<1>8. ASSUME NEW c \in Caller, CheckHas(c) PROVE GCInv'
  BY <1>8 DEF CheckHas, Has, Return, Goto
<1>9. ASSUME NEW c \in Caller, Decide(c) PROVE GCInv'
  BY <1>9 DEF Decide, Return, Goto
<1>10. ASSUME NEW c \in Caller, Woken(c) PROVE GCInv'
  BY <1>10 DEF Woken, Goto
<1>11. ASSUME NEW c \in Caller, Kill(c) PROVE GCInv'
  BY <1>11 DEF Kill, Has, Return, Goto
<1>11b. ASSUME NEW c \in Caller, Cancel(c) PROVE GCInv'
  BY <1>11b DEF Cancel, Running, Goto
<1>12. ASSUME NEW c \in Caller, GiveUp(c) PROVE GCInv'
  BY <1>12 DEF GiveUp, Has, Return, Goto
<1>13. ASSUME NEW c \in Caller, Confirm(c) PROVE GCInv'
  BY <1>13 DEF Confirm, Has, Return, Goto
<1>14. ASSUME NEW c \in Caller, Exited(c) PROVE GCInv'
  BY <1>14 DEF Exited, Goto
<1>15. ASSUME NEW c \in Caller, Leave(c) PROVE GCInv'
  BY <1>15 DEF Leave, Return, Goto
<1>16. ASSUME NEW c \in Caller, Spawn(c) PROVE GCInv'
  <2>1. gc' = gc /\ gcs' = gcs
    BY <1>16 DEF Spawn
  <2>2. CASE UNCHANGED <<cur, exposed>>
    BY <2>1, <2>2
  <2>3. CASE exposed' = (gc # "none")
    BY <2>1, <2>3
  <2> QED
    BY <1>16, <2>2, <2>3 DEF Spawn
<1>17. ASSUME NEW c \in Caller, ReleaseCaller(c) PROVE GCInv'
  BY <1>17 DEF ReleaseCaller, ArmIdle, MaybeDrop, Answer, Goto
<1>18. ASSUME NEW w \in Worker, Publish(w) PROVE GCInv'
  BY <1>18 DEF Publish
<1>19. ASSUME NEW w \in Worker, Notify(w) PROVE GCInv'
  BY <1>19 DEF Notify, Wake
<1>20. ASSUME NEW w \in Worker, NEW err \in Err, Finish(w, err) PROVE GCInv'
  BY <1>20 DEF Finish, ReleaseSlot
<1>21. ASSUME NEW w \in Worker, Exit(w) PROVE GCInv'
  BY <1>21 DEF Exit, DisarmIdle, MaybeDrop, Wake
<1>22. ASSUME NEW w \in Worker, Unpin(w) PROVE GCInv'
  BY <1>22 DEF Unpin, UnpinDue, NoRun
<1>23. ASSUME TimerExpire PROVE GCInv'
  BY <1>23 DEF TimerExpire
<1>24. ASSUME NEW it \in firing, IdleCancel(it) PROVE GCInv'
  BY <1>24 DEF IdleCancel, ReleaseSlot
<1>25. ASSUME OtherSession PROVE GCInv'
  BY <1>25 DEF OtherSession
<1>26. ASSUME GCSnapshot PROVE GCInv'
  <2>1. cur = NoWorker
    BY <1>26, CurrentIsPinned DEF GCSnapshot, NotPinned
  <2> QED
    BY <1>26, <2>1 DEF GCSnapshot
<1>27. ASSUME GCDropIndex PROVE GCInv'
  BY <1>27 DEF GCDropIndex
<1>28. ASSUME GCRemoveAll PROVE GCInv'
  BY <1>28 DEF GCRemoveAll
<1>29. ASSUME UNCHANGED vars PROVE GCInv'
  BY <1>29 DEF vars
<1> QED
  BY <1>1, <1>2, <1>3, <1>4, <1>5, <1>6, <1>7, <1>8, <1>9, <1>10, <1>11, <1>11b, <1>12, <1>13, <1>14, <1>15,
     <1>16, <1>17, <1>18, <1>19, <1>20, <1>21, <1>22, <1>23, <1>24, <1>25, <1>26, <1>27, <1>28,
     <1>29 DEF Acts

LEMMA NextPass == ASSUME IInv, Acts PROVE PassInv'
<1> SUFFICES ASSUME NEW y \in Caller PROVE PassOf(y)'
  BY DEF PassInv
<1>a. TypeM /\ TypeW /\ TypeC /\ TypeD /\ WorkerInv /\ WroteInv /\ GCInv /\ PassOf(y)
  BY DEF IInv, Types, PassInv
<1> USE <1>a, ConstantsAssumption DEF managerVars, workerVars, slotVars, diskVars, callerVars,
        PassOf, TypeC, TypeD, GCInv
<1>1. ASSUME NEW c \in Caller, NEW n \in Seg, Arrive(c, n) PROVE PassOf(y)'
  BY <1>1 DEF Arrive, Goto
<1>2. ASSUME NEW c \in Caller, MakeDir(c) PROVE PassOf(y)'
  BY <1>2 DEF MakeDir, Goto
<1>3. ASSUME NEW c \in Caller, MakeDirFails(c) PROVE PassOf(y)'
  BY <1>3 DEF MakeDirFails, Answer, Goto
<1>4. ASSUME NEW c \in Caller, Register(c) PROVE PassOf(y)'
  BY <1>4 DEF Register, Goto
<1>5. ASSUME NEW c \in Caller, Open(c) PROVE PassOf(y)'
  BY <1>5 DEF Open, Has, Goto
<1>6. ASSUME NEW c \in Caller, Touch(c) PROVE PassOf(y)'
  BY <1>6 DEF Touch, ArmIdle, Answer, Goto
<1>7. ASSUME NEW c \in Caller, Acquire(c) PROVE PassOf(y)'
  BY <1>7 DEF Acquire, DisarmIdle, Goto
<1>8. ASSUME NEW c \in Caller, CheckHas(c) PROVE PassOf(y)'
  BY <1>8 DEF CheckHas, Has, Return, Goto
<1>9. ASSUME NEW c \in Caller, Decide(c) PROVE PassOf(y)'
  <2>1. UNCHANGED <<gcs, indexed, onDisk, seg, pass>> /\ pc[c] = "lock"
        /\ (y # c => pc'[y] = pc[y] /\ result'[y] = result[y])
    BY <1>9 DEF Decide, Return, Goto
  <2>2. \/ Landed(seg[c]) /\ pc'[c] = "release" /\ result'[c] = "landed"
        \/ pc'[c] \in {"parked", "kill", "end", "respawn"} /\ result' = result
    BY <1>9 DEF Decide, Return, Goto
  <2>3. gcs = 0 /\ Landed(seg[c]) => seg[c] \in onDisk
    <3> SUFFICES ASSUME gcs = 0, Landed(seg[c]) PROVE seg[c] \in onDisk
      OBVIOUS
    <3>1. cur \in Worker /\ wk[cur].start <= seg[c] /\ seg[c] < wk[cur].next /\ ~exposed
      BY DEF Landed, TypeM, GCInv, TypeD
    <3>2. wk[cur].next <= wk[cur].at /\ \A n \in Seg : wk[cur].start <= n /\ n < wk[cur].at => n \in
       onDisk
      BY <3>1 DEF WorkerInv, WorkerOf, WroteInv, WroteOf
    <3>3. seg[c] \in Seg /\ seg[c] \in Int /\ wk[cur].next \in Int /\ wk[cur].at \in Int
      BY <1>9, <3>1, FieldTypes DEF TypeW, Seg
    <3>4. seg[c] < wk[cur].at
      BY <3>1, <3>2, <3>3
    <3> QED
      BY <3>1, <3>2, <3>3, <3>4
  <2> QED
    BY <1>9, <2>1, <2>2, <2>3
<1>10. ASSUME NEW c \in Caller, Woken(c) PROVE PassOf(y)'
  BY <1>10 DEF Woken, Goto
<1>11. ASSUME NEW c \in Caller, Kill(c) PROVE PassOf(y)'
  BY <1>11 DEF Kill, Has, Return, Goto
<1>11b. ASSUME NEW c \in Caller, Cancel(c) PROVE PassOf(y)'
  BY <1>11b DEF Cancel, Running, Goto
<1>12. ASSUME NEW c \in Caller, GiveUp(c) PROVE PassOf(y)'
  <2>1. /\ UNCHANGED <<gcs, indexed, onDisk, seg, pass>> /\ pc[c] = "end" /\ pc'[c] = "release"
        /\ (y # c => pc'[y] = pc[y] /\ result'[y] = result[y])
    BY <1>12 DEF GiveUp, Return, Goto
  <2>2. seen[c] \in {"nil", "failed", "canceled"}
    BY <1>12 DEF Err
  <2>3. result'[c] = CASE Has(seg[c]) -> "landed"
                       [] ~Has(seg[c]) /\ seen[c] = "nil" -> "notfound"
                       [] OTHER -> seen[c]
    BY <1>12 DEF GiveUp, Return
  <2>4. CASE Has(seg[c])
    BY <1>12, <2>1, <2>3, <2>4 DEF Has
  <2>5. CASE ~Has(seg[c])
    <3>1. result'[c] \in {"notfound", "failed", "canceled"}
      BY <2>2, <2>3, <2>5
    <3> QED
      BY <1>12, <2>1, <3>1
  <2> QED
    BY <2>4, <2>5
<1>13. ASSUME NEW c \in Caller, Confirm(c) PROVE PassOf(y)'
  BY <1>13 DEF Confirm, Has, Return, Goto
<1>14. ASSUME NEW c \in Caller, Exited(c) PROVE PassOf(y)'
  BY <1>14 DEF Exited, Goto
<1>15. ASSUME NEW c \in Caller, Leave(c) PROVE PassOf(y)'
  BY <1>15 DEF Leave, Return, Goto
<1>16. ASSUME NEW c \in Caller, Spawn(c) PROVE PassOf(y)'
  BY <1>16 DEF Spawn, MustReevaluate, Return, Goto, NoRun
<1>17. ASSUME NEW c \in Caller, ReleaseCaller(c) PROVE PassOf(y)'
  BY <1>17 DEF ReleaseCaller, ArmIdle, MaybeDrop, Answer, Goto
<1>18. ASSUME NEW w \in Worker, Publish(w) PROVE PassOf(y)'
  BY <1>18 DEF Publish
<1>19. ASSUME NEW w \in Worker, Notify(w) PROVE PassOf(y)'
  BY <1>19 DEF Notify, Wake
<1>20. ASSUME NEW w \in Worker, NEW err \in Err, Finish(w, err) PROVE PassOf(y)'
  BY <1>20 DEF Finish, ReleaseSlot
<1>21. ASSUME NEW w \in Worker, Exit(w) PROVE PassOf(y)'
  BY <1>21 DEF Exit, DisarmIdle, MaybeDrop, Wake
<1>22. ASSUME NEW w \in Worker, Unpin(w) PROVE PassOf(y)'
  BY <1>22 DEF Unpin, UnpinDue, NoRun
<1>23. ASSUME TimerExpire PROVE PassOf(y)'
  BY <1>23 DEF TimerExpire
<1>24. ASSUME NEW it \in firing, IdleCancel(it) PROVE PassOf(y)'
  BY <1>24 DEF IdleCancel, ReleaseSlot
<1>25. ASSUME OtherSession PROVE PassOf(y)'
  BY <1>25 DEF OtherSession
<1>26. ASSUME GCSnapshot PROVE PassOf(y)'
  BY <1>26 DEF GCSnapshot
<1>27. ASSUME GCDropIndex PROVE PassOf(y)'
  BY <1>27 DEF GCDropIndex
<1>28. ASSUME GCRemoveAll PROVE PassOf(y)'
  BY <1>28 DEF GCRemoveAll
<1>29. ASSUME UNCHANGED vars PROVE PassOf(y)'
  BY <1>29 DEF vars
<1> QED
  BY <1>1, <1>2, <1>3, <1>4, <1>5, <1>6, <1>7, <1>8, <1>9, <1>10, <1>11, <1>11b, <1>12, <1>13, <1>14, <1>15,
     <1>16, <1>17, <1>18, <1>19, <1>20, <1>21, <1>22, <1>23, <1>24, <1>25, <1>26, <1>27, <1>28,
     <1>29 DEF Acts

LEMMA NextTracked == ASSUME IInv, Acts PROVE TrackedWhileActive'
<1>a. TypeM /\ WorkerInv /\ WaitCount /\ TrackedWhileActive
  BY DEF IInv, Types
<1> USE <1>a, ConstantsAssumption DEF managerVars, workerVars, slotVars, diskVars, callerVars,
        TypeM, TrackedWhileActive
<1>1. ASSUME NEW c \in Caller, NEW n \in Seg, Arrive(c, n) PROVE TrackedWhileActive'
  BY <1>1 DEF Arrive, Goto
<1>2. ASSUME NEW c \in Caller, MakeDir(c) PROVE TrackedWhileActive'
  BY <1>2 DEF MakeDir, Goto
<1>3. ASSUME NEW c \in Caller, MakeDirFails(c) PROVE TrackedWhileActive'
  BY <1>3 DEF MakeDirFails, Answer, Goto
<1>4. ASSUME NEW c \in Caller, Register(c) PROVE TrackedWhileActive'
  BY <1>4 DEF Register, Goto
<1>5. ASSUME NEW c \in Caller, Open(c) PROVE TrackedWhileActive'
  BY <1>5 DEF Open, Has, Goto
<1>6. ASSUME NEW c \in Caller, Touch(c) PROVE TrackedWhileActive'
  BY <1>6 DEF Touch, ArmIdle, Answer, Goto
<1>7. ASSUME NEW c \in Caller, Acquire(c) PROVE TrackedWhileActive'
  BY <1>7, WaitsFinite DEF WaitCount, Acquire, DisarmIdle, Goto
<1>8. ASSUME NEW c \in Caller, CheckHas(c) PROVE TrackedWhileActive'
  BY <1>8 DEF CheckHas, Has, Return, Goto
<1>9. ASSUME NEW c \in Caller, Decide(c) PROVE TrackedWhileActive'
  BY <1>9 DEF Decide, Return, Goto
<1>10. ASSUME NEW c \in Caller, Woken(c) PROVE TrackedWhileActive'
  BY <1>10 DEF Woken, Goto
<1>11. ASSUME NEW c \in Caller, Kill(c) PROVE TrackedWhileActive'
  BY <1>11 DEF Kill, Has, Return, Goto
<1>11b. ASSUME NEW c \in Caller, Cancel(c) PROVE TrackedWhileActive'
  BY <1>11b DEF Cancel, Running, Goto
<1>12. ASSUME NEW c \in Caller, GiveUp(c) PROVE TrackedWhileActive'
  BY <1>12 DEF GiveUp, Has, Return, Goto
<1>13. ASSUME NEW c \in Caller, Confirm(c) PROVE TrackedWhileActive'
  BY <1>13 DEF Confirm, Has, Return, Goto
<1>14. ASSUME NEW c \in Caller, Exited(c) PROVE TrackedWhileActive'
  BY <1>14 DEF Exited, Goto
<1>15. ASSUME NEW c \in Caller, Leave(c) PROVE TrackedWhileActive'
  BY <1>15 DEF Leave, Return, Goto
<1>16. ASSUME NEW c \in Caller, Spawn(c) PROVE TrackedWhileActive'
  <2>1. waiters \in Nat /\ waiters > 0
    BY <1>16, WaiterCounts DEF Spawn, Waiting
  <2> QED
    BY <1>16, <2>1 DEF Spawn, NoWorker
<1>17. ASSUME NEW c \in Caller, ReleaseCaller(c) PROVE TrackedWhileActive'
  <2>1. waiters \in Nat /\ waiters > 0 /\ tracked
    BY <1>17, WaiterCounts DEF ReleaseCaller, Waiting
  <2>2. waiters' = waiters - 1 /\ cur' = cur
    BY <1>17 DEF ReleaseCaller
  <2>3. tracked' <=> ~(waiters - 1 = 0 /\ cur = NoWorker)
    BY <1>17, <2>1 DEF ReleaseCaller, MaybeDrop
  <2> QED
    BY <2>1, <2>2, <2>3
<1>18. ASSUME NEW w \in Worker, Publish(w) PROVE TrackedWhileActive'
  BY <1>18 DEF Publish
<1>19. ASSUME NEW w \in Worker, Notify(w) PROVE TrackedWhileActive'
  BY <1>19 DEF Notify, Wake
<1>20. ASSUME NEW w \in Worker, NEW err \in Err, Finish(w, err) PROVE TrackedWhileActive'
  BY <1>20 DEF Finish, ReleaseSlot
<1>21. ASSUME NEW w \in Worker, Exit(w) PROVE TrackedWhileActive'
  <2>1. cur = w /\ cur # NoWorker /\ waiters \in Nat
    BY <1>21, WaitsFinite DEF Exit, WorkerInv, WorkerOf, WaitCount, Worker, NoWorker
  <2>2. waiters' = waiters /\ cur' = NoWorker
    BY <1>21, <2>1 DEF Exit
  <2>3. tracked' <=> waiters # 0
    BY <1>21, <2>1 DEF Exit, MaybeDrop
  <2> QED
    BY <2>1, <2>2, <2>3
<1>22. ASSUME NEW w \in Worker, Unpin(w) PROVE TrackedWhileActive'
  BY <1>22 DEF Unpin, UnpinDue, NoRun
<1>23. ASSUME TimerExpire PROVE TrackedWhileActive'
  BY <1>23 DEF TimerExpire
<1>24. ASSUME NEW it \in firing, IdleCancel(it) PROVE TrackedWhileActive'
  BY <1>24 DEF IdleCancel, ReleaseSlot
<1>25. ASSUME OtherSession PROVE TrackedWhileActive'
  BY <1>25 DEF OtherSession
<1>26. ASSUME GCSnapshot PROVE TrackedWhileActive'
  BY <1>26 DEF GCSnapshot
<1>27. ASSUME GCDropIndex PROVE TrackedWhileActive'
  BY <1>27 DEF GCDropIndex
<1>28. ASSUME GCRemoveAll PROVE TrackedWhileActive'
  BY <1>28 DEF GCRemoveAll
<1>29. ASSUME UNCHANGED vars PROVE TrackedWhileActive'
  BY <1>29 DEF vars
<1> QED
  BY <1>1, <1>2, <1>3, <1>4, <1>5, <1>6, <1>7, <1>8, <1>9, <1>10, <1>11, <1>11b, <1>12, <1>13, <1>14, <1>15,
     <1>16, <1>17, <1>18, <1>19, <1>20, <1>21, <1>22, <1>23, <1>24, <1>25, <1>26, <1>27, <1>28,
     <1>29 DEF Acts

\* What a step may not do to a worker: time it out under a waiter.
Spares(x) == wk[x].canceled # "idle" /\ wk'[x].canceled = "idle" => waiters = 0 /\ cur = x


LEMMA NextSpares == ASSUME IInv, Acts PROVE \A x \in Worker : Spares(x)
<1>a. TypeM /\ TypeT /\ TypeW /\ TypeC /\ TargetInv /\ TimerInv
  BY DEF IInv, Types
<1> USE <1>a, ConstantsAssumption DEF managerVars, workerVars, slotVars, diskVars, callerVars,
        Spares
<1>1. ASSUME NEW c \in Caller, NEW n \in Seg, Arrive(c, n) PROVE \A x \in Worker : Spares(x)
  BY <1>1 DEF Arrive, Goto
<1>2. ASSUME NEW c \in Caller, MakeDir(c) PROVE \A x \in Worker : Spares(x)
  BY <1>2 DEF MakeDir, Goto
<1>3. ASSUME NEW c \in Caller, MakeDirFails(c) PROVE \A x \in Worker : Spares(x)
  BY <1>3 DEF MakeDirFails, Answer, Goto
<1>4. ASSUME NEW c \in Caller, Register(c) PROVE \A x \in Worker : Spares(x)
  BY <1>4 DEF Register, Goto
<1>5. ASSUME NEW c \in Caller, Open(c) PROVE \A x \in Worker : Spares(x)
  BY <1>5 DEF Open, Has, Goto
<1>6. ASSUME NEW c \in Caller, Touch(c) PROVE \A x \in Worker : Spares(x)
  BY <1>6 DEF Touch, ArmIdle, Answer, Goto
<1>7. ASSUME NEW c \in Caller, Acquire(c) PROVE \A x \in Worker : Spares(x)
  BY <1>7 DEF Acquire, DisarmIdle, Goto
<1>8. ASSUME NEW c \in Caller, CheckHas(c) PROVE \A x \in Worker : Spares(x)
  BY <1>8 DEF CheckHas, Has, Return, Goto
<1>9. ASSUME NEW c \in Caller, Decide(c) PROVE \A x \in Worker : Spares(x)
  BY <1>9 DEF Decide, Return, Goto
<1>10. ASSUME NEW c \in Caller, Woken(c) PROVE \A x \in Worker : Spares(x)
  BY <1>10 DEF Woken, Goto
<1>11. ASSUME NEW c \in Caller, Kill(c) PROVE \A x \in Worker : Spares(x)
  BY <1>11 DEF Kill, Has, Return, Goto
<1>11b. ASSUME NEW c \in Caller, Cancel(c) PROVE \A x \in Worker : Spares(x)
  <2>1. target[c] \in Worker
    BY <1>11b DEF Cancel, TargetInv, TargetOf
  <2>2. \A x \in Worker : wk'[x].canceled \in {wk[x].canceled, "seek"}
    BY <1>11b, <2>1, CancelSets DEF Sets, Same
  <2> QED
    BY <2>2
<1>12. ASSUME NEW c \in Caller, GiveUp(c) PROVE \A x \in Worker : Spares(x)
  BY <1>12 DEF GiveUp, Has, Return, Goto
<1>13. ASSUME NEW c \in Caller, Confirm(c) PROVE \A x \in Worker : Spares(x)
  BY <1>13 DEF Confirm, Has, Return, Goto
<1>14. ASSUME NEW c \in Caller, Exited(c) PROVE \A x \in Worker : Spares(x)
  BY <1>14 DEF Exited, Goto
<1>15. ASSUME NEW c \in Caller, Leave(c) PROVE \A x \in Worker : Spares(x)
  BY <1>15 DEF Leave, Return, Goto
<1>16. ASSUME NEW c \in Caller, Spawn(c) PROVE \A x \in Worker : Spares(x)
  <2>1. CASE UNCHANGED <<cur, spawns, wk, used, pins>>
    BY <2>1
  <2>2. CASE ~UNCHANGED <<cur, spawns, wk, used, pins>>
    <3>1. \A x \in Worker : wk'[x].canceled \in {wk[x].canceled, "no"}
      BY <1>16, <2>2, SpawnSets DEF Sets, Same
    <3> QED
      BY <3>1
  <2> QED
    BY <2>1, <2>2
<1>17. ASSUME NEW c \in Caller, ReleaseCaller(c) PROVE \A x \in Worker : Spares(x)
  BY <1>17 DEF ReleaseCaller, ArmIdle, MaybeDrop, Answer, Goto
<1>18. ASSUME NEW w \in Worker, Publish(w) PROVE \A x \in Worker : Spares(x)
  <2>1. \A x \in Worker : wk'[x].canceled \in {wk[x].canceled, "no"}
    BY <1>18, PublishSets DEF Sets, Same
  <2> QED
    BY <2>1
<1>19. ASSUME NEW w \in Worker, Notify(w) PROVE \A x \in Worker : Spares(x)
  <2>1. \A x \in Worker : wk'[x].canceled \in {wk[x].canceled, "no"}
    BY <1>19, NotifySets DEF Sets, Same
  <2> QED
    BY <2>1
<1>20. ASSUME NEW w \in Worker, NEW err \in Err, Finish(w, err) PROVE \A x \in Worker : Spares(x)
  <2>1. \A x \in Worker : wk'[x].canceled \in {wk[x].canceled, "no"}
    BY <1>20, FinishSets DEF Sets, Same
  <2> QED
    BY <2>1
<1>21. ASSUME NEW w \in Worker, Exit(w) PROVE \A x \in Worker : Spares(x)
  <2>1. \A x \in Worker : wk'[x].canceled \in {wk[x].canceled, "no"}
    BY <1>21, ExitSets DEF Sets, Same
  <2> QED
    BY <2>1
<1>22. ASSUME NEW w \in Worker, Unpin(w) PROVE \A x \in Worker : Spares(x)
  <2>1. \A x \in Worker : wk'[x].canceled \in {wk[x].canceled, "no"}
    BY <1>22, UnpinSets DEF Sets, Same
  <2> QED
    BY <2>1
<1>23. ASSUME TimerExpire PROVE \A x \in Worker : Spares(x)
  BY <1>23 DEF TimerExpire
<1>24. ASSUME NEW it \in firing, IdleCancel(it) PROVE \A x \in Worker : Spares(x)
  <2>1. CASE UNCHANGED <<idle, used, wk>>
    BY <2>1
  <2>2. CASE ~UNCHANGED <<idle, used, wk>>
    <3>1. /\ it.wk \in Worker /\ idle = it
          /\ \A x \in Worker : x # it.wk => wk'[x] = wk[x]
      BY <1>24, <2>2, IdleCancelSets DEF Sets
    <3>2. waiters = 0 /\ cur = it.wk
      BY <1>24, <3>1 DEF TypeT, TimerInv, Disarmed
    <3> QED
      BY <3>1, <3>2
  <2> QED
    BY <2>1, <2>2
<1>25. ASSUME OtherSession PROVE \A x \in Worker : Spares(x)
  BY <1>25 DEF OtherSession
<1>26. ASSUME GCSnapshot PROVE \A x \in Worker : Spares(x)
  BY <1>26 DEF GCSnapshot
<1>27. ASSUME GCDropIndex PROVE \A x \in Worker : Spares(x)
  BY <1>27 DEF GCDropIndex
<1>28. ASSUME GCRemoveAll PROVE \A x \in Worker : Spares(x)
  BY <1>28 DEF GCRemoveAll
<1>29. ASSUME UNCHANGED vars PROVE \A x \in Worker : Spares(x)
  BY <1>29 DEF vars
<1> QED
  BY <1>1, <1>2, <1>3, <1>4, <1>5, <1>6, <1>7, <1>8, <1>9, <1>10, <1>11, <1>11b, <1>12, <1>13, <1>14, <1>15,
     <1>16, <1>17, <1>18, <1>19, <1>20, <1>21, <1>22, <1>23, <1>24, <1>25, <1>26, <1>27, <1>28,
     <1>29 DEF Acts

-----------------------------------------------------------------------------
(* The theorems.                                                           *)

LEMMA InitIInv == Init => IInv
<1> SUFFICES ASSUME Init PROVE IInv
  OBVIOUS
<1> USE ConstantsAssumption DEF Init
<1>1. 0 \in Seg /\ 0 \in 0 .. Segments /\ 0 \in 0 .. Slots /\ 0 \in 0 .. MaxSpawns /\ 0 \in 0 ..
        MaxGC
  BY DEF Seg
<1>2. TypeM /\ TypeT
  BY FS_EmptySet DEF TypeM, TypeT, Err, Disarmed, NoWorker
<1>3. NoRun \in WorkerRec
  BY <1>1 DEF NoRun, WorkerRec, WorkerPC, Err
<1>4. TypeW
  BY <1>1, <1>3 DEF TypeW
<1>5. TypeD
  BY <1>1 DEF TypeD
<1>6. TypeC
  BY <1>1 DEF TypeC, CallerPC, Err, Outcome, NoWorker
<1>7. Waits = {} /\ Pinners = {} /\ Holders = {}
  BY DEF Waits, Waiting, Pinners, Holders, NoRun
<1>8. WaitCount /\ PinCount /\ SlotCount
  BY <1>1, <1>7, FS_EmptySet DEF WaitCount, PinCount, SlotCount
<1>9. TimerInv /\ TargetInv /\ ParkedInv /\ GCInv /\ TrackedWhileActive
  BY DEF TimerInv, TargetInv, TargetOf, ParkedInv, ParkedOf, GCInv, TrackedWhileActive
<1>10. WorkerInv /\ WroteInv
  BY DEF WorkerInv, WorkerOf, WroteInv, WroteOf, NoRun, Worker, NoWorker
<1>11. PassInv
  BY DEF PassInv, PassOf
<1> QED
  BY <1>2, <1>4, <1>5, <1>6, <1>8, <1>9, <1>10, <1>11 DEF IInv, Types

\* The inductive invariant: types, the three counters, and what holds of the
\* timer, each worker and each request (internal/hls/manager.go: Segment,
\* notify, exit, acquire, release, idleCancel).
THEOREM ManagerInvariant == Spec => []IInv
<1>1. IInv /\ [Next]_vars => IInv'
  <2> SUFFICES ASSUME IInv, [Next]_vars PROVE IInv'
    OBVIOUS
  <2>1. Acts
    BY StepActs
  <2>2. Types'
    BY <2>1, NextM, NextT, NextW, NextD, NextC DEF Types
  <2> QED
    BY <2>1, <2>2, NextCounts, NextTimer, NextWorker, NextWrote, NextTarget, NextParked, NextGC,
       NextPass,
       NextTracked DEF IInv
<1> QED
  BY InitIInv, <1>1, PTL DEF Spec

\* A variant's worker is one, known to the manager and pinned until after its
\* exit, and no seek stops it before its first segment landed, whatever
\* requests race, seek, leave or come back (Segment, exit, hlsSpawner).
THEOREM WorkersAreSoundHolds == Spec => []WorkersAreSound
<1>1. ASSUME IInv PROVE TypeOK
  <2>1. waiters \in Nat /\ pins \in Nat
    BY <1>1, WaitsFinite, PinnersFinite DEF IInv, WaitCount, PinCount
  <2>2. others \in 0 .. Slots /\ used \in 0 .. Slots
    BY <1>1, HoldersFinite, ConstantsAssumption DEF IInv, SlotCount
  <2> QED
    BY <1>1, <2>1, <2>2 DEF IInv, Types, TypeM, TypeT, TypeW, TypeD, TypeC, TypeOK, WorkerRec
<1>2. ASSUME IInv PROVE OneWorker /\ SeekSparesUnproduced
  BY <1>2 DEF IInv, WorkerInv, WorkerOf, OneWorker, SeekSparesUnproduced
<1>3. ASSUME IInv, cur # NoWorker PROVE pins > 0
  BY <1>3, CurrentIsPinned
<1>4. IInv => WorkersAreSound
  BY <1>1, <1>2, <1>3 DEF WorkersAreSound, RunningIsPinned
<1> QED
  BY <1>4, ManagerInvariant, PTL

\* Every live slot has one owner, the bookkeeping exists exactly while someone
\* waits or works, and whoever is parked is parked on a worker that will wake
\* it (acquire, release, exit, wake).
THEOREM NothingIsLostHolds == Spec => []NothingIsLost
<1>1. IInv => NothingIsLost
  BY DEF IInv, Types, TypeM, SlotCount, Holders, ParkedInv, ParkedOf, NothingIsLost, SlotsConserved,
     ParkedHasWaker
<1> QED
  BY <1>1, ManagerInvariant, PTL

\* What the manager counts as landed is on disk unless a gc run was already
\* under way when the worker started, and without an eviction no request is
\* told that its segment was evicted (Segment, Store.gc, handleHLSSegment).
THEOREM EvictionExplainsHolds == Spec => []EvictionExplains
<1>1. ASSUME IInv, ~exposed, NEW n \in Seg, Landed(n) PROVE Has(n)
  <2>1. cur \in Worker /\ wk[cur].start <= n /\ n < wk[cur].next
    BY <1>1 DEF IInv, Types, TypeM, Landed
  <2>2. wk[cur].next <= wk[cur].at /\ \A m \in Seg : wk[cur].start <= m /\ m < wk[cur].at => m \in
     onDisk
    BY <1>1, <2>1 DEF IInv, WorkerInv, WorkerOf, WroteInv, WroteOf
  <2>3. n \in Int /\ wk[cur].next \in Int /\ wk[cur].at \in Int
    BY <1>1, <2>1, FieldTypes DEF IInv, Types, TypeW, Seg
  <2> QED
    BY <1>1, <2>1, <2>2, <2>3 DEF Has
<1>2. ASSUME IInv PROVE EvictedNeedsGC
  BY <1>2 DEF IInv, PassInv, PassOf, EvictedNeedsGC
<1>3. IInv => EvictionExplains
  BY <1>1, <1>2 DEF EvictionExplains, LandedIsOnDisk
<1> QED
  BY <1>3, ManagerInvariant, PTL

\* The idle timeout cancels a worker only while nobody waits on its variant
\* (acquire's disarm, idleCancel's check).
THEOREM IdleSparesWaitersHolds == Spec => IdleSparesWaiters
<1>1. ASSUME IInv, [Next]_vars
      PROVE  [\A w \in Worker : wk[w].canceled # "idle" /\ wk'[w].canceled = "idle"
                 => waiters = 0 /\ cur = w]_vars
  BY <1>1, StepActs, NextSpares DEF Spares
<1>2. Spec => [][\A w \in Worker : wk[w].canceled # "idle" /\ wk'[w].canceled = "idle"
                   => waiters = 0 /\ cur = w]_vars
  BY <1>1, ManagerInvariant, PTL DEF Spec
<1> QED
  BY <1>2 DEF IdleSparesWaiters
=============================================================================
