---------------------------- MODULE StreamHandler ----------------------------
(***************************************************************************)
(* The progressive stream handler (server/stream.go): serveViaCache,       *)
(* startPipeline and serveLive for one cache key, over the store's index   *)
(* and registry, the flight group, the live slots and the server's         *)
(* shutdown (server.go: Close, startWork).                                 *)
(*                                                                         *)
(* The in-flight entry is the one of module CacheEntry with its bytes left *)
(* out: whether it is written, promoted, ended, ring-fed, abandoned, and   *)
(* who reads it.  An eviction is one step here.  A request asks once; the  *)
(* name of an entry is used again once nothing refers to it.               *)
(***************************************************************************)
EXTENDS Naturals, FiniteSets

CONSTANTS
    Request,   \* the requests for the key
    Entry,     \* names for the in-flight entries
    None,
    Slots,     \* live admission slots
    Tries,     \* how often serveViaCache tries (3 in the code)
    MaxEvict   \* bound: evictions of the key

ASSUME StreamAssumption ==
    /\ None \notin Request \cup Entry
    /\ Slots \in Nat \ {0} /\ Tries \in Nat \ {0} /\ MaxEvict \in Nat

VARIABLES
    index,    \* a completed entry is indexed under the key
    evicted,  \* how often it was evicted
    writing,  \* s.writing[key]
    state,    \* each entry: "free", "writing", "promoting" (still stateWriting,
              \* the lock released), "complete", "failed"
    mem,      \* entries without a file (NewMemEntry): no store, no idle timer
    ring,     \* degraded: "no", "fresh" (offset zero is there), "full" (the
              \* writer waits for space), "moved" (offset zero is gone)
    abandoned,\* entries abandoned for want of readers
    idle,     \* entries whose idle timer is armed
    readers,  \* who reads an entry
    attached, \* entries a reader ever attached to (everAttached)
    run,      \* each entry's pipeline: "none", "running", "ended" (its deferred
              \* calls are left), "done"
    slot,     \* entries whose release has not run
    leader,   \* the request that executes the flight, or None
    pc,       \* each request
    ent,      \* the entry a request was handed, or None
    tries,    \* the iterations it has begun
    shaken,   \* who was asking when the entry was lost: to an eviction, an
              \* abandonment, a degradation, a completion that caches nothing
              \* (a history variable)
    closing,  \* s.closing
    closed    \* Close's wait is over

store  == <<index, evicted, writing>>
entry  == <<state, mem, ring, abandoned, idle, attached>>
asks   == <<pc, ent, tries>>
shut   == <<closing, closed>>
vars   == <<store, entry, readers, run, slot, leader, asks, shaken, shut>>

Init ==
    /\ index = FALSE  \* a cached key is a completed one
    /\ evicted = 0
    /\ writing = None
    /\ state = [e \in Entry |-> "free"]
    /\ mem = {} /\ abandoned = {} /\ idle = {} /\ attached = {} /\ slot = {}
    /\ ring = [e \in Entry |-> "no"]
    /\ readers = [e \in Entry |-> {}]
    /\ run = [e \in Entry |-> "none"]
    /\ leader = None
    /\ pc = [r \in Request |-> "idle"]
    /\ ent = [r \in Request |-> None]
    /\ tries = [r \in Request |-> 0]
    /\ shaken = {}
    /\ closing = FALSE /\ closed = FALSE

Asking(r) == pc[r] \notin {"idle", "done"}

\* The key's entry was lost under the requests that ask now.
Shake == shaken' = shaken \cup {r \in Request : Asking(r)}

Ended(e) == state[e] \in {"complete", "failed"}

\* maybeRelease: an ended entry without readers has nothing left to read.
Released(e) == Ended(e) /\ readers[e] = {}

-----------------------------------------------------------------------------
(* serveViaCache.                                                          *)

Begins(r) ==
    /\ pc[r] = "idle"
    /\ pc' = [pc EXCEPT ![r] = "lookup"]
    /\ tries' = [tries EXCEPT ![r] = 1]
    /\ UNCHANGED <<store, entry, readers, run, slot, leader, ent, shaken, shut>>

Answers(r) ==
    /\ pc' = [pc EXCEPT ![r] = "done"]
    /\ ent' = [ent EXCEPT ![r] = None]
    /\ tries' = [tries EXCEPT ![r] = 0]
    /\ shaken' = shaken \ {r}

\* The complete entry is served, whatever was asked.
ServesCached(r) ==
    /\ pc[r] = "lookup" /\ index
    /\ Answers(r)
    /\ UNCHANGED <<store, entry, readers, run, slot, leader, shut>>

\* Nothing is cached: a HEAD gets the plan's headers and a range with a nonzero
\* offset a 416, neither with a pipeline.
AnswersWithoutWork(r) ==
    /\ pc[r] = "lookup" /\ ~index /\ tries[r] = 1
    /\ Answers(r)
    /\ UNCHANGED <<store, entry, readers, run, slot, leader, shut>>

Misses(r) ==
    /\ pc[r] = "lookup" /\ ~index
    /\ pc' = [pc EXCEPT ![r] = "do"]
    /\ UNCHANGED <<store, entry, readers, run, slot, leader, ent, tries, shaken, shut>>

\* The flight: the first caller executes, the others wait for its result.
Do(r) ==
    /\ pc[r] = "do"
    /\ leader' = IF leader = None THEN r ELSE leader
    /\ pc' = [pc EXCEPT ![r] = IF leader = None THEN "inflight" ELSE "wait"]
    /\ UNCHANGED <<store, entry, readers, run, slot, ent, tries, shaken, shut>>

LastTry_Early(r) == tries[r] >= Tries - 1

LastTry(r) == tries[r] >= Tries

\* Where a request goes when its try came to nothing.
Again(r) == IF LastTry(r) THEN "flap" ELSE "lookup"

InTheFlight(r) == pc[r] = "wait" \/ r = leader

\* The flight's function returned entry e, or None for a completion it raced.
FlightReturns(e) ==
    /\ leader' = None
    /\ pc' = [r \in Request |->
                IF ~InTheFlight(r) THEN pc[r] ELSE IF e # None THEN "attach" ELSE Again(r)]
    /\ tries' = [r \in Request |->
                IF InTheFlight(r) /\ e = None /\ ~LastTry(r) THEN tries[r] + 1 ELSE tries[r]]
    /\ ent' = [r \in Request |-> IF InTheFlight(r) THEN e ELSE ent[r]]
    /\ UNCHANGED shaken

\* The flight's function failed: every caller answers its error.
FlightFails ==
    /\ leader' = None
    /\ pc' = [r \in Request |-> IF InTheFlight(r) THEN "done" ELSE pc[r]]
    /\ tries' = [r \in Request |-> IF InTheFlight(r) THEN 0 ELSE tries[r]]
    /\ shaken' = {r \in shaken : ~InTheFlight(r)}
    /\ UNCHANGED ent

InFlight_Skipped == None

\* store.InFlight.
InFlight == writing

FnInFlight(r) ==
    /\ pc[r] = "inflight"
    /\ IF InFlight # None
       THEN FlightReturns(InFlight)
       ELSE /\ pc' = [pc EXCEPT ![r] = "contains"]
            /\ UNCHANGED <<leader, ent, tries, shaken>>
    /\ UNCHANGED <<store, entry, readers, run, slot, shut>>

\* Contains: the entry completed since the Lookup.
Raced == index

FnContains(r) ==
    /\ pc[r] = "contains"
    /\ IF Raced
       THEN FlightReturns(None)
       ELSE /\ pc' = [pc EXCEPT ![r] = "begin"]
            /\ UNCHANGED <<leader, ent, tries, shaken>>
    /\ UNCHANGED <<store, entry, readers, run, slot, shut>>

FnOverloaded(r) ==
    /\ pc[r] = "begin" /\ Cardinality(slot) >= Slots
    /\ FlightFails
    /\ UNCHANGED <<store, entry, readers, run, slot, shut>>

\* Nothing refers to the name e any more.
Unused(e) ==
    /\ run[e] \in {"none", "done"} /\ readers[e] = {} /\ writing # e
    /\ \A r \in Request : ent[r] # e

\* A slot, then Begin; or, on a volume that will not open a file, NewMemEntry.
FnBegin(r, file) ==
    LET e == CHOOSE x \in Entry : Unused(x) IN
    /\ pc[r] = "begin" /\ Cardinality(slot) < Slots
    /\ \E x \in Entry : Unused(x)
    /\ slot' = slot \cup {e}
    /\ state' = [state EXCEPT ![e] = "writing"]
    /\ mem' = IF file THEN mem \ {e} ELSE mem \cup {e}
    /\ ring' = [ring EXCEPT ![e] = IF file THEN "no" ELSE "fresh"]
    /\ abandoned' = abandoned \ {e} /\ attached' = attached \ {e} /\ idle' = idle \ {e}
    /\ run' = [run EXCEPT ![e] = "none"]
    /\ writing' = IF file THEN e ELSE writing
    /\ ent' = [ent EXCEPT ![r] = e]
    /\ pc' = [pc EXCEPT ![r] = "start"]
    /\ UNCHANGED <<index, evicted, readers, leader, tries, shaken, shut>>

StartWork_Unlocked == TRUE

\* startWork: refused once Close has begun.
StartWork == ~closing

\* startPipeline: its goroutine runs, and the entry goes to every caller.
FnStart(r) ==
    LET e == ent[r] IN
    /\ pc[r] = "start" /\ StartWork
    /\ run' = [run EXCEPT ![e] = "running"]
    /\ FlightReturns(e)
    /\ UNCHANGED <<store, entry, readers, slot, shut>>

\* unregister: only what is registered itself.
Forget(e) == IF writing = e THEN None ELSE writing

\* ... or nothing runs: the entry fails, and the slot goes back.
FnRefused(r) ==
    LET e == ent[r] IN
    /\ pc[r] = "start" /\ ~StartWork
    /\ state' = [state EXCEPT ![e] = "failed"]
    /\ writing' = Forget(e)
    /\ slot' = slot \ {e}
    /\ FlightReturns(e)
    /\ UNCHANGED <<index, evicted, mem, ring, abandoned, idle, attached, readers, run, shut>>

\* NewReader.
Joinable(e) == ~Released(e) /\ e \notin abandoned /\ ring[e] # "moved"

Attach(r) ==
    LET e == ent[r] IN
    /\ pc[r] = "attach" /\ Joinable(e)
    /\ readers' = [readers EXCEPT ![e] = @ \cup {r}]
    /\ attached' = attached \cup {e}
    /\ idle' = idle \ {e}
    /\ pc' = [pc EXCEPT ![r] = "serve"]
    /\ UNCHANGED <<store, state, mem, ring, abandoned, run, slot, leader, ent, tries, shaken, shut>>

\* The entry died first: a failure of its own is the answer, anything else is
\* tried again.
Unjoinable(r) ==
    LET e == ent[r] IN
    /\ pc[r] = "attach" /\ ~Joinable(e)
    /\ IF state[e] = "failed" /\ e \notin abandoned
       THEN Answers(r)
       ELSE /\ pc' = [pc EXCEPT ![r] = Again(r)]
            /\ tries' = [tries EXCEPT ![r] = IF LastTry(r) THEN @ ELSE @ + 1]
            /\ ent' = [ent EXCEPT ![r] = None]
            /\ UNCHANGED shaken
    /\ UNCHANGED <<store, entry, readers, run, slot, leader, shut>>

Flapping(r) ==
    /\ pc[r] = "flap"
    /\ Answers(r)
    /\ UNCHANGED <<store, entry, readers, run, slot, leader, shut>>

\* serveLive ends: the entry ended and was drained, or the client left or
\* stalled.  The last reader to go arms the idle timer.
Leaves(r, a) ==
    LET e == ent[r] IN
    /\ pc[r] = "serve"
    /\ a \in {"whole", "error"} => state[e] = IF a = "whole" THEN "complete" ELSE "failed"
    /\ readers' = [readers EXCEPT ![e] = @ \ {r}]
    /\ idle' = IF readers[e] = {r} /\ e \notin mem \cup abandoned /\ ~Ended(e)
               THEN idle \cup {e} ELSE idle
    /\ Answers(r)
    /\ UNCHANGED <<store, state, mem, ring, abandoned, attached, run, slot, leader, shut>>

-----------------------------------------------------------------------------
(* The pipeline and its entry.                                             *)

\* A cache write fails: ring-fed from here, and nobody new finds it.
Degrade(e) ==
    /\ run[e] = "running" /\ state[e] = "writing" /\ ring[e] = "no" /\ e \notin abandoned
    /\ ring' = [ring EXCEPT ![e] = "fresh"]
    /\ writing' = Forget(e)
    /\ Shake
    /\ UNCHANGED <<index, evicted, state, mem, abandoned, idle, attached, readers, run, slot, leader, asks, shut>>

\* The ring fills up, and the writer waits ...
RingFills(e) ==
    /\ run[e] = "running" /\ state[e] = "writing" /\ ring[e] = "fresh" /\ e \notin abandoned
    /\ ring' = [ring EXCEPT ![e] = "full"]
    /\ UNCHANGED <<store, state, mem, abandoned, idle, attached, readers, run, slot, leader, asks, shaken, shut>>

\* ... until its readers have consumed something.
RingDrains(e) ==
    /\ run[e] = "running" /\ state[e] = "writing" /\ ring[e] \in {"fresh", "full"} /\ readers[e] # {}
    /\ ring' = [ring EXCEPT ![e] = "moved"]
    /\ Shake
    /\ UNCHANGED <<store, state, mem, abandoned, idle, attached, readers, run, slot, leader, asks, shut>>

\* abandon: forgotten, its slot given back, its run cancelled.
Abandon(e) ==
    /\ abandoned' = abandoned \cup {e}
    /\ idle' = idle \ {e}
    /\ writing' = Forget(e)
    /\ slot' = slot \ {e}
    /\ Shake
    /\ UNCHANGED <<index, evicted, mem, ring, attached, readers, leader, asks, shut>>

\* The idle timer's callback, still the armed one.
IdleFires(e) ==
    /\ e \in idle
    /\ Abandon(e)
    /\ UNCHANGED <<state, run>>

GivesUp_Never(e) == FALSE

GivesUp(e) == e \in attached /\ readers[e] = {} /\ e \notin abandoned

\* A writer that finds its ring full and its readers gone gives up.
RingAbandons(e) ==
    /\ run[e] = "running" /\ state[e] = "writing" /\ ring[e] \in {"full", "moved"}
    /\ GivesUp(e)
    /\ Abandon(e)
    /\ state' = [state EXCEPT ![e] = "failed"]
    /\ run' = [run EXCEPT ![e] = "ended"]

\* The writer is not waiting for ring space; an abandonment wakes it.
Moves(e) == ring[e] # "full" \/ e \in abandoned

\* The run fails, is cancelled, or finds its entry abandoned.
RunFails(e) ==
    /\ run[e] = "running" /\ state[e] = "writing" /\ Moves(e)
    /\ state' = [state EXCEPT ![e] = "failed"]
    /\ idle' = idle \ {e}
    /\ writing' = Forget(e)
    /\ run' = [run EXCEPT ![e] = "ended"]
    /\ UNCHANGED <<index, evicted, mem, ring, abandoned, attached, readers, slot, leader, asks, shaken, shut>>

\* The run succeeds: Complete promotes a file with the entry's lock let go.
Promotes(e) ==
    /\ run[e] = "running" /\ state[e] = "writing" /\ ring[e] = "no" /\ e \notin abandoned
    /\ state' = [state EXCEPT ![e] = "promoting"]
    /\ idle' = idle \ {e}
    /\ UNCHANGED <<store, mem, ring, abandoned, attached, readers, run, slot, leader, asks, shaken, shut>>

\* promote's index update, or its failure, which degrades the entry.
Indexed(e) ==
    /\ state[e] = "promoting" /\ ring[e] = "no" /\ run[e] = "running"
    /\ index' = TRUE
    /\ run' = [run EXCEPT ![e] = "promoted"]
    /\ UNCHANGED <<evicted, writing, entry, readers, slot, leader, asks, shaken, shut>>

PromoteFails(e) ==
    /\ state[e] = "promoting" /\ ring[e] = "no" /\ run[e] = "running"
    /\ ring' = [ring EXCEPT ![e] = "fresh"]
    /\ run' = [run EXCEPT ![e] = "promoted"]
    /\ writing' = Forget(e)
    /\ Shake
    /\ UNCHANGED <<index, evicted, state, mem, abandoned, idle, attached, readers, slot, leader, asks, shut>>

\* Complete's last section; a ring-fed entry comes here at once, and
\* leaves nothing behind.
Completes(e) ==
    /\ \/ run[e] = "promoted"
       \/ run[e] = "running" /\ state[e] = "writing" /\ ring[e] \in {"fresh", "moved"} /\ e \notin abandoned
    /\ state' = [state EXCEPT ![e] = "complete"]
    /\ idle' = idle \ {e}
    /\ writing' = Forget(e)
    /\ run' = [run EXCEPT ![e] = "ended"]
    /\ IF ring[e] # "no" THEN Shake ELSE UNCHANGED shaken
    /\ UNCHANGED <<index, evicted, mem, ring, abandoned, attached, readers, slot, leader, asks, shut>>

\* The goroutine's deferred calls: the slot, then wg.Done.
Unwind(e) == slot \ {e}

RunExits(e) ==
    /\ run[e] = "ended"
    /\ slot' = Unwind(e)
    /\ run' = [run EXCEPT ![e] = "done"]
    /\ UNCHANGED <<store, entry, readers, leader, asks, shaken, shut>>

Evicts ==
    /\ index /\ evicted < MaxEvict
    /\ index' = FALSE
    /\ evicted' = evicted + 1
    /\ Shake
    /\ UNCHANGED <<writing, entry, readers, run, slot, leader, asks, shut>>

-----------------------------------------------------------------------------
(* Server.Close.                                                           *)

Running(e) == run[e] \in {"running", "promoted", "ended"}

CloseBegins ==
    /\ ~closing
    /\ closing' = TRUE
    /\ UNCHANGED <<store, entry, readers, run, slot, leader, asks, shaken, closed>>

\* wg.Wait returns.
CloseEnds ==
    /\ closing /\ ~closed /\ \A e \in Entry : ~Running(e)
    /\ closed' = TRUE
    /\ UNCHANGED <<store, entry, readers, run, slot, leader, asks, shaken, closing>>

AskStep(r) ==
    \/ ServesCached(r) \/ AnswersWithoutWork(r) \/ Misses(r) \/ Do(r) \/ FnInFlight(r) \/ FnContains(r) \/ FnOverloaded(r)
    \/ (\E file \in BOOLEAN : FnBegin(r, file))
    \/ FnStart(r) \/ FnRefused(r) \/ Attach(r) \/ Unjoinable(r) \/ Flapping(r)
    \/ (\E a \in {"whole", "error"} : Leaves(r, a))

RunStep(e) ==
    \/ RunFails(e) \/ Promotes(e) \/ Indexed(e) \/ PromoteFails(e) \/ Completes(e) \/ RunExits(e)
    \/ RingDrains(e) \/ RingAbandons(e)

Next ==
    \/ \E r \in Request : Begins(r) \/ AskStep(r) \/ Leaves(r, "gone")
    \/ \E e \in Entry : RunStep(e) \/ Degrade(e) \/ RingFills(e) \/ IdleFires(e)
    \/ Evicts \/ CloseBegins \/ CloseEnds

Spec == Init /\ [][Next]_vars

(***************************************************************************)
(* Fairness: handlers and pipelines are goroutines that run; a pipeline's  *)
(* work is finite, and a reader that stays drains its entry.               *)
(* Nothing obliges a request to come, a client to leave, or a disk to fail.*)
(***************************************************************************)
FairSpec ==
    /\ Spec
    /\ \A r \in Request : WF_vars(AskStep(r))
    /\ \A e \in Entry : WF_vars(RunStep(e))

-----------------------------------------------------------------------------
TypeOK ==
    /\ index \in BOOLEAN /\ evicted \in 0 .. MaxEvict
    /\ writing \in Entry \cup {None}
    /\ state \in [Entry -> {"free", "writing", "promoting", "complete", "failed"}]
    /\ ring \in [Entry -> {"no", "fresh", "full", "moved"}]
    /\ mem \subseteq Entry /\ abandoned \subseteq Entry /\ idle \subseteq Entry
    /\ attached \subseteq Entry /\ slot \subseteq Entry
    /\ readers \in [Entry -> SUBSET Request]
    /\ run \in [Entry -> {"none", "running", "promoted", "ended", "done"}]
    /\ leader \in Request \cup {None}
    /\ ent \in [Request -> Entry \cup {None}]
    /\ tries \in [Request -> 0 .. Tries]
    /\ shaken \subseteq Request
    /\ Cardinality(slot) <= Slots

\* Does the entry's pipeline still encode for the cache?
Encodes(e) == Running(e) /\ ~Ended(e) /\ ring[e] = "no" /\ e \notin abandoned

\* One encode per key: whatever requests race, leave or come back, no two live
\* pipelines encode the key for the cache (the flight, Begin's registration,
\* unregister only of one's own).
OneEncode == \A e, f \in Entry : Encodes(e) /\ Encodes(f) => e = f

\* What is registered can be attached to: the registry never holds an entry
\* that ended, moved on or was abandoned, so a request the flight hands it is
\* turned away only by what happens afterwards (unregister on every end).
RegisteredIsLive == writing # None => ~Ended(writing) /\ Joinable(writing)

\* A slot is held only for a pipeline that runs or is about to, and every
\* running pipeline that was not abandoned holds one: none leaks and none is
\* given back under a run that still uses it (release on every path).
SlotsAreUsed ==
    \A e \in Entry :
        /\ e \in slot => Running(e) \/ \E r \in Request : pc[r] = "start" /\ ent[r] = e
        /\ Running(e) /\ e \notin abandoned => e \in slot

\* "Stream slot flapping" is heard only by a request under which the entry
\* was lost to an eviction, an abandonment, a degradation or an uncached
\* completion: what was in flight when it came costs it one try and a
\* completion it races another, and the third finds the promoted entry (the
\* retry loop's bound; promote before unregister).
FlappingNeedsLoss == \A r \in Request : pc[r] = "flap" => r \in shaken

\* Once Close's wait is over no pipeline runs (startWork under closeMu).
ClosedIsQuiet == closed => \A e \in Entry : ~Running(e)

\* Every request that comes is answered, every pipeline ends and every slot
\* comes back, again and again: nobody waits on a flight that never returns, a
\* ring nobody reads or an entry nobody ends (the retry loop, the ring-fed
\* writer's give-up, the deferred release).
Settles == []<>(slot = {} /\ \A r \in Request : ~Asking(r))

\* One pipeline encodes a key for the cache, and the one registered for it can
\* be attached to (the flight, Begin, unregister).
RegistryIsSound == TypeOK /\ OneEncode /\ RegisteredIsLive

\* Every run is accounted for: by a slot while it encodes, and by Close's wait
\* (the release on every path, startWork under closeMu).
RunsAreCounted == SlotsAreUsed /\ ClosedIsQuiet
=============================================================================
