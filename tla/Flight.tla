------------------------------- MODULE Flight -------------------------------
(***************************************************************************)
(* Keyed call deduplication (internal/flight): Group.Do and                *)
(* Group.JoinHolding (Join is JoinHolding without a hold), for one key.    *)
(*                                                                         *)
(* A caller calls once, so a call in flight is named after the caller that *)
(* started it, and c.waiting, which every caller of Join raises once and   *)
(* lowers once when it leaves, is kept as the set of those callers.  A     *)
(* group is used either with Do or with Join, as the daemon's groups are.  *)
(***************************************************************************)
CONSTANTS
    Caller,  \* the goroutines that call the group with the key
    None     \* no call

ASSUME FlightAssumption == None \notin Caller

VARIABLES
    op,       \* the method the group is used with: "Do" or "Join"
    m,        \* g.m[key]: the call in flight, or None
    phase,    \* each call: "none", "running", then the steps of its deferred
              \* cleanup: "ended", "released", "removed" (cancel next), "done"
    shared,   \* calls whose shared context is cancelled
    waiting,  \* waiting[c]: c.waiting, as the set of the callers it counts
    held,     \* calls whose hold is not released
    err,      \* c.err: "none", "ok", "failed", "panicked", "canceled"
    ctx,      \* callers whose own context is cancelled
    pc,       \* each caller: "idle", "exec", "wait", "returned"
    on,       \* the call a caller executes or waits on
    got       \* what it returned: an err, or "left" for its own ctx.Err()

vars == <<op, m, phase, shared, waiting, held, err, ctx, pc, on, got>>

Init ==
    /\ op \in {"Do", "Join"}
    /\ m = None
    /\ phase = [c \in Caller |-> "none"]
    /\ shared = {}
    /\ waiting = [c \in Caller |-> {}]
    /\ held = {}
    /\ err = [c \in Caller |-> "none"]
    /\ ctx = {}
    /\ pc = [p \in Caller |-> "idle"]
    /\ on = [p \in Caller |-> None]
    /\ got = [p \in Caller |-> "none"]

-----------------------------------------------------------------------------
(* Do: the first caller runs fn itself, the others wait for it.            *)

\* Do's look at the map.
InFlight == m # None

DoStart(p) ==
    /\ op = "Do" /\ pc[p] = "idle" /\ ~InFlight
    /\ m' = p
    /\ phase' = [phase EXCEPT ![p] = "running"]
    /\ pc' = [pc EXCEPT ![p] = "exec"]
    /\ on' = [on EXCEPT ![p] = p]
    /\ UNCHANGED <<op, shared, waiting, held, err, ctx, got>>

DoJoin(p) ==
    /\ op = "Do" /\ pc[p] = "idle" /\ InFlight
    /\ pc' = [pc EXCEPT ![p] = "wait"]
    /\ on' = [on EXCEPT ![p] = m]
    /\ UNCHANGED <<op, m, phase, shared, waiting, held, err, ctx, got>>

DoEnds_NotDeferred(c, e) ==
    /\ op = "Do" /\ phase[c] = "running"
    /\ err' = [err EXCEPT ![c] = e]
    /\ phase' = [phase EXCEPT ![c] = IF e = "panicked" THEN "none" ELSE "released"]
    /\ UNCHANGED <<op, m, shared, waiting, held, ctx, pc, on, got>>

\* fn returned, or panics through Do with the preset ErrPanicked in place; the
\* deferred cleanup holds nothing and cancels nothing.
DoEnds(c, e) ==
    /\ op = "Do" /\ phase[c] = "running"
    /\ err' = [err EXCEPT ![c] = e]
    /\ phase' = [phase EXCEPT ![c] = "released"]
    /\ UNCHANGED <<op, m, shared, waiting, held, ctx, pc, on, got>>

DoReturn(c) ==
    /\ pc[c] = "exec" /\ phase[c] = "done"
    /\ pc' = [pc EXCEPT ![c] = "returned"]
    /\ got' = [got EXCEPT ![c] = err[c]]
    /\ UNCHANGED <<op, m, phase, shared, waiting, held, err, ctx, on>>

-----------------------------------------------------------------------------
(* JoinHolding.                                                            *)

\* A call every caller has left is over.
Joinable(c) == c # None /\ waiting[c] # {}

\* Start a call: its hold is taken before the lock is let go.
JoinStart(p) ==
    /\ op = "Join" /\ pc[p] = "idle" /\ ~Joinable(m)
    /\ m' = p
    /\ phase' = [phase EXCEPT ![p] = "running"]
    /\ held' = held \cup {p}
    /\ waiting' = [waiting EXCEPT ![p] = {p}]
    /\ pc' = [pc EXCEPT ![p] = "wait"]
    /\ on' = [on EXCEPT ![p] = p]
    /\ UNCHANGED <<op, shared, err, ctx, got>>

JoinCall(p) ==
    /\ op = "Join" /\ pc[p] = "idle" /\ Joinable(m)
    /\ waiting' = [waiting EXCEPT ![m] = @ \cup {p}]
    /\ pc' = [pc EXCEPT ![p] = "wait"]
    /\ on' = [on EXCEPT ![p] = m]
    /\ UNCHANGED <<op, m, phase, shared, held, err, ctx, got>>

\* fn ends; only a cancelled shared context makes it report a cancellation.
JoinEnds(c, e) ==
    /\ op = "Join" /\ phase[c] = "running"
    /\ e = "canceled" => c \in shared
    /\ err' = [err EXCEPT ![c] = e]
    /\ phase' = [phase EXCEPT ![c] = "ended"]
    /\ UNCHANGED <<op, m, shared, waiting, held, ctx, pc, on, got>>

\* The deferred cleanup: release, ...
Release(c) ==
    /\ phase[c] = "ended"
    /\ held' = held \ {c}
    /\ phase' = [phase EXCEPT ![c] = "released"]
    /\ UNCHANGED <<op, m, shared, waiting, err, ctx, pc, on, got>>

Unlist_Anyone(c) == None

\* ... remove the call from the map, unless a newer one took its place, ...
Unlist(c) == IF m = c THEN None ELSE m

Remove(c) ==
    /\ phase[c] = "released"
    /\ m' = Unlist(c)
    /\ phase' = [phase EXCEPT ![c] = "removed"]
    /\ UNCHANGED <<op, shared, waiting, held, err, ctx, pc, on, got>>

\* ... cancel the shared context (Do has none) and close done.
Finish(c) ==
    /\ phase[c] = "removed"
    /\ shared' = IF op = "Join" THEN shared \cup {c} ELSE shared
    /\ phase' = [phase EXCEPT ![c] = "done"]
    /\ UNCHANGED <<op, m, waiting, held, err, ctx, pc, on, got>>

\* A waiter takes the call's result.
Answer(p) ==
    /\ pc[p] = "wait" /\ phase[on[p]] = "done"
    /\ pc' = [pc EXCEPT ![p] = "returned"]
    /\ got' = [got EXCEPT ![p] = err[on[p]]]
    /\ UNCHANGED <<op, m, phase, shared, waiting, held, err, ctx, on>>

\* The caller's own context ends.
CtxDone(p) ==
    /\ op = "Join" /\ pc[p] = "wait" /\ p \notin ctx
    /\ ctx' = ctx \cup {p}
    /\ UNCHANGED <<op, m, phase, shared, waiting, held, err, pc, on, got>>

CancelShared_AnyLeaver(c, left) == shared' = shared \cup {c}

CancelShared_Never(c, left) == shared' = shared

\* The last caller to leave cancels the work.
CancelShared(c, left) == shared' = IF left = {} THEN shared \cup {c} ELSE shared

\* A caller leaves.
Leave(p) ==
    LET c    == on[p]
        left == waiting[c] \ {p}
    IN
    /\ op = "Join" /\ pc[p] = "wait" /\ p \in ctx
    /\ waiting' = [waiting EXCEPT ![c] = left]
    /\ CancelShared(c, left)
    /\ pc' = [pc EXCEPT ![p] = "returned"]
    /\ got' = [got EXCEPT ![p] = "left"]
    /\ UNCHANGED <<op, m, phase, held, err, ctx, on>>

\* No call is in flight: nothing has to happen.
Quiet ==
    /\ \A c \in Caller : phase[c] \in {"none", "done"}
    /\ UNCHANGED vars

Ends(c) ==
    \/ \E e \in {"ok", "failed", "panicked"} : DoEnds(c, e)
    \/ \E e \in {"ok", "failed", "panicked", "canceled"} : JoinEnds(c, e)

CallStep(c) == Ends(c) \/ Release(c) \/ Remove(c) \/ Finish(c)

CallerStep(p) == DoReturn(p) \/ Answer(p) \/ Leave(p)

Next ==
    \/ \E p \in Caller :
        \/ DoStart(p) \/ DoJoin(p) \/ JoinStart(p) \/ JoinCall(p)
        \/ CtxDone(p) \/ CallerStep(p)
    \/ \E c \in Caller : CallStep(c)
    \/ Quiet

Spec == Init /\ [][Next]_vars

(***************************************************************************)
(* Fairness: fn ends (the work it does is bounded, or it watches its       *)
(* context), the goroutines run.  No caller is obliged to call or to leave.*)
(***************************************************************************)
FairSpec ==
    /\ Spec
    /\ \A c \in Caller : WF_vars(CallStep(c)) /\ WF_vars(CallerStep(c))

-----------------------------------------------------------------------------
Phase   == {"none", "running", "ended", "released", "removed", "done"}
Outcome == {"none", "ok", "failed", "panicked", "canceled"}

\* Types; a caller past its lookup has a call in hand (Do, JoinHolding).
TypeOK ==
    /\ op \in {"Do", "Join"}
    /\ m \in Caller \cup {None}
    /\ phase \in [Caller -> Phase]
    /\ shared \subseteq Caller
    /\ waiting \in [Caller -> SUBSET Caller]
    /\ held \subseteq Caller
    /\ err \in [Caller -> Outcome]
    /\ ctx \subseteq Caller
    /\ pc \in [Caller -> {"idle", "exec", "wait", "returned"}]
    /\ on \in [Caller -> Caller \cup {None}]
    /\ \A p \in Caller : on[p] = None <=> pc[p] = "idle"
    /\ got \in [Caller -> Outcome \cup {"left"}]

Running(c) == phase[c] = "running"

\* "Only one execution per key is in flight at a time": at most one call runs
\* whose work anyone may still want (Do's map entry; JoinHolding's "every
\* caller left", and its conditional delete).
OneExecution ==
    \A c, d \in Caller :
        Running(c) /\ c \notin shared /\ Running(d) /\ d \notin shared => c = d

\* "A caller that leaves gets its own context's error and the callers still
\* waiting keep the work": nobody is handed the cancellation that others'
\* leaving caused, nor an answer whose hold is still out (Leave, the order of
\* the deferred cleanup).
WorkNotStolen ==
    \A p \in Caller :
        /\ got[p] # "canceled"
        /\ pc[p] = "returned" /\ got[p] # "left" => got[p] # "none" /\ on[p] \notin held

\* Work nobody waits for is cancelled: a running call without a caller has its
\* shared context cancelled (the last leaver, a caller joining as it leaves).
AbandonedIsCancelled ==
    \A c \in Caller :
        Running(c) /\ (\A p \in Caller : pc[p] \in {"wait", "exec"} => on[p] # c)
            => c \in shared

\* Every caller returns (close(done) on every path, panics included).
EveryCallerReturns ==
    \A p \in Caller : pc[p] \in {"exec", "wait"} ~> pc[p] = "returned"
=============================================================================
