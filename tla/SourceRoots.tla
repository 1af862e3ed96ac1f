---------------------------- MODULE SourceRoots ----------------------------
(***************************************************************************)
(* The source roots (source/roots.go), for one root name: its live state,  *)
(* the checks that compare that state with its folder and commit what they *)
(* find, the reloads that re-point or drop the name, the sweep and the     *)
(* opens that look it up.  Roots of other names share only watchMu.        *)
(*                                                                         *)
(* A rootState is named by its seq, and a directory handle by the seq of   *)
(* the state that carries it.  A number the code hands to a state that     *)
(* nobody keeps is not modelled.  A step is one critical section or one    *)
(* look at a folder (healthy; mountAt, which opens and lists it): neither  *)
(* runs under a lock.  A folder serves as long as it is the same           *)
(* directory: one emptied in place, its handle still healthy, is not       *)
(* represented.                                                            *)
(***************************************************************************)
EXTENDS Naturals

CONSTANTS
    Path,                 \* the paths a configuration may give the name
    Dir,                  \* the directories a path may lead to
    Down,                 \* why a folder does not serve: it does not open, or
                          \* is a bare mount point (ErrRootEmpty)
    Opening,              \* errOpening
    Opener,               \* the requests
    Settler,              \* the goroutines that sweep (Remount) or reload
    Slot,                 \* names for the checks running or awaited
    None,                 \* no path, no check
    MaxLooks,             \* maxLooks
    MaxSeq,               \* bound: root states ever made
    MaxWorld              \* bound: changes of the folders

Reason == Down \cup {Opening}
State  == 1 .. MaxSeq
Kicker == Opener \cup Settler

ASSUME RootsAssumption ==
    /\ MaxSeq \in Nat \ {0} /\ MaxLooks \in Nat \ {0} /\ MaxWorld \in Nat
    /\ Dir \cap Reason = {} /\ Opening \notin Down
    /\ None \notin Path \cup Slot \cup Kicker
    /\ Opener \cap Settler = {}

VARIABLES
    folder,   \* what each path leads to: a directory that serves, or why none
    world,    \* how often that changed
    seq,      \* r.seq
    path,     \* rootState.path, by seq
    at,       \* rootState.root as the directory it holds, or rootState.err
    live,     \* r.roots[name], by seq; 0 when the name is not configured
    closed,   \* r.roots is nil: Close ran
    reloadMu, \* the settler that holds it, or None
    handles,  \* the directory handles that are open
    retiring, \* handles a Reload or Close took out of the map, not yet closed
    cur,      \* r.attempts[name]
    seen,     \* attempt.seen, by slot; 0 for a slot no attempt uses
    next,     \* the state a check came back with, 0 for none
    phase,    \* each attempt: "check", "mount", "commit", "report", "close"
              \* or "lost", "unlist", "done"
    watchMu,  \* the attempt that holds it, or None
    reported, \* the state last reported to the watcher
    pc,       \* each opener and settler
    look,     \* an opener's st
    kst,      \* the state a kick read under r.mu
    on,       \* the attempt it waits for
    checked,  \* an opener's checked
    looks,    \* how many lookups it has made
    result,   \* its last answer: about the "file", the root "unavailable" or
              \* "unknown", or "gaveup" waiting for a check
    want,     \* what the last configuration asked for: a path, or None
    calm      \* opens during which the root's folder was there and full, and
              \* its configuration unchanged (a history variable)

world_  == <<folder, world>>
states  == <<seq, path, at>>
att     == <<cur, seen, next, phase>>
kick    == <<pc, look, kst, on, checked, looks, result>>
vars    == <<world_, states, live, closed, reloadMu, handles, retiring, att, watchMu,
             reported, kick, want, calm>>

Mounted(s) == at[s] \in Dir

\* healthy: the handle and the path still name one directory.
Healthy(s) == s \in handles /\ folder[path[s]] = at[s]

\* mountAt: what opening and listing the folder at p gives now.
MountAt(p) == folder[p]

\* OpenRoots has returned: the root is what its folder gave then, whatever the
\* folder is by now, or still opening.
Init ==
    /\ folder \in [Path -> Dir \cup Down]
    /\ world = 0
    /\ seq = 1
    /\ want \in Path
    /\ path = [s \in State |-> want]
    /\ \E d \in Dir \cup Reason : at = [s \in State |-> IF s = 1 THEN d ELSE Opening]
    /\ live = 1
    /\ closed = FALSE
    /\ reloadMu = None
    /\ handles = {s \in {1} : Mounted(s)}
    /\ retiring = {}
    /\ cur = None
    /\ seen = [a \in Slot |-> 0]
    /\ next = [a \in Slot |-> 0]
    /\ phase = [a \in Slot |-> "done"]
    /\ watchMu = None
    /\ reported = 0
    /\ pc = [k \in Kicker |-> "idle"]
    /\ look = [k \in Kicker |-> 0]
    /\ kst = [k \in Kicker |-> 0]
    /\ on = [k \in Kicker |-> None]
    /\ checked = [k \in Kicker |-> 0]
    /\ looks = [k \in Kicker |-> 0]
    /\ result = [k \in Kicker |-> "none"]
    /\ calm = {}

-----------------------------------------------------------------------------
(* The folders.                                                            *)

\* A drive arrives, leaves, or is replaced.
FolderChanges(p, d) ==
    /\ world < MaxWorld /\ folder[p] # d
    /\ folder' = [folder EXCEPT ![p] = d]
    /\ world' = world + 1
    /\ calm' = {}
    /\ UNCHANGED <<states, live, closed, reloadMu, handles, retiring, att, watchMu, reported, kick, want>>

-----------------------------------------------------------------------------
(* A check: kick, run, check, commit.                                      *)

\* A free slot: no goroutine runs under it and nobody waits on it.
Free(a) == phase[a] = "done" /\ \A k \in Kicker : on[k] # a

\* Where a kick that finds no root configured returns to.
AfterKick(k) == IF k \in Opener THEN "look" ELSE "idle"

\* kick, first half: the state under r.mu.
KickRead(k) ==
    /\ pc[k] = "kick"
    /\ kst' = [kst EXCEPT ![k] = live]
    /\ pc' = [pc EXCEPT ![k] = IF live = 0 THEN AfterKick(k) ELSE "kick2"]
    /\ reloadMu' = IF live = 0 /\ reloadMu = k THEN None ELSE reloadMu
    /\ UNCHANGED <<world_, states, live, closed, handles, retiring, att, watchMu, reported,
                   look, on, checked, looks, result, want, calm>>

\* kick, second half, under attemptMu: join the check listed for that very
\* state, or start one.
KickJoin(k) ==
    /\ pc[k] = "kick2" /\ cur # None /\ seen[cur] = kst[k]
    /\ on' = [on EXCEPT ![k] = cur]
    /\ kst' = [kst EXCEPT ![k] = 0]
    /\ pc' = [pc EXCEPT ![k] = "await"]
    /\ UNCHANGED <<world_, states, live, closed, reloadMu, handles, retiring, att, watchMu, reported,
                   look, checked, looks, result, want, calm>>

KickStart(k, a) ==
    /\ pc[k] = "kick2" /\ ~(cur # None /\ seen[cur] = kst[k])
    /\ Free(a)
    /\ cur' = a
    /\ seen' = [seen EXCEPT ![a] = kst[k]]
    /\ next' = [next EXCEPT ![a] = 0]
    /\ phase' = [phase EXCEPT ![a] = "check"]
    /\ on' = [on EXCEPT ![k] = a]
    /\ kst' = [kst EXCEPT ![k] = 0]
    /\ pc' = [pc EXCEPT ![k] = "await"]
    /\ UNCHANGED <<world_, states, live, closed, reloadMu, handles, retiring, watchMu, reported,
                   look, checked, looks, result, want, calm>>

\* check: a root mounted on the folder its path names is unchanged, any other
\* mounted one is opened again.
CheckHealthy(a) ==
    /\ phase[a] = "check" /\ Mounted(seen[a])
    /\ phase' = [phase EXCEPT ![a] = IF Healthy(seen[a]) THEN "unlist" ELSE "mount"]
    /\ UNCHANGED <<world_, states, live, closed, reloadMu, handles, retiring, cur, seen, next, watchMu,
                   reported, kick, want, calm>>

\* A root that is down is opened at once.
Mounts(a) == phase[a] = "mount" \/ (phase[a] = "check" /\ ~Mounted(seen[a]))

\* A root still down for the reason it went down is unchanged.
CheckUnchanged(a) ==
    LET s == seen[a] IN
    /\ Mounts(a) /\ ~Mounted(s) /\ MountAt(path[s]) = at[s]
    /\ phase' = [phase EXCEPT ![a] = "unlist"]
    /\ UNCHANGED <<world_, states, live, closed, reloadMu, handles, retiring, cur, seen, next, watchMu,
                   reported, kick, want, calm>>

\* Anything else is a new state, whatever the folder gives by now.
CheckOpens(a) ==
    LET s == seen[a] IN
    /\ Mounts(a) /\ seq < MaxSeq
    /\ Mounted(s) \/ MountAt(path[s]) # at[s]
    /\ seq' = seq + 1
    /\ path' = [path EXCEPT ![seq + 1] = path[s]]
    /\ at' = [at EXCEPT ![seq + 1] = MountAt(path[s])]
    /\ handles' = IF MountAt(path[s]) \in Dir THEN handles \cup {seq + 1} ELSE handles
    /\ next' = [next EXCEPT ![a] = seq + 1]
    /\ phase' = [phase EXCEPT ![a] = "commit"]
    /\ UNCHANGED <<world_, live, closed, reloadMu, retiring, cur, seen, watchMu, reported, kick, want, calm>>

Wins_Always(a) == live # 0

\* The root is still in the state the check saw.
Wins(a) == live = seen[a]

WatchFree_Unlocked == TRUE

WatchFree == watchMu = None

\* commit, under watchMu and r.mu: install next, or lose to whatever replaced
\* the state meanwhile and let watchMu go.
Commit(a) ==
    /\ phase[a] = "commit" /\ WatchFree
    /\ live' = IF Wins(a) THEN next[a] ELSE live
    /\ watchMu' = IF Wins(a) THEN a ELSE watchMu
    /\ phase' = [phase EXCEPT ![a] = IF Wins(a) THEN "report" ELSE "lost"]
    /\ UNCHANGED <<world_, states, closed, reloadMu, handles, retiring, cur, seen, next, reported, kick, want, calm>>

\* The winner tells the watcher, still under watchMu.
Report(a) ==
    /\ phase[a] = "report"
    /\ reported' = next[a]
    /\ watchMu' = None
    /\ phase' = [phase EXCEPT ![a] = "close"]
    /\ UNCHANGED <<world_, states, live, closed, reloadMu, handles, retiring, cur, seen, next, kick, want, calm>>

Loser_Own(a) == next[a]

\* The handle that lost: the one replaced, or the check's own.
Loser(a) == IF phase[a] = "close" THEN seen[a] ELSE next[a]

CloseLoser(a) ==
    /\ phase[a] \in {"close", "lost"}
    /\ handles' = handles \ {Loser(a)}
    /\ phase' = [phase EXCEPT ![a] = "unlist"]
    /\ UNCHANGED <<world_, states, live, closed, reloadMu, retiring, cur, seen, next, watchMu, reported, kick, want, calm>>

\* The attempt leaves the map, unless a newer one took its place, and ends.
Unlist(a) ==
    /\ phase[a] = "unlist"
    /\ cur' = IF cur = a THEN None ELSE cur
    /\ seen' = [seen EXCEPT ![a] = 0]
    /\ next' = [next EXCEPT ![a] = 0]
    /\ phase' = [phase EXCEPT ![a] = "done"]
    /\ UNCHANGED <<world_, states, live, closed, reloadMu, handles, retiring, watchMu, reported, kick, want, calm>>

AttemptStep(a) ==
    \/ CheckHealthy(a) \/ CheckUnchanged(a) \/ CheckOpens(a)
    \/ Commit(a) \/ Report(a) \/ CloseLoser(a) \/ Unlist(a)

-----------------------------------------------------------------------------
(* Remount, Reload and Close.                                              *)

\* Remount: the sweep kicks the root.
SweepKicks(k) ==
    /\ pc[k] = "idle" /\ live # 0
    /\ pc' = [pc EXCEPT ![k] = "kick"]
    /\ UNCHANGED <<world_, states, live, closed, reloadMu, handles, retiring, att, watchMu, reported,
                   look, kst, on, checked, looks, result, want, calm>>

\* settle's wait ends with the check or at its deadline, and a reload with it.
SettleEnds(k) ==
    /\ pc[k] = "await"
    /\ pc' = [pc EXCEPT ![k] = "idle"]
    /\ on' = [on EXCEPT ![k] = None]
    /\ reloadMu' = IF reloadMu = k THEN None ELSE reloadMu
    /\ UNCHANGED <<world_, states, live, closed, handles, retiring, att, watchMu, reported,
                   look, kst, checked, looks, result, want, calm>>

\* Reload begins: reloadMu, and a set that is not closed.
ReloadBegins(k) == pc[k] = "idle" /\ reloadMu = None /\ ~closed

\* The handle a swap takes out of the map.
Retired(s) == IF s # 0 /\ Mounted(s) THEN {s} ELSE {}

\* Reload to a configuration that leaves the name's path alone: its state
\* stays, and a root that is down is kicked.
ReloadKeeps(k) ==
    /\ ReloadBegins(k) /\ live # 0 /\ ~Mounted(live)
    /\ pc' = [pc EXCEPT ![k] = "kick"]
    /\ reloadMu' = k
    /\ UNCHANGED <<world_, states, live, closed, handles, retiring, att, watchMu, reported,
                   look, kst, on, checked, looks, result, want, calm>>

\* ... to one that adds the name or re-points it: still opening, kicked.
ReloadOpens(k, p) ==
    /\ ReloadBegins(k) /\ seq < MaxSeq
    /\ live # 0 => path[live] # p
    /\ seq' = seq + 1
    /\ path' = [path EXCEPT ![seq + 1] = p]
    /\ at' = [at EXCEPT ![seq + 1] = Opening]
    /\ live' = seq + 1
    /\ retiring' = retiring \cup Retired(live)
    /\ want' = p
    /\ pc' = [pc EXCEPT ![k] = "kick"]
    /\ reloadMu' = k
    /\ calm' = {}
    /\ UNCHANGED <<world_, closed, handles, att, watchMu, reported, look, kst, on, checked, looks, result>>

\* ... to one without the name.
ReloadDrops(k) ==
    /\ ReloadBegins(k) /\ live # 0
    /\ live' = 0
    /\ retiring' = retiring \cup Retired(live)
    /\ want' = None
    /\ calm' = {}
    /\ UNCHANGED <<world_, states, closed, reloadMu, handles, att, watchMu, reported, kick>>

Close ==
    /\ ~closed
    /\ closed' = TRUE
    /\ live' = 0
    /\ retiring' = retiring \cup Retired(live)
    /\ want' = None
    /\ calm' = {}
    /\ UNCHANGED <<world_, states, reloadMu, handles, att, watchMu, reported, kick>>

\* closeAll, off every lock.
CloseRetired(s) ==
    /\ s \in retiring
    /\ handles' = handles \ {s}
    /\ retiring' = retiring \ {s}
    /\ UNCHANGED <<world_, states, live, closed, reloadMu, att, watchMu, reported, kick, want, calm>>

-----------------------------------------------------------------------------
(* Resolve's open.                                                         *)

Others == <<world_, states, live, closed, reloadMu, handles, retiring, att, watchMu, reported, kst, want>>

\* The root is mounted on the folder its path names.
Sound == live # 0 /\ Mounted(live) /\ Healthy(live)

OpenBegins(o) ==
    /\ pc[o] = "idle"
    /\ pc' = [pc EXCEPT ![o] = "look"]
    /\ result' = [result EXCEPT ![o] = "none"]
    /\ calm' = IF Sound THEN calm \cup {o} ELSE calm \ {o}
    /\ UNCHANGED <<Others, look, on, checked, looks>>

Answers(o, r) ==
    /\ result' = [result EXCEPT ![o] = r]
    /\ pc' = [pc EXCEPT ![o] = "answered"]
    /\ calm' = calm \ {o}
    /\ on' = [on EXCEPT ![o] = None]
    /\ look' = [look EXCEPT ![o] = 0]
    /\ checked' = [checked EXCEPT ![o] = 0]
    /\ looks' = [looks EXCEPT ![o] = 0]

CheckedOnce_Always(o, s) == TRUE

\* A state is checked once at most by one open.
CheckedOnce(o, s) == s = checked[o]

\* The root is down or unhealthy: check it, unless this open already did.
Recheck(o, s, n) ==
    IF CheckedOnce(o, s)
    THEN Answers(o, "unavailable")
    ELSE /\ checked' = [checked EXCEPT ![o] = s]
         /\ pc' = [pc EXCEPT ![o] = "kick"]
         /\ look' = [look EXCEPT ![o] = 0]
         /\ looks' = [looks EXCEPT ![o] = n]
         /\ UNCHANGED <<on, result, calm>>

\* lookup.
Look(o) ==
    /\ pc[o] = "look" /\ looks[o] < MaxLooks /\ live # 0
    /\ IF Mounted(live)
       THEN /\ look' = [look EXCEPT ![o] = live]
            /\ looks' = [looks EXCEPT ![o] = @ + 1]
            /\ pc' = [pc EXCEPT ![o] = "open"]
            /\ UNCHANGED <<on, checked, result, calm>>
       ELSE Recheck(o, live, looks[o] + 1)
    /\ UNCHANGED Others

LookUnknown(o) ==
    /\ pc[o] = "look" /\ looks[o] < MaxLooks /\ live = 0
    /\ Answers(o, "unknown")
    /\ UNCHANGED Others

LooksSpent(o) ==
    /\ pc[o] = "look" /\ looks[o] = MaxLooks
    /\ Answers(o, "unavailable")
    /\ UNCHANGED Others

\* The open through the root's handle: it succeeds, fails, or finds the
\* handle closed.
OpenFile(o) ==
    LET s == look[o] IN
    /\ pc[o] = "open"
    /\ \/ s \in handles /\ Answers(o, "file")
       \/ /\ pc' = [pc EXCEPT ![o] = IF s \in handles THEN "healthy" ELSE "current"]
          /\ UNCHANGED <<look, on, checked, looks, result, calm>>
    /\ UNCHANGED Others

\* A closed handle that is no longer the root's: look again.
OpenCurrent(o) ==
    /\ pc[o] = "current"
    /\ pc' = [pc EXCEPT ![o] = IF live # look[o] THEN "look" ELSE "healthy"]
    /\ UNCHANGED <<Others, calm, look, on, checked, looks, result>>

\* The root is fine, so the answer is about the file; or it is not.
OpenHealthy(o) ==
    /\ pc[o] = "healthy"
    /\ IF Healthy(look[o]) THEN Answers(o, "file") ELSE Recheck(o, look[o], looks[o])
    /\ UNCHANGED Others

\* await: the attempt ended, or its deadline or the request's context did.
OpenAwaits(o) ==
    /\ pc[o] = "await" /\ phase[on[o]] = "done"
    /\ pc' = [pc EXCEPT ![o] = "look"]
    /\ on' = [on EXCEPT ![o] = None]
    /\ UNCHANGED <<Others, calm, look, checked, looks, result>>

AwaitTimesOut(o) ==
    /\ pc[o] = "await" /\ phase[on[o]] # "done"
    /\ Answers(o, "gaveup")
    /\ UNCHANGED Others

OpenStep(o) ==
    \/ Look(o) \/ LookUnknown(o) \/ LooksSpent(o) \/ OpenFile(o) \/ OpenCurrent(o)
    \/ OpenHealthy(o) \/ OpenAwaits(o) \/ AwaitTimesOut(o)
    \/ KickRead(o) \/ KickJoin(o) \/ (\E a \in Slot : KickStart(o, a))

Next ==
    \/ \E p \in Path, d \in Dir \cup Down : FolderChanges(p, d)
    \/ \E k \in Settler :
        \/ SweepKicks(k) \/ ReloadKeeps(k) \/ ReloadDrops(k) \/ (\E p \in Path : ReloadOpens(k, p))
        \/ KickRead(k) \/ KickJoin(k) \/ (\E a \in Slot : KickStart(k, a)) \/ SettleEnds(k)
    \/ \E a \in Slot : AttemptStep(a)
    \/ Close
    \/ \E s \in State : CloseRetired(s)
    \/ \E o \in Opener : OpenBegins(o) \/ OpenStep(o)

Spec == Init /\ [][Next]_vars

-----------------------------------------------------------------------------
Phase == {"check", "mount", "commit", "report", "close", "lost", "unlist", "done"}

TypeOK ==
    /\ folder \in [Path -> Dir \cup Down]
    /\ world \in 0 .. MaxWorld
    /\ seq \in State
    /\ path \in [State -> Path]
    /\ at \in [State -> Dir \cup Reason]
    /\ live \in 0 .. seq
    /\ closed \in BOOLEAN
    /\ reloadMu \in Settler \cup {None}
    /\ handles \subseteq 1 .. seq
    /\ retiring \subseteq 1 .. seq
    /\ cur \in Slot \cup {None}
    /\ seen \in [Slot -> 0 .. MaxSeq]
    /\ next \in [Slot -> 0 .. MaxSeq]
    /\ phase \in [Slot -> Phase]
    /\ watchMu \in Slot \cup {None}
    /\ reported \in 0 .. MaxSeq
    /\ want \in Path \cup {None}

\* A check that outlived a reload commits nothing: the live state is always of
\* the path the last configuration gave, and none is live once the name was
\* dropped or the set closed (commit's sequence test against Reload's swap).
ServesConfigured ==
    /\ live = 0 <=> want = None
    /\ live # 0 => path[live] = want

\* The handle a lookup hands out is open: neither a losing check nor the
\* closing of retired handles closes the one that is installed (commit's loser,
\* Reload's retired).
LiveHandleOpen == live # 0 /\ Mounted(live) => live \in handles

\* The handles an attempt still has to close, install or hand over.
InHand(a) ==
    CASE phase[a] \in {"commit", "lost"} -> {next[a]}
      [] phase[a] \in {"report", "close"} -> {seen[a]}
      [] OTHER -> {}

\* No directory handle leaks: an open one is the live one, is waiting to be
\* closed, or is in the hands of a check that will close it (commit, Reload,
\* Close in every order).
NoHandleLeak ==
    \A h \in handles :
        h = live \/ h \in retiring \/ \E a \in Slot : h \in InHand(a)

\* Reports arrive in the order the changes landed: what the watcher heard last
\* is never overtaken by an earlier state (watchMu held through the report).
ReportsInOrder == [][reported' # reported => reported' > reported]_vars

\* An open of a root that is mounted on a full folder all the while is never
\* told that the root is unavailable or unknown, whatever checks, committed or
\* stale, come and go meanwhile (open's retries, commit, current), unless a
\* check it waits for outlasts its deadline or its request: what it answers
\* then ("gaveup") is about the wait.
SoundRootServes ==
    [][\A o \in calm : result'[o] \notin {"unavailable", "unknown"}]_vars

\* The configuration rules: what is live is of the configured path, and every
\* state and handle is one the set made (Reload, commit, Close).
ConfigurationRules == TypeOK /\ ServesConfigured

\* Every open handle has one owner who will close it, and the live one is open
\* (commit, Reload, Close).
HandlesOwned == LiveHandleOpen /\ NoHandleLeak
=============================================================================
