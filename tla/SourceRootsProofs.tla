-------------------------- MODULE SourceRootsProofs --------------------------
(***************************************************************************)
(* Theorems about SourceRoots: a stale check never installs anything, every *)
(* directory handle has exactly one owner, reports come in order, and an    *)
(* open of a root that stays sound is served, for any number of requests,   *)
(* reloads, checks and root states; the last one for three lookups or more, *)
(* the code's number being eight.                                           *)
(***************************************************************************)
EXTENDS SourceRoots, TLAPS

Place   == {"idle", "kick", "kick2", "await", "look", "open", "current", "healthy", "answered"}
Own     == {"commit", "lost"}
Holding == {"commit", "lost", "report", "close"}

-----------------------------------------------------------------------------
(* The inductive invariant.                                                *)

\* Who kicks has read a state that exists.
KickTypes == pc \in [Kicker -> Place] /\ kst \in [Kicker -> 0 .. MaxSeq]
KickOf(k) == kst[k] <= seq /\ (pc[k] = "kick2" => kst[k] # 0)
Kicks     == \A k \in Kicker : KickOf(k)

\* A check works on a state that exists, and what it found is newer and of the
\* same path.
SeenOf(a) == seen[a] <= seq /\ (phase[a] # "done" => seen[a] # 0)
Seens     == \A a \in Slot : SeenOf(a)
NextOf(a) ==
    phase[a] \in Holding =>
        next[a] # 0 /\ next[a] <= seq /\ seen[a] < next[a] /\ path[next[a]] = path[seen[a]]
Nexts     == \A a \in Slot : NextOf(a)

\* What a check has not handed over is its own: not live, not retired, seen by
\* no other check, read by no kick.
FreshOf(a) == phase[a] \in Own => next[a] # live /\ next[a] \notin retiring
Fresh      == \A a \in Slot : FreshOf(a)
UnseenBy(a, b) ==
    phase[a] \in Own => seen[b] # next[a] /\ (phase[b] \in Own /\ a # b => next[a] # next[b])
Unseen     == \A a, b \in Slot : UnseenBy(a, b)
UnreadBy(a, k) == phase[a] \in Own => kst[k] # next[a]
Unread     == \A a \in Slot, k \in Kicker : UnreadBy(a, k)

\* What a check replaced never comes back.
ReplacedOf(a) == phase[a] \in {"report", "close"} => seen[a] # live
Replaced      == \A a \in Slot : ReplacedOf(a)

\* Handles: open ones belong to mounted states, and what a check is about to
\* install is open.
OpenOf(a)     == phase[a] = "commit" /\ Mounted(next[a]) => next[a] \in handles
Opens         == \A a \in Slot : OpenOf(a)
HandleStates  == \A h \in handles : Mounted(h)
HeldBy(a, h) ==
    \/ phase[a] \in Own /\ h = next[a]
    \/ phase[a] \in {"report", "close"} /\ h = seen[a]
OwnedOf(h) ==
    h \in handles => h = live \/ h \in retiring \/ \E a \in Slot : HeldBy(a, h)
Owned == \A h \in State : OwnedOf(h)
LiveIsNotRetired == live \notin retiring

\* One check at a time reports, and what it reports is newer than anything
\* reported and no newer than what is live.
ReporterOf(a) ==
    phase[a] = "report" => watchMu = a /\ reported < next[a] /\ (live = 0 \/ next[a] <= live)
Reporters == \A a \in Slot : ReporterOf(a)
ReportedIsPast == reported <= seq /\ (live # 0 => reported <= live)

HandleInv == Opens /\ HandleStates /\ LiveIsNotRetired /\ LiveHandleOpen /\ Owned
CheckInv  == Kicks /\ Seens /\ Nexts /\ Fresh /\ Unseen /\ Unread /\ Replaced
ReportInv == Reporters /\ ReportedIsPast

IInv == TypeOK /\ KickTypes /\ CheckInv /\ HandleInv /\ ReportInv /\ ServesConfigured


EnvTypes ==
    /\ folder \in [Path -> Dir \cup Down]
    /\ world \in 0 .. MaxWorld
    /\ closed \in BOOLEAN
    /\ reloadMu \in Settler \cup {None}

CoreTypes ==
    /\ seq \in State
    /\ path \in [State -> Path]
    /\ at \in [State -> Dir \cup Reason]
    /\ live \in 0 .. seq
    /\ handles \subseteq 1 .. seq
    /\ retiring \subseteq 1 .. seq
    /\ cur \in Slot \cup {None}
    /\ seen \in [Slot -> 0 .. MaxSeq]
    /\ next \in [Slot -> 0 .. MaxSeq]
    /\ phase \in [Slot -> Phase]
    /\ watchMu \in Slot \cup {None}
    /\ reported \in 0 .. MaxSeq
    /\ want \in Path \cup {None}

LEMMA TypeParts == TypeOK <=> EnvTypes /\ CoreTypes
  BY DEF TypeOK, EnvTypes, CoreTypes

-----------------------------------------------------------------------------
(* Every step that is not a check's, a kick's or a reload's leaves what the  *)
(* invariant speaks of alone.                                               *)

Core == <<seq, path, at, live, handles, retiring, cur, seen, next, phase, watchMu, reported, want>>

QuietStep ==
    /\ UNCHANGED Core
    /\ kst' = kst
    /\ pc' \in [Kicker -> Place]
    /\ \A k \in Kicker : pc'[k] = "kick2" => pc[k] = "kick2"

Moves ==
    \/ QuietStep
    \/ \E k \in Kicker : KickRead(k) \/ KickJoin(k) \/ \E a \in Slot : KickStart(k, a)
    \/ \E a \in Slot : AttemptStep(a)
    \/ \E k \in Settler : ReloadDrops(k) \/ \E p \in Path : ReloadOpens(k, p)
    \/ Close
    \/ \E s \in State : CloseRetired(s)

LEMMA AnswersQuiet ==
    ASSUME NEW o \in Opener, NEW r, KickTypes, Answers(o, r), UNCHANGED Others PROVE QuietStep
  BY DEF Answers, Others, QuietStep, Core, KickTypes, Kicker, Place, states, att

LEMMA RecheckQuiet ==
    ASSUME NEW o \in Opener, NEW s, NEW n, KickTypes, Recheck(o, s, n), UNCHANGED Others PROVE
       QuietStep
<1>1. CASE CheckedOnce(o, s)
  BY <1>1, AnswersQuiet DEF Recheck
<1>2. CASE ~CheckedOnce(o, s)
  BY <1>2 DEF Recheck, Others, QuietStep, Core, KickTypes, Kicker, Place, states, att
<1> QED
  BY <1>1, <1>2

LEMMA OpenQuiet ==
    ASSUME NEW o \in Opener, KickTypes,
           Look(o) \/ LookUnknown(o) \/ LooksSpent(o) \/ OpenFile(o) \/ OpenCurrent(o)
           \/ OpenHealthy(o) \/ OpenAwaits(o) \/ AwaitTimesOut(o) \/ OpenBegins(o)
    PROVE  QuietStep
<1> USE DEF QuietStep, Core, KickTypes, Kicker, Place, states, att, Others
<1>1. CASE Look(o)
  <2>1. CASE Mounted(live)
    BY <1>1, <2>1 DEF Look
  <2>2. CASE ~Mounted(live)
    <3>1. Recheck(o, live, looks[o] + 1) /\ UNCHANGED Others
      BY <1>1, <2>2 DEF Look
    <3> QED
      BY <3>1, RecheckQuiet
  <2> QED
    BY <2>1, <2>2
<1>2. CASE LookUnknown(o)
  BY <1>2, AnswersQuiet DEF LookUnknown
<1>3. CASE LooksSpent(o)
  BY <1>3, AnswersQuiet DEF LooksSpent
<1>4. CASE OpenFile(o)
  <2>1. CASE Answers(o, "file")
    BY <1>4, <2>1, AnswersQuiet DEF OpenFile
  <2>2. CASE pc' = [pc EXCEPT ![o] = IF look[o] \in handles THEN "healthy" ELSE "current"]
    BY <1>4, <2>2 DEF OpenFile
  <2> QED
    BY <1>4, <2>1, <2>2 DEF OpenFile
<1>5. CASE OpenCurrent(o)
  BY <1>5 DEF OpenCurrent
<1>6. CASE OpenHealthy(o)
  <2>1. CASE Healthy(look[o])
    BY <1>6, <2>1, AnswersQuiet DEF OpenHealthy
  <2>2. CASE ~Healthy(look[o])
    <3>1. Recheck(o, look[o], looks[o]) /\ UNCHANGED Others
      BY <1>6, <2>2 DEF OpenHealthy
    <3> QED
      BY <3>1, RecheckQuiet
  <2> QED
    BY <2>1, <2>2
<1>7. CASE OpenAwaits(o)
  BY <1>7 DEF OpenAwaits
<1>8. CASE AwaitTimesOut(o)
  BY <1>8, AnswersQuiet DEF AwaitTimesOut
<1>9. CASE OpenBegins(o)
  BY <1>9 DEF OpenBegins
<1> QED
  BY <1>1, <1>2, <1>3, <1>4, <1>5, <1>6, <1>7, <1>8, <1>9

LEMMA StepMoves == ASSUME KickTypes, [Next]_vars PROVE Moves
<1> USE DEF QuietStep, Core, KickTypes, Kicker, Place, states, att, kick
<1>1. ASSUME NEW p \in Path, NEW d \in Dir \cup Down, FolderChanges(p, d) PROVE QuietStep
  BY <1>1 DEF FolderChanges
<1>2. ASSUME NEW k \in Settler, SweepKicks(k) PROVE QuietStep
  BY <1>2 DEF SweepKicks
<1>3. ASSUME NEW k \in Settler, ReloadKeeps(k) PROVE QuietStep
  BY <1>3 DEF ReloadKeeps
<1>4. ASSUME NEW k \in Settler, SettleEnds(k) PROVE QuietStep
  BY <1>4 DEF SettleEnds
<1>5. ASSUME UNCHANGED vars PROVE QuietStep
  BY <1>5 DEF vars
<1>6. ASSUME NEW o \in Opener, OpenBegins(o) \/ OpenStep(o) PROVE Moves
  BY <1>6, OpenQuiet DEF OpenStep, Moves
<1>7. ASSUME NEW k \in Settler, KickRead(k) \/ KickJoin(k) \/ \E a \in Slot : KickStart(k, a)
      PROVE Moves
  BY <1>7 DEF Moves
<1> QED
  BY <1>1, <1>2, <1>3, <1>4, <1>5, <1>6, <1>7 DEF Next, Moves


LEMMA NextCoreTypes == ASSUME IInv, Moves PROVE CoreTypes'
<1>a. EnvTypes /\ CoreTypes /\ KickTypes /\ Kicks /\ Nexts /\ Seens
  BY TypeParts DEF IInv, CheckInv
<1> USE <1>a, RootsAssumption DEF CoreTypes, State, Phase, EnvTypes, Reason, MountAt, KickTypes,
        Kicks, KickOf, Nexts, NextOf, Holding, Seens, SeenOf
<1>1. ASSUME QuietStep PROVE CoreTypes'
  BY <1>1 DEF QuietStep, Core
<1>2. ASSUME NEW k \in Kicker, KickRead(k) PROVE CoreTypes'
  BY <1>2 DEF KickRead, states, att
<1>3. ASSUME NEW k \in Kicker, KickJoin(k) PROVE CoreTypes'
  BY <1>3 DEF KickJoin, states, att
<1>4. ASSUME NEW k \in Kicker, NEW s \in Slot, KickStart(k, s) PROVE CoreTypes'
  BY <1>4 DEF KickStart, states, Free
<1>5. ASSUME NEW s \in Slot, CheckUnchanged(s) PROVE CoreTypes'
  BY <1>5 DEF CheckUnchanged, Mounts, states, kick
<1>6. ASSUME NEW s \in Slot, CheckOpens(s) PROVE CoreTypes'
  BY <1>6 DEF CheckOpens, Mounts, kick
<1>6h. ASSUME NEW s \in Slot, CheckHealthy(s) PROVE CoreTypes'
  BY <1>6h DEF CheckHealthy, states, kick
<1>7. ASSUME NEW s \in Slot, Commit(s) PROVE CoreTypes'
  BY <1>7 DEF Commit, Wins, WatchFree, states, kick
<1>8. ASSUME NEW s \in Slot, Report(s) PROVE CoreTypes'
  BY <1>8 DEF Report, states, kick
<1>9. ASSUME NEW s \in Slot, CloseLoser(s) PROVE CoreTypes'
  BY <1>9 DEF CloseLoser, Loser, states, kick
<1>10. ASSUME NEW s \in Slot, Unlist(s) PROVE CoreTypes'
  BY <1>10 DEF Unlist, states, kick
<1>11. ASSUME NEW k \in Settler, NEW p \in Path, ReloadOpens(k, p) PROVE CoreTypes'
  BY <1>11 DEF ReloadOpens, ReloadBegins, Retired, att
<1>12. ASSUME NEW k \in Settler, ReloadDrops(k) PROVE CoreTypes'
  BY <1>12 DEF ReloadDrops, Retired, states, att, kick
<1>13. ASSUME Close PROVE CoreTypes'
  BY <1>13 DEF Close, Retired, states, att, kick
<1>14. ASSUME NEW t \in State, CloseRetired(t) PROVE CoreTypes'
  BY <1>14 DEF CloseRetired, states, att, kick
<1> QED
  BY <1>1, <1>2, <1>3, <1>4, <1>5, <1>6, <1>6h, <1>7, <1>8, <1>9, <1>10, <1>11, <1>12, <1>13, <1>14 DEF
     Moves, AttemptStep

LEMMA NextKickTypes == ASSUME IInv, Moves PROVE KickTypes'
<1>a. CoreTypes /\ KickTypes
  BY TypeParts DEF IInv
<1> USE <1>a, RootsAssumption DEF CoreTypes, State, Phase, KickTypes, Place, AfterKick, Kicker
<1>1. ASSUME QuietStep PROVE KickTypes'
  BY <1>1 DEF QuietStep, Core
<1>2. ASSUME NEW k \in Kicker, KickRead(k) PROVE KickTypes'
  BY <1>2 DEF KickRead, states, att
<1>3. ASSUME NEW k \in Kicker, KickJoin(k) PROVE KickTypes'
  BY <1>3 DEF KickJoin, states, att
<1>4. ASSUME NEW k \in Kicker, NEW s \in Slot, KickStart(k, s) PROVE KickTypes'
  BY <1>4 DEF KickStart, states, Free
<1>5. ASSUME NEW s \in Slot, CheckUnchanged(s) PROVE KickTypes'
  BY <1>5 DEF CheckUnchanged, Mounts, states, kick
<1>6. ASSUME NEW s \in Slot, CheckOpens(s) PROVE KickTypes'
  BY <1>6 DEF CheckOpens, Mounts, kick
<1>6h. ASSUME NEW s \in Slot, CheckHealthy(s) PROVE KickTypes'
  BY <1>6h DEF CheckHealthy, states, kick
<1>7. ASSUME NEW s \in Slot, Commit(s) PROVE KickTypes'
  BY <1>7 DEF Commit, Wins, WatchFree, states, kick
<1>8. ASSUME NEW s \in Slot, Report(s) PROVE KickTypes'
  BY <1>8 DEF Report, states, kick
<1>9. ASSUME NEW s \in Slot, CloseLoser(s) PROVE KickTypes'
  BY <1>9 DEF CloseLoser, Loser, states, kick
<1>10. ASSUME NEW s \in Slot, Unlist(s) PROVE KickTypes'
  BY <1>10 DEF Unlist, states, kick
<1>11. ASSUME NEW k \in Settler, NEW p \in Path, ReloadOpens(k, p) PROVE KickTypes'
  BY <1>11 DEF ReloadOpens, ReloadBegins, Retired, att
<1>12. ASSUME NEW k \in Settler, ReloadDrops(k) PROVE KickTypes'
  BY <1>12 DEF ReloadDrops, Retired, states, att, kick
<1>13. ASSUME Close PROVE KickTypes'
  BY <1>13 DEF Close, Retired, states, att, kick
<1>14. ASSUME NEW t \in State, CloseRetired(t) PROVE KickTypes'
  BY <1>14 DEF CloseRetired, states, att, kick
<1> QED
  BY <1>1, <1>2, <1>3, <1>4, <1>5, <1>6, <1>6h, <1>7, <1>8, <1>9, <1>10, <1>11, <1>12, <1>13, <1>14 DEF
     Moves, AttemptStep

LEMMA NextKicks == ASSUME IInv, Moves PROVE Kicks'
<1> SUFFICES ASSUME NEW j \in Kicker PROVE KickOf(j)'
  BY DEF Kicks
<1>a. CoreTypes /\ KickTypes /\ KickOf(j)
  BY TypeParts DEF IInv, CheckInv, Kicks
<1> USE <1>a, RootsAssumption DEF CoreTypes, State, Phase, KickTypes, Place, KickOf, AfterKick,
        Kicker
<1>1. ASSUME QuietStep PROVE KickOf(j)'
  BY <1>1 DEF QuietStep, Core
<1>2. ASSUME NEW k \in Kicker, KickRead(k) PROVE KickOf(j)'
  BY <1>2 DEF KickRead, states, att
<1>3. ASSUME NEW k \in Kicker, KickJoin(k) PROVE KickOf(j)'
  BY <1>3 DEF KickJoin, states, att
<1>4. ASSUME NEW k \in Kicker, NEW s \in Slot, KickStart(k, s) PROVE KickOf(j)'
  BY <1>4 DEF KickStart, states, Free
<1>5. ASSUME NEW s \in Slot, CheckUnchanged(s) PROVE KickOf(j)'
  BY <1>5 DEF CheckUnchanged, Mounts, states, kick
<1>6. ASSUME NEW s \in Slot, CheckOpens(s) PROVE KickOf(j)'
  BY <1>6 DEF CheckOpens, Mounts, kick
<1>6h. ASSUME NEW s \in Slot, CheckHealthy(s) PROVE KickOf(j)'
  BY <1>6h DEF CheckHealthy, states, kick
<1>7. ASSUME NEW s \in Slot, Commit(s) PROVE KickOf(j)'
  BY <1>7 DEF Commit, Wins, WatchFree, states, kick
<1>8. ASSUME NEW s \in Slot, Report(s) PROVE KickOf(j)'
  BY <1>8 DEF Report, states, kick
<1>9. ASSUME NEW s \in Slot, CloseLoser(s) PROVE KickOf(j)'
  BY <1>9 DEF CloseLoser, Loser, states, kick
<1>10. ASSUME NEW s \in Slot, Unlist(s) PROVE KickOf(j)'
  BY <1>10 DEF Unlist, states, kick
<1>11. ASSUME NEW k \in Settler, NEW p \in Path, ReloadOpens(k, p) PROVE KickOf(j)'
  BY <1>11 DEF ReloadOpens, ReloadBegins, Retired, att
<1>12. ASSUME NEW k \in Settler, ReloadDrops(k) PROVE KickOf(j)'
  BY <1>12 DEF ReloadDrops, Retired, states, att, kick
<1>13. ASSUME Close PROVE KickOf(j)'
  BY <1>13 DEF Close, Retired, states, att, kick
<1>14. ASSUME NEW t \in State, CloseRetired(t) PROVE KickOf(j)'
  BY <1>14 DEF CloseRetired, states, att, kick
<1> QED
  BY <1>1, <1>2, <1>3, <1>4, <1>5, <1>6, <1>6h, <1>7, <1>8, <1>9, <1>10, <1>11, <1>12, <1>13, <1>14 DEF
     Moves, AttemptStep

LEMMA NextSeens == ASSUME IInv, Moves PROVE Seens'
<1> SUFFICES ASSUME NEW a \in Slot PROVE SeenOf(a)'
  BY DEF Seens
<1>a. CoreTypes /\ KickTypes /\ SeenOf(a) /\ \A k \in Kicker : KickOf(k)
  BY TypeParts DEF IInv, CheckInv, Kicks, Seens
<1> USE <1>a, RootsAssumption DEF CoreTypes, State, Phase, KickTypes, KickOf, SeenOf, Kicker
<1>1. ASSUME QuietStep PROVE SeenOf(a)'
  BY <1>1 DEF QuietStep, Core
<1>2. ASSUME NEW k \in Kicker, KickRead(k) PROVE SeenOf(a)'
  BY <1>2 DEF KickRead, states, att
<1>3. ASSUME NEW k \in Kicker, KickJoin(k) PROVE SeenOf(a)'
  BY <1>3 DEF KickJoin, states, att
<1>4. ASSUME NEW k \in Kicker, NEW s \in Slot, KickStart(k, s) PROVE SeenOf(a)'
  BY <1>4 DEF KickStart, states, Free
<1>5. ASSUME NEW s \in Slot, CheckUnchanged(s) PROVE SeenOf(a)'
  BY <1>5 DEF CheckUnchanged, Mounts, states, kick
<1>6. ASSUME NEW s \in Slot, CheckOpens(s) PROVE SeenOf(a)'
  BY <1>6 DEF CheckOpens, Mounts, kick
<1>6h. ASSUME NEW s \in Slot, CheckHealthy(s) PROVE SeenOf(a)'
  BY <1>6h DEF CheckHealthy, states, kick
<1>7. ASSUME NEW s \in Slot, Commit(s) PROVE SeenOf(a)'
  BY <1>7 DEF Commit, Wins, WatchFree, states, kick
<1>8. ASSUME NEW s \in Slot, Report(s) PROVE SeenOf(a)'
  BY <1>8 DEF Report, states, kick
<1>9. ASSUME NEW s \in Slot, CloseLoser(s) PROVE SeenOf(a)'
  BY <1>9 DEF CloseLoser, Loser, states, kick
<1>10. ASSUME NEW s \in Slot, Unlist(s) PROVE SeenOf(a)'
  BY <1>10 DEF Unlist, states, kick
<1>11. ASSUME NEW k \in Settler, NEW p \in Path, ReloadOpens(k, p) PROVE SeenOf(a)'
  BY <1>11 DEF ReloadOpens, ReloadBegins, Retired, att
<1>12. ASSUME NEW k \in Settler, ReloadDrops(k) PROVE SeenOf(a)'
  BY <1>12 DEF ReloadDrops, Retired, states, att, kick
<1>13. ASSUME Close PROVE SeenOf(a)'
  BY <1>13 DEF Close, Retired, states, att, kick
<1>14. ASSUME NEW t \in State, CloseRetired(t) PROVE SeenOf(a)'
  BY <1>14 DEF CloseRetired, states, att, kick
<1> QED
  BY <1>1, <1>2, <1>3, <1>4, <1>5, <1>6, <1>6h, <1>7, <1>8, <1>9, <1>10, <1>11, <1>12, <1>13, <1>14 DEF
     Moves, AttemptStep

LEMMA NextNexts == ASSUME IInv, Moves PROVE Nexts'
<1> SUFFICES ASSUME NEW a \in Slot PROVE NextOf(a)'
  BY DEF Nexts
<1>a. CoreTypes /\ SeenOf(a) /\ NextOf(a)
  BY TypeParts DEF IInv, CheckInv, Seens, Nexts
<1> USE <1>a, RootsAssumption DEF CoreTypes, State, Phase, SeenOf, NextOf, Holding
<1>1. ASSUME QuietStep PROVE NextOf(a)'
  BY <1>1 DEF QuietStep, Core
<1>2. ASSUME NEW k \in Kicker, KickRead(k) PROVE NextOf(a)'
  BY <1>2 DEF KickRead, states, att
<1>3. ASSUME NEW k \in Kicker, KickJoin(k) PROVE NextOf(a)'
  BY <1>3 DEF KickJoin, states, att
<1>4. ASSUME NEW k \in Kicker, NEW s \in Slot, KickStart(k, s) PROVE NextOf(a)'
  BY <1>4 DEF KickStart, states, Free
<1>5. ASSUME NEW s \in Slot, CheckUnchanged(s) PROVE NextOf(a)'
  BY <1>5 DEF CheckUnchanged, Mounts, states, kick
<1>6. ASSUME NEW s \in Slot, CheckOpens(s) PROVE NextOf(a)'
  BY <1>6 DEF CheckOpens, Mounts, kick
<1>6h. ASSUME NEW s \in Slot, CheckHealthy(s) PROVE NextOf(a)'
  BY <1>6h DEF CheckHealthy, states, kick
<1>7. ASSUME NEW s \in Slot, Commit(s) PROVE NextOf(a)'
  BY <1>7 DEF Commit, Wins, WatchFree, states, kick
<1>8. ASSUME NEW s \in Slot, Report(s) PROVE NextOf(a)'
  BY <1>8 DEF Report, states, kick
<1>9. ASSUME NEW s \in Slot, CloseLoser(s) PROVE NextOf(a)'
  BY <1>9 DEF CloseLoser, Loser, states, kick
<1>10. ASSUME NEW s \in Slot, Unlist(s) PROVE NextOf(a)'
  BY <1>10 DEF Unlist, states, kick
<1>11. ASSUME NEW k \in Settler, NEW p \in Path, ReloadOpens(k, p) PROVE NextOf(a)'
  BY <1>11 DEF ReloadOpens, ReloadBegins, Retired, att
<1>12. ASSUME NEW k \in Settler, ReloadDrops(k) PROVE NextOf(a)'
  BY <1>12 DEF ReloadDrops, Retired, states, att, kick
<1>13. ASSUME Close PROVE NextOf(a)'
  BY <1>13 DEF Close, Retired, states, att, kick
<1>14. ASSUME NEW t \in State, CloseRetired(t) PROVE NextOf(a)'
  BY <1>14 DEF CloseRetired, states, att, kick
<1> QED
  BY <1>1, <1>2, <1>3, <1>4, <1>5, <1>6, <1>6h, <1>7, <1>8, <1>9, <1>10, <1>11, <1>12, <1>13, <1>14 DEF
     Moves, AttemptStep

LEMMA NextFresh == ASSUME IInv, Moves PROVE Fresh'
<1> SUFFICES ASSUME NEW a \in Slot PROVE FreshOf(a)'
  BY DEF Fresh
<1>a. CoreTypes /\ NextOf(a) /\ FreshOf(a) /\ \A b \in Slot : UnseenBy(a, b)
  BY TypeParts DEF IInv, CheckInv, Nexts, Fresh, Unseen
<1> USE <1>a, RootsAssumption DEF CoreTypes, State, Phase, NextOf, FreshOf, UnseenBy, Own, Holding
<1>1. ASSUME QuietStep PROVE FreshOf(a)'
  BY <1>1 DEF QuietStep, Core
<1>2. ASSUME NEW k \in Kicker, KickRead(k) PROVE FreshOf(a)'
  BY <1>2 DEF KickRead, states, att
<1>3. ASSUME NEW k \in Kicker, KickJoin(k) PROVE FreshOf(a)'
  BY <1>3 DEF KickJoin, states, att
<1>4. ASSUME NEW k \in Kicker, NEW s \in Slot, KickStart(k, s) PROVE FreshOf(a)'
  BY <1>4 DEF KickStart, states, Free
<1>5. ASSUME NEW s \in Slot, CheckUnchanged(s) PROVE FreshOf(a)'
  BY <1>5 DEF CheckUnchanged, Mounts, states, kick
<1>6. ASSUME NEW s \in Slot, CheckOpens(s) PROVE FreshOf(a)'
  BY <1>6 DEF CheckOpens, Mounts, kick
<1>6h. ASSUME NEW s \in Slot, CheckHealthy(s) PROVE FreshOf(a)'
  BY <1>6h DEF CheckHealthy, states, kick
<1>7. ASSUME NEW s \in Slot, Commit(s) PROVE FreshOf(a)'
  BY <1>7 DEF Commit, Wins, WatchFree, states, kick
<1>8. ASSUME NEW s \in Slot, Report(s) PROVE FreshOf(a)'
  BY <1>8 DEF Report, states, kick
<1>9. ASSUME NEW s \in Slot, CloseLoser(s) PROVE FreshOf(a)'
  BY <1>9 DEF CloseLoser, Loser, states, kick
<1>10. ASSUME NEW s \in Slot, Unlist(s) PROVE FreshOf(a)'
  BY <1>10 DEF Unlist, states, kick
<1>11. ASSUME NEW k \in Settler, NEW p \in Path, ReloadOpens(k, p) PROVE FreshOf(a)'
  BY <1>11 DEF ReloadOpens, ReloadBegins, Retired, att
<1>12. ASSUME NEW k \in Settler, ReloadDrops(k) PROVE FreshOf(a)'
  BY <1>12 DEF ReloadDrops, Retired, states, att, kick
<1>13. ASSUME Close PROVE FreshOf(a)'
  BY <1>13 DEF Close, Retired, states, att, kick
<1>14. ASSUME NEW t \in State, CloseRetired(t) PROVE FreshOf(a)'
  BY <1>14 DEF CloseRetired, states, att, kick
<1> QED
  BY <1>1, <1>2, <1>3, <1>4, <1>5, <1>6, <1>6h, <1>7, <1>8, <1>9, <1>10, <1>11, <1>12, <1>13, <1>14 DEF
     Moves, AttemptStep

LEMMA NextUnseen == ASSUME IInv, Moves PROVE Unseen'
<1> SUFFICES ASSUME NEW a \in Slot, NEW b \in Slot PROVE UnseenBy(a, b)'
  BY DEF Unseen
<1>a. CoreTypes /\ KickTypes /\ NextOf(a) /\ NextOf(b) /\ SeenOf(b) /\ UnseenBy(a, b) /\ \A k \in
      Kicker : UnreadBy(a, k)
  BY TypeParts DEF IInv, CheckInv, Nexts, Seens, Unseen, Unread
<1> USE <1>a, RootsAssumption DEF CoreTypes, State, Phase, KickTypes, NextOf, SeenOf, UnseenBy,
        UnreadBy, Own, Holding
<1>1. ASSUME QuietStep PROVE UnseenBy(a, b)'
  BY <1>1 DEF QuietStep, Core
<1>2. ASSUME NEW k \in Kicker, KickRead(k) PROVE UnseenBy(a, b)'
  BY <1>2 DEF KickRead, states, att
<1>3. ASSUME NEW k \in Kicker, KickJoin(k) PROVE UnseenBy(a, b)'
  BY <1>3 DEF KickJoin, states, att
<1>4. ASSUME NEW k \in Kicker, NEW s \in Slot, KickStart(k, s) PROVE UnseenBy(a, b)'
  BY <1>4 DEF KickStart, states, Free
<1>5. ASSUME NEW s \in Slot, CheckUnchanged(s) PROVE UnseenBy(a, b)'
  BY <1>5 DEF CheckUnchanged, Mounts, states, kick
<1>6. ASSUME NEW s \in Slot, CheckOpens(s) PROVE UnseenBy(a, b)'
  BY <1>6 DEF CheckOpens, Mounts, kick
<1>6h. ASSUME NEW s \in Slot, CheckHealthy(s) PROVE UnseenBy(a, b)'
  BY <1>6h DEF CheckHealthy, states, kick
<1>7. ASSUME NEW s \in Slot, Commit(s) PROVE UnseenBy(a, b)'
  BY <1>7 DEF Commit, Wins, WatchFree, states, kick
<1>8. ASSUME NEW s \in Slot, Report(s) PROVE UnseenBy(a, b)'
  BY <1>8 DEF Report, states, kick
<1>9. ASSUME NEW s \in Slot, CloseLoser(s) PROVE UnseenBy(a, b)'
  BY <1>9 DEF CloseLoser, Loser, states, kick
<1>10. ASSUME NEW s \in Slot, Unlist(s) PROVE UnseenBy(a, b)'
  BY <1>10 DEF Unlist, states, kick
<1>11. ASSUME NEW k \in Settler, NEW p \in Path, ReloadOpens(k, p) PROVE UnseenBy(a, b)'
  BY <1>11 DEF ReloadOpens, ReloadBegins, Retired, att
<1>12. ASSUME NEW k \in Settler, ReloadDrops(k) PROVE UnseenBy(a, b)'
  BY <1>12 DEF ReloadDrops, Retired, states, att, kick
<1>13. ASSUME Close PROVE UnseenBy(a, b)'
  BY <1>13 DEF Close, Retired, states, att, kick
<1>14. ASSUME NEW t \in State, CloseRetired(t) PROVE UnseenBy(a, b)'
  BY <1>14 DEF CloseRetired, states, att, kick
<1> QED
  BY <1>1, <1>2, <1>3, <1>4, <1>5, <1>6, <1>6h, <1>7, <1>8, <1>9, <1>10, <1>11, <1>12, <1>13, <1>14 DEF
     Moves, AttemptStep

LEMMA NextUnread == ASSUME IInv, Moves PROVE Unread'
<1> SUFFICES ASSUME NEW a \in Slot, NEW j \in Kicker PROVE UnreadBy(a, j)'
  BY DEF Unread
<1>a. CoreTypes /\ KickTypes /\ NextOf(a) /\ FreshOf(a) /\ KickOf(j) /\ UnreadBy(a, j)
  BY TypeParts DEF IInv, CheckInv, Nexts, Fresh, Kicks, Unread
<1> USE <1>a, RootsAssumption DEF CoreTypes, State, Phase, KickTypes, NextOf, FreshOf, KickOf,
        UnreadBy, Own, Holding
<1>1. ASSUME QuietStep PROVE UnreadBy(a, j)'
  BY <1>1 DEF QuietStep, Core
<1>2. ASSUME NEW k \in Kicker, KickRead(k) PROVE UnreadBy(a, j)'
  BY <1>2 DEF KickRead, states, att
<1>3. ASSUME NEW k \in Kicker, KickJoin(k) PROVE UnreadBy(a, j)'
  BY <1>3 DEF KickJoin, states, att
<1>4. ASSUME NEW k \in Kicker, NEW s \in Slot, KickStart(k, s) PROVE UnreadBy(a, j)'
  BY <1>4 DEF KickStart, states, Free
<1>5. ASSUME NEW s \in Slot, CheckUnchanged(s) PROVE UnreadBy(a, j)'
  BY <1>5 DEF CheckUnchanged, Mounts, states, kick
<1>6. ASSUME NEW s \in Slot, CheckOpens(s) PROVE UnreadBy(a, j)'
  BY <1>6 DEF CheckOpens, Mounts, kick
<1>6h. ASSUME NEW s \in Slot, CheckHealthy(s) PROVE UnreadBy(a, j)'
  BY <1>6h DEF CheckHealthy, states, kick
<1>7. ASSUME NEW s \in Slot, Commit(s) PROVE UnreadBy(a, j)'
  BY <1>7 DEF Commit, Wins, WatchFree, states, kick
<1>8. ASSUME NEW s \in Slot, Report(s) PROVE UnreadBy(a, j)'
  BY <1>8 DEF Report, states, kick
<1>9. ASSUME NEW s \in Slot, CloseLoser(s) PROVE UnreadBy(a, j)'
  BY <1>9 DEF CloseLoser, Loser, states, kick
<1>10. ASSUME NEW s \in Slot, Unlist(s) PROVE UnreadBy(a, j)'
  BY <1>10 DEF Unlist, states, kick
<1>11. ASSUME NEW k \in Settler, NEW p \in Path, ReloadOpens(k, p) PROVE UnreadBy(a, j)'
  BY <1>11 DEF ReloadOpens, ReloadBegins, Retired, att
<1>12. ASSUME NEW k \in Settler, ReloadDrops(k) PROVE UnreadBy(a, j)'
  BY <1>12 DEF ReloadDrops, Retired, states, att, kick
<1>13. ASSUME Close PROVE UnreadBy(a, j)'
  BY <1>13 DEF Close, Retired, states, att, kick
<1>14. ASSUME NEW t \in State, CloseRetired(t) PROVE UnreadBy(a, j)'
  BY <1>14 DEF CloseRetired, states, att, kick
<1> QED
  BY <1>1, <1>2, <1>3, <1>4, <1>5, <1>6, <1>6h, <1>7, <1>8, <1>9, <1>10, <1>11, <1>12, <1>13, <1>14 DEF
     Moves, AttemptStep

LEMMA NextReplaced == ASSUME IInv, Moves PROVE Replaced'
<1> SUFFICES ASSUME NEW a \in Slot PROVE ReplacedOf(a)'
  BY DEF Replaced
<1>a. CoreTypes /\ SeenOf(a) /\ NextOf(a) /\ ReplacedOf(a) /\ \A b \in Slot : UnseenBy(b, a)
  BY TypeParts DEF IInv, CheckInv, Seens, Nexts, Replaced, Unseen
<1> USE <1>a, RootsAssumption DEF CoreTypes, State, Phase, SeenOf, NextOf, ReplacedOf, UnseenBy,
        Own, Holding
<1>1. ASSUME QuietStep PROVE ReplacedOf(a)'
  BY <1>1 DEF QuietStep, Core
<1>2. ASSUME NEW k \in Kicker, KickRead(k) PROVE ReplacedOf(a)'
  BY <1>2 DEF KickRead, states, att
<1>3. ASSUME NEW k \in Kicker, KickJoin(k) PROVE ReplacedOf(a)'
  BY <1>3 DEF KickJoin, states, att
<1>4. ASSUME NEW k \in Kicker, NEW s \in Slot, KickStart(k, s) PROVE ReplacedOf(a)'
  BY <1>4 DEF KickStart, states, Free
<1>5. ASSUME NEW s \in Slot, CheckUnchanged(s) PROVE ReplacedOf(a)'
  BY <1>5 DEF CheckUnchanged, Mounts, states, kick
<1>6. ASSUME NEW s \in Slot, CheckOpens(s) PROVE ReplacedOf(a)'
  BY <1>6 DEF CheckOpens, Mounts, kick
<1>6h. ASSUME NEW s \in Slot, CheckHealthy(s) PROVE ReplacedOf(a)'
  BY <1>6h DEF CheckHealthy, states, kick
<1>7. ASSUME NEW s \in Slot, Commit(s) PROVE ReplacedOf(a)'
  BY <1>7 DEF Commit, Wins, WatchFree, states, kick
<1>8. ASSUME NEW s \in Slot, Report(s) PROVE ReplacedOf(a)'
  BY <1>8 DEF Report, states, kick
<1>9. ASSUME NEW s \in Slot, CloseLoser(s) PROVE ReplacedOf(a)'
  BY <1>9 DEF CloseLoser, Loser, states, kick
<1>10. ASSUME NEW s \in Slot, Unlist(s) PROVE ReplacedOf(a)'
  BY <1>10 DEF Unlist, states, kick
<1>11. ASSUME NEW k \in Settler, NEW p \in Path, ReloadOpens(k, p) PROVE ReplacedOf(a)'
  BY <1>11 DEF ReloadOpens, ReloadBegins, Retired, att
<1>12. ASSUME NEW k \in Settler, ReloadDrops(k) PROVE ReplacedOf(a)'
  BY <1>12 DEF ReloadDrops, Retired, states, att, kick
<1>13. ASSUME Close PROVE ReplacedOf(a)'
  BY <1>13 DEF Close, Retired, states, att, kick
<1>14. ASSUME NEW t \in State, CloseRetired(t) PROVE ReplacedOf(a)'
  BY <1>14 DEF CloseRetired, states, att, kick
<1> QED
  BY <1>1, <1>2, <1>3, <1>4, <1>5, <1>6, <1>6h, <1>7, <1>8, <1>9, <1>10, <1>11, <1>12, <1>13, <1>14 DEF
     Moves, AttemptStep

LEMMA NextOpens == ASSUME IInv, Moves PROVE Opens'
<1> SUFFICES ASSUME NEW a \in Slot PROVE OpenOf(a)'
  BY DEF Opens
<1>a. CoreTypes /\ NextOf(a) /\ FreshOf(a) /\ OpenOf(a) /\ \A b \in Slot : UnseenBy(a, b)
  BY TypeParts DEF IInv, CheckInv, HandleInv, Nexts, Fresh, Opens, Unseen
<1> USE <1>a, RootsAssumption DEF CoreTypes, State, Phase, NextOf, FreshOf, OpenOf, UnseenBy, Own,
        Holding, Mounted
<1>1. ASSUME QuietStep PROVE OpenOf(a)'
  BY <1>1 DEF QuietStep, Core
<1>2. ASSUME NEW k \in Kicker, KickRead(k) PROVE OpenOf(a)'
  BY <1>2 DEF KickRead, states, att
<1>3. ASSUME NEW k \in Kicker, KickJoin(k) PROVE OpenOf(a)'
  BY <1>3 DEF KickJoin, states, att
<1>4. ASSUME NEW k \in Kicker, NEW s \in Slot, KickStart(k, s) PROVE OpenOf(a)'
  BY <1>4 DEF KickStart, states, Free
<1>5. ASSUME NEW s \in Slot, CheckUnchanged(s) PROVE OpenOf(a)'
  BY <1>5 DEF CheckUnchanged, Mounts, states, kick
<1>6. ASSUME NEW s \in Slot, CheckOpens(s) PROVE OpenOf(a)'
  BY <1>6 DEF CheckOpens, Mounts, kick
<1>6h. ASSUME NEW s \in Slot, CheckHealthy(s) PROVE OpenOf(a)'
  BY <1>6h DEF CheckHealthy, states, kick
<1>7. ASSUME NEW s \in Slot, Commit(s) PROVE OpenOf(a)'
  BY <1>7 DEF Commit, Wins, WatchFree, states, kick
<1>8. ASSUME NEW s \in Slot, Report(s) PROVE OpenOf(a)'
  BY <1>8 DEF Report, states, kick
<1>9. ASSUME NEW s \in Slot, CloseLoser(s) PROVE OpenOf(a)'
  BY <1>9 DEF CloseLoser, Loser, states, kick
<1>10. ASSUME NEW s \in Slot, Unlist(s) PROVE OpenOf(a)'
  BY <1>10 DEF Unlist, states, kick
<1>11. ASSUME NEW k \in Settler, NEW p \in Path, ReloadOpens(k, p) PROVE OpenOf(a)'
  BY <1>11 DEF ReloadOpens, ReloadBegins, Retired, att
<1>12. ASSUME NEW k \in Settler, ReloadDrops(k) PROVE OpenOf(a)'
  BY <1>12 DEF ReloadDrops, Retired, states, att, kick
<1>13. ASSUME Close PROVE OpenOf(a)'
  BY <1>13 DEF Close, Retired, states, att, kick
<1>14. ASSUME NEW t \in State, CloseRetired(t) PROVE OpenOf(a)'
  BY <1>14 DEF CloseRetired, states, att, kick
<1> QED
  BY <1>1, <1>2, <1>3, <1>4, <1>5, <1>6, <1>6h, <1>7, <1>8, <1>9, <1>10, <1>11, <1>12, <1>13, <1>14 DEF
     Moves, AttemptStep

LEMMA NextHandleStates == ASSUME IInv, Moves PROVE HandleStates'
<1>a. CoreTypes /\ HandleStates
  BY TypeParts DEF IInv, HandleInv
<1> USE <1>a, RootsAssumption DEF CoreTypes, State, Phase, HandleStates, Mounted
<1>1. ASSUME QuietStep PROVE HandleStates'
  BY <1>1 DEF QuietStep, Core
<1>2. ASSUME NEW k \in Kicker, KickRead(k) PROVE HandleStates'
  BY <1>2 DEF KickRead, states, att
<1>3. ASSUME NEW k \in Kicker, KickJoin(k) PROVE HandleStates'
  BY <1>3 DEF KickJoin, states, att
<1>4. ASSUME NEW k \in Kicker, NEW s \in Slot, KickStart(k, s) PROVE HandleStates'
  BY <1>4 DEF KickStart, states, Free
<1>5. ASSUME NEW s \in Slot, CheckUnchanged(s) PROVE HandleStates'
  BY <1>5 DEF CheckUnchanged, Mounts, states, kick
<1>6. ASSUME NEW s \in Slot, CheckOpens(s) PROVE HandleStates'
  BY <1>6 DEF CheckOpens, Mounts, kick
<1>6h. ASSUME NEW s \in Slot, CheckHealthy(s) PROVE HandleStates'
  BY <1>6h DEF CheckHealthy, states, kick
<1>7. ASSUME NEW s \in Slot, Commit(s) PROVE HandleStates'
  BY <1>7 DEF Commit, Wins, WatchFree, states, kick
<1>8. ASSUME NEW s \in Slot, Report(s) PROVE HandleStates'
  BY <1>8 DEF Report, states, kick
<1>9. ASSUME NEW s \in Slot, CloseLoser(s) PROVE HandleStates'
  BY <1>9 DEF CloseLoser, Loser, states, kick
<1>10. ASSUME NEW s \in Slot, Unlist(s) PROVE HandleStates'
  BY <1>10 DEF Unlist, states, kick
<1>11. ASSUME NEW k \in Settler, NEW p \in Path, ReloadOpens(k, p) PROVE HandleStates'
  BY <1>11 DEF ReloadOpens, ReloadBegins, Retired, att
<1>12. ASSUME NEW k \in Settler, ReloadDrops(k) PROVE HandleStates'
  BY <1>12 DEF ReloadDrops, Retired, states, att, kick
<1>13. ASSUME Close PROVE HandleStates'
  BY <1>13 DEF Close, Retired, states, att, kick
<1>14. ASSUME NEW t \in State, CloseRetired(t) PROVE HandleStates'
  BY <1>14 DEF CloseRetired, states, att, kick
<1> QED
  BY <1>1, <1>2, <1>3, <1>4, <1>5, <1>6, <1>6h, <1>7, <1>8, <1>9, <1>10, <1>11, <1>12, <1>13, <1>14 DEF
     Moves, AttemptStep

LEMMA NextLiveIsNotRetired == ASSUME IInv, Moves PROVE LiveIsNotRetired'
<1>a. CoreTypes /\ LiveIsNotRetired /\ Fresh
  BY TypeParts DEF IInv, HandleInv, CheckInv
<1> USE <1>a, RootsAssumption DEF CoreTypes, State, Phase, LiveIsNotRetired, Fresh, FreshOf, Own
<1>1. ASSUME QuietStep PROVE LiveIsNotRetired'
  BY <1>1 DEF QuietStep, Core
<1>2. ASSUME NEW k \in Kicker, KickRead(k) PROVE LiveIsNotRetired'
  BY <1>2 DEF KickRead, states, att
<1>3. ASSUME NEW k \in Kicker, KickJoin(k) PROVE LiveIsNotRetired'
  BY <1>3 DEF KickJoin, states, att
<1>4. ASSUME NEW k \in Kicker, NEW s \in Slot, KickStart(k, s) PROVE LiveIsNotRetired'
  BY <1>4 DEF KickStart, states, Free
<1>5. ASSUME NEW s \in Slot, CheckUnchanged(s) PROVE LiveIsNotRetired'
  BY <1>5 DEF CheckUnchanged, Mounts, states, kick
<1>6. ASSUME NEW s \in Slot, CheckOpens(s) PROVE LiveIsNotRetired'
  BY <1>6 DEF CheckOpens, Mounts, kick
<1>6h. ASSUME NEW s \in Slot, CheckHealthy(s) PROVE LiveIsNotRetired'
  BY <1>6h DEF CheckHealthy, states, kick
<1>7. ASSUME NEW s \in Slot, Commit(s) PROVE LiveIsNotRetired'
  BY <1>7 DEF Commit, Wins, WatchFree, states, kick
<1>8. ASSUME NEW s \in Slot, Report(s) PROVE LiveIsNotRetired'
  BY <1>8 DEF Report, states, kick
<1>9. ASSUME NEW s \in Slot, CloseLoser(s) PROVE LiveIsNotRetired'
  BY <1>9 DEF CloseLoser, Loser, states, kick
<1>10. ASSUME NEW s \in Slot, Unlist(s) PROVE LiveIsNotRetired'
  BY <1>10 DEF Unlist, states, kick
<1>11. ASSUME NEW k \in Settler, NEW p \in Path, ReloadOpens(k, p) PROVE LiveIsNotRetired'
  BY <1>11 DEF ReloadOpens, ReloadBegins, Retired, att
<1>12. ASSUME NEW k \in Settler, ReloadDrops(k) PROVE LiveIsNotRetired'
  BY <1>12 DEF ReloadDrops, Retired, states, att, kick
<1>13. ASSUME Close PROVE LiveIsNotRetired'
  BY <1>13 DEF Close, Retired, states, att, kick
<1>14. ASSUME NEW t \in State, CloseRetired(t) PROVE LiveIsNotRetired'
  BY <1>14 DEF CloseRetired, states, att, kick
<1> QED
  BY <1>1, <1>2, <1>3, <1>4, <1>5, <1>6, <1>6h, <1>7, <1>8, <1>9, <1>10, <1>11, <1>12, <1>13, <1>14 DEF
     Moves, AttemptStep

LEMMA NextLiveHandleOpen == ASSUME IInv, Moves PROVE LiveHandleOpen'
<1>a. CoreTypes /\ LiveHandleOpen /\ LiveIsNotRetired /\ Opens /\ Replaced /\ Fresh /\ Nexts
  BY TypeParts DEF IInv, HandleInv, CheckInv
<1> USE <1>a, RootsAssumption DEF CoreTypes, State, Phase, LiveHandleOpen, LiveIsNotRetired, Opens,
        OpenOf, Replaced, ReplacedOf, Fresh, FreshOf, Nexts, NextOf, Own, Holding, Mounted, Reason
<1>1. ASSUME QuietStep PROVE LiveHandleOpen'
  BY <1>1 DEF QuietStep, Core
<1>2. ASSUME NEW k \in Kicker, KickRead(k) PROVE LiveHandleOpen'
  BY <1>2 DEF KickRead, states, att
<1>3. ASSUME NEW k \in Kicker, KickJoin(k) PROVE LiveHandleOpen'
  BY <1>3 DEF KickJoin, states, att
<1>4. ASSUME NEW k \in Kicker, NEW s \in Slot, KickStart(k, s) PROVE LiveHandleOpen'
  BY <1>4 DEF KickStart, states, Free
<1>5. ASSUME NEW s \in Slot, CheckUnchanged(s) PROVE LiveHandleOpen'
  BY <1>5 DEF CheckUnchanged, Mounts, states, kick
<1>6. ASSUME NEW s \in Slot, CheckOpens(s) PROVE LiveHandleOpen'
  BY <1>6 DEF CheckOpens, Mounts, kick
<1>6h. ASSUME NEW s \in Slot, CheckHealthy(s) PROVE LiveHandleOpen'
  BY <1>6h DEF CheckHealthy, states, kick
<1>7. ASSUME NEW s \in Slot, Commit(s) PROVE LiveHandleOpen'
  BY <1>7 DEF Commit, Wins, WatchFree, states, kick
<1>8. ASSUME NEW s \in Slot, Report(s) PROVE LiveHandleOpen'
  BY <1>8 DEF Report, states, kick
<1>9. ASSUME NEW s \in Slot, CloseLoser(s) PROVE LiveHandleOpen'
  BY <1>9 DEF CloseLoser, Loser, states, kick
<1>10. ASSUME NEW s \in Slot, Unlist(s) PROVE LiveHandleOpen'
  BY <1>10 DEF Unlist, states, kick
<1>11. ASSUME NEW k \in Settler, NEW p \in Path, ReloadOpens(k, p) PROVE LiveHandleOpen'
  BY <1>11 DEF ReloadOpens, ReloadBegins, Retired, att
<1>12. ASSUME NEW k \in Settler, ReloadDrops(k) PROVE LiveHandleOpen'
  BY <1>12 DEF ReloadDrops, Retired, states, att, kick
<1>13. ASSUME Close PROVE LiveHandleOpen'
  BY <1>13 DEF Close, Retired, states, att, kick
<1>14. ASSUME NEW t \in State, CloseRetired(t) PROVE LiveHandleOpen'
  BY <1>14 DEF CloseRetired, states, att, kick
<1> QED
  BY <1>1, <1>2, <1>3, <1>4, <1>5, <1>6, <1>6h, <1>7, <1>8, <1>9, <1>10, <1>11, <1>12, <1>13, <1>14 DEF
     Moves, AttemptStep

LEMMA NextOwned == ASSUME IInv, Moves PROVE Owned'
<1> SUFFICES ASSUME NEW h \in State PROVE OwnedOf(h)'
  BY DEF Owned
<1>a. CoreTypes /\ KickTypes /\ OwnedOf(h) /\ HandleStates
  BY TypeParts DEF IInv, HandleInv, Owned
<1> USE <1>a, RootsAssumption DEF CoreTypes, State, Phase, OwnedOf, HandleStates, HeldBy, Own,
        Mounted
<1>1. ASSUME QuietStep PROVE OwnedOf(h)'
  BY <1>1 DEF QuietStep, Core
<1>2. ASSUME NEW k \in Kicker, KickRead(k) PROVE OwnedOf(h)'
  BY <1>2 DEF KickRead, states, att
<1>3. ASSUME NEW k \in Kicker, KickJoin(k) PROVE OwnedOf(h)'
  BY <1>3 DEF KickJoin, states, att
<1>4. ASSUME NEW k \in Kicker, NEW s \in Slot, KickStart(k, s) PROVE OwnedOf(h)'
  BY <1>4 DEF KickStart, states, Free
<1>5. ASSUME NEW s \in Slot, CheckUnchanged(s) PROVE OwnedOf(h)'
  BY <1>5 DEF CheckUnchanged, Mounts, states, kick
<1>6. ASSUME NEW s \in Slot, CheckOpens(s) PROVE OwnedOf(h)'
  BY <1>6 DEF CheckOpens, Mounts, kick
<1>6h. ASSUME NEW s \in Slot, CheckHealthy(s) PROVE OwnedOf(h)'
  BY <1>6h DEF CheckHealthy, states, kick
<1>7. ASSUME NEW s \in Slot, Commit(s) PROVE OwnedOf(h)'
  BY <1>7 DEF Commit, Wins, WatchFree, states, kick
<1>8. ASSUME NEW s \in Slot, Report(s) PROVE OwnedOf(h)'
  BY <1>8 DEF Report, states, kick
<1>9. ASSUME NEW s \in Slot, CloseLoser(s) PROVE OwnedOf(h)'
  BY <1>9 DEF CloseLoser, Loser, states, kick
<1>10. ASSUME NEW s \in Slot, Unlist(s) PROVE OwnedOf(h)'
  BY <1>10 DEF Unlist, states, kick
<1>11. ASSUME NEW k \in Settler, NEW p \in Path, ReloadOpens(k, p) PROVE OwnedOf(h)'
  BY <1>11 DEF ReloadOpens, ReloadBegins, Retired, att
<1>12. ASSUME NEW k \in Settler, ReloadDrops(k) PROVE OwnedOf(h)'
  BY <1>12 DEF ReloadDrops, Retired, states, att, kick
<1>13. ASSUME Close PROVE OwnedOf(h)'
  BY <1>13 DEF Close, Retired, states, att, kick
<1>14. ASSUME NEW t \in State, CloseRetired(t) PROVE OwnedOf(h)'
  BY <1>14 DEF CloseRetired, states, att, kick
<1> QED
  BY <1>1, <1>2, <1>3, <1>4, <1>5, <1>6, <1>6h, <1>7, <1>8, <1>9, <1>10, <1>11, <1>12, <1>13, <1>14 DEF
     Moves, AttemptStep

LEMMA NextReporters == ASSUME IInv, Moves PROVE Reporters'
<1> SUFFICES ASSUME NEW a \in Slot PROVE ReporterOf(a)'
  BY DEF Reporters
<1>a. CoreTypes /\ (\A b \in Slot : ReporterOf(b)) /\ ReportedIsPast /\ NextOf(a) /\ SeenOf(a)
  BY TypeParts DEF IInv, CheckInv, ReportInv, Nexts, Seens, Reporters
<1> USE <1>a, RootsAssumption DEF CoreTypes, State, Phase, ReporterOf, ReportedIsPast, NextOf,
        SeenOf, Holding
<1>1. ASSUME QuietStep PROVE ReporterOf(a)'
  BY <1>1 DEF QuietStep, Core
<1>2. ASSUME NEW k \in Kicker, KickRead(k) PROVE ReporterOf(a)'
  BY <1>2 DEF KickRead, states, att
<1>3. ASSUME NEW k \in Kicker, KickJoin(k) PROVE ReporterOf(a)'
  BY <1>3 DEF KickJoin, states, att
<1>4. ASSUME NEW k \in Kicker, NEW s \in Slot, KickStart(k, s) PROVE ReporterOf(a)'
  BY <1>4 DEF KickStart, states, Free
<1>5. ASSUME NEW s \in Slot, CheckUnchanged(s) PROVE ReporterOf(a)'
  BY <1>5 DEF CheckUnchanged, Mounts, states, kick
<1>6. ASSUME NEW s \in Slot, CheckOpens(s) PROVE ReporterOf(a)'
  BY <1>6 DEF CheckOpens, Mounts, kick
<1>6h. ASSUME NEW s \in Slot, CheckHealthy(s) PROVE ReporterOf(a)'
  BY <1>6h DEF CheckHealthy, states, kick
<1>7. ASSUME NEW s \in Slot, Commit(s) PROVE ReporterOf(a)'
  BY <1>7 DEF Commit, Wins, WatchFree, states, kick
<1>8. ASSUME NEW s \in Slot, Report(s) PROVE ReporterOf(a)'
  BY <1>8 DEF Report, states, kick
<1>9. ASSUME NEW s \in Slot, CloseLoser(s) PROVE ReporterOf(a)'
  BY <1>9 DEF CloseLoser, Loser, states, kick
<1>10. ASSUME NEW s \in Slot, Unlist(s) PROVE ReporterOf(a)'
  BY <1>10 DEF Unlist, states, kick
<1>11. ASSUME NEW k \in Settler, NEW p \in Path, ReloadOpens(k, p) PROVE ReporterOf(a)'
  BY <1>11 DEF ReloadOpens, ReloadBegins, Retired, att
<1>12. ASSUME NEW k \in Settler, ReloadDrops(k) PROVE ReporterOf(a)'
  BY <1>12 DEF ReloadDrops, Retired, states, att, kick
<1>13. ASSUME Close PROVE ReporterOf(a)'
  BY <1>13 DEF Close, Retired, states, att, kick
<1>14. ASSUME NEW t \in State, CloseRetired(t) PROVE ReporterOf(a)'
  BY <1>14 DEF CloseRetired, states, att, kick
<1> QED
  BY <1>1, <1>2, <1>3, <1>4, <1>5, <1>6, <1>6h, <1>7, <1>8, <1>9, <1>10, <1>11, <1>12, <1>13, <1>14 DEF
     Moves, AttemptStep

LEMMA NextReported == ASSUME IInv, Moves PROVE ReportedIsPast'
<1>a. CoreTypes /\ Reporters /\ ReportedIsPast /\ Nexts /\ Seens
  BY TypeParts DEF IInv, CheckInv, ReportInv
<1> USE <1>a, RootsAssumption DEF CoreTypes, State, Phase, Reporters, ReporterOf, ReportedIsPast,
        Nexts, NextOf, Seens, SeenOf, Holding
<1>1. ASSUME QuietStep PROVE ReportedIsPast'
  BY <1>1 DEF QuietStep, Core
<1>2. ASSUME NEW k \in Kicker, KickRead(k) PROVE ReportedIsPast'
  BY <1>2 DEF KickRead, states, att
<1>3. ASSUME NEW k \in Kicker, KickJoin(k) PROVE ReportedIsPast'
  BY <1>3 DEF KickJoin, states, att
<1>4. ASSUME NEW k \in Kicker, NEW s \in Slot, KickStart(k, s) PROVE ReportedIsPast'
  BY <1>4 DEF KickStart, states, Free
<1>5. ASSUME NEW s \in Slot, CheckUnchanged(s) PROVE ReportedIsPast'
  BY <1>5 DEF CheckUnchanged, Mounts, states, kick
<1>6. ASSUME NEW s \in Slot, CheckOpens(s) PROVE ReportedIsPast'
  BY <1>6 DEF CheckOpens, Mounts, kick
<1>6h. ASSUME NEW s \in Slot, CheckHealthy(s) PROVE ReportedIsPast'
  BY <1>6h DEF CheckHealthy, states, kick
<1>7. ASSUME NEW s \in Slot, Commit(s) PROVE ReportedIsPast'
  BY <1>7 DEF Commit, Wins, WatchFree, states, kick
<1>8. ASSUME NEW s \in Slot, Report(s) PROVE ReportedIsPast'
  BY <1>8 DEF Report, states, kick
<1>9. ASSUME NEW s \in Slot, CloseLoser(s) PROVE ReportedIsPast'
  BY <1>9 DEF CloseLoser, Loser, states, kick
<1>10. ASSUME NEW s \in Slot, Unlist(s) PROVE ReportedIsPast'
  BY <1>10 DEF Unlist, states, kick
<1>11. ASSUME NEW k \in Settler, NEW p \in Path, ReloadOpens(k, p) PROVE ReportedIsPast'
  BY <1>11 DEF ReloadOpens, ReloadBegins, Retired, att
<1>12. ASSUME NEW k \in Settler, ReloadDrops(k) PROVE ReportedIsPast'
  BY <1>12 DEF ReloadDrops, Retired, states, att, kick
<1>13. ASSUME Close PROVE ReportedIsPast'
  BY <1>13 DEF Close, Retired, states, att, kick
<1>14. ASSUME NEW t \in State, CloseRetired(t) PROVE ReportedIsPast'
  BY <1>14 DEF CloseRetired, states, att, kick
<1> QED
  BY <1>1, <1>2, <1>3, <1>4, <1>5, <1>6, <1>6h, <1>7, <1>8, <1>9, <1>10, <1>11, <1>12, <1>13, <1>14 DEF
     Moves, AttemptStep

LEMMA NextServes == ASSUME IInv, Moves PROVE ServesConfigured'
<1>a. CoreTypes /\ ServesConfigured /\ Nexts /\ Seens
  BY TypeParts DEF IInv, CheckInv
<1> USE <1>a, RootsAssumption DEF CoreTypes, State, Phase, ServesConfigured, Nexts, NextOf, Seens,
        SeenOf, Holding
<1>1. ASSUME QuietStep PROVE ServesConfigured'
  BY <1>1 DEF QuietStep, Core
<1>2. ASSUME NEW k \in Kicker, KickRead(k) PROVE ServesConfigured'
  BY <1>2 DEF KickRead, states, att
<1>3. ASSUME NEW k \in Kicker, KickJoin(k) PROVE ServesConfigured'
  BY <1>3 DEF KickJoin, states, att
<1>4. ASSUME NEW k \in Kicker, NEW s \in Slot, KickStart(k, s) PROVE ServesConfigured'
  BY <1>4 DEF KickStart, states, Free
<1>5. ASSUME NEW s \in Slot, CheckUnchanged(s) PROVE ServesConfigured'
  BY <1>5 DEF CheckUnchanged, Mounts, states, kick
<1>6. ASSUME NEW s \in Slot, CheckOpens(s) PROVE ServesConfigured'
  BY <1>6 DEF CheckOpens, Mounts, kick
<1>6h. ASSUME NEW s \in Slot, CheckHealthy(s) PROVE ServesConfigured'
  BY <1>6h DEF CheckHealthy, states, kick
<1>7. ASSUME NEW s \in Slot, Commit(s) PROVE ServesConfigured'
  BY <1>7 DEF Commit, Wins, WatchFree, states, kick
<1>8. ASSUME NEW s \in Slot, Report(s) PROVE ServesConfigured'
  BY <1>8 DEF Report, states, kick
<1>9. ASSUME NEW s \in Slot, CloseLoser(s) PROVE ServesConfigured'
  BY <1>9 DEF CloseLoser, Loser, states, kick
<1>10. ASSUME NEW s \in Slot, Unlist(s) PROVE ServesConfigured'
  BY <1>10 DEF Unlist, states, kick
<1>11. ASSUME NEW k \in Settler, NEW p \in Path, ReloadOpens(k, p) PROVE ServesConfigured'
  BY <1>11 DEF ReloadOpens, ReloadBegins, Retired, att
<1>12. ASSUME NEW k \in Settler, ReloadDrops(k) PROVE ServesConfigured'
  BY <1>12 DEF ReloadDrops, Retired, states, att, kick
<1>13. ASSUME Close PROVE ServesConfigured'
  BY <1>13 DEF Close, Retired, states, att, kick
<1>14. ASSUME NEW t \in State, CloseRetired(t) PROVE ServesConfigured'
  BY <1>14 DEF CloseRetired, states, att, kick
<1> QED
  BY <1>1, <1>2, <1>3, <1>4, <1>5, <1>6, <1>6h, <1>7, <1>8, <1>9, <1>10, <1>11, <1>12, <1>13, <1>14 DEF
     Moves, AttemptStep

LEMMA NextEnvTypes == ASSUME EnvTypes, KickTypes, [Next]_vars PROVE EnvTypes'
<1> USE RootsAssumption DEF EnvTypes, Others, Kicker, world_
<1>1. ASSUME NEW p \in Path, NEW d \in Dir \cup Down, FolderChanges(p, d) PROVE EnvTypes'
  BY <1>1 DEF FolderChanges
<1>2. ASSUME NEW k \in Settler, SweepKicks(k) PROVE EnvTypes'
  BY <1>2 DEF SweepKicks
<1>3. ASSUME NEW k \in Settler, ReloadKeeps(k) PROVE EnvTypes'
  BY <1>3 DEF ReloadKeeps
<1>4. ASSUME NEW k \in Settler, ReloadDrops(k) PROVE EnvTypes'
  BY <1>4 DEF ReloadDrops
<1>5. ASSUME NEW k \in Settler, NEW p \in Path, ReloadOpens(k, p) PROVE EnvTypes'
  BY <1>5 DEF ReloadOpens
<1>6. ASSUME NEW k \in Kicker, KickRead(k) PROVE EnvTypes'
  BY <1>6 DEF KickRead
<1>7. ASSUME NEW k \in Kicker, KickJoin(k) PROVE EnvTypes'
  BY <1>7 DEF KickJoin
<1>8. ASSUME NEW k \in Kicker, NEW a \in Slot, KickStart(k, a) PROVE EnvTypes'
  BY <1>8 DEF KickStart
<1>9. ASSUME NEW k \in Settler, SettleEnds(k) PROVE EnvTypes'
  BY <1>9 DEF SettleEnds
<1>10. ASSUME NEW a \in Slot, AttemptStep(a) PROVE EnvTypes'
  BY <1>10 DEF AttemptStep, CheckHealthy, CheckUnchanged, CheckOpens, Commit, Report, CloseLoser, Unlist
<1>11. ASSUME Close PROVE EnvTypes'
  BY <1>11 DEF Close
<1>12. ASSUME NEW s \in State, CloseRetired(s) PROVE EnvTypes'
  BY <1>12 DEF CloseRetired
<1>13. ASSUME NEW o \in Opener,
              Look(o) \/ LookUnknown(o) \/ LooksSpent(o) \/ OpenFile(o) \/ OpenCurrent(o)
              \/ OpenHealthy(o) \/ OpenAwaits(o) \/ AwaitTimesOut(o) \/ OpenBegins(o)
       PROVE  EnvTypes'
  <2>1. UNCHANGED Others
    BY <1>13, Zenon DEF Look, LookUnknown, LooksSpent, OpenFile, OpenCurrent, OpenHealthy,
       OpenAwaits,
                 AwaitTimesOut, OpenBegins
  <2> QED
    BY <2>1
<1>14. ASSUME UNCHANGED vars PROVE EnvTypes'
  BY <1>14 DEF vars
<1> QED
  BY <1>1, <1>2, <1>3, <1>4, <1>5, <1>6, <1>7, <1>8, <1>9, <1>10, <1>11, <1>12, <1>13, <1>14
  DEF Next, OpenStep

LEMMA InitIInv == Init => IInv
<1> SUFFICES ASSUME Init PROVE IInv
  OBVIOUS
<1> USE RootsAssumption DEF Init, State
<1>1. EnvTypes /\ CoreTypes /\ KickTypes
  <2>0. closed \in BOOLEAN
    BY Zenon
  <2>a. KickTypes
    BY DEF KickTypes, Place
  <2>b. world \in 0 .. MaxWorld /\ reloadMu \in Settler \cup {None}
    OBVIOUS
  <2>1. EnvTypes /\ KickTypes
    BY <2>0, <2>a, <2>b DEF EnvTypes
  <2>2. PICK d \in Dir \cup Reason : at = [s \in State |-> IF s = 1 THEN d ELSE Opening]
    OBVIOUS
  <2>3. at \in [State -> Dir \cup Reason]
    BY <2>2 DEF Reason
  <2>4. seq \in State /\ live \in 0 .. seq /\ handles \subseteq 1 .. seq /\ retiring \subseteq 1 ..
     seq
    OBVIOUS
  <2>5. /\ path \in [State -> Path] /\ cur \in Slot \cup {None}
        /\ seen \in [Slot -> 0 .. MaxSeq] /\ next \in [Slot -> 0 .. MaxSeq]
        /\ phase \in [Slot -> Phase] /\ watchMu \in Slot \cup {None}
        /\ reported \in 0 .. MaxSeq /\ want \in Path \cup {None}
    BY DEF Phase
  <2> QED
    BY <2>1, <2>3, <2>4, <2>5 DEF CoreTypes
<1>2. CheckInv
  BY DEF CheckInv, Kicks, KickOf, Seens, SeenOf, Nexts, NextOf, Fresh, FreshOf, Unseen, UnseenBy,
         Unread, UnreadBy, Replaced, ReplacedOf, Own, Holding
<1>3. HandleInv
  BY DEF HandleInv, Opens, OpenOf, HandleStates, LiveIsNotRetired, LiveHandleOpen, Owned, OwnedOf
<1>4. ReportInv
  BY DEF ReportInv, Reporters, ReporterOf, ReportedIsPast
<1>5. ServesConfigured
  BY DEF ServesConfigured
<1> QED
  BY <1>1, <1>2, <1>3, <1>4, <1>5, TypeParts DEF IInv

LEMMA NextIInv == ASSUME IInv, [Next]_vars PROVE IInv'
<1>1. Moves
  BY StepMoves DEF IInv
<1>2. EnvTypes'
  BY NextEnvTypes, TypeParts DEF IInv
<1>3. CoreTypes' /\ KickTypes'
  BY <1>1, NextCoreTypes, NextKickTypes
<1>4. CheckInv'
  BY <1>1, NextKicks, NextSeens, NextNexts, NextFresh, NextUnseen, NextUnread, NextReplaced DEF
     CheckInv
<1>5. HandleInv'
  BY <1>1, NextOpens, NextHandleStates, NextLiveIsNotRetired, NextLiveHandleOpen, NextOwned DEF
     HandleInv
<1>6. ReportInv'
  BY <1>1, NextReporters, NextReported DEF ReportInv
<1>7. ServesConfigured'
  BY <1>1, NextServes
<1>8. TypeOK'
  BY <1>2, <1>3 DEF TypeOK, EnvTypes, CoreTypes
<1> QED
  BY <1>3, <1>4, <1>5, <1>6, <1>7, <1>8 DEF IInv

-----------------------------------------------------------------------------
\* The inductive invariant: types, what checks hold and nobody else knows of,
\* handles and their owners, the one reporter (source/roots.go: kick, check,
\* commit, Reload, Close).
THEOREM RootsInvariant == Spec => []IInv
  BY InitIInv, NextIInv, PTL DEF Spec

\* A check that outlived a reload, another check or a Close installs nothing:
\* the live state is of the configured path (commit's sequence test).
THEOREM ConfigurationRulesHolds == Spec => []ConfigurationRules
<1>1. IInv => ConfigurationRules
  BY DEF IInv, ConfigurationRules
<1> QED
  BY <1>1, RootsInvariant, PTL

\* The live root's handle is open, and every open handle is the live one's,
\* retired, or held by a check that will close it (commit, Reload, Close).
THEOREM HandlesOwnedHolds == Spec => []HandlesOwned
<1>1. ASSUME IInv PROVE NoHandleLeak
  <2> SUFFICES ASSUME NEW h \in handles PROVE h = live \/ h \in retiring \/ \E a \in Slot : h \in
     InHand(a)
    BY DEF NoHandleLeak
  <2>1. h \in State /\ OwnedOf(h)
    BY <1>1, RootsAssumption DEF IInv, TypeOK, HandleInv, Owned, State
  <2>2. ASSUME NEW a \in Slot, HeldBy(a, h) PROVE h \in InHand(a)
    BY <2>2 DEF HeldBy, InHand, Own
  <2> QED
    BY <2>1, <2>2 DEF OwnedOf
<1>2. IInv => HandlesOwned
  BY <1>1 DEF IInv, HandleInv, HandlesOwned
<1> QED
  BY <1>2, RootsInvariant, PTL

\* The watcher hears of root states in the order they were made (commit's
\* report under watchMu).
THEOREM ReportsInOrderHolds == Spec => ReportsInOrder
<1>1. ASSUME IInv, [Next]_vars PROVE [reported' # reported => reported' > reported]_vars
  <2>1. Moves
    BY <1>1, StepMoves DEF IInv
  <2>2. TypeOK /\ Reporters
    BY <1>1 DEF IInv, ReportInv
  <2>3. ASSUME NEW a \in Slot, Report(a) PROVE reported' > reported
    BY <2>2, <2>3, RootsAssumption DEF Report, Reporters, ReporterOf, TypeOK
  <2>4. (\E a \in Slot : Report(a)) \/ reported' = reported
    BY <2>1 DEF Moves, QuietStep, Core, KickRead, KickJoin, KickStart, AttemptStep, CheckHealthy,
                CheckUnchanged, CheckOpens, Commit, CloseLoser, Unlist, ReloadDrops, ReloadOpens, Close,
                   CloseRetired
  <2> QED
    BY <2>3, <2>4
<1>2. Spec => [][reported' # reported => reported' > reported]_vars
  BY <1>1, RootsInvariant, PTL DEF Spec
<1> QED
  BY <1>2 DEF ReportsInOrder
-----------------------------------------------------------------------------
-----------------------------------------------------------------------------
(* Why an open of a sound root is served: a second invariant, over the first. *)
(* While an open is calm the folder stays put, so the live state only changes *)
(* by a check's commit: from shaky (sound, but a check that ran before the    *)
(* folder was back is about to replace it) to not sound, to settled.  Each    *)
(* lookup of the open that does not serve it is one of those changes, so that *)
(* three are enough.                                                          *)

\* Sound, and no check is about to replace the live state.
Settled == Sound /\ \A a \in Slot : phase[a] \in {"mount", "commit"} => seen[a] # live
Shaky   == Sound /\ ~Settled

\* The folder an open is calm about serves; and while the live state does not,
\* whoever checks that very state will install what does.
Watched == calm # {} => live # 0 /\ folder[path[live]] \in Dir
Mends(a) ==
    phase[a] \in {"check", "mount"} \/ (phase[a] = "commit" /\ at[next[a]] = folder[path[live]])
Mending == calm # {} /\ ~Sound => \A a \in Slot : seen[a] = live => Mends(a)

\* What each open remembers, and how many lookups it has spent on what.
Answer == {"none", "file", "unavailable", "unknown", "gaveup"}
OpenTypes ==
    /\ look \in [Kicker -> Nat] /\ on \in [Kicker -> Slot \cup {None}]
    /\ checked \in [Kicker -> Nat] /\ looks \in [Kicker -> Nat]
    /\ result \in [Kicker -> Answer] /\ calm \subseteq Opener
RestOf(o) == pc[o] \in {"idle", "answered"} => looks[o] = 0 /\ checked[o] = 0 /\ o \notin calm
Rests == \A o \in Opener : RestOf(o)
LookOf(o) ==
    pc[o] = "look" =>
        /\ checked[o] < live /\ looks[o] <= 2
        /\ looks[o] >= 1 => ~Shaky
        /\ looks[o] = 2 => Settled
WaitOf(o) ==
    pc[o] \in {"kick", "kick2", "await"} =>
        /\ looks[o] \in 1 .. 2 /\ ~Shaky /\ checked[o] <= live
        /\ checked[o] = live => ~Sound
        /\ looks[o] = 2 => (Settled \/ checked[o] = live)
        /\ pc[o] = "kick2" => checked[o] <= kst[o] /\ kst[o] <= live
        /\ pc[o] = "await" => on[o] \in Slot /\ (checked[o] = live => seen[on[o]] = live)
TryOf(o) ==
    pc[o] \in {"open", "current", "healthy"} =>
        /\ look[o] \in State /\ Mounted(look[o]) /\ checked[o] < look[o] /\ look[o] <= live
        /\ looks[o] \in 1 .. 3
        /\ (look[o] < live \/ looks[o] > 1) => ~Shaky
        /\ (looks[o] = 2 /\ look[o] < live) => Settled
        /\ looks[o] = 3 => (look[o] = live /\ Settled)
        /\ pc[o] = "current" => look[o] \notin handles
ServedOf(o) == result[o] = "none" /\ LookOf(o) /\ WaitOf(o) /\ TryOf(o)
Serving == \A o \in calm : ServedOf(o)

CalmInv == IInv /\ OpenTypes /\ Rests /\ Watched /\ Mending /\ Serving

\* A step while an open is calm leaves the live root as it is, or replaces it,
\* which is never from settled and leads to settled from not sound.
Steady == live' = live /\ (Sound' <=> Sound) /\ (Settled => Settled')
Turned == live < live' /\ ~Settled /\ ~Shaky' /\ (~Sound => Settled')

\* What it leaves of the past.
Past ==
    /\ \A s \in 1 .. seq : at'[s] = at[s] /\ (s \in handles' => s \in handles)
    /\ folder'[path'[live']] = folder[path[live]]
    /\ \A a \in Slot : seen'[a] = seen[a] \/ phase[a] = "unlist" \/ Free(a)

RootView == <<folder, path, at, live, handles, seen, next, phase>>

LEMMA SameView == ASSUME UNCHANGED RootView PROVE Steady /\ Past
  BY DEF RootView, Steady, Past, Sound, Settled, Mounted, Healthy

LEMMA CommitMoves ==
    ASSUME CalmInv, calm # {}, NEW a \in Slot, Commit(a) PROVE (Steady \/ Turned) /\ Past
<1>a. /\ CoreTypes /\ NextOf(a) /\ SeenOf(a) /\ FreshOf(a) /\ OpenOf(a)
      /\ (\A b \in Slot : UnseenBy(a, b)) /\ Watched /\ (~Sound /\ seen[a] = live => Mends(a))
  BY TypeParts DEF CalmInv, IInv, CheckInv, HandleInv, Nexts, Seens, Fresh, Unseen, Opens, Mending
<1>b. UNCHANGED <<folder, path, at, handles, seen, next>>
  BY DEF Commit, world_, states
<1>c. Past
  <2>1. Wins(a) => path[next[a]] = path[live]
    BY <1>a DEF Commit, Wins, NextOf, Holding
  <2>2. path[live'] = path[live]
    BY <2>1 DEF Commit
  <2> QED
    BY <1>b, <2>2 DEF Past
<1>1. CASE Wins(a)
  <2>1. live' = next[a] /\ phase[a] = "commit" /\ seen[a] = live /\ phase' = [phase EXCEPT ![a] =
     "report"]
    BY <1>1 DEF Commit, Wins
  <2>2. live < live' /\ ~Settled
    BY <1>a, <2>1, RootsAssumption DEF NextOf, Holding, Settled, CoreTypes, State
  <2>3. \A b \in Slot : phase'[b] \in {"mount", "commit"} => seen'[b] # live'
    BY <1>a, <1>b, <2>1 DEF UnseenBy, Own, CoreTypes
  <2>4. ~Shaky'
    BY <2>3 DEF Shaky, Settled
  <2>5. ASSUME ~Sound PROVE Settled'
    <3>1. at[next[a]] = folder[path[live]] /\ path[next[a]] = path[live] /\ next[a] # 0
      BY <1>a, <2>1, <2>5 DEF Mends, NextOf, Holding
    <3>2. at[next[a]] \in Dir /\ next[a] \in handles
      BY <1>a, <2>1, <3>1 DEF Watched, OpenOf, Mounted
    <3>3. Sound'
      BY <1>b, <2>1, <3>1, <3>2 DEF Sound, Mounted, Healthy
    <3> QED
      BY <2>3, <3>3 DEF Settled
  <2> QED
    BY <1>c, <2>2, <2>4, <2>5 DEF Turned
<1>2. CASE ~Wins(a)
  <2>1. live' = live /\ phase' = [phase EXCEPT ![a] = "lost"]
    BY <1>2 DEF Commit
  <2> QED
    BY <1>a, <1>b, <1>c, <2>1 DEF Steady, Sound, Settled, Mounted, Healthy, CoreTypes
<1> QED
  BY <1>1, <1>2

LEMMA CheckMoves ==
    ASSUME CalmInv, calm # {}, NEW a \in Slot, AttemptStep(a) PROVE (Steady \/ Turned) /\ Past
<1>a. /\ CoreTypes /\ FreshOf(a) /\ ReplacedOf(a) /\ SeenOf(a) /\ live # 0
      /\ \A b \in Slot : NextOf(b) /\ SeenOf(b)
  BY TypeParts DEF CalmInv, IInv, CheckInv, Fresh, Replaced, Nexts, Seens, Watched
<1> USE <1>a, RootsAssumption DEF CoreTypes, State, Steady, Past, Sound, Settled, Mounted, Healthy
<1>1. CASE CheckUnchanged(a) \/ Report(a)
  BY <1>1 DEF CheckUnchanged, Report, world_, states
<1>6. CASE CheckHealthy(a)
  <2>1. /\ UNCHANGED <<folder, path, at, live, handles, seen>>
        /\ \A b \in Slot : b # a => phase'[b] = phase[b]
        /\ phase'[a] = IF Healthy(seen[a]) THEN "unlist" ELSE "mount"
    BY <1>6 DEF CheckHealthy, world_, states
  <2>2. Sound' <=> Sound
    BY <2>1
  <2>3. Sound /\ seen[a] = live => phase'[a] = "unlist"
    BY <2>1
  <2> QED
    BY <2>1, <2>2, <2>3
<1>2. CASE CheckOpens(a)
  <2>1. /\ UNCHANGED <<folder, live, seen>> /\ seq' = seq + 1
        /\ path' = [path EXCEPT ![seq + 1] = path[seen[a]]]
        /\ at' = [at EXCEPT ![seq + 1] = MountAt(path[seen[a]])]
        /\ handles \subseteq handles' /\ handles' \subseteq handles \cup {seq + 1}
        /\ phase' = [phase EXCEPT ![a] = "commit"]
        /\ Sound /\ seen[a] = live => phase[a] = "mount"
    BY <1>2 DEF CheckOpens, Mounts, world_
  <2>2. \A s \in 1 .. seq : at'[s] = at[s] /\ path'[s] = path[s] /\ (s \in handles' <=> s \in
     handles)
    BY <2>1
  <2>3. live \in 1 .. seq
    BY <2>1
  <2>4. Sound' <=> Sound
    BY <2>1, <2>2, <2>3
  <2> QED
    BY <2>1, <2>2, <2>4
<1>3. CASE Commit(a)
  BY <1>3, CommitMoves
<1>4. CASE CloseLoser(a)
  <2>1. Loser(a) # live
    BY <1>4 DEF CloseLoser, Loser, FreshOf, ReplacedOf, Own
  <2> QED
    BY <1>4, <2>1 DEF CloseLoser, world_, states
<1>5. CASE Unlist(a)
  BY <1>5 DEF Unlist, world_, states
<1> QED
  BY <1>1, <1>2, <1>3, <1>4, <1>5, <1>6 DEF AttemptStep

LEMMA KickMoves ==
    ASSUME CoreTypes, NEW k \in Kicker, NEW a \in Slot, KickStart(k, a) PROVE Steady /\ Past
  BY DEF CoreTypes, KickStart, Steady, Past, Sound, Settled, Mounted, Healthy, world_, states

LEMMA CloseRetiredMoves ==
    ASSUME IInv, NEW s \in State, CloseRetired(s) PROVE Steady /\ Past
  BY DEF IInv, HandleInv, LiveIsNotRetired, CloseRetired, Steady, Past, Sound, Settled, Mounted,
         Healthy, world_, states, att

\* The steps by what they do to the root: end every calm, leave it alone, start a
\* check, run one, or close a retired handle.
StepKind ==
    \/ calm' = {}
    \/ UNCHANGED RootView
    \/ \E k \in Kicker, a \in Slot : KickStart(k, a)
    \/ \E a \in Slot : AttemptStep(a)
    \/ \E s \in State : CloseRetired(s)

LEMMA StepKinds == ASSUME [Next]_vars PROVE StepKind
<1> USE DEF RootView, world_, states, att, StepKind
<1>1. ASSUME NEW p \in Path, NEW d \in Dir \cup Down, FolderChanges(p, d) PROVE StepKind
  BY <1>1 DEF FolderChanges
<1>2. ASSUME NEW k \in Settler, ReloadDrops(k) \/ (\E p \in Path : ReloadOpens(k, p)) PROVE StepKind
  BY <1>2 DEF ReloadDrops, ReloadOpens
<1>3. ASSUME NEW k \in Settler, SweepKicks(k) \/ ReloadKeeps(k) \/ SettleEnds(k) PROVE StepKind
  BY <1>3 DEF SweepKicks, ReloadKeeps, SettleEnds
<1>4. ASSUME NEW k \in Kicker, KickRead(k) \/ KickJoin(k) \/ \E a \in Slot : KickStart(k, a)
      PROVE  StepKind
  BY <1>4 DEF KickRead, KickJoin
<1>5. ASSUME Close PROVE StepKind
  BY <1>5 DEF Close
<1>6. ASSUME NEW o \in Opener,
             Look(o) \/ LookUnknown(o) \/ LooksSpent(o) \/ OpenFile(o) \/ OpenCurrent(o)
             \/ OpenHealthy(o) \/ OpenAwaits(o) \/ AwaitTimesOut(o) \/ OpenBegins(o)
      PROVE  StepKind
  <2>1. UNCHANGED Others
    BY <1>6, Zenon DEF Look, LookUnknown, LooksSpent, OpenFile, OpenCurrent, OpenHealthy,
       OpenAwaits, AwaitTimesOut, OpenBegins
  <2> QED
    BY <2>1 DEF Others
<1>7. ASSUME UNCHANGED vars PROVE StepKind
  BY <1>7 DEF vars
<1>8. ASSUME NEW o \in Opener, OpenBegins(o) \/ OpenStep(o) PROVE StepKind
  <2>1. o \in Kicker
    BY DEF Kicker
  <2> HIDE DEF StepKind
  <2> QED
    BY <1>4, <1>6, <1>8, <2>1 DEF OpenStep
<1>9. ASSUME NEW k \in Settler, KickRead(k) \/ KickJoin(k) \/ \E a \in Slot : KickStart(k, a)
      PROVE  StepKind
  <2>1. k \in Kicker
    BY DEF Kicker
  <2> HIDE DEF StepKind
  <2> QED
    BY <1>4, <1>9, <2>1
<1>10. ASSUME NEW a \in Slot, AttemptStep(a) PROVE StepKind
  BY <1>10
<1>11. ASSUME NEW s \in State, CloseRetired(s) PROVE StepKind
  BY <1>11
<1> HIDE DEF StepKind
<1> QED
  BY <1>1, <1>2, <1>3, <1>5, <1>7, <1>8, <1>9, <1>10, <1>11 DEF Next

\* While an open stays calm, the step is steady or turns the root.
LEMMA RootMoves ==
    ASSUME CalmInv, [Next]_vars, calm # {}
    PROVE  calm' = {} \/ ((Steady \/ Turned) /\ Past)
<1>1. ASSUME NEW k \in Kicker, NEW a \in Slot, KickStart(k, a) PROVE Steady /\ Past
  BY <1>1, KickMoves, TypeParts DEF CalmInv, IInv
<1>2. ASSUME NEW a \in Slot, AttemptStep(a) PROVE (Steady \/ Turned) /\ Past
  BY <1>2, CheckMoves
<1>3. ASSUME NEW s \in State, CloseRetired(s) PROVE Steady /\ Past
  BY <1>3, CloseRetiredMoves DEF CalmInv
<1> QED
  BY <1>1, <1>2, <1>3, SameView, StepKinds DEF StepKind

-----------------------------------------------------------------------------
(* What one open's own steps do; nobody else's touches its memory.           *)

Memory == <<look, on, checked, looks, result>>
SameOf(o) ==
    /\ pc'[o] = pc[o] /\ look'[o] = look[o] /\ kst'[o] = kst[o] /\ on'[o] = on[o]
    /\ checked'[o] = checked[o] /\ looks'[o] = looks[o] /\ result'[o] = result[o]

LEMMA SameStep ==
    ASSUME OpenTypes, KickTypes, [Next]_vars, NEW o \in Opener,
           ~OpenBegins(o), ~OpenStep(o)
    PROVE  SameOf(o) /\ (o \in calm' => o \in calm)
<1> USE RootsAssumption DEF OpenTypes, KickTypes, SameOf, Kicker, kick
<1>1. ASSUME NEW p \in Path, NEW d \in Dir \cup Down, FolderChanges(p, d)
      PROVE  UNCHANGED kick /\ calm' = {}
  BY <1>1 DEF FolderChanges
<1>2. ASSUME NEW k \in Settler,
             SweepKicks(k) \/ ReloadKeeps(k) \/ ReloadDrops(k) \/ (\E p \in Path : ReloadOpens(k, p))
             \/ SettleEnds(k)
      PROVE  SameOf(o) /\ (o \in calm' => o \in calm)
  BY <1>2 DEF SweepKicks, ReloadKeeps, ReloadDrops, ReloadOpens, SettleEnds
<1>3. ASSUME NEW k \in Kicker, k # o, KickRead(k) \/ KickJoin(k) \/ \E a \in Slot : KickStart(k, a)
      PROVE  SameOf(o) /\ calm' = calm
  BY <1>3 DEF KickRead, KickJoin, KickStart
<1>4. ASSUME NEW a \in Slot, AttemptStep(a) PROVE UNCHANGED <<kick, calm>>
  BY <1>4 DEF AttemptStep, CheckHealthy, CheckUnchanged, CheckOpens, Commit, Report, CloseLoser, Unlist
<1>5. ASSUME Close PROVE UNCHANGED kick /\ calm' = {}
  BY <1>5 DEF Close
<1>6. ASSUME NEW s \in State, CloseRetired(s) PROVE UNCHANGED <<kick, calm>>
  BY <1>6 DEF CloseRetired
<1>7. ASSUME NEW q \in Opener, q # o,
             Look(q) \/ LookUnknown(q) \/ LooksSpent(q) \/ OpenFile(q) \/ OpenCurrent(q)
             \/ OpenHealthy(q) \/ OpenAwaits(q) \/ AwaitTimesOut(q) \/ OpenBegins(q)
      PROVE  SameOf(o) /\ (o \in calm' => o \in calm)
  <2>1. ASSUME NEW r, Answers(q, r), UNCHANGED Others PROVE SameOf(o) /\ (o \in calm' => o \in calm)
    BY <1>7, <2>1 DEF Answers, Others
  <2>2. ASSUME NEW s, NEW n, Recheck(q, s, n), UNCHANGED Others
        PROVE  SameOf(o) /\ (o \in calm' => o \in calm)
    <3>1. CASE CheckedOnce(q, s)
      BY <2>1, <2>2, <3>1 DEF Recheck
    <3>2. CASE ~CheckedOnce(q, s)
      BY <1>7, <2>2, <3>2 DEF Recheck, Others
    <3> QED
      BY <3>1, <3>2
  <2>3. CASE Look(q)
    <3>1. CASE Mounted(live)
      BY <1>7, <2>3, <3>1 DEF Look, Others
    <3>2. CASE ~Mounted(live)
      <4>1. Recheck(q, live, looks[q] + 1) /\ UNCHANGED Others
        BY <2>3, <3>2 DEF Look
      <4> QED
        BY <2>2, <4>1
    <3> QED
      BY <3>1, <3>2
  <2>4. CASE LookUnknown(q) \/ LooksSpent(q) \/ AwaitTimesOut(q)
    BY <2>1, <2>4 DEF LookUnknown, LooksSpent, AwaitTimesOut
  <2>5. CASE OpenFile(q)
    <3>1. CASE Answers(q, "file")
      BY <2>1, <2>5, <3>1 DEF OpenFile
    <3>2. CASE ~Answers(q, "file")
      BY <1>7, <2>5, <3>2 DEF OpenFile, Others
    <3> QED
      BY <3>1, <3>2
  <2>6. CASE OpenHealthy(q)
    <3>1. CASE Healthy(look[q])
      BY <2>1, <2>6, <3>1 DEF OpenHealthy
    <3>2. CASE ~Healthy(look[q])
      <4>1. Recheck(q, look[q], looks[q]) /\ UNCHANGED Others
        BY <2>6, <3>2 DEF OpenHealthy
      <4> QED
        BY <2>2, <4>1
    <3> QED
      BY <3>1, <3>2
  <2>7. CASE OpenCurrent(q) \/ OpenAwaits(q)
    BY <1>7, <2>7 DEF OpenCurrent, OpenAwaits, Others
  <2>8. CASE OpenBegins(q)
    BY <1>7, <2>8 DEF OpenBegins, Others
  <2> QED
    BY <1>7, <2>3, <2>4, <2>5, <2>6, <2>7, <2>8
<1>8. ASSUME UNCHANGED vars PROVE UNCHANGED <<kick, calm>>
  BY <1>8 DEF vars
<1>9. ASSUME UNCHANGED kick PROVE SameOf(o)
  BY <1>9
<1>10. ASSUME NEW q \in Opener, OpenBegins(q) \/ OpenStep(q)
       PROVE  SameOf(o) /\ (o \in calm' => o \in calm)
  <2>1. q # o /\ q \in Kicker
    BY <1>10
  <2> QED
    BY <1>3, <1>7, <1>10, <2>1 DEF OpenStep
<1>11. ASSUME NEW k \in Settler, KickRead(k) \/ KickJoin(k) \/ \E a \in Slot : KickStart(k, a)
       PROVE  SameOf(o) /\ calm' = calm
  <2>1. k # o /\ k \in Kicker
    OBVIOUS
  <2> QED
    BY <1>3, <1>11, <2>1
<1> QED
  BY <1>1, <1>2, <1>4, <1>5, <1>6, <1>8, <1>9, <1>10, <1>11 DEF Next

LEMMA NextOpenTypes == ASSUME OpenTypes, TypeOK, KickTypes, [Next]_vars PROVE OpenTypes'
<1> USE RootsAssumption DEF OpenTypes, Kicker, Answer
<1>a. live \in Nat
  BY DEF TypeOK
<1>1. ASSUME NEW o \in Opener, NEW r \in Answer, Answers(o, r) PROVE OpenTypes'
  BY <1>1 DEF Answers
<1>2. ASSUME NEW o \in Opener, NEW s \in Nat, NEW n \in Nat, Recheck(o, s, n) PROVE OpenTypes'
  <2>1. CASE CheckedOnce(o, s)
    BY <1>1, <1>2, <2>1 DEF Recheck
  <2>2. CASE ~CheckedOnce(o, s)
    BY <1>2, <2>2 DEF Recheck
  <2> QED
    BY <2>1, <2>2
<1>3. ASSUME NEW o \in Opener, OpenBegins(o) PROVE OpenTypes'
  BY <1>3 DEF OpenBegins
<1>4. ASSUME NEW o \in Opener, Look(o) PROVE OpenTypes'
  <2>1. CASE Mounted(live)
    BY <1>4, <1>a, <2>1 DEF Look
  <2>2. CASE ~Mounted(live)
    <3>1. Recheck(o, live, looks[o] + 1) /\ looks[o] + 1 \in Nat
      BY <1>4, <2>2 DEF Look
    <3> QED
      BY <1>2, <1>a, <3>1
  <2> QED
    BY <2>1, <2>2
<1>5. ASSUME NEW o \in Opener, OpenHealthy(o) PROVE OpenTypes'
  <2>1. CASE Healthy(look[o])
    BY <1>1, <1>5, <2>1 DEF OpenHealthy
  <2>2. CASE ~Healthy(look[o])
    BY <1>2, <1>5, <2>2 DEF OpenHealthy
  <2> QED
    BY <2>1, <2>2
<1>6. ASSUME NEW o \in Opener, OpenFile(o) PROVE OpenTypes'
  <2>1. CASE Answers(o, "file")
    BY <1>1, <2>1
  <2>2. CASE ~Answers(o, "file")
    BY <1>6, <2>2 DEF OpenFile
  <2> QED
    BY <2>1, <2>2
<1>7. ASSUME NEW o \in Opener, LookUnknown(o) \/ LooksSpent(o) \/ AwaitTimesOut(o) PROVE OpenTypes'
  BY <1>1, <1>7 DEF LookUnknown, LooksSpent, AwaitTimesOut
<1>8. ASSUME NEW o \in Opener, OpenCurrent(o) \/ OpenAwaits(o) PROVE OpenTypes'
  BY <1>8 DEF OpenCurrent, OpenAwaits
<1>9. ASSUME NEW k \in Kicker, KickRead(k) \/ KickJoin(k) \/ \E a \in Slot : KickStart(k, a)
      PROVE  OpenTypes'
  <2>1. cur \in Slot \cup {None}
    BY DEF TypeOK
  <2> QED
    BY <1>9, <2>1 DEF KickRead, KickJoin, KickStart
<1>10. ASSUME NEW k \in Settler, SettleEnds(k) PROVE OpenTypes'
  BY <1>10 DEF SettleEnds
<1>11. ASSUME UNCHANGED Memory, calm' \in {calm, {}} PROVE OpenTypes'
  BY <1>11 DEF Memory
<1>12. ASSUME NEW p \in Path, NEW d \in Dir \cup Down, FolderChanges(p, d) PROVE OpenTypes'
  BY <1>11, <1>12 DEF FolderChanges, Memory, kick
<1>13. ASSUME NEW k \in Settler,
              SweepKicks(k) \/ ReloadKeeps(k) \/ ReloadDrops(k) \/ \E p \in Path : ReloadOpens(k, p)
       PROVE  OpenTypes'
  BY <1>11, <1>13 DEF SweepKicks, ReloadKeeps, ReloadDrops, ReloadOpens, Memory, kick
<1>14. ASSUME NEW a \in Slot, AttemptStep(a) PROVE OpenTypes'
  BY <1>11, <1>14 DEF AttemptStep, CheckHealthy, CheckUnchanged, CheckOpens, Commit, Report, CloseLoser, Unlist,
     Memory, kick
<1>15. ASSUME Close \/ \E s \in State : CloseRetired(s) PROVE OpenTypes'
  BY <1>11, <1>15 DEF Close, CloseRetired, Memory, kick
<1>16. ASSUME UNCHANGED vars PROVE OpenTypes'
  BY <1>11, <1>16 DEF vars, Memory, kick
<1>17. ASSUME NEW o \in Opener, OpenBegins(o) \/ OpenStep(o) PROVE OpenTypes'
  BY <1>3, <1>4, <1>5, <1>6, <1>7, <1>8, <1>9, <1>17 DEF OpenStep
<1>18. ASSUME NEW k \in Settler, KickRead(k) \/ KickJoin(k) \/ \E a \in Slot : KickStart(k, a)
       PROVE  OpenTypes'
  BY <1>9, <1>18
<1> QED
  BY <1>10, <1>12, <1>13, <1>14, <1>15, <1>16, <1>17, <1>18 DEF Next

\* An open's own steps, by what becomes of its calm.
LEMMA OwnCalm ==
    ASSUME OpenTypes, NEW o \in Opener, OpenBegins(o) \/ OpenStep(o)
    PROVE  \/ OpenBegins(o) /\ calm' = (IF Sound THEN calm \cup {o} ELSE calm \ {o})
           \/ calm' \in {calm, calm \ {o}}
<1>1. CASE OpenBegins(o)
  BY <1>1 DEF OpenBegins
<1>2. CASE Look(o) \/ OpenHealthy(o)
  BY <1>2 DEF Look, OpenHealthy, Recheck, Answers
<1>3. CASE LookUnknown(o) \/ LooksSpent(o) \/ OpenFile(o) \/ AwaitTimesOut(o)
  BY <1>3 DEF LookUnknown, LooksSpent, OpenFile, AwaitTimesOut, Answers
<1>4. CASE \/ OpenCurrent(o) \/ OpenAwaits(o) \/ KickRead(o) \/ KickJoin(o)
           \/ \E a \in Slot : KickStart(o, a)
  BY <1>4 DEF OpenCurrent, OpenAwaits, KickRead, KickJoin, KickStart
<1> QED
  BY <1>1, <1>2, <1>3, <1>4, Zenon DEF OpenStep

\* No open turns calm unless the root is sound, and by then it is left alone.
LEMMA CalmBegins ==
    ASSUME CalmInv, [Next]_vars, calm = {}, calm' # {}
    PROVE  Sound /\ UNCHANGED RootView
<1>a. OpenTypes /\ KickTypes /\ TypeOK
  BY DEF CalmInv, IInv
<1>1. calm' \subseteq Opener
  BY <1>a, NextOpenTypes DEF OpenTypes
<1>2. PICK o \in Opener : o \in calm'
  BY <1>1
<1>3. OpenBegins(o) \/ OpenStep(o)
  BY <1>2, <1>a, SameStep
<1>4. OpenBegins(o) /\ Sound
  BY <1>2, <1>3, <1>a, OwnCalm
<1> QED
  BY <1>4 DEF OpenBegins, Others, RootView, world_, states, att

LEMMA NextWatched == ASSUME CalmInv, [Next]_vars PROVE Watched'
<1>1. CASE calm' = {}
  BY <1>1 DEF Watched
<1>2. CASE calm' # {} /\ calm # {}
  <2>1. live # 0 /\ folder[path[live]] \in Dir /\ (Steady \/ Turned) /\ Past
    BY <1>2, RootMoves DEF CalmInv, Watched
  <2>2. live \in Nat
    BY DEF CalmInv, IInv, TypeOK
  <2> QED
    BY <2>1, <2>2 DEF Watched, Steady, Turned, Past
<1>3. CASE calm' # {} /\ calm = {}
  BY <1>3, CalmBegins DEF RootView, Watched, Sound, Mounted, Healthy
<1> QED
  BY <1>1, <1>2, <1>3

LEMMA CheckMends ==
    ASSUME CalmInv, calm # {}, NEW a \in Slot, AttemptStep(a), ~Sound', NEW b \in Slot,
           seen'[b] = live'
    PROVE  Mends(b)'
<1>a. /\ CoreTypes /\ live # 0 /\ folder[path[live]] \in Dir
      /\ (\A c \in Slot : UnseenBy(a, c) /\ SeenOf(c) /\ NextOf(c)) /\ LiveHandleOpen
      /\ (~Sound => \A c \in Slot : seen[c] = live => Mends(c))
  BY TypeParts DEF CalmInv, IInv, CheckInv, HandleInv, Unseen, Seens, Nexts, Watched, Mending
<1>b. (Steady \/ Turned) /\ Past
  BY CheckMoves
<1> USE <1>a, RootsAssumption DEF CoreTypes, State
<1>1. CASE CheckUnchanged(a)
  <2>1. /\ UNCHANGED <<folder, path, at, live, seen, next>> /\ Mounts(a)
        /\ phase' = [phase EXCEPT ![a] = "unlist"] /\ handles' = handles
    BY <1>1 DEF CheckUnchanged, world_, states
  <2>2. ~Sound
    BY <2>1 DEF Sound, Mounted, Healthy
  <2>3. seen[a] # live
    BY <1>1, <2>2 DEF CheckUnchanged, MountAt, Mounted
  <2> QED
    BY <2>1, <2>2, <2>3 DEF Mends
<1>5. CASE CheckHealthy(a)
  <2>1. /\ UNCHANGED <<folder, path, at, live, handles, seen, next>>
        /\ \A c \in Slot : c # a => phase'[c] = phase[c]
        /\ phase'[a] = IF Healthy(seen[a]) THEN "unlist" ELSE "mount"
        /\ Mounted(seen[a])
    BY <1>5 DEF CheckHealthy, world_, states
  <2>2. ~Sound
    BY <2>1 DEF Sound, Mounted, Healthy
  <2>3. seen[a] = live => phase'[a] = "mount"
    BY <2>1, <2>2 DEF Sound, Mounted
  <2> QED
    BY <2>1, <2>2, <2>3 DEF Mends
<1>2. CASE CheckOpens(a)
  <2>1. /\ UNCHANGED <<folder, live, seen>> /\ seq' = seq + 1
        /\ path' = [path EXCEPT ![seq + 1] = path[seen[a]]]
        /\ at' = [at EXCEPT ![seq + 1] = folder[path[seen[a]]]]
        /\ next' = [next EXCEPT ![a] = seq + 1] /\ seq < MaxSeq
        /\ phase' = [phase EXCEPT ![a] = "commit"]
    BY <1>2 DEF CheckOpens, world_, MountAt
  <2>2. ~Sound
    <3>1. ~Turned
      BY <2>1 DEF Turned
    <3> QED
      BY <1>b, <3>1 DEF Steady
  <2>3. path'[live'] = path[live]
    BY <2>1
  <2>4. CASE b = a
    BY <2>1, <2>3, <2>4 DEF Mends
  <2>5. CASE b # a
    BY <2>1, <2>2, <2>3, <2>5 DEF Mends, NextOf, Holding
  <2> QED
    BY <2>4, <2>5
<1>3. CASE Commit(a)
  <2>1. /\ UNCHANGED <<folder, path, at, handles, seen, next>> /\ phase[a] = "commit"
        /\ live' = IF seen[a] = live THEN next[a] ELSE live
        /\ phase' = [phase EXCEPT ![a] = IF seen[a] = live THEN "report" ELSE "lost"]
    BY <1>3 DEF Commit, Wins, world_, states
  <2>2. seen[b] # next[a]
    BY <2>1 DEF UnseenBy, Own
  <2>3. seen[a] # live /\ live' = live
    BY <2>1, <2>2
  <2>4. ~Sound
    BY <2>1, <2>3 DEF Sound, Mounted, Healthy
  <2> QED
    BY <2>1, <2>3, <2>4 DEF Mends
<1>4. CASE Report(a) \/ CloseLoser(a) \/ Unlist(a)
  <2>1. /\ UNCHANGED <<folder, path, at, live>> /\ phase[a] \in {"report", "close", "lost", "unlist"}
        /\ \A c \in Slot : c # a => phase'[c] = phase[c] /\ seen'[c] = seen[c] /\ next'[c] = next[c]
        /\ seen'[a] \in {seen[a], 0}
    BY <1>4 DEF Report, CloseLoser, Unlist, world_, states
  <2>2. ~Sound
    BY <1>b, <2>1 DEF Steady, Turned
  <2>3. seen[a] # live
    BY <2>1, <2>2 DEF Mends
  <2> QED
    BY <2>1, <2>2, <2>3 DEF Mends
<1> QED
  BY <1>1, <1>2, <1>3, <1>4, <1>5 DEF AttemptStep

LEMMA NextMending == ASSUME CalmInv, [Next]_vars PROVE Mending'
<1> SUFFICES ASSUME calm' # {}, ~Sound', NEW b \in Slot, seen'[b] = live' PROVE Mends(b)'
  BY DEF Mending
<1>1. CASE calm = {}
  BY <1>1, CalmBegins DEF RootView, Sound, Mounted, Healthy
<1>2. CASE calm # {}
  <2>a. CoreTypes /\ live # 0 /\ (~Sound => \A c \in Slot : seen[c] = live => Mends(c))
    BY <1>2, TypeParts DEF CalmInv, IInv, Mending, Watched
  <2>1. CASE UNCHANGED RootView
    BY <1>2, <2>1, <2>a DEF RootView, Sound, Mounted, Healthy, Mends
  <2>2. ASSUME NEW k \in Kicker, NEW a \in Slot, KickStart(k, a) PROVE Mends(b)'
    <3>1. /\ UNCHANGED <<folder, path, at, live>>
          /\ seen' = [seen EXCEPT ![a] = kst[k]] /\ phase' = [phase EXCEPT ![a] = "check"]
          /\ next' = [next EXCEPT ![a] = 0]
      BY <2>2 DEF KickStart, world_, states
    <3>2. ~Sound
      BY <2>2, <2>a, KickMoves DEF Steady
    <3> QED
      BY <2>a, <3>1, <3>2 DEF Mends, CoreTypes
  <2>3. ASSUME NEW a \in Slot, AttemptStep(a) PROVE Mends(b)'
    BY <1>2, <2>3, CheckMends
  <2>4. ASSUME NEW s \in State, CloseRetired(s) PROVE Mends(b)'
    <3>1. ~Sound
      BY <2>4, CloseRetiredMoves DEF Steady, CalmInv
    <3> QED
      BY <2>4, <2>a, <3>1 DEF CloseRetired, world_, states, att, Mends
  <2> QED
    BY <2>1, <2>2, <2>3, <2>4, StepKinds DEF StepKind
<1> QED
  BY <1>1, <1>2

\* A step that is not the open's own leaves it served.
LEMMA OthersServe ==
    ASSUME CalmInv, NEW o \in Opener, o \in calm, SameOf(o), Steady \/ Turned, Past, TypeOK'
    PROVE  ServedOf(o)'
<1>a. /\ result[o] = "none" /\ LookOf(o) /\ WaitOf(o) /\ TryOf(o) /\ live \in Nat /\ live <= seq
      /\ seq \in State /\ phase \in [Slot -> Phase]
      /\ checked[o] \in Nat /\ look[o] \in Nat /\ looks[o] \in Nat /\ kst[o] \in Nat
      /\ (~Sound => \A a \in Slot : seen[a] = live => Mends(a))
      /\ live' \in Nat /\ (Settled => Sound)
  BY DEF CalmInv, Serving, ServedOf, IInv, TypeOK, OpenTypes, Kicker, Mending, KickTypes, Settled
<1> USE <1>a, RootsAssumption DEF SameOf, State, Shaky
<1>1. result'[o] = "none"
  OBVIOUS
<1>2. LookOf(o)'
  BY DEF LookOf, Steady, Turned
<1>3. WaitOf(o)'
  <2> SUFFICES ASSUME pc[o] \in {"kick", "kick2", "await"} PROVE WaitOf(o)'
    BY DEF WaitOf
  <2>1. CASE Turned
    BY <2>1 DEF WaitOf, Turned
  <2>2. CASE Steady
    <3>1. ASSUME pc[o] = "await", checked[o] = live PROVE seen'[on[o]] = live
      <4>1. on[o] \in Slot /\ seen[on[o]] = live /\ Mends(on[o])
        BY <3>1 DEF WaitOf
      <4>2. ~Free(on[o])
        BY DEF Free, Kicker
      <4> QED
        BY <4>1, <4>2 DEF Past, Mends
    <3> QED
      BY <2>2, <3>1 DEF WaitOf, Steady
  <2> QED
    BY <2>1, <2>2
<1>4. TryOf(o)'
  <2> SUFFICES ASSUME pc[o] \in {"open", "current", "healthy"} PROVE TryOf(o)'
    BY DEF TryOf
  <2>1. look[o] \in 1 .. seq /\ look[o] <= live
    BY DEF TryOf
  <2>2. Mounted(look[o])' /\ (look[o] \in handles' => look[o] \in handles)
    BY <2>1 DEF TryOf, Past, Mounted
  <2>3. CASE Turned
    BY <2>1, <2>2, <2>3 DEF TryOf, Turned
  <2>4. CASE Steady
    BY <2>1, <2>2, <2>4 DEF TryOf, Steady
  <2> QED
    BY <2>3, <2>4
<1> QED
  BY <1>1, <1>2, <1>3, <1>4 DEF ServedOf

\* What answers a calm open is never "unavailable" or "unknown".
Served(o) == result'[o] \in {"none", "file", "gaveup"} /\ (o \in calm' => ServedOf(o)')

LEMMA AnswersServe ==
    ASSUME OpenTypes, NEW o \in Opener, NEW r \in {"file", "gaveup"}, Answers(o, r) PROVE Served(o)
  BY DEF OpenTypes, Answers, Served, Kicker

\* A lookup's recheck of a state the open has not checked yet.
LEMMA RecheckServes ==
    ASSUME CalmInv, NEW o \in Opener, o \in calm, NEW s \in State, NEW n \in 1 .. 2,
           Recheck(o, s, n), UNCHANGED Others, checked[o] < s, s <= live, ~Shaky,
           s = live => ~Sound, n = 2 => (Settled \/ s = live)
    PROVE  Served(o)
<1>a. /\ KickTypes /\ OpenTypes /\ o \in Kicker /\ result[o] = "none" /\ live \in Nat
  BY DEF CalmInv, IInv, TypeOK, Kicker, Serving, ServedOf
<1>1. ~CheckedOnce(o, s)
  BY <1>a, RootsAssumption DEF CheckedOnce, State, OpenTypes
<1>2. /\ pc'[o] = "kick" /\ checked'[o] = s /\ looks'[o] = n /\ result'[o] = "none"
  BY <1>a, <1>1 DEF Recheck, KickTypes, OpenTypes
<1>3. UNCHANGED <<folder, path, at, live, handles, seen, phase>>
  BY DEF Others, world_, states, att
<1> QED
  BY <1>2, <1>3 DEF Served, ServedOf, LookOf, WaitOf, TryOf, Shaky, Settled, Sound, Mounted, Healthy

LEMMA LookServes == ASSUME CalmInv, NEW o \in Opener, o \in calm, Look(o) PROVE Served(o)
<1>a. /\ KickTypes /\ OpenTypes /\ o \in Kicker /\ result[o] = "none" /\ LookOf(o) /\ pc[o] = "look"
      /\ live \in State /\ looks[o] \in Nat /\ checked[o] \in Nat /\ look \in [Kicker -> Nat]
  <2>1. live \in 0 .. seq /\ seq \in State
    BY DEF CalmInv, IInv, TypeOK
  <2>2. pc[o] = "look" /\ live # 0
    BY DEF Look
  <2>3. live \in State
    BY <2>1, <2>2, RootsAssumption DEF State
  <2>4. KickTypes /\ OpenTypes /\ o \in Kicker /\ result[o] = "none" /\ LookOf(o)
    BY DEF CalmInv, IInv, Kicker, Serving, ServedOf
  <2> QED
    BY <2>2, <2>3, <2>4 DEF OpenTypes
<1>1. CASE Mounted(live)
  <2>1. /\ pc'[o] = "open" /\ look'[o] = live /\ looks'[o] = looks[o] + 1 /\ result' = result
        /\ checked' = checked /\ UNCHANGED Others
    BY <1>a, <1>1 DEF Look, KickTypes, OpenTypes
  <2>2. UNCHANGED <<folder, path, at, live, handles, seen, phase>>
    BY <2>1 DEF Others, world_, states, att
  <2> QED
    <3>1. (Sound' <=> Sound) /\ (Settled' <=> Settled) /\ (Settled => Sound)
      BY <2>2 DEF Sound, Settled, Mounted, Healthy
    <3>2. Mounted(look[o])' /\ look'[o] = live' /\ live' = live
      BY <1>1, <2>1, <2>2 DEF Mounted
    <3>3. TryOf(o)'
      BY <1>a, <2>1, <3>1, <3>2, RootsAssumption DEF LookOf, TryOf, Shaky, State
    <3> QED
      BY <1>a, <2>1, <3>3 DEF Served, ServedOf, LookOf, WaitOf
<1>2. CASE ~Mounted(live)
  <2>1. Recheck(o, live, looks[o] + 1) /\ UNCHANGED Others
    BY <1>2 DEF Look
  <2>2. ~Sound /\ ~Settled /\ ~Shaky
    BY <1>2 DEF Sound, Settled, Shaky
  <2>3. looks[o] + 1 \in 1 .. 2 /\ checked[o] < live
    BY <1>a, <2>2 DEF LookOf
  <2> QED
    BY <1>a, <2>1, <2>2, <2>3, RecheckServes DEF State
<1> QED
  BY <1>1, <1>2

LEMMA HealthyServes == ASSUME CalmInv, NEW o \in Opener, o \in calm, OpenHealthy(o) PROVE Served(o)
<1>a. /\ OpenTypes /\ TryOf(o) /\ pc[o] = "healthy" /\ looks[o] \in Nat /\ live # 0 /\ live \in Nat
  BY DEF CalmInv, IInv, TypeOK, Kicker, Serving, ServedOf, OpenHealthy, OpenTypes, Watched
<1>1. CASE Healthy(look[o])
  BY <1>1, <1>a, AnswersServe DEF OpenHealthy
<1>2. CASE ~Healthy(look[o])
  <2>1. Recheck(o, look[o], looks[o]) /\ UNCHANGED Others
    BY <1>2 DEF OpenHealthy
  <2>2. look[o] = live => ~Sound
    BY <1>2 DEF Sound
  <2>3. looks[o] # 3
    BY <1>a, <2>2 DEF TryOf, Settled
  <2>4. ~Shaky
    BY <1>a, <2>2 DEF TryOf, Shaky, State
  <2> QED
    BY <1>a, <2>1, <2>2, <2>3, <2>4, RecheckServes, RootsAssumption DEF TryOf, State
<1> QED
  BY <1>1, <1>2

LEMMA FileServes == ASSUME CalmInv, NEW o \in Opener, o \in calm, OpenFile(o) PROVE Served(o)
<1>a. /\ OpenTypes /\ KickTypes /\ o \in Kicker /\ result[o] = "none" /\ TryOf(o) /\ pc[o] = "open"
  BY DEF CalmInv, IInv, Kicker, Serving, ServedOf, OpenFile
<1>1. CASE Answers(o, "file")
  BY <1>1, <1>a, AnswersServe
<1>2. CASE ~Answers(o, "file")
  <2>1. /\ pc'[o] = (IF look[o] \in handles THEN "healthy" ELSE "current")
        /\ UNCHANGED <<Others, look, on, checked, looks, result>>
    BY <1>a, <1>2 DEF OpenFile, KickTypes
  <2>2. UNCHANGED <<folder, path, at, live, handles, seen, phase>>
    BY <2>1 DEF Others, world_, states, att
  <2> QED
    BY <1>a, <2>1, <2>2 DEF Served, ServedOf, LookOf, WaitOf, TryOf, Shaky, Settled, Sound,
       Mounted, Healthy
<1> QED
  BY <1>1, <1>2

LEMMA CurrentServes == ASSUME CalmInv, NEW o \in Opener, o \in calm, OpenCurrent(o) PROVE Served(o)
<1>a. /\ OpenTypes /\ KickTypes /\ o \in Kicker /\ result[o] = "none" /\ TryOf(o)
      /\ pc[o] = "current" /\ live \in Nat /\ looks[o] \in Nat /\ checked[o] \in Nat
      /\ look[o] \in Nat
  BY DEF CalmInv, IInv, TypeOK, Kicker, Serving, ServedOf, OpenCurrent, OpenTypes
<1>1. /\ pc'[o] = (IF live # look[o] THEN "look" ELSE "healthy")
      /\ UNCHANGED <<Others, look, on, checked, looks, result>>
  BY <1>a DEF OpenCurrent, KickTypes
<1>2. UNCHANGED <<folder, path, at, live, handles, seen, phase>>
  BY <1>1 DEF Others, world_, states, att
<1>3. (Sound' <=> Sound) /\ (Settled' <=> Settled)
  BY <1>2 DEF Sound, Settled, Mounted, Healthy
<1> QED
  BY <1>a, <1>1, <1>2, <1>3 DEF Served, ServedOf, LookOf, WaitOf, TryOf, Shaky, Mounted

LEMMA AwaitServes ==
    ASSUME CalmInv, NEW o \in Opener, o \in calm, OpenAwaits(o) \/ AwaitTimesOut(o) PROVE Served(o)
<1>a. /\ OpenTypes /\ KickTypes /\ o \in Kicker /\ result[o] = "none" /\ WaitOf(o)
      /\ pc[o] = "await" /\ live \in Nat /\ looks[o] \in Nat /\ checked[o] \in Nat
      /\ (~Sound => \A a \in Slot : seen[a] = live => Mends(a))
  BY DEF CalmInv, IInv, TypeOK, Kicker, Serving, ServedOf, OpenAwaits, AwaitTimesOut, OpenTypes,
         Mending
<1>1. CASE AwaitTimesOut(o)
  BY <1>1, <1>a, AnswersServe DEF AwaitTimesOut
<1>2. CASE OpenAwaits(o)
  <2>1. /\ pc'[o] = "look" /\ phase[on[o]] = "done"
        /\ UNCHANGED <<Others, look, checked, looks, result>>
    BY <1>a, <1>2 DEF OpenAwaits, KickTypes
  <2>2. UNCHANGED <<folder, path, at, live, handles, seen, phase>>
    BY <2>1 DEF Others, world_, states, att
  <2>3. (Sound' <=> Sound) /\ (Settled' <=> Settled)
    BY <2>2 DEF Sound, Settled, Mounted, Healthy
  <2>4. checked[o] < live
    BY <1>a, <2>1 DEF WaitOf, Mends
  <2> QED
    BY <1>a, <2>1, <2>2, <2>3, <2>4 DEF Served, ServedOf, LookOf, WaitOf, TryOf, Shaky
<1> QED
  BY <1>1, <1>2

LEMMA KickServes ==
    ASSUME CalmInv, NEW o \in Opener, o \in calm,
           KickRead(o) \/ KickJoin(o) \/ \E a \in Slot : KickStart(o, a)
    PROVE  Served(o)
<1>a. /\ CoreTypes /\ OpenTypes /\ KickTypes /\ o \in Kicker /\ result[o] = "none" /\ WaitOf(o)
      /\ live \in Nat /\ live # 0 /\ kst[o] \in Nat /\ checked[o] \in Nat
  BY TypeParts DEF CalmInv, IInv, TypeOK, Kicker, Serving, ServedOf, Watched, KickTypes, OpenTypes
<1>1. CASE KickRead(o)
  <2>1. /\ pc'[o] = "kick2" /\ kst'[o] = live /\ UNCHANGED <<checked, looks, result>>
        /\ UNCHANGED <<folder, path, at, live, handles, seen, phase>> /\ pc[o] = "kick"
    BY <1>a, <1>1 DEF KickRead, KickTypes, world_, states, att
  <2>2. (Sound' <=> Sound) /\ (Settled' <=> Settled)
    BY <2>1 DEF Sound, Settled, Mounted, Healthy
  <2> QED
    BY <1>a, <2>1, <2>2 DEF Served, ServedOf, LookOf, WaitOf, TryOf, Shaky
<1>2. ASSUME NEW a \in Slot, pc[o] = "kick2", pc'[o] = "await", on'[o] = a, seen'[a] = kst[o],
             UNCHANGED <<checked, looks, result>>, Steady
      PROVE  Served(o)
  <2>1. checked[o] = live => seen'[a] = live
    BY <1>a, <1>2 DEF WaitOf
  <2> QED
    BY <1>a, <1>2, <2>1 DEF Served, ServedOf, LookOf, WaitOf, TryOf, Shaky, Steady
<1>3. CASE KickJoin(o)
  <2>1. /\ cur \in Slot /\ pc[o] = "kick2" /\ pc'[o] = "await" /\ on'[o] = cur /\ seen'[cur] = kst[o]
        /\ UNCHANGED <<checked, looks, result>> /\ UNCHANGED RootView
    BY <1>a, <1>3 DEF KickJoin, KickTypes, OpenTypes, CoreTypes, RootView, world_, states, att
  <2> QED
    BY <1>2, <2>1, SameView
<1>4. ASSUME NEW a \in Slot, KickStart(o, a) PROVE Served(o)
  <2>1. /\ pc[o] = "kick2" /\ pc'[o] = "await" /\ on'[o] = a /\ seen'[a] = kst[o]
        /\ UNCHANGED <<checked, looks, result>>
    BY <1>a, <1>4 DEF KickStart, KickTypes, OpenTypes, CoreTypes
  <2> QED
    BY <1>2, <1>4, <1>a, <2>1, KickMoves
<1> QED
  BY <1>1, <1>3, <1>4

LEMMA BeginServes ==
    ASSUME CalmInv, NEW o \in Opener, OpenBegins(o)
    PROVE  result'[o] = "none" /\ (o \in calm' => ServedOf(o)')
<1>a. /\ OpenTypes /\ KickTypes /\ o \in Kicker /\ looks[o] = 0 /\ checked[o] = 0 /\ o \notin calm
      /\ live \in Nat
  BY DEF CalmInv, IInv, TypeOK, Kicker, Rests, RestOf, OpenBegins
<1>1. /\ pc'[o] = "look" /\ result'[o] = "none" /\ UNCHANGED <<Others, look, on, checked, looks>>
      /\ o \in calm' => Sound
  BY <1>a DEF OpenBegins, KickTypes, OpenTypes
<1>2. UNCHANGED live
  BY <1>1 DEF Others
<1> QED
  BY <1>a, <1>1, <1>2 DEF ServedOf, LookOf, WaitOf, TryOf, Sound

LEMMA OwnServes ==
    ASSUME CalmInv, MaxLooks >= 3, NEW o \in Opener, o \in calm, OpenBegins(o) \/ OpenStep(o)
    PROVE  Served(o)
<1>1. CASE OpenBegins(o)
  BY <1>1, BeginServes DEF Served
<1>2. CASE LookUnknown(o)
  BY <1>2 DEF LookUnknown, CalmInv, Watched
<1>3. CASE LooksSpent(o)
  <2>1. looks[o] = MaxLooks /\ looks[o] <= 2
    BY <1>3 DEF LooksSpent, CalmInv, Serving, ServedOf, LookOf
  <2> QED
    BY <2>1, RootsAssumption
<1>4. CASE KickRead(o) \/ KickJoin(o) \/ \E a \in Slot : KickStart(o, a)
  BY <1>4, KickServes
<1> QED
  BY <1>1, <1>2, <1>3, <1>4, LookServes, FileServes, CurrentServes, HealthyServes, AwaitServes DEF
     OpenStep

LEMMA StepCalm == ASSUME OpenTypes, NEW o \in Opener, OpenStep(o) PROVE calm' \subseteq calm
<1>1. CASE OpenBegins(o)
  <2>1. pc[o] = "idle"
    BY <1>1 DEF OpenBegins
  <2> QED
    BY <2>1 DEF OpenStep, Look, LookUnknown, LooksSpent, OpenFile, OpenCurrent, OpenHealthy,
       OpenAwaits, AwaitTimesOut, KickRead, KickJoin, KickStart
<1>2. CASE ~OpenBegins(o)
  BY <1>2, OwnCalm
<1> QED
  BY <1>1, <1>2

LEMMA NextServing == ASSUME CalmInv, MaxLooks >= 3, [Next]_vars PROVE Serving'
<1> SUFFICES ASSUME NEW o \in calm' PROVE ServedOf(o)'
  BY DEF Serving
<1>a. OpenTypes /\ KickTypes /\ TypeOK
  BY DEF CalmInv, IInv
<1>b. o \in Opener
  BY <1>a, NextOpenTypes DEF OpenTypes
<1>c. TypeOK'
  BY NextIInv DEF CalmInv, IInv
<1>1. CASE ~OpenBegins(o) /\ ~OpenStep(o)
  <2>1. SameOf(o) /\ o \in calm
    BY <1>1, <1>a, <1>b, SameStep
  <2>2. (Steady \/ Turned) /\ Past
    BY <2>1, RootMoves
  <2> QED
    BY <1>b, <1>c, <2>1, <2>2, OthersServe
<1>2. CASE OpenBegins(o)
  BY <1>2, <1>b, BeginServes
<1>3. CASE OpenStep(o)
  <2>1. o \in calm
    BY <1>3, <1>a, <1>b, StepCalm
  <2> QED
    BY <1>b, <1>3, <2>1, OwnServes DEF Served
<1> QED
  BY <1>1, <1>2, <1>3

LEMMA OwnRests ==
    ASSUME OpenTypes, KickTypes, NEW o \in Opener, RestOf(o), OpenBegins(o) \/ OpenStep(o)
    PROVE  RestOf(o)'
<1> USE DEF OpenTypes, KickTypes, RestOf, Kicker
<1>1. ASSUME NEW r, Answers(o, r) PROVE RestOf(o)'
  BY <1>1 DEF Answers
<1>2. ASSUME NEW s, NEW n, Recheck(o, s, n) PROVE RestOf(o)'
  BY <1>1, <1>2 DEF Recheck
<1>3. CASE OpenBegins(o)
  BY <1>3 DEF OpenBegins
<1>4. CASE Look(o)
  <2>1. CASE Mounted(live)
    BY <1>4, <2>1 DEF Look
  <2>2. CASE ~Mounted(live)
    BY <1>2, <1>4, <2>2 DEF Look
  <2> QED
    BY <2>1, <2>2
<1>5. CASE LookUnknown(o) \/ LooksSpent(o) \/ AwaitTimesOut(o)
  BY <1>1, <1>5 DEF LookUnknown, LooksSpent, AwaitTimesOut
<1>6. CASE OpenFile(o)
  <2>1. CASE Answers(o, "file")
    BY <1>1, <2>1
  <2>2. CASE ~Answers(o, "file")
    BY <1>6, <2>2 DEF OpenFile
  <2> QED
    BY <2>1, <2>2
<1>7. CASE OpenHealthy(o)
  <2>1. CASE Healthy(look[o])
    BY <1>1, <1>7, <2>1 DEF OpenHealthy
  <2>2. CASE ~Healthy(look[o])
    BY <1>2, <1>7, <2>2 DEF OpenHealthy
  <2> QED
    BY <2>1, <2>2
<1>8. CASE OpenCurrent(o) \/ OpenAwaits(o)
  BY <1>8 DEF OpenCurrent, OpenAwaits
<1>9. CASE KickRead(o) \/ KickJoin(o) \/ \E a \in Slot : KickStart(o, a)
  BY <1>9 DEF KickRead, KickJoin, KickStart, AfterKick
<1> QED
  BY <1>3, <1>4, <1>5, <1>6, <1>7, <1>8, <1>9 DEF OpenStep

LEMMA CalmInductive == ASSUME CalmInv, MaxLooks >= 3, [Next]_vars PROVE CalmInv'
<1>a. OpenTypes /\ KickTypes /\ TypeOK
  BY DEF CalmInv, IInv
<1>1. IInv' /\ Watched' /\ Mending' /\ Serving'
  BY NextIInv, NextWatched, NextMending, NextServing DEF CalmInv
<1>2. OpenTypes'
  BY <1>a, NextOpenTypes
<1>3. ASSUME NEW o \in Opener PROVE RestOf(o)'
  <2>1. RestOf(o)
    BY DEF CalmInv, Rests
  <2>2. CASE OpenBegins(o) \/ OpenStep(o)
    BY <1>a, <2>1, <2>2, OwnRests
  <2>3. CASE ~OpenBegins(o) /\ ~OpenStep(o)
    BY <1>a, <2>1, <2>3, SameStep DEF SameOf, RestOf
  <2> QED
    BY <2>2, <2>3
<1> QED
  BY <1>1, <1>2, <1>3 DEF CalmInv, Rests

LEMMA InitCalm == Init => CalmInv
<1> SUFFICES ASSUME Init PROVE CalmInv
  OBVIOUS
<1>1. OpenTypes
  BY DEF Init, OpenTypes, Answer
<1>2. Rests /\ Watched /\ Mending /\ Serving
  BY DEF Init, Rests, RestOf, Watched, Mending, Serving, Kicker
<1> QED
  BY <1>1, <1>2, InitIInv DEF CalmInv

\* An open of a root that is mounted on a full folder all the while is never
\* told that the root is unavailable or unknown, with three lookups or more (the
\* code's maxLooks is eight): one may be lost to the state a stale check is about
\* to replace, one to what it put in its place (open, commit, current).
THEOREM SoundRootServesHolds == ASSUME MaxLooks >= 3 PROVE Spec => SoundRootServes
<1>1. Spec => []CalmInv
  BY InitCalm, CalmInductive, PTL DEF Spec
<1>2. ASSUME CalmInv, [Next]_vars
      PROVE  [\A o \in calm : result'[o] \notin {"unavailable", "unknown"}]_vars
  <2>a. OpenTypes /\ KickTypes
    BY <1>2 DEF CalmInv, IInv
  <2>1. ASSUME NEW o \in calm PROVE result'[o] \notin {"unavailable", "unknown"}
    <3>1. o \in Opener /\ result[o] = "none"
      BY <1>2, <2>a DEF OpenTypes, CalmInv, Serving, ServedOf
    <3>2. CASE OpenBegins(o) \/ OpenStep(o)
      BY <1>2, <3>1, <3>2, OwnServes DEF Served
    <3>3. CASE ~OpenBegins(o) /\ ~OpenStep(o)
      BY <1>2, <2>a, <3>1, <3>3, SameStep DEF SameOf
    <3> QED
      BY <3>2, <3>3
  <2> QED
    BY <2>1
<1>3. Spec => [][\A o \in calm : result'[o] \notin {"unavailable", "unknown"}]_vars
  BY <1>1, <1>2, PTL DEF Spec
<1> QED
  BY <1>3 DEF SoundRootServes
=============================================================================
