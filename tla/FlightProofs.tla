---------------------------- MODULE FlightProofs ----------------------------
(***************************************************************************)
(* Proofs about Flight, for any number of callers and either method.       *)
(***************************************************************************)
EXTENDS Flight, TLAPS

\* The call a live execution belongs to is the one in the map, and somebody
\* waits for it (Join) or executes it (Do).
Listed ==
    /\ \A c \in Caller : Running(c) /\ c \notin shared =>
         /\ m = c
         /\ op = "Join" => waiting[c] # {}
         /\ op = "Do" => pc[c] = "exec" /\ on[c] = c
    /\ m # None => phase[m] \in {"running", "ended", "released"}

\* Who is counted in waiting, and who is not.
Counted ==
    /\ \A p \in Caller : op = "Join" /\ pc[p] = "wait" => p \in waiting[on[p]]
    /\ \A c \in Caller : \A q \in waiting[c] :
         on[q] = c /\ (pc[q] = "wait" \/ phase[c] = "done")

\* A cancelled call has lost its last caller for good.
Dead ==
    /\ \A c \in shared : waiting[c] = {} \/ phase[c] = "done"
    /\ \A c \in Caller : err[c] = "canceled" => waiting[c] = {} /\ op = "Join"

\* What has not started leaves no trace, what has ended has a result and,
\* once released, no hold.
Ended ==
    /\ \A p \in Caller : pc[p] = "idle" =>
         /\ phase[p] = "none" /\ waiting[p] = {} /\ err[p] = "none"
         /\ p \notin shared /\ p \notin held
    /\ \A p \in Caller : on[p] # None => phase[on[p]] # "none"
    /\ \A c \in Caller : phase[c] \in {"ended", "released", "removed", "done"} => err[c] # "none"
    /\ \A c \in Caller : phase[c] \in {"released", "removed", "done"} => c \notin held
    /\ \A c \in Caller : pc[c] = "exec" => on[c] = c /\ op = "Do"
    /\ op = "Do" => held = {} /\ shared = {}

\* An answer comes from a call that is over.
Settled ==
    \A p \in Caller : pc[p] = "returned" /\ got[p] # "left" =>
        phase[on[p]] = "done"

\* The inductive invariant.
IInv == TypeOK /\ Listed /\ Counted /\ Dead /\ Ended /\ Settled /\ WorkNotStolen

\* Every step keeps the types.
LEMMA TypeInductive == TypeOK /\ [Next]_vars => TypeOK'
<1> SUFFICES ASSUME TypeOK, [Next]_vars PROVE TypeOK'
  OBVIOUS
<1> USE FlightAssumption DEF TypeOK, Phase, Outcome
<1>1. ASSUME NEW p \in Caller, DoStart(p) PROVE TypeOK'
  BY <1>1 DEF DoStart, InFlight
<1>2. ASSUME NEW p \in Caller, DoJoin(p) PROVE TypeOK'
  BY <1>2 DEF DoJoin, InFlight
<1>3. ASSUME NEW p \in Caller, JoinStart(p) PROVE TypeOK'
  BY <1>3 DEF JoinStart, Joinable
<1>4. ASSUME NEW p \in Caller, JoinCall(p) PROVE TypeOK'
  BY <1>4 DEF JoinCall, Joinable
<1>5. ASSUME NEW p \in Caller, CtxDone(p) PROVE TypeOK'
  BY <1>5 DEF CtxDone
<1>6. ASSUME NEW p \in Caller, DoReturn(p) PROVE TypeOK'
  BY <1>6 DEF DoReturn
<1>7. ASSUME NEW p \in Caller, Answer(p) PROVE TypeOK'
  BY <1>7 DEF Answer
<1>8. ASSUME NEW p \in Caller, Leave(p) PROVE TypeOK'
  BY <1>8 DEF Leave, CancelShared
<1>9. ASSUME NEW c \in Caller, NEW e \in {"ok", "failed", "panicked"}, DoEnds(c, e) PROVE TypeOK'
  BY <1>9 DEF DoEnds
<1>10. ASSUME NEW c \in Caller, NEW e \in {"ok", "failed", "panicked", "canceled"}, JoinEnds(c, e) PROVE TypeOK'
  BY <1>10 DEF JoinEnds
<1>11. ASSUME NEW c \in Caller, Release(c) PROVE TypeOK'
  BY <1>11 DEF Release
<1>12. ASSUME NEW c \in Caller, Remove(c) PROVE TypeOK'
  BY <1>12 DEF Remove, Unlist
<1>13. ASSUME NEW c \in Caller, Finish(c) PROVE TypeOK'
  BY <1>13 DEF Finish
<1>14. CASE UNCHANGED vars
  BY <1>14 DEF vars
<1> QED
  BY <1>1, <1>2, <1>3, <1>4, <1>5, <1>6, <1>7, <1>8, <1>9, <1>10, <1>11, <1>12, <1>13, <1>14
     DEF Next, CallerStep, CallStep, Ends, Quiet

\* Every step keeps the rest of the invariant, part by part.
LEMMA StepInductive == IInv /\ [Next]_vars => IInv'
<1> SUFFICES ASSUME IInv, [Next]_vars PROVE IInv'
  OBVIOUS
<1> DEFINE Rest == Listed /\ Counted /\ Dead /\ Ended /\ Settled /\ WorkNotStolen
<1>a. TypeOK /\ TypeOK' /\ Rest
  BY TypeInductive DEF IInv
<1> USE FlightAssumption DEF TypeOK
<1>1. ASSUME NEW p \in Caller, DoStart(p) PROVE Rest'
  <2>1. Listed'
    BY <1>a, <1>1 DEF DoStart, InFlight, Listed, Running
  <2>2. Counted'
    BY <1>a, <1>1 DEF DoStart, Counted, Ended
  <2>3. Dead'
    BY <1>a, <1>1 DEF DoStart, Dead, Ended
  <2>4. Ended'
    BY <1>a, <1>1 DEF DoStart, Ended
  <2>5. Settled'
    BY <1>a, <1>1 DEF DoStart, Settled, Ended
  <2>6. WorkNotStolen'
    BY <1>a, <1>1 DEF DoStart, WorkNotStolen
  <2> QED
    BY <2>1, <2>2, <2>3, <2>4, <2>5, <2>6
<1>2. ASSUME NEW p \in Caller, DoJoin(p) PROVE Rest'
  <2>1. Listed'
    BY <1>a, <1>2 DEF DoJoin, Listed, Running
  <2>2. Counted'
    BY <1>a, <1>2 DEF DoJoin, Counted
  <2>3. Dead'
    BY <1>a, <1>2 DEF DoJoin, Dead
  <2>4. Ended'
    BY <1>a, <1>2 DEF DoJoin, Ended, Listed
  <2>5. Settled'
    BY <1>a, <1>2 DEF DoJoin, Settled
  <2>6. WorkNotStolen'
    BY <1>a, <1>2 DEF DoJoin, WorkNotStolen
  <2> QED
    BY <2>1, <2>2, <2>3, <2>4, <2>5, <2>6
<1>3. ASSUME NEW p \in Caller, JoinStart(p) PROVE Rest'
  <2>1. Listed'
    BY <1>a, <1>3 DEF JoinStart, Joinable, Listed, Running
  <2>2. Counted'
    BY <1>a, <1>3 DEF JoinStart, Joinable, Counted, Ended
  <2>3. Dead'
    BY <1>a, <1>3 DEF JoinStart, Joinable, Dead, Ended
  <2>4. Ended'
    BY <1>a, <1>3 DEF JoinStart, Joinable, Ended
  <2>5. Settled'
    BY <1>a, <1>3 DEF JoinStart, Joinable, Settled, Ended
  <2>6. WorkNotStolen'
    BY <1>a, <1>3 DEF JoinStart, Joinable, WorkNotStolen, Ended
  <2> QED
    BY <2>1, <2>2, <2>3, <2>4, <2>5, <2>6
<1>4. ASSUME NEW p \in Caller, JoinCall(p) PROVE Rest'
  <2>1. Listed'
    BY <1>a, <1>4 DEF JoinCall, Joinable, Listed, Running
  <2>2. Counted'
    BY <1>a, <1>4 DEF JoinCall, Joinable, Counted
  <2>3. Dead'
    BY <1>a, <1>4 DEF JoinCall, Joinable, Dead
  <2>4. Ended'
    BY <1>a, <1>4 DEF JoinCall, Joinable, Ended, Listed
  <2>5. Settled'
    BY <1>a, <1>4 DEF JoinCall, Joinable, Settled
  <2>6. WorkNotStolen'
    BY <1>a, <1>4 DEF JoinCall, Joinable, WorkNotStolen
  <2> QED
    BY <2>1, <2>2, <2>3, <2>4, <2>5, <2>6
<1>5. ASSUME NEW p \in Caller, CtxDone(p) PROVE Rest'
  <2>1. Listed'
    BY <1>a, <1>5 DEF CtxDone, Listed, Running
  <2>2. Counted'
    BY <1>a, <1>5 DEF CtxDone, Counted
  <2>3. Dead'
    BY <1>a, <1>5 DEF CtxDone, Dead
  <2>4. Ended'
    BY <1>a, <1>5 DEF CtxDone, Ended
  <2>5. Settled'
    BY <1>a, <1>5 DEF CtxDone, Settled
  <2>6. WorkNotStolen'
    BY <1>a, <1>5 DEF CtxDone, WorkNotStolen
  <2> QED
    BY <2>1, <2>2, <2>3, <2>4, <2>5, <2>6
<1>6. ASSUME NEW p \in Caller, DoReturn(p) PROVE Rest'
  <2>1. Listed'
    BY <1>a, <1>6 DEF DoReturn, Listed, Running
  <2>2. Counted'
    BY <1>a, <1>6 DEF DoReturn, Counted
  <2>3. Dead'
    BY <1>a, <1>6 DEF DoReturn, Dead
  <2>4. Ended'
    BY <1>a, <1>6 DEF DoReturn, Ended
  <2>5. Settled'
    BY <1>a, <1>6 DEF DoReturn, Settled, Ended
  <2>6. WorkNotStolen'
    BY <1>a, <1>6 DEF DoReturn, WorkNotStolen, Ended, Dead
  <2> QED
    BY <2>1, <2>2, <2>3, <2>4, <2>5, <2>6
<1>7. ASSUME NEW p \in Caller, Answer(p) PROVE Rest'
  <2>1. Listed'
    BY <1>a, <1>7 DEF Answer, Listed, Running
  <2>2. Counted'
    BY <1>a, <1>7 DEF Answer, Counted
  <2>3. Dead'
    BY <1>a, <1>7 DEF Answer, Dead
  <2>4. Ended'
    BY <1>a, <1>7 DEF Answer, Ended
  <2>5. Settled'
    BY <1>a, <1>7 DEF Answer, Settled
  <2>6. WorkNotStolen'
    BY <1>a, <1>7 DEF Answer, WorkNotStolen, Ended, Dead, Counted
  <2> QED
    BY <2>1, <2>2, <2>3, <2>4, <2>5, <2>6
<1>8. ASSUME NEW p \in Caller, Leave(p) PROVE Rest'
  <2>1. Listed'
    BY <1>a, <1>8 DEF Leave, CancelShared, Listed, Running
  <2>2. Counted'
    BY <1>a, <1>8 DEF Leave, CancelShared, Counted
  <2>3. Dead'
    BY <1>a, <1>8 DEF Leave, CancelShared, Dead
  <2>4. Ended'
    BY <1>a, <1>8 DEF Leave, CancelShared, Ended
  <2>5. Settled'
    BY <1>a, <1>8 DEF Leave, CancelShared, Settled
  <2>6. WorkNotStolen'
    BY <1>a, <1>8 DEF Leave, CancelShared, WorkNotStolen
  <2> QED
    BY <2>1, <2>2, <2>3, <2>4, <2>5, <2>6
<1>9. ASSUME NEW c \in Caller, NEW e \in {"ok", "failed", "panicked"}, DoEnds(c, e) PROVE Rest'
  <2>1. Listed'
    BY <1>a, <1>9 DEF DoEnds, Listed, Running
  <2>2. Counted'
    BY <1>a, <1>9 DEF DoEnds, Counted
  <2>3. Dead'
    BY <1>a, <1>9 DEF DoEnds, Dead
  <2>4. Ended'
    BY <1>a, <1>9 DEF DoEnds, Ended
  <2>5. Settled'
    BY <1>a, <1>9 DEF DoEnds, Settled
  <2>6. WorkNotStolen'
    BY <1>a, <1>9 DEF DoEnds, WorkNotStolen
  <2> QED
    BY <2>1, <2>2, <2>3, <2>4, <2>5, <2>6
<1>10. ASSUME NEW c \in Caller, NEW e \in {"ok", "failed", "panicked", "canceled"}, JoinEnds(c, e) PROVE Rest'
  <2>1. Listed'
    BY <1>a, <1>10 DEF JoinEnds, Listed, Running
  <2>2. Counted'
    BY <1>a, <1>10 DEF JoinEnds, Counted
  <2>3. Dead'
    BY <1>a, <1>10 DEF JoinEnds, Dead
  <2>4. Ended'
    BY <1>a, <1>10 DEF JoinEnds, Ended
  <2>5. Settled'
    BY <1>a, <1>10 DEF JoinEnds, Settled
  <2>6. WorkNotStolen'
    BY <1>a, <1>10 DEF JoinEnds, WorkNotStolen
  <2> QED
    BY <2>1, <2>2, <2>3, <2>4, <2>5, <2>6
<1>11. ASSUME NEW c \in Caller, Release(c) PROVE Rest'
  <2>1. Listed'
    BY <1>a, <1>11 DEF Release, Listed, Running
  <2>2. Counted'
    BY <1>a, <1>11 DEF Release, Counted
  <2>3. Dead'
    BY <1>a, <1>11 DEF Release, Dead
  <2>4. Ended'
    BY <1>a, <1>11 DEF Release, Ended
  <2>5. Settled'
    BY <1>a, <1>11 DEF Release, Settled
  <2>6. WorkNotStolen'
    BY <1>a, <1>11 DEF Release, WorkNotStolen
  <2> QED
    BY <2>1, <2>2, <2>3, <2>4, <2>5, <2>6
<1>12. ASSUME NEW c \in Caller, Remove(c) PROVE Rest'
  <2>1. Listed'
    BY <1>a, <1>12 DEF Remove, Unlist, Listed, Running
  <2>2. Counted'
    BY <1>a, <1>12 DEF Remove, Unlist, Counted
  <2>3. Dead'
    BY <1>a, <1>12 DEF Remove, Unlist, Dead
  <2>4. Ended'
    BY <1>a, <1>12 DEF Remove, Unlist, Ended
  <2>5. Settled'
    BY <1>a, <1>12 DEF Remove, Unlist, Settled
  <2>6. WorkNotStolen'
    BY <1>a, <1>12 DEF Remove, Unlist, WorkNotStolen
  <2> QED
    BY <2>1, <2>2, <2>3, <2>4, <2>5, <2>6
<1>13. ASSUME NEW c \in Caller, Finish(c) PROVE Rest'
  <2>1. Listed'
    BY <1>a, <1>13 DEF Finish, Listed, Running
  <2>2. Counted'
    BY <1>a, <1>13 DEF Finish, Counted
  <2>3. Dead'
    BY <1>a, <1>13 DEF Finish, Dead
  <2>4. Ended'
    BY <1>a, <1>13 DEF Finish, Ended
  <2>5. Settled'
    BY <1>a, <1>13 DEF Finish, Settled
  <2>6. WorkNotStolen'
    BY <1>a, <1>13 DEF Finish, WorkNotStolen
  <2> QED
    BY <2>1, <2>2, <2>3, <2>4, <2>5, <2>6
<1>14. ASSUME UNCHANGED vars PROVE Rest'
  BY <1>a, <1>14 DEF vars, Running, Listed, Counted, Dead, Ended, Settled, WorkNotStolen
<1> QED
  BY <1>a, <1>1, <1>2, <1>3, <1>4, <1>5, <1>6, <1>7, <1>8, <1>9, <1>10, <1>11, <1>12, <1>13,
     <1>14
     DEF IInv, Next, CallerStep, CallStep, Ends, Quiet

\* The inductive invariant holds throughout: types, and who may still count on
\* which call.
THEOREM FlightInvariant == Spec => []IInv
<1>1. Init => IInv
  BY FlightAssumption
     DEF Init, IInv, TypeOK, Phase, Outcome, Running, Listed, Counted, Dead, Ended, Settled,
         WorkNotStolen
<1> QED
  BY <1>1, StepInductive, PTL DEF Spec

\* At most one execution per key is in flight that anyone can still want, for
\* Do and for Join, over any number of callers.
THEOREM OneExecutionHolds == Spec => []OneExecution
<1>1. IInv => OneExecution
  BY DEF IInv, Listed, OneExecution
<1> QED
  BY <1>1, FlightInvariant, PTL

\* No caller is handed the cancellation another's leaving caused, and none is
\* answered before the call's hold is released.
THEOREM WorkNotStolenHolds == Spec => []WorkNotStolen
<1>1. IInv => WorkNotStolen
  BY DEF IInv
<1> QED
  BY <1>1, FlightInvariant, PTL

\* Work that nobody waits for any more is cancelled.
THEOREM AbandonedIsCancelledHolds == Spec => []AbandonedIsCancelled
<1>1. IInv => AbandonedIsCancelled
  <2> SUFFICES ASSUME IInv, NEW c \in Caller, Running(c), c \notin shared
               PROVE  \E p \in Caller : pc[p] \in {"wait", "exec"} /\ on[p] = c
    BY DEF AbandonedIsCancelled
  <2>1. CASE op = "Do"
    BY <2>1 DEF IInv, Listed
  <2>2. CASE op = "Join"
    <3>1. PICK q \in waiting[c] : TRUE
      BY <2>2 DEF IInv, Listed
    <3>2. q \in Caller /\ on[q] = c /\ pc[q] = "wait"
      BY <3>1 DEF IInv, TypeOK, Counted, Running
    <3> QED
      BY <3>2
  <2> QED
    BY <2>1, <2>2 DEF IInv, TypeOK
<1> QED
  BY <1>1, FlightInvariant, PTL
=============================================================================
