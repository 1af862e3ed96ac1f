------------------------- MODULE StreamHandlerProofs -------------------------
(***************************************************************************)
(* Theorems about StreamHandler: one pipeline encodes a key for the cache, *)
(* what is registered can be attached to, every run is accounted for by a  *)
(* slot and by Close's wait, and a request flaps only when the entry was   *)
(* lost under it.  They hold for any number of requests, entries, slots,   *)
(* tries and evictions; the last one for three tries or more, the code's   *)
(* number being three.                                                     *)
(***************************************************************************)
EXTENDS StreamHandler, FiniteSetTheorems, TLAPS

-----------------------------------------------------------------------------
(* The inductive invariant.                                                *)

RequestPC == {"idle", "lookup", "do", "wait", "inflight", "contains", "begin", "start",
              "attach", "serve", "flap", "done"}

TypeS == /\ index \in BOOLEAN /\ evicted \in 0 .. MaxEvict /\ writing \in Entry \cup {None}
         /\ closing \in BOOLEAN /\ closed \in BOOLEAN
TypeE == /\ state \in [Entry -> {"free", "writing", "promoting", "complete", "failed"}]
         /\ ring \in [Entry -> {"no", "fresh", "full", "moved"}]
         /\ run \in [Entry -> {"none", "running", "promoted", "ended", "done"}]
         /\ readers \in [Entry -> SUBSET Request]
         /\ mem \subseteq Entry /\ abandoned \subseteq Entry /\ idle \subseteq Entry
         /\ attached \subseteq Entry
TypeL == slot \subseteq Entry /\ IsFiniteSet(slot) /\ Cardinality(slot) <= Slots
TypeA == /\ leader \in Request \cup {None} /\ pc \in [Request -> RequestPC]
         /\ ent \in [Request -> Entry \cup {None}] /\ tries \in [Request -> 0 .. Tries]
         /\ shaken \subseteq Request
Types == TypeS /\ TypeE /\ TypeL /\ TypeA

\* The one request that executes the flight is its leader; until it begins an
\* entry none is registered, and whoever goes on to attach has one.
FlightOf(r) ==
    /\ pc[r] \in {"inflight", "contains", "begin", "start"} => r = leader
    /\ pc[r] \in {"contains", "begin"} => writing = None
    /\ pc[r] \in {"attach", "serve", "start"} => ent[r] \in Entry
FlightInv == \A r \in Request : FlightOf(r)

\* Between Begin and startPipeline the entry is the leader's alone.
StartOf(r) ==
    pc[r] = "start" =>
        /\ ent[r] \in slot /\ ent[r] \notin idle /\ ent[r] \notin abandoned
        /\ run[ent[r]] = "none" /\ state[ent[r]] = "writing"
        /\ ring[ent[r]] = "no" => writing = ent[r]
        /\ \A q \in Request : ent[q] = ent[r] => q = r
StartInv == \A r \in Request : StartOf(r)

\* A slot has a run, or one that is about to start, and a run its slot.
SlotOf(e) ==
    /\ e \in slot => Running(e) \/ \E r \in Request : pc[r] = "start" /\ ent[r] = e
    /\ Running(e) /\ e \notin abandoned => e \in slot
SlotInv == \A e \in Entry : SlotOf(e)

\* What is registered is written to its file, and what encodes is registered.
RegInv  == writing # None =>
              /\ state[writing] \in {"writing", "promoting"} /\ ring[writing] = "no"
              /\ writing \notin abandoned
EncOf(e) == Encodes(e) => writing = e
EncInv  == \A e \in Entry : EncOf(e)

ClosedInv == closed => closing /\ \A e \in Entry : ~Running(e)

IInv == Types /\ FlightInv /\ StartInv /\ SlotInv /\ RegInv /\ EncInv /\ ClosedInv

\* What the end of a flight does to each request.
LEMMA FlightEffect ==
    ASSUME TypeA, NEW e, FlightReturns(e), NEW q \in Request
    PROVE  /\ leader' = None
           /\ InTheFlight(q) => ent'[q] = e /\ pc'[q] \in {"attach", "flap", "lookup"}
           /\ InTheFlight(q) /\ e = None => pc'[q] # "attach"
           /\ ~InTheFlight(q) => pc'[q] = pc[q] /\ ent'[q] = ent[q]
  BY DEF TypeA, FlightReturns, Again

LEMMA FlightTypes ==
    ASSUME TypeA, NEW e \in Entry \cup {None}, FlightReturns(e) PROVE TypeA'
<1>1. leader' = None /\ shaken' = shaken
  BY DEF FlightReturns
<1>2. pc' \in [Request -> RequestPC]
  BY DEF FlightReturns, TypeA, Again, RequestPC
<1>3. ent' \in [Request -> Entry \cup {None}]
  BY DEF FlightReturns, TypeA
<1>4. tries' \in [Request -> 0 .. Tries]
  BY StreamAssumption DEF FlightReturns, TypeA, LastTry
<1> QED
  BY <1>1, <1>2, <1>3, <1>4 DEF TypeA



-----------------------------------------------------------------------------
(* Every step.                                                             *)

Acts ==
    \/ \E r \in Request :
        \/ Begins(r) \/ ServesCached(r) \/ AnswersWithoutWork(r) \/ Misses(r) \/ Do(r)
        \/ FnInFlight(r) \/ FnContains(r) \/ FnOverloaded(r) \/ (\E file \in BOOLEAN : FnBegin(r,
           file))
        \/ FnStart(r) \/ FnRefused(r) \/ Attach(r) \/ Unjoinable(r) \/ Flapping(r)
        \/ \E a \in {"whole", "error", "gone"} : Leaves(r, a)
    \/ \E e \in Entry :
        \/ Degrade(e) \/ RingFills(e) \/ RingDrains(e) \/ IdleFires(e) \/ RingAbandons(e)
        \/ RunFails(e) \/ Promotes(e) \/ Indexed(e) \/ PromoteFails(e) \/ Completes(e) \/
           RunExits(e)
    \/ Evicts \/ CloseBegins \/ CloseEnds \/ UNCHANGED vars

LEMMA StepActs == ASSUME [Next]_vars PROVE Acts
  BY DEF Next, AskStep, RunStep, Acts


-----------------------------------------------------------------------------
(* Types.                                                                  *)

LEMMA NextS == ASSUME IInv, Acts PROVE TypeS'
<1>a. TypeS /\ TypeA
  BY DEF IInv, Types
<1> USE <1>a, StreamAssumption DEF store, entry, asks, shut, TypeS
<1>1. ASSUME NEW r \in Request, Begins(r) PROVE TypeS'
  BY <1>1 DEF Begins
<1>2. ASSUME NEW r \in Request, ServesCached(r) PROVE TypeS'
  BY <1>2 DEF ServesCached, Answers
<1>3. ASSUME NEW r \in Request, AnswersWithoutWork(r) PROVE TypeS'
  BY <1>3 DEF AnswersWithoutWork, Answers
<1>4. ASSUME NEW r \in Request, Misses(r) PROVE TypeS'
  BY <1>4 DEF Misses
<1>5. ASSUME NEW r \in Request, Do(r) PROVE TypeS'
  BY <1>5 DEF Do
<1>6. ASSUME NEW r \in Request, FnInFlight(r) PROVE TypeS'
  BY <1>6 DEF FnInFlight, InFlight
<1>7. ASSUME NEW r \in Request, FnContains(r) PROVE TypeS'
  BY <1>7 DEF FnContains, Raced
<1>8. ASSUME NEW r \in Request, FnOverloaded(r) PROVE TypeS'
  BY <1>8 DEF FnOverloaded, FlightFails, InTheFlight
<1>9. ASSUME NEW r \in Request, NEW file \in BOOLEAN, FnBegin(r, file) PROVE TypeS'
  BY <1>9 DEF FnBegin, Unused
<1>10. ASSUME NEW r \in Request, FnStart(r) PROVE TypeS'
  BY <1>10 DEF FnStart, StartWork
<1>11. ASSUME NEW r \in Request, FnRefused(r) PROVE TypeS'
  BY <1>11 DEF FnRefused, StartWork, Forget
<1>12. ASSUME NEW r \in Request, Attach(r) PROVE TypeS'
  BY <1>12 DEF Attach
<1>13. ASSUME NEW r \in Request, Unjoinable(r) PROVE TypeS'
  BY <1>13 DEF Unjoinable, Answers, Again
<1>14. ASSUME NEW r \in Request, Flapping(r) PROVE TypeS'
  BY <1>14 DEF Flapping, Answers
<1>15. ASSUME NEW r \in Request, NEW a \in {"whole", "error", "gone"}, Leaves(r, a) PROVE TypeS'
  BY <1>15 DEF Leaves, Answers, Ended
<1>16. ASSUME NEW e \in Entry, Degrade(e) PROVE TypeS'
  BY <1>16 DEF Degrade, Forget, Shake
<1>17. ASSUME NEW e \in Entry, RingFills(e) PROVE TypeS'
  BY <1>17 DEF RingFills
<1>18. ASSUME NEW e \in Entry, RingDrains(e) PROVE TypeS'
  BY <1>18 DEF RingDrains, Shake
<1>19. ASSUME NEW e \in Entry, IdleFires(e) PROVE TypeS'
  BY <1>19 DEF IdleFires, Abandon, Forget, Shake
<1>20. ASSUME NEW e \in Entry, RingAbandons(e) PROVE TypeS'
  BY <1>20 DEF RingAbandons, Abandon, Forget, Shake
<1>21. ASSUME NEW e \in Entry, RunFails(e) PROVE TypeS'
  BY <1>21 DEF RunFails, Forget
<1>22. ASSUME NEW e \in Entry, Promotes(e) PROVE TypeS'
  BY <1>22 DEF Promotes
<1>23. ASSUME NEW e \in Entry, Indexed(e) PROVE TypeS'
  BY <1>23 DEF Indexed
<1>24. ASSUME NEW e \in Entry, PromoteFails(e) PROVE TypeS'
  BY <1>24 DEF PromoteFails, Forget, Shake
<1>25. ASSUME NEW e \in Entry, Completes(e) PROVE TypeS'
  BY <1>25 DEF Completes, Forget, Shake
<1>26. ASSUME NEW e \in Entry, RunExits(e) PROVE TypeS'
  BY <1>26 DEF RunExits, Unwind
<1>27. ASSUME Evicts PROVE TypeS'
  <2>1. evicted' \in 0 .. MaxEvict /\ UNCHANGED <<writing, shut>>
    BY <1>27 DEF Evicts
  <2>2. index' \in BOOLEAN
    BY <1>27 DEF Evicts
  <2> QED
    BY <2>1, <2>2
<1>28. ASSUME CloseBegins PROVE TypeS'
  BY <1>28 DEF CloseBegins
<1>29. ASSUME CloseEnds PROVE TypeS'
  BY <1>29 DEF CloseEnds
<1>30. ASSUME UNCHANGED vars PROVE TypeS'
  BY <1>30 DEF vars
<1> QED
  BY <1>1, <1>2, <1>3, <1>4, <1>5, <1>6, <1>7, <1>8, <1>9, <1>10, <1>11, <1>12, <1>13, <1>14, <1>15,
     <1>16, <1>17, <1>18, <1>19, <1>20, <1>21, <1>22, <1>23, <1>24, <1>25, <1>26, <1>27, <1>28,
     <1>29, <1>30 DEF Acts

LEMMA NextE == ASSUME IInv, Acts PROVE TypeE'
<1>a. TypeE /\ TypeA /\ FlightInv
  BY DEF IInv, Types
<1> USE <1>a, StreamAssumption DEF store, entry, asks, shut, TypeE, TypeA
<1>1. ASSUME NEW r \in Request, Begins(r) PROVE TypeE'
  BY <1>1 DEF Begins
<1>2. ASSUME NEW r \in Request, ServesCached(r) PROVE TypeE'
  BY <1>2 DEF ServesCached, Answers
<1>3. ASSUME NEW r \in Request, AnswersWithoutWork(r) PROVE TypeE'
  BY <1>3 DEF AnswersWithoutWork, Answers
<1>4. ASSUME NEW r \in Request, Misses(r) PROVE TypeE'
  BY <1>4 DEF Misses
<1>5. ASSUME NEW r \in Request, Do(r) PROVE TypeE'
  BY <1>5 DEF Do
<1>6. ASSUME NEW r \in Request, FnInFlight(r) PROVE TypeE'
  BY <1>6 DEF FnInFlight, InFlight
<1>7. ASSUME NEW r \in Request, FnContains(r) PROVE TypeE'
  BY <1>7 DEF FnContains, Raced
<1>8. ASSUME NEW r \in Request, FnOverloaded(r) PROVE TypeE'
  BY <1>8 DEF FnOverloaded, FlightFails, InTheFlight
<1>9. ASSUME NEW r \in Request, NEW file \in BOOLEAN, FnBegin(r, file) PROVE TypeE'
  BY <1>9 DEF FnBegin, Unused
<1>10. ASSUME NEW r \in Request, FnStart(r) PROVE TypeE'
  BY <1>10 DEF FnStart, StartWork
<1>11. ASSUME NEW r \in Request, FnRefused(r) PROVE TypeE'
  BY <1>11 DEF FnRefused, StartWork, Forget
<1>12. ASSUME NEW r \in Request, Attach(r) PROVE TypeE'
  <2>1. ent[r] \in Entry
    BY <1>12 DEF Attach, FlightInv, FlightOf
  <2> QED
    BY <1>12, <2>1 DEF Attach
<1>13. ASSUME NEW r \in Request, Unjoinable(r) PROVE TypeE'
  BY <1>13 DEF Unjoinable, Answers, Again
<1>14. ASSUME NEW r \in Request, Flapping(r) PROVE TypeE'
  BY <1>14 DEF Flapping, Answers
<1>15. ASSUME NEW r \in Request, NEW a \in {"whole", "error", "gone"}, Leaves(r, a) PROVE TypeE'
  <2>1. ent[r] \in Entry
    BY <1>15 DEF Leaves, FlightInv, FlightOf
  <2>2. readers' \in [Entry -> SUBSET Request]
    BY <1>15, <2>1 DEF Leaves
  <2>3. idle' \subseteq Entry
    BY <1>15, <2>1 DEF Leaves
  <2> QED
    BY <1>15, <2>2, <2>3 DEF Leaves
<1>16. ASSUME NEW e \in Entry, Degrade(e) PROVE TypeE'
  BY <1>16 DEF Degrade, Forget, Shake
<1>17. ASSUME NEW e \in Entry, RingFills(e) PROVE TypeE'
  BY <1>17 DEF RingFills
<1>18. ASSUME NEW e \in Entry, RingDrains(e) PROVE TypeE'
  BY <1>18 DEF RingDrains, Shake
<1>19. ASSUME NEW e \in Entry, IdleFires(e) PROVE TypeE'
  BY <1>19 DEF IdleFires, Abandon, Forget, Shake
<1>20. ASSUME NEW e \in Entry, RingAbandons(e) PROVE TypeE'
  BY <1>20 DEF RingAbandons, Abandon, Forget, Shake
<1>21. ASSUME NEW e \in Entry, RunFails(e) PROVE TypeE'
  BY <1>21 DEF RunFails, Forget
<1>22. ASSUME NEW e \in Entry, Promotes(e) PROVE TypeE'
  BY <1>22 DEF Promotes
<1>23. ASSUME NEW e \in Entry, Indexed(e) PROVE TypeE'
  BY <1>23 DEF Indexed
<1>24. ASSUME NEW e \in Entry, PromoteFails(e) PROVE TypeE'
  BY <1>24 DEF PromoteFails, Forget, Shake
<1>25. ASSUME NEW e \in Entry, Completes(e) PROVE TypeE'
  BY <1>25 DEF Completes, Forget, Shake
<1>26. ASSUME NEW e \in Entry, RunExits(e) PROVE TypeE'
  BY <1>26 DEF RunExits, Unwind
<1>27. ASSUME Evicts PROVE TypeE'
  BY <1>27 DEF Evicts, Shake
<1>28. ASSUME CloseBegins PROVE TypeE'
  BY <1>28 DEF CloseBegins
<1>29. ASSUME CloseEnds PROVE TypeE'
  BY <1>29 DEF CloseEnds
<1>30. ASSUME UNCHANGED vars PROVE TypeE'
  BY <1>30 DEF vars
<1> QED
  BY <1>1, <1>2, <1>3, <1>4, <1>5, <1>6, <1>7, <1>8, <1>9, <1>10, <1>11, <1>12, <1>13, <1>14, <1>15,
     <1>16, <1>17, <1>18, <1>19, <1>20, <1>21, <1>22, <1>23, <1>24, <1>25, <1>26, <1>27, <1>28,
     <1>29, <1>30 DEF Acts

LEMMA NextL == ASSUME IInv, Acts PROVE TypeL'
<1>a. TypeL
  BY DEF IInv, Types
<1> USE <1>a, StreamAssumption DEF store, entry, asks, shut, TypeL
<1>1. ASSUME NEW r \in Request, Begins(r) PROVE TypeL'
  BY <1>1 DEF Begins
<1>2. ASSUME NEW r \in Request, ServesCached(r) PROVE TypeL'
  BY <1>2 DEF ServesCached, Answers
<1>3. ASSUME NEW r \in Request, AnswersWithoutWork(r) PROVE TypeL'
  BY <1>3 DEF AnswersWithoutWork, Answers
<1>4. ASSUME NEW r \in Request, Misses(r) PROVE TypeL'
  BY <1>4 DEF Misses
<1>5. ASSUME NEW r \in Request, Do(r) PROVE TypeL'
  BY <1>5 DEF Do
<1>6. ASSUME NEW r \in Request, FnInFlight(r) PROVE TypeL'
  BY <1>6 DEF FnInFlight, InFlight
<1>7. ASSUME NEW r \in Request, FnContains(r) PROVE TypeL'
  BY <1>7 DEF FnContains, Raced
<1>8. ASSUME NEW r \in Request, FnOverloaded(r) PROVE TypeL'
  BY <1>8 DEF FnOverloaded, FlightFails, InTheFlight
<1>9. ASSUME NEW r \in Request, NEW file \in BOOLEAN, FnBegin(r, file) PROVE TypeL'
  <2> DEFINE f == CHOOSE x \in Entry : Unused(x)
  <2>1. f \in Entry /\ slot' = slot \cup {f} /\ Cardinality(slot) < Slots
    BY <1>9 DEF FnBegin
  <2> HIDE DEF f
  <2>2. /\ IsFiniteSet(slot') /\ Cardinality(slot) \in Nat
        /\ Cardinality(slot') = Cardinality(slot) \/ Cardinality(slot') = Cardinality(slot) + 1
    BY <2>1, FS_AddElement, FS_CardinalityType
  <2> QED
    BY <2>1, <2>2
<1>10. ASSUME NEW r \in Request, FnStart(r) PROVE TypeL'
  BY <1>10 DEF FnStart, StartWork
<1>11. ASSUME NEW r \in Request, FnRefused(r) PROVE TypeL'
  <2>1. slot' = slot \ {ent[r]}
    BY <1>11 DEF FnRefused
  <2>2. /\ IsFiniteSet(slot') /\ Cardinality(slot) \in Nat
        /\ Cardinality(slot') = Cardinality(slot) \/ Cardinality(slot') = Cardinality(slot) - 1
    BY <2>1, FS_RemoveElement, FS_CardinalityType
  <2> QED
    BY <2>1, <2>2
<1>12. ASSUME NEW r \in Request, Attach(r) PROVE TypeL'
  BY <1>12 DEF Attach
<1>13. ASSUME NEW r \in Request, Unjoinable(r) PROVE TypeL'
  BY <1>13 DEF Unjoinable, Answers, Again
<1>14. ASSUME NEW r \in Request, Flapping(r) PROVE TypeL'
  BY <1>14 DEF Flapping, Answers
<1>15. ASSUME NEW r \in Request, NEW a \in {"whole", "error", "gone"}, Leaves(r, a) PROVE TypeL'
  BY <1>15 DEF Leaves, Answers, Ended
<1>16. ASSUME NEW e \in Entry, Degrade(e) PROVE TypeL'
  BY <1>16 DEF Degrade, Forget, Shake
<1>17. ASSUME NEW e \in Entry, RingFills(e) PROVE TypeL'
  BY <1>17 DEF RingFills
<1>18. ASSUME NEW e \in Entry, RingDrains(e) PROVE TypeL'
  BY <1>18 DEF RingDrains, Shake
<1>19. ASSUME NEW e \in Entry, IdleFires(e) PROVE TypeL'
  <2>1. slot' = slot \ {e}
    BY <1>19 DEF IdleFires, Abandon
  <2>2. /\ IsFiniteSet(slot') /\ Cardinality(slot) \in Nat
        /\ Cardinality(slot') = Cardinality(slot) \/ Cardinality(slot') = Cardinality(slot) - 1
    BY <2>1, FS_RemoveElement, FS_CardinalityType
  <2> QED
    BY <2>1, <2>2
<1>20. ASSUME NEW e \in Entry, RingAbandons(e) PROVE TypeL'
  <2>1. slot' = slot \ {e}
    BY <1>20 DEF RingAbandons, Abandon
  <2>2. /\ IsFiniteSet(slot') /\ Cardinality(slot) \in Nat
        /\ Cardinality(slot') = Cardinality(slot) \/ Cardinality(slot') = Cardinality(slot) - 1
    BY <2>1, FS_RemoveElement, FS_CardinalityType
  <2> QED
    BY <2>1, <2>2
<1>21. ASSUME NEW e \in Entry, RunFails(e) PROVE TypeL'
  BY <1>21 DEF RunFails, Forget
<1>22. ASSUME NEW e \in Entry, Promotes(e) PROVE TypeL'
  BY <1>22 DEF Promotes
<1>23. ASSUME NEW e \in Entry, Indexed(e) PROVE TypeL'
  BY <1>23 DEF Indexed
<1>24. ASSUME NEW e \in Entry, PromoteFails(e) PROVE TypeL'
  BY <1>24 DEF PromoteFails, Forget, Shake
<1>25. ASSUME NEW e \in Entry, Completes(e) PROVE TypeL'
  BY <1>25 DEF Completes, Forget, Shake
<1>26. ASSUME NEW e \in Entry, RunExits(e) PROVE TypeL'
  <2>1. slot' = slot \ {e}
    BY <1>26 DEF RunExits, Unwind
  <2>2. /\ IsFiniteSet(slot') /\ Cardinality(slot) \in Nat
        /\ Cardinality(slot') = Cardinality(slot) \/ Cardinality(slot') = Cardinality(slot) - 1
    BY <2>1, FS_RemoveElement, FS_CardinalityType
  <2> QED
    BY <2>1, <2>2
<1>27. ASSUME Evicts PROVE TypeL'
  BY <1>27 DEF Evicts, Shake
<1>28. ASSUME CloseBegins PROVE TypeL'
  BY <1>28 DEF CloseBegins
<1>29. ASSUME CloseEnds PROVE TypeL'
  BY <1>29 DEF CloseEnds
<1>30. ASSUME UNCHANGED vars PROVE TypeL'
  BY <1>30 DEF vars
<1> QED
  BY <1>1, <1>2, <1>3, <1>4, <1>5, <1>6, <1>7, <1>8, <1>9, <1>10, <1>11, <1>12, <1>13, <1>14, <1>15,
     <1>16, <1>17, <1>18, <1>19, <1>20, <1>21, <1>22, <1>23, <1>24, <1>25, <1>26, <1>27, <1>28,
     <1>29, <1>30 DEF Acts

LEMMA NextA == ASSUME IInv, Acts PROVE TypeA'
<1>a. TypeA /\ TypeS /\ FlightInv
  BY DEF IInv, Types
<1> USE <1>a, StreamAssumption DEF store, entry, asks, shut, TypeA, TypeS, RequestPC
<1>1. ASSUME NEW r \in Request, Begins(r) PROVE TypeA'
  BY <1>1 DEF Begins
<1>2. ASSUME NEW r \in Request, ServesCached(r) PROVE TypeA'
  BY <1>2 DEF ServesCached, Answers
<1>3. ASSUME NEW r \in Request, AnswersWithoutWork(r) PROVE TypeA'
  BY <1>3 DEF AnswersWithoutWork, Answers
<1>4. ASSUME NEW r \in Request, Misses(r) PROVE TypeA'
  BY <1>4 DEF Misses
<1>5. ASSUME NEW r \in Request, Do(r) PROVE TypeA'
  BY <1>5 DEF Do
<1>6. ASSUME NEW r \in Request, FnInFlight(r) PROVE TypeA'
  <2>1. CASE FlightReturns(writing)
    BY <2>1, FlightTypes
  <2>2. CASE ~FlightReturns(writing)
    BY <1>6, <2>2 DEF FnInFlight, InFlight
  <2> QED
    BY <2>1, <2>2
<1>7. ASSUME NEW r \in Request, FnContains(r) PROVE TypeA'
  <2>1. CASE FlightReturns(None)
    BY <2>1, FlightTypes
  <2>2. CASE ~FlightReturns(None)
    BY <1>7, <2>2 DEF FnContains
  <2> QED
    BY <2>1, <2>2
<1>8. ASSUME NEW r \in Request, FnOverloaded(r) PROVE TypeA'
  BY <1>8 DEF FnOverloaded, FlightFails, InTheFlight
<1>9. ASSUME NEW r \in Request, NEW file \in BOOLEAN, FnBegin(r, file) PROVE TypeA'
  BY <1>9 DEF FnBegin, Unused
<1>10. ASSUME NEW r \in Request, FnStart(r) PROVE TypeA'
  <2>1. ent[r] \in Entry /\ FlightReturns(ent[r])
    BY <1>10 DEF FnStart, FlightInv, FlightOf
  <2> QED
    BY <2>1, FlightTypes
<1>11. ASSUME NEW r \in Request, FnRefused(r) PROVE TypeA'
  <2>1. ent[r] \in Entry /\ FlightReturns(ent[r])
    BY <1>11 DEF FnRefused, FlightInv, FlightOf
  <2> QED
    BY <2>1, FlightTypes
<1>12. ASSUME NEW r \in Request, Attach(r) PROVE TypeA'
  BY <1>12 DEF Attach
<1>13. ASSUME NEW r \in Request, Unjoinable(r) PROVE TypeA'
  <2>1. leader' = leader /\ shaken' \subseteq Request
    BY <1>13 DEF Unjoinable, Answers
  <2>2. pc' \in [Request -> RequestPC]
    BY <1>13 DEF Unjoinable, Answers, Again
  <2>3. ent' \in [Request -> Entry \cup {None}]
    BY <1>13 DEF Unjoinable, Answers
  <2>4. tries' \in [Request -> 0 .. Tries]
    BY <1>13 DEF Unjoinable, Answers, LastTry
  <2> QED
    BY <2>1, <2>2, <2>3, <2>4
<1>14. ASSUME NEW r \in Request, Flapping(r) PROVE TypeA'
  BY <1>14 DEF Flapping, Answers
<1>15. ASSUME NEW r \in Request, NEW a \in {"whole", "error", "gone"}, Leaves(r, a) PROVE TypeA'
  BY <1>15 DEF Leaves, Answers, Ended
<1>16. ASSUME NEW e \in Entry, Degrade(e) PROVE TypeA'
  BY <1>16 DEF Degrade, Forget, Shake
<1>17. ASSUME NEW e \in Entry, RingFills(e) PROVE TypeA'
  BY <1>17 DEF RingFills
<1>18. ASSUME NEW e \in Entry, RingDrains(e) PROVE TypeA'
  BY <1>18 DEF RingDrains, Shake
<1>19. ASSUME NEW e \in Entry, IdleFires(e) PROVE TypeA'
  BY <1>19 DEF IdleFires, Abandon, Forget, Shake
<1>20. ASSUME NEW e \in Entry, RingAbandons(e) PROVE TypeA'
  BY <1>20 DEF RingAbandons, Abandon, Forget, Shake
<1>21. ASSUME NEW e \in Entry, RunFails(e) PROVE TypeA'
  BY <1>21 DEF RunFails, Forget
<1>22. ASSUME NEW e \in Entry, Promotes(e) PROVE TypeA'
  BY <1>22 DEF Promotes
<1>23. ASSUME NEW e \in Entry, Indexed(e) PROVE TypeA'
  BY <1>23 DEF Indexed
<1>24. ASSUME NEW e \in Entry, PromoteFails(e) PROVE TypeA'
  BY <1>24 DEF PromoteFails, Forget, Shake
<1>25. ASSUME NEW e \in Entry, Completes(e) PROVE TypeA'
  BY <1>25 DEF Completes, Forget, Shake
<1>26. ASSUME NEW e \in Entry, RunExits(e) PROVE TypeA'
  BY <1>26 DEF RunExits, Unwind
<1>27. ASSUME Evicts PROVE TypeA'
  BY <1>27 DEF Evicts, Shake
<1>28. ASSUME CloseBegins PROVE TypeA'
  BY <1>28 DEF CloseBegins
<1>29. ASSUME CloseEnds PROVE TypeA'
  BY <1>29 DEF CloseEnds
<1>30. ASSUME UNCHANGED vars PROVE TypeA'
  BY <1>30 DEF vars
<1> QED
  BY <1>1, <1>2, <1>3, <1>4, <1>5, <1>6, <1>7, <1>8, <1>9, <1>10, <1>11, <1>12, <1>13, <1>14, <1>15,
     <1>16, <1>17, <1>18, <1>19, <1>20, <1>21, <1>22, <1>23, <1>24, <1>25, <1>26, <1>27, <1>28,
     <1>29, <1>30 DEF Acts

-----------------------------------------------------------------------------
(* The flight, the slots and the registry.                                 *)

LEMMA NextFlight == ASSUME IInv, Acts PROVE FlightInv'
<1> SUFFICES ASSUME NEW q \in Request PROVE FlightOf(q)'
  BY DEF FlightInv
<1>a. TypeS /\ TypeA /\ FlightInv /\ FlightOf(q)
  BY DEF IInv, Types, FlightInv
<1> USE <1>a, StreamAssumption DEF store, entry, asks, shut, FlightOf, TypeA
<1>1. ASSUME NEW r \in Request, Begins(r) PROVE FlightOf(q)'
  BY <1>1 DEF Begins
<1>2. ASSUME NEW r \in Request, ServesCached(r) PROVE FlightOf(q)'
  BY <1>2 DEF ServesCached, Answers
<1>3. ASSUME NEW r \in Request, AnswersWithoutWork(r) PROVE FlightOf(q)'
  BY <1>3 DEF AnswersWithoutWork, Answers
<1>4. ASSUME NEW r \in Request, Misses(r) PROVE FlightOf(q)'
  BY <1>4 DEF Misses
<1>5. ASSUME NEW r \in Request, Do(r) PROVE FlightOf(q)'
  BY <1>5 DEF Do
<1>6. ASSUME NEW r \in Request, FnInFlight(r) PROVE FlightOf(q)'
  <2>1. pc[r] \in {"inflight", "contains", "begin", "start"} /\ r = leader
    BY <1>6 DEF FnInFlight, FlightInv, FlightOf

  <2>2. CASE writing # None
    <3>1. FlightReturns(writing) /\ writing \in Entry /\ writing' = writing
      BY <1>6, <2>2 DEF FnInFlight, InFlight, TypeS
    <3> QED
      BY <2>1, <3>1, FlightEffect DEF InTheFlight, FlightInv
  <2>3. CASE writing = None
    BY <1>6, <2>1, <2>3 DEF FnInFlight, InFlight
  <2> QED
    BY <2>2, <2>3
<1>7. ASSUME NEW r \in Request, FnContains(r) PROVE FlightOf(q)'
  <2>1. pc[r] \in {"inflight", "contains", "begin", "start"} /\ r = leader
    BY <1>7 DEF FnContains, FlightInv, FlightOf

  <2>2. CASE index
    <3>1. FlightReturns(None) /\ writing' = writing
      BY <1>7, <2>2 DEF FnContains, Raced
    <3> QED
      BY <2>1, <3>1, FlightEffect DEF InTheFlight, FlightInv
  <2>3. CASE ~index
    BY <1>7, <2>1, <2>3 DEF FnContains, Raced
  <2> QED
    BY <2>2, <2>3
<1>8. ASSUME NEW r \in Request, FnOverloaded(r) PROVE FlightOf(q)'
  <2>1. pc[r] \in {"inflight", "contains", "begin", "start"} /\ r = leader
    BY <1>8 DEF FnOverloaded, FlightInv, FlightOf

  <2>2. /\ leader' = None /\ writing' = writing /\ ent' = ent
        /\ pc'[q] = IF InTheFlight(q) THEN "done" ELSE pc[q]
    BY <1>8 DEF FnOverloaded, FlightFails
  <2> QED
    BY <2>1, <2>2 DEF InTheFlight, FlightInv
<1>9. ASSUME NEW r \in Request, NEW file \in BOOLEAN, FnBegin(r, file) PROVE FlightOf(q)'
  <2>1. pc[r] \in {"inflight", "contains", "begin", "start"} /\ r = leader
    BY <1>9 DEF FnBegin, FlightInv, FlightOf

  <2> DEFINE f == CHOOSE x \in Entry : Unused(x)
  <2>2. /\ f \in Entry /\ leader' = leader /\ writing' \in {f, writing}
        /\ ent'[r] = f /\ pc'[r] = "start" /\ (q # r => pc'[q] = pc[q] /\ ent'[q] = ent[q])
    BY <1>9 DEF FnBegin
  <2> HIDE DEF f
  <2> QED
    BY <2>1, <2>2 DEF FlightInv
<1>10. ASSUME NEW r \in Request, FnStart(r) PROVE FlightOf(q)'
  <2>1. pc[r] \in {"inflight", "contains", "begin", "start"} /\ r = leader
    BY <1>10 DEF FnStart, FlightInv, FlightOf

  <2>2. ent[r] \in Entry /\ FlightReturns(ent[r]) /\ writing' = writing
    BY <1>10 DEF FnStart, FlightInv, FlightOf
  <2> QED
    BY <2>1, <2>2, FlightEffect DEF InTheFlight, FlightInv
<1>11. ASSUME NEW r \in Request, FnRefused(r) PROVE FlightOf(q)'
  <2>1. pc[r] \in {"inflight", "contains", "begin", "start"} /\ r = leader
    BY <1>11 DEF FnRefused, FlightInv, FlightOf

  <2>2. ent[r] \in Entry /\ FlightReturns(ent[r]) /\ writing' \in {writing, None}
    BY <1>11 DEF FnRefused, Forget, FlightInv, FlightOf
  <2> QED
    BY <2>1, <2>2, FlightEffect DEF InTheFlight, FlightInv
<1>12. ASSUME NEW r \in Request, Attach(r) PROVE FlightOf(q)'
  BY <1>12 DEF Attach
<1>13. ASSUME NEW r \in Request, Unjoinable(r) PROVE FlightOf(q)'
  BY <1>13 DEF Unjoinable, Answers, Again
<1>14. ASSUME NEW r \in Request, Flapping(r) PROVE FlightOf(q)'
  BY <1>14 DEF Flapping, Answers
<1>15. ASSUME NEW r \in Request, NEW a \in {"whole", "error", "gone"}, Leaves(r, a) PROVE
        FlightOf(q)'
  BY <1>15 DEF Leaves, Answers, Ended
<1>16. ASSUME NEW e \in Entry, Degrade(e) PROVE FlightOf(q)'
  BY <1>16 DEF Degrade, Forget, Shake
<1>17. ASSUME NEW e \in Entry, RingFills(e) PROVE FlightOf(q)'
  BY <1>17 DEF RingFills
<1>18. ASSUME NEW e \in Entry, RingDrains(e) PROVE FlightOf(q)'
  BY <1>18 DEF RingDrains, Shake
<1>19. ASSUME NEW e \in Entry, IdleFires(e) PROVE FlightOf(q)'
  BY <1>19 DEF IdleFires, Abandon, Forget, Shake
<1>20. ASSUME NEW e \in Entry, RingAbandons(e) PROVE FlightOf(q)'
  BY <1>20 DEF RingAbandons, Abandon, Forget, Shake
<1>21. ASSUME NEW e \in Entry, RunFails(e) PROVE FlightOf(q)'
  BY <1>21 DEF RunFails, Forget
<1>22. ASSUME NEW e \in Entry, Promotes(e) PROVE FlightOf(q)'
  BY <1>22 DEF Promotes
<1>23. ASSUME NEW e \in Entry, Indexed(e) PROVE FlightOf(q)'
  BY <1>23 DEF Indexed
<1>24. ASSUME NEW e \in Entry, PromoteFails(e) PROVE FlightOf(q)'
  BY <1>24 DEF PromoteFails, Forget, Shake
<1>25. ASSUME NEW e \in Entry, Completes(e) PROVE FlightOf(q)'
  BY <1>25 DEF Completes, Forget, Shake
<1>26. ASSUME NEW e \in Entry, RunExits(e) PROVE FlightOf(q)'
  BY <1>26 DEF RunExits, Unwind
<1>27. ASSUME Evicts PROVE FlightOf(q)'
  BY <1>27 DEF Evicts, Shake
<1>28. ASSUME CloseBegins PROVE FlightOf(q)'
  BY <1>28 DEF CloseBegins
<1>29. ASSUME CloseEnds PROVE FlightOf(q)'
  BY <1>29 DEF CloseEnds
<1>30. ASSUME UNCHANGED vars PROVE FlightOf(q)'
  BY <1>30 DEF vars
<1> QED
  BY <1>1, <1>2, <1>3, <1>4, <1>5, <1>6, <1>7, <1>8, <1>9, <1>10, <1>11, <1>12, <1>13, <1>14, <1>15,
     <1>16, <1>17, <1>18, <1>19, <1>20, <1>21, <1>22, <1>23, <1>24, <1>25, <1>26, <1>27, <1>28,
     <1>29, <1>30 DEF Acts

LEMMA NextStart == ASSUME IInv, Acts PROVE StartInv'
<1> SUFFICES ASSUME NEW q \in Request PROVE StartOf(q)'
  BY DEF StartInv
<1>a. TypeS /\ TypeE /\ TypeA /\ FlightInv /\ FlightOf(q) /\ StartOf(q)
  BY DEF IInv, Types, FlightInv, StartInv
<1> USE <1>a, StreamAssumption DEF store, entry, asks, shut, StartOf, FlightOf, TypeA, TypeE
<1>1. ASSUME NEW r \in Request, Begins(r) PROVE StartOf(q)'
  BY <1>1 DEF Begins
<1>2. ASSUME NEW r \in Request, ServesCached(r) PROVE StartOf(q)'
  BY <1>2 DEF ServesCached, Answers
<1>3. ASSUME NEW r \in Request, AnswersWithoutWork(r) PROVE StartOf(q)'
  BY <1>3 DEF AnswersWithoutWork, Answers
<1>4. ASSUME NEW r \in Request, Misses(r) PROVE StartOf(q)'
  BY <1>4 DEF Misses
<1>5. ASSUME NEW r \in Request, Do(r) PROVE StartOf(q)'
  BY <1>5 DEF Do
<1>6. ASSUME NEW r \in Request, FnInFlight(r) PROVE StartOf(q)'
  <2>1. pc[r] \in {"inflight", "contains", "begin", "start"} /\ r = leader
    BY <1>6 DEF FnInFlight, FlightInv, FlightOf

  <2>2. pc'[q] # "start"
    BY <1>6, <2>1, FlightEffect DEF FnInFlight, InTheFlight, FlightInv
  <2> QED
    BY <2>2
<1>7. ASSUME NEW r \in Request, FnContains(r) PROVE StartOf(q)'
  <2>1. pc[r] \in {"inflight", "contains", "begin", "start"} /\ r = leader
    BY <1>7 DEF FnContains, FlightInv, FlightOf

  <2>2. pc'[q] # "start"
    BY <1>7, <2>1, FlightEffect DEF FnContains, InTheFlight, FlightInv
  <2> QED
    BY <2>2
<1>8. ASSUME NEW r \in Request, FnOverloaded(r) PROVE StartOf(q)'
  <2>1. pc[r] \in {"inflight", "contains", "begin", "start"} /\ r = leader
    BY <1>8 DEF FnOverloaded, FlightInv, FlightOf

  <2>2. pc'[q] # "start"
    BY <1>8, <2>1, FlightEffect DEF FnOverloaded, FlightFails, InTheFlight, FlightInv
  <2> QED
    BY <2>2
<1>9. ASSUME NEW r \in Request, NEW file \in BOOLEAN, FnBegin(r, file) PROVE StartOf(q)'
  <2>1. pc[r] \in {"inflight", "contains", "begin", "start"} /\ r = leader
    BY <1>9 DEF FnBegin, FlightInv, FlightOf

  <2> DEFINE f == CHOOSE x \in Entry : Unused(x)
  <2>2. f \in Entry /\ Unused(f)
    BY <1>9 DEF FnBegin
  <2> HIDE DEF f
  <2>3. /\ f \in slot' /\ f \notin idle' /\ f \notin abandoned'
        /\ run'[f] = "none" /\ state'[f] = "writing"
        /\ ring'[f] = "no" => writing' = f
    BY <1>9, <2>2 DEF FnBegin, f
  <2>4. ent' = [ent EXCEPT ![r] = f] /\ pc' = [pc EXCEPT ![r] = "start"]
    BY <1>9 DEF FnBegin, f
  <2>5. CASE q = r
    <3>1. \A p \in Request : ent'[p] = f => p = r
      BY <2>2, <2>4 DEF Unused
    <3> QED
      BY <1>9, <2>3, <2>4, <2>5, <3>1
  <2>6. CASE q # r
    BY <2>1, <2>4, <2>6 DEF FlightInv
  <2> QED
    BY <2>5, <2>6
<1>10. ASSUME NEW r \in Request, FnStart(r) PROVE StartOf(q)'
  <2>1. pc[r] \in {"inflight", "contains", "begin", "start"} /\ r = leader
    BY <1>10 DEF FnStart, FlightInv, FlightOf

  <2>2. pc'[q] # "start"
    BY <1>10, <2>1, FlightEffect DEF FnStart, InTheFlight, FlightInv
  <2> QED
    BY <2>2
<1>11. ASSUME NEW r \in Request, FnRefused(r) PROVE StartOf(q)'
  <2>1. pc[r] \in {"inflight", "contains", "begin", "start"} /\ r = leader
    BY <1>11 DEF FnRefused, FlightInv, FlightOf

  <2>2. pc'[q] # "start"
    BY <1>11, <2>1, FlightEffect DEF FnRefused, InTheFlight, FlightInv
  <2> QED
    BY <2>2
<1>12. ASSUME NEW r \in Request, Attach(r) PROVE StartOf(q)'
  BY <1>12 DEF Attach
<1>13. ASSUME NEW r \in Request, Unjoinable(r) PROVE StartOf(q)'
  BY <1>13 DEF Unjoinable, Answers, Again
<1>14. ASSUME NEW r \in Request, Flapping(r) PROVE StartOf(q)'
  BY <1>14 DEF Flapping, Answers
<1>15. ASSUME NEW r \in Request, NEW a \in {"whole", "error", "gone"}, Leaves(r, a) PROVE
        StartOf(q)'
  BY <1>15 DEF Leaves, Answers, Ended
<1>16. ASSUME NEW e \in Entry, Degrade(e) PROVE StartOf(q)'
  BY <1>16 DEF Degrade, Forget, Shake
<1>17. ASSUME NEW e \in Entry, RingFills(e) PROVE StartOf(q)'
  BY <1>17 DEF RingFills
<1>18. ASSUME NEW e \in Entry, RingDrains(e) PROVE StartOf(q)'
  BY <1>18 DEF RingDrains, Shake
<1>19. ASSUME NEW e \in Entry, IdleFires(e) PROVE StartOf(q)'
  BY <1>19 DEF IdleFires, Abandon, Forget, Shake
<1>20. ASSUME NEW e \in Entry, RingAbandons(e) PROVE StartOf(q)'
  BY <1>20 DEF RingAbandons, Abandon, Forget, Shake
<1>21. ASSUME NEW e \in Entry, RunFails(e) PROVE StartOf(q)'
  BY <1>21 DEF RunFails, Forget
<1>22. ASSUME NEW e \in Entry, Promotes(e) PROVE StartOf(q)'
  BY <1>22 DEF Promotes
<1>23. ASSUME NEW e \in Entry, Indexed(e) PROVE StartOf(q)'
  BY <1>23 DEF Indexed
<1>24. ASSUME NEW e \in Entry, PromoteFails(e) PROVE StartOf(q)'
  BY <1>24 DEF PromoteFails, Forget, Shake
<1>25. ASSUME NEW e \in Entry, Completes(e) PROVE StartOf(q)'
  BY <1>25 DEF Completes, Forget, Shake
<1>26. ASSUME NEW e \in Entry, RunExits(e) PROVE StartOf(q)'
  BY <1>26 DEF RunExits, Unwind
<1>27. ASSUME Evicts PROVE StartOf(q)'
  BY <1>27 DEF Evicts, Shake
<1>28. ASSUME CloseBegins PROVE StartOf(q)'
  BY <1>28 DEF CloseBegins
<1>29. ASSUME CloseEnds PROVE StartOf(q)'
  BY <1>29 DEF CloseEnds
<1>30. ASSUME UNCHANGED vars PROVE StartOf(q)'
  BY <1>30 DEF vars
<1> QED
  BY <1>1, <1>2, <1>3, <1>4, <1>5, <1>6, <1>7, <1>8, <1>9, <1>10, <1>11, <1>12, <1>13, <1>14, <1>15,
     <1>16, <1>17, <1>18, <1>19, <1>20, <1>21, <1>22, <1>23, <1>24, <1>25, <1>26, <1>27, <1>28,
     <1>29, <1>30 DEF Acts

LEMMA NextSlot == ASSUME IInv, Acts PROVE SlotInv'
<1> SUFFICES ASSUME NEW x \in Entry PROVE SlotOf(x)'
  BY DEF SlotInv
<1>a. TypeS /\ TypeE /\ TypeA /\ FlightInv /\ StartInv /\ SlotOf(x)
  BY DEF IInv, Types, SlotInv
<1> USE <1>a, StreamAssumption DEF store, entry, asks, shut, SlotOf, Running, TypeA, TypeE
<1>1. ASSUME NEW r \in Request, Begins(r) PROVE SlotOf(x)'
  BY <1>1 DEF Begins
<1>2. ASSUME NEW r \in Request, ServesCached(r) PROVE SlotOf(x)'
  BY <1>2 DEF ServesCached, Answers
<1>3. ASSUME NEW r \in Request, AnswersWithoutWork(r) PROVE SlotOf(x)'
  BY <1>3 DEF AnswersWithoutWork, Answers
<1>4. ASSUME NEW r \in Request, Misses(r) PROVE SlotOf(x)'
  BY <1>4 DEF Misses
<1>5. ASSUME NEW r \in Request, Do(r) PROVE SlotOf(x)'
  BY <1>5 DEF Do
<1>6. ASSUME NEW r \in Request, FnInFlight(r) PROVE SlotOf(x)'
  <2>1. r = leader /\ \A q \in Request : pc[q] = "start" => q = r
    BY <1>6 DEF FnInFlight, FlightInv, FlightOf

  <2>2. ~\E q \in Request : pc[q] = "start" /\ ent[q] = x
    BY <1>6, <2>1 DEF FnInFlight
  <2>3. UNCHANGED <<run, slot, abandoned>>
    BY <1>6 DEF FnInFlight
  <2> QED
    BY <2>2, <2>3
<1>7. ASSUME NEW r \in Request, FnContains(r) PROVE SlotOf(x)'
  <2>1. r = leader /\ \A q \in Request : pc[q] = "start" => q = r
    BY <1>7 DEF FnContains, FlightInv, FlightOf

  <2>2. ~\E q \in Request : pc[q] = "start" /\ ent[q] = x
    BY <1>7, <2>1 DEF FnContains
  <2>3. UNCHANGED <<run, slot, abandoned>>
    BY <1>7 DEF FnContains
  <2> QED
    BY <2>2, <2>3
<1>8. ASSUME NEW r \in Request, FnOverloaded(r) PROVE SlotOf(x)'
  <2>1. r = leader /\ \A q \in Request : pc[q] = "start" => q = r
    BY <1>8 DEF FnOverloaded, FlightInv, FlightOf

  <2>2. ~\E q \in Request : pc[q] = "start" /\ ent[q] = x
    BY <1>8, <2>1 DEF FnOverloaded
  <2>3. UNCHANGED <<run, slot, abandoned>>
    BY <1>8 DEF FnOverloaded
  <2> QED
    BY <2>2, <2>3
<1>9. ASSUME NEW r \in Request, NEW file \in BOOLEAN, FnBegin(r, file) PROVE SlotOf(x)'
  BY <1>9 DEF FnBegin, Unused
<1>10. ASSUME NEW r \in Request, FnStart(r) PROVE SlotOf(x)'
  <2>1. r = leader /\ \A q \in Request : pc[q] = "start" => q = r
    BY <1>10 DEF FnStart, FlightInv, FlightOf

  <2>2. ent[r] \in slot /\ UNCHANGED <<slot, abandoned>> /\ run' = [run EXCEPT ![ent[r]] =
     "running"]
    BY <1>10 DEF FnStart, StartInv, StartOf
  <2>3. CASE x = ent[r]
    BY <1>10, <2>2, <2>3
  <2>4. CASE x # ent[r]
    <3>1. ~\E q \in Request : pc[q] = "start" /\ ent[q] = x
      BY <2>1, <2>4
    <3> QED
      BY <2>2, <2>4, <3>1
  <2> QED
    BY <2>3, <2>4
<1>11. ASSUME NEW r \in Request, FnRefused(r) PROVE SlotOf(x)'
  <2>1. r = leader /\ \A q \in Request : pc[q] = "start" => q = r
    BY <1>11 DEF FnRefused, FlightInv, FlightOf

  <2>2. run[ent[r]] = "none" /\ slot' = slot \ {ent[r]} /\ UNCHANGED <<run, abandoned>>
    BY <1>11 DEF FnRefused, StartInv, StartOf
  <2>3. CASE x = ent[r]
    BY <1>11, <2>2, <2>3
  <2>4. CASE x # ent[r]
    <3>1. ~\E q \in Request : pc[q] = "start" /\ ent[q] = x
      BY <2>1, <2>4
    <3> QED
      BY <2>2, <2>4, <3>1
  <2> QED
    BY <2>3, <2>4
<1>12. ASSUME NEW r \in Request, Attach(r) PROVE SlotOf(x)'
  BY <1>12 DEF Attach
<1>13. ASSUME NEW r \in Request, Unjoinable(r) PROVE SlotOf(x)'
  BY <1>13 DEF Unjoinable, Answers, Again
<1>14. ASSUME NEW r \in Request, Flapping(r) PROVE SlotOf(x)'
  BY <1>14 DEF Flapping, Answers
<1>15. ASSUME NEW r \in Request, NEW a \in {"whole", "error", "gone"}, Leaves(r, a) PROVE SlotOf(x)'
  BY <1>15 DEF Leaves, Answers, Ended
<1>16. ASSUME NEW e \in Entry, Degrade(e) PROVE SlotOf(x)'
  BY <1>16 DEF Degrade, Forget, Shake
<1>17. ASSUME NEW e \in Entry, RingFills(e) PROVE SlotOf(x)'
  BY <1>17 DEF RingFills
<1>18. ASSUME NEW e \in Entry, RingDrains(e) PROVE SlotOf(x)'
  BY <1>18 DEF RingDrains, Shake
<1>19. ASSUME NEW e \in Entry, IdleFires(e) PROVE SlotOf(x)'
  BY <1>19 DEF IdleFires, Abandon, Forget, Shake
<1>20. ASSUME NEW e \in Entry, RingAbandons(e) PROVE SlotOf(x)'
  BY <1>20 DEF RingAbandons, Abandon, Forget, Shake
<1>21. ASSUME NEW e \in Entry, RunFails(e) PROVE SlotOf(x)'
  BY <1>21 DEF RunFails, Forget
<1>22. ASSUME NEW e \in Entry, Promotes(e) PROVE SlotOf(x)'
  BY <1>22 DEF Promotes
<1>23. ASSUME NEW e \in Entry, Indexed(e) PROVE SlotOf(x)'
  BY <1>23 DEF Indexed
<1>24. ASSUME NEW e \in Entry, PromoteFails(e) PROVE SlotOf(x)'
  BY <1>24 DEF PromoteFails, Forget, Shake
<1>25. ASSUME NEW e \in Entry, Completes(e) PROVE SlotOf(x)'
  BY <1>25 DEF Completes, Forget, Shake
<1>26. ASSUME NEW e \in Entry, RunExits(e) PROVE SlotOf(x)'
  BY <1>26 DEF RunExits, Unwind
<1>27. ASSUME Evicts PROVE SlotOf(x)'
  BY <1>27 DEF Evicts, Shake
<1>28. ASSUME CloseBegins PROVE SlotOf(x)'
  BY <1>28 DEF CloseBegins
<1>29. ASSUME CloseEnds PROVE SlotOf(x)'
  BY <1>29 DEF CloseEnds
<1>30. ASSUME UNCHANGED vars PROVE SlotOf(x)'
  BY <1>30 DEF vars
<1> QED
  BY <1>1, <1>2, <1>3, <1>4, <1>5, <1>6, <1>7, <1>8, <1>9, <1>10, <1>11, <1>12, <1>13, <1>14, <1>15,
     <1>16, <1>17, <1>18, <1>19, <1>20, <1>21, <1>22, <1>23, <1>24, <1>25, <1>26, <1>27, <1>28,
     <1>29, <1>30 DEF Acts

LEMMA NextReg == ASSUME IInv, Acts PROVE RegInv'
<1>a. TypeS /\ TypeE /\ TypeA /\ FlightInv /\ StartInv /\ RegInv
  BY DEF IInv, Types
<1> USE <1>a, StreamAssumption DEF store, entry, asks, shut, RegInv, TypeS, TypeE
<1>1. ASSUME NEW r \in Request, Begins(r) PROVE RegInv'
  BY <1>1 DEF Begins
<1>2. ASSUME NEW r \in Request, ServesCached(r) PROVE RegInv'
  BY <1>2 DEF ServesCached, Answers
<1>3. ASSUME NEW r \in Request, AnswersWithoutWork(r) PROVE RegInv'
  BY <1>3 DEF AnswersWithoutWork, Answers
<1>4. ASSUME NEW r \in Request, Misses(r) PROVE RegInv'
  BY <1>4 DEF Misses
<1>5. ASSUME NEW r \in Request, Do(r) PROVE RegInv'
  BY <1>5 DEF Do
<1>6. ASSUME NEW r \in Request, FnInFlight(r) PROVE RegInv'
  BY <1>6 DEF FnInFlight, InFlight
<1>7. ASSUME NEW r \in Request, FnContains(r) PROVE RegInv'
  BY <1>7 DEF FnContains, Raced
<1>8. ASSUME NEW r \in Request, FnOverloaded(r) PROVE RegInv'
  BY <1>8 DEF FnOverloaded, FlightFails, InTheFlight
<1>9. ASSUME NEW r \in Request, NEW file \in BOOLEAN, FnBegin(r, file) PROVE RegInv'
  BY <1>9 DEF FnBegin, Unused
<1>10. ASSUME NEW r \in Request, FnStart(r) PROVE RegInv'
  BY <1>10 DEF FnStart, StartWork
<1>11. ASSUME NEW r \in Request, FnRefused(r) PROVE RegInv'
  BY <1>11 DEF FnRefused, StartWork, Forget
<1>12. ASSUME NEW r \in Request, Attach(r) PROVE RegInv'
  BY <1>12 DEF Attach
<1>13. ASSUME NEW r \in Request, Unjoinable(r) PROVE RegInv'
  BY <1>13 DEF Unjoinable, Answers, Again
<1>14. ASSUME NEW r \in Request, Flapping(r) PROVE RegInv'
  BY <1>14 DEF Flapping, Answers
<1>15. ASSUME NEW r \in Request, NEW a \in {"whole", "error", "gone"}, Leaves(r, a) PROVE RegInv'
  BY <1>15 DEF Leaves, Answers, Ended
<1>16. ASSUME NEW e \in Entry, Degrade(e) PROVE RegInv'
  BY <1>16 DEF Degrade, Forget, Shake
<1>17. ASSUME NEW e \in Entry, RingFills(e) PROVE RegInv'
  BY <1>17 DEF RingFills
<1>18. ASSUME NEW e \in Entry, RingDrains(e) PROVE RegInv'
  BY <1>18 DEF RingDrains, Shake
<1>19. ASSUME NEW e \in Entry, IdleFires(e) PROVE RegInv'
  BY <1>19 DEF IdleFires, Abandon, Forget, Shake
<1>20. ASSUME NEW e \in Entry, RingAbandons(e) PROVE RegInv'
  BY <1>20 DEF RingAbandons, Abandon, Forget, Shake
<1>21. ASSUME NEW e \in Entry, RunFails(e) PROVE RegInv'
  BY <1>21 DEF RunFails, Forget
<1>22. ASSUME NEW e \in Entry, Promotes(e) PROVE RegInv'
  BY <1>22 DEF Promotes
<1>23. ASSUME NEW e \in Entry, Indexed(e) PROVE RegInv'
  BY <1>23 DEF Indexed
<1>24. ASSUME NEW e \in Entry, PromoteFails(e) PROVE RegInv'
  BY <1>24 DEF PromoteFails, Forget, Shake
<1>25. ASSUME NEW e \in Entry, Completes(e) PROVE RegInv'
  BY <1>25 DEF Completes, Forget, Shake
<1>26. ASSUME NEW e \in Entry, RunExits(e) PROVE RegInv'
  BY <1>26 DEF RunExits, Unwind
<1>27. ASSUME Evicts PROVE RegInv'
  BY <1>27 DEF Evicts, Shake
<1>28. ASSUME CloseBegins PROVE RegInv'
  BY <1>28 DEF CloseBegins
<1>29. ASSUME CloseEnds PROVE RegInv'
  BY <1>29 DEF CloseEnds
<1>30. ASSUME UNCHANGED vars PROVE RegInv'
  BY <1>30 DEF vars
<1> QED
  BY <1>1, <1>2, <1>3, <1>4, <1>5, <1>6, <1>7, <1>8, <1>9, <1>10, <1>11, <1>12, <1>13, <1>14, <1>15,
     <1>16, <1>17, <1>18, <1>19, <1>20, <1>21, <1>22, <1>23, <1>24, <1>25, <1>26, <1>27, <1>28,
     <1>29, <1>30 DEF Acts

LEMMA NextEnc == ASSUME IInv, Acts PROVE EncInv'
<1> SUFFICES ASSUME NEW x \in Entry PROVE EncOf(x)'
  BY DEF EncInv
<1>a. TypeS /\ TypeE /\ TypeA /\ FlightInv /\ StartInv /\ RegInv /\ EncOf(x)
  BY DEF IInv, Types, EncInv
<1> USE <1>a, StreamAssumption DEF store, entry, asks, shut, EncOf, Encodes, Running, Ended, TypeE
<1>1. ASSUME NEW r \in Request, Begins(r) PROVE EncOf(x)'
  BY <1>1 DEF Begins
<1>2. ASSUME NEW r \in Request, ServesCached(r) PROVE EncOf(x)'
  BY <1>2 DEF ServesCached, Answers
<1>3. ASSUME NEW r \in Request, AnswersWithoutWork(r) PROVE EncOf(x)'
  BY <1>3 DEF AnswersWithoutWork, Answers
<1>4. ASSUME NEW r \in Request, Misses(r) PROVE EncOf(x)'
  BY <1>4 DEF Misses
<1>5. ASSUME NEW r \in Request, Do(r) PROVE EncOf(x)'
  BY <1>5 DEF Do
<1>6. ASSUME NEW r \in Request, FnInFlight(r) PROVE EncOf(x)'
  BY <1>6 DEF FnInFlight, InFlight
<1>7. ASSUME NEW r \in Request, FnContains(r) PROVE EncOf(x)'
  BY <1>7 DEF FnContains, Raced
<1>8. ASSUME NEW r \in Request, FnOverloaded(r) PROVE EncOf(x)'
  BY <1>8 DEF FnOverloaded, FlightFails, InTheFlight
<1>9. ASSUME NEW r \in Request, NEW file \in BOOLEAN, FnBegin(r, file) PROVE EncOf(x)'
  <2> DEFINE f == CHOOSE y \in Entry : Unused(y)
  <2>1. writing = None /\ None \notin Entry
    BY <1>9 DEF FnBegin, FlightInv, FlightOf
  <2>2. ~Encodes(x)
    BY <2>1
  <2>3. /\ f \in Entry /\ run'[f] = "none"
        /\ x # f => /\ run'[x] = run[x] /\ state'[x] = state[x] /\ ring'[x] = ring[x]
                    /\ (x \in abandoned' <=> x \in abandoned)
    BY <1>9 DEF FnBegin
  <2> HIDE DEF f
  <2> QED
    BY <2>2, <2>3
<1>10. ASSUME NEW r \in Request, FnStart(r) PROVE EncOf(x)'
  <2>1. /\ run' = [run EXCEPT ![ent[r]] = "running"]
        /\ UNCHANGED <<state, ring, abandoned, writing>>
        /\ ring[ent[r]] = "no" => writing = ent[r]
    BY <1>10 DEF FnStart, StartInv, StartOf
  <2>2. CASE x = ent[r]
    BY <2>1, <2>2
  <2>3. CASE x # ent[r]
    BY <2>1, <2>3
  <2> QED
    BY <2>2, <2>3
<1>11. ASSUME NEW r \in Request, FnRefused(r) PROVE EncOf(x)'
  BY <1>11 DEF FnRefused, StartWork, Forget
<1>12. ASSUME NEW r \in Request, Attach(r) PROVE EncOf(x)'
  BY <1>12 DEF Attach
<1>13. ASSUME NEW r \in Request, Unjoinable(r) PROVE EncOf(x)'
  BY <1>13 DEF Unjoinable, Answers, Again
<1>14. ASSUME NEW r \in Request, Flapping(r) PROVE EncOf(x)'
  BY <1>14 DEF Flapping, Answers
<1>15. ASSUME NEW r \in Request, NEW a \in {"whole", "error", "gone"}, Leaves(r, a) PROVE EncOf(x)'
  BY <1>15 DEF Leaves, Answers, Ended
<1>16. ASSUME NEW e \in Entry, Degrade(e) PROVE EncOf(x)'
  BY <1>16 DEF Degrade, Forget, Shake
<1>17. ASSUME NEW e \in Entry, RingFills(e) PROVE EncOf(x)'
  BY <1>17 DEF RingFills
<1>18. ASSUME NEW e \in Entry, RingDrains(e) PROVE EncOf(x)'
  BY <1>18 DEF RingDrains, Shake
<1>19. ASSUME NEW e \in Entry, IdleFires(e) PROVE EncOf(x)'
  BY <1>19 DEF IdleFires, Abandon, Forget, Shake
<1>20. ASSUME NEW e \in Entry, RingAbandons(e) PROVE EncOf(x)'
  BY <1>20 DEF RingAbandons, Abandon, Forget, Shake
<1>21. ASSUME NEW e \in Entry, RunFails(e) PROVE EncOf(x)'
  BY <1>21 DEF RunFails, Forget
<1>22. ASSUME NEW e \in Entry, Promotes(e) PROVE EncOf(x)'
  BY <1>22 DEF Promotes
<1>23. ASSUME NEW e \in Entry, Indexed(e) PROVE EncOf(x)'
  BY <1>23 DEF Indexed
<1>24. ASSUME NEW e \in Entry, PromoteFails(e) PROVE EncOf(x)'
  BY <1>24 DEF PromoteFails, Forget, Shake
<1>25. ASSUME NEW e \in Entry, Completes(e) PROVE EncOf(x)'
  BY <1>25 DEF Completes, Forget, Shake
<1>26. ASSUME NEW e \in Entry, RunExits(e) PROVE EncOf(x)'
  BY <1>26 DEF RunExits, Unwind
<1>27. ASSUME Evicts PROVE EncOf(x)'
  BY <1>27 DEF Evicts, Shake
<1>28. ASSUME CloseBegins PROVE EncOf(x)'
  BY <1>28 DEF CloseBegins
<1>29. ASSUME CloseEnds PROVE EncOf(x)'
  BY <1>29 DEF CloseEnds
<1>30. ASSUME UNCHANGED vars PROVE EncOf(x)'
  BY <1>30 DEF vars
<1> QED
  BY <1>1, <1>2, <1>3, <1>4, <1>5, <1>6, <1>7, <1>8, <1>9, <1>10, <1>11, <1>12, <1>13, <1>14, <1>15,
     <1>16, <1>17, <1>18, <1>19, <1>20, <1>21, <1>22, <1>23, <1>24, <1>25, <1>26, <1>27, <1>28,
     <1>29, <1>30 DEF Acts

LEMMA NextClosed == ASSUME IInv, Acts PROVE ClosedInv'
<1>a. TypeS /\ TypeE /\ TypeA /\ FlightInv /\ StartInv /\ ClosedInv
  BY DEF IInv, Types
<1> USE <1>a, StreamAssumption DEF store, entry, asks, shut, ClosedInv, Running, TypeE
<1>1. ASSUME NEW r \in Request, Begins(r) PROVE ClosedInv'
  BY <1>1 DEF Begins
<1>2. ASSUME NEW r \in Request, ServesCached(r) PROVE ClosedInv'
  BY <1>2 DEF ServesCached, Answers
<1>3. ASSUME NEW r \in Request, AnswersWithoutWork(r) PROVE ClosedInv'
  BY <1>3 DEF AnswersWithoutWork, Answers
<1>4. ASSUME NEW r \in Request, Misses(r) PROVE ClosedInv'
  BY <1>4 DEF Misses
<1>5. ASSUME NEW r \in Request, Do(r) PROVE ClosedInv'
  BY <1>5 DEF Do
<1>6. ASSUME NEW r \in Request, FnInFlight(r) PROVE ClosedInv'
  BY <1>6 DEF FnInFlight, InFlight
<1>7. ASSUME NEW r \in Request, FnContains(r) PROVE ClosedInv'
  BY <1>7 DEF FnContains, Raced
<1>8. ASSUME NEW r \in Request, FnOverloaded(r) PROVE ClosedInv'
  BY <1>8 DEF FnOverloaded, FlightFails, InTheFlight
<1>9. ASSUME NEW r \in Request, NEW file \in BOOLEAN, FnBegin(r, file) PROVE ClosedInv'
  BY <1>9 DEF FnBegin, Unused
<1>10. ASSUME NEW r \in Request, FnStart(r) PROVE ClosedInv'
  BY <1>10 DEF FnStart, StartWork
<1>11. ASSUME NEW r \in Request, FnRefused(r) PROVE ClosedInv'
  BY <1>11 DEF FnRefused, StartWork, Forget
<1>12. ASSUME NEW r \in Request, Attach(r) PROVE ClosedInv'
  BY <1>12 DEF Attach
<1>13. ASSUME NEW r \in Request, Unjoinable(r) PROVE ClosedInv'
  BY <1>13 DEF Unjoinable, Answers, Again
<1>14. ASSUME NEW r \in Request, Flapping(r) PROVE ClosedInv'
  BY <1>14 DEF Flapping, Answers
<1>15. ASSUME NEW r \in Request, NEW a \in {"whole", "error", "gone"}, Leaves(r, a) PROVE ClosedInv'
  BY <1>15 DEF Leaves, Answers, Ended
<1>16. ASSUME NEW e \in Entry, Degrade(e) PROVE ClosedInv'
  BY <1>16 DEF Degrade, Forget, Shake
<1>17. ASSUME NEW e \in Entry, RingFills(e) PROVE ClosedInv'
  BY <1>17 DEF RingFills
<1>18. ASSUME NEW e \in Entry, RingDrains(e) PROVE ClosedInv'
  BY <1>18 DEF RingDrains, Shake
<1>19. ASSUME NEW e \in Entry, IdleFires(e) PROVE ClosedInv'
  BY <1>19 DEF IdleFires, Abandon, Forget, Shake
<1>20. ASSUME NEW e \in Entry, RingAbandons(e) PROVE ClosedInv'
  BY <1>20 DEF RingAbandons, Abandon, Forget, Shake
<1>21. ASSUME NEW e \in Entry, RunFails(e) PROVE ClosedInv'
  BY <1>21 DEF RunFails, Forget
<1>22. ASSUME NEW e \in Entry, Promotes(e) PROVE ClosedInv'
  BY <1>22 DEF Promotes
<1>23. ASSUME NEW e \in Entry, Indexed(e) PROVE ClosedInv'
  BY <1>23 DEF Indexed
<1>24. ASSUME NEW e \in Entry, PromoteFails(e) PROVE ClosedInv'
  BY <1>24 DEF PromoteFails, Forget, Shake
<1>25. ASSUME NEW e \in Entry, Completes(e) PROVE ClosedInv'
  BY <1>25 DEF Completes, Forget, Shake
<1>26. ASSUME NEW e \in Entry, RunExits(e) PROVE ClosedInv'
  BY <1>26 DEF RunExits, Unwind
<1>27. ASSUME Evicts PROVE ClosedInv'
  BY <1>27 DEF Evicts, Shake
<1>28. ASSUME CloseBegins PROVE ClosedInv'
  BY <1>28 DEF CloseBegins
<1>29. ASSUME CloseEnds PROVE ClosedInv'
  BY <1>29 DEF CloseEnds
<1>30. ASSUME UNCHANGED vars PROVE ClosedInv'
  BY <1>30 DEF vars
<1> QED
  BY <1>1, <1>2, <1>3, <1>4, <1>5, <1>6, <1>7, <1>8, <1>9, <1>10, <1>11, <1>12, <1>13, <1>14, <1>15,
     <1>16, <1>17, <1>18, <1>19, <1>20, <1>21, <1>22, <1>23, <1>24, <1>25, <1>26, <1>27, <1>28,
     <1>29, <1>30 DEF Acts

-----------------------------------------------------------------------------
(* The theorems.                                                           *)

LEMMA InitIInv == Init => IInv
<1> SUFFICES ASSUME Init PROVE IInv
  OBVIOUS
<1> USE StreamAssumption DEF Init
<1>1. TypeS
  <2>1. index \in BOOLEAN /\ closing \in BOOLEAN /\ closed \in BOOLEAN
    BY Zenon
  <2> QED
    BY <2>1 DEF TypeS
<1>2. TypeE
  BY DEF TypeE
<1>3. TypeL
  BY FS_EmptySet DEF TypeL
<1>4. TypeA
  BY DEF TypeA, RequestPC
<1>5. FlightInv /\ StartInv
  BY DEF FlightInv, FlightOf, StartInv, StartOf
<1>6. SlotInv /\ RegInv /\ EncInv /\ ClosedInv
  BY DEF SlotInv, SlotOf, RegInv, EncInv, EncOf, Encodes, Running, ClosedInv
<1> QED
  BY <1>1, <1>2, <1>3, <1>4, <1>5, <1>6 DEF IInv, Types

\* The inductive invariant: types, the flight's one leader, the entry it is
\* about to start, the owner of each slot, and the registry (server/stream.go:
\* serveViaCache, startPipeline; server.go: startWork, Close).
THEOREM HandlerInvariant == Spec => []IInv
<1>1. IInv /\ [Next]_vars => IInv'
  <2> SUFFICES ASSUME IInv, [Next]_vars PROVE IInv'
    OBVIOUS
  <2>1. Acts
    BY StepActs
  <2>2. Types'
    BY <2>1, NextS, NextE, NextL, NextA DEF Types
  <2> QED
    BY <2>1, <2>2, NextFlight, NextStart, NextSlot, NextReg, NextEnc, NextClosed DEF IInv
<1> QED
  BY InitIInv, <1>1, PTL DEF Spec

\* However many requests race, leave and come back, one pipeline at most
\* encodes the key for the cache, and what is registered can be attached to
\* (the flight, Begin, unregister on every end).
THEOREM RegistryIsSoundHolds == Spec => []RegistryIsSound
<1>1. ASSUME IInv PROVE TypeOK
  BY <1>1 DEF IInv, Types, TypeS, TypeE, TypeL, TypeA, TypeOK
<1>2. ASSUME IInv PROVE OneEncode
  BY <1>2 DEF IInv, EncInv, EncOf, OneEncode
<1>3. ASSUME IInv PROVE RegisteredIsLive
  BY <1>3 DEF IInv, RegInv, RegisteredIsLive, Joinable, Released, Ended
<1>4. IInv => RegistryIsSound
  BY <1>1, <1>2, <1>3 DEF RegistryIsSound
<1> QED
  BY <1>4, HandlerInvariant, PTL

\* A slot is held for a run or for one about to start, a run that was not
\* abandoned holds one, and none runs once Close's wait is over (the release on
\* every path, startWork under closeMu).
THEOREM RunsAreCountedHolds == Spec => []RunsAreCounted
<1>1. IInv => RunsAreCounted
  BY DEF IInv, SlotInv, SlotOf, ClosedInv, RunsAreCounted, SlotsAreUsed, ClosedIsQuiet
<1> QED
  BY <1>1, HandlerInvariant, PTL
-----------------------------------------------------------------------------
(***************************************************************************)
(* Why three tries are enough.  A second-stage invariant over IInv, about  *)
(* the requests nothing was lost under: Steady.                            *)
(***************************************************************************)

\* The flight's leader executes its function, and an entry that is about to
\* start has lost none of its ring.
LeadOf(q) ==
    /\ q = leader => pc[q] \in {"inflight", "contains", "begin", "start"}
    /\ pc[q] = "start" => ring[ent[q]] # "moved"

\* Only a promotion under way ends with the index updated.
PhaseOf(e) == run[e] = "promoted" => state[e] = "promoting"

\* No entry was promoted, and evicted again, while still registered.
NoStale == index \/ \A e \in Entry : ~(Encodes(e) /\ run[e] = "promoted")

\* The first failed try leaves no stale entry behind, the second the promoted
\* one, and the third finds it.
SteadyOf(q) ==
    Asking(q) /\ q \notin shaken =>
        /\ pc[q] # "flap"
        /\ tries[q] >= 2 => NoStale
        /\ tries[q] >= 3 => index /\ pc[q] = "lookup"
        /\ pc[q] = "attach" =>
              /\ ent[q] \notin abandoned /\ ring[ent[q]] # "moved"
              /\ state[ent[q]] = "complete" => NoStale /\ (tries[q] >= 2 => index)

LeadInv   == \A q \in Request : LeadOf(q)
PhaseInv  == \A e \in Entry : PhaseOf(e)
SteadyInv == \A q \in Request : SteadyOf(q)

-----------------------------------------------------------------------------
\* A request's own steps, but for the three that begin or start an entry,
\* leave every entry's run, state, ring and abandonment alone.
LEMMA RequestFrame ==
  ASSUME NEW r \in Request,
         \/ Begins(r) \/ ServesCached(r) \/ AnswersWithoutWork(r) \/ Misses(r) \/ Do(r)
         \/ FnInFlight(r) \/ FnContains(r) \/ FnOverloaded(r) \/ Attach(r) \/ Unjoinable(r)
         \/ Flapping(r) \/ \E a \in {"whole", "error", "gone"} : Leaves(r, a)
  PROVE  UNCHANGED <<index, run, state, ring, abandoned>>
  BY DEF Begins, ServesCached, AnswersWithoutWork, Misses, Do, FnInFlight, FnContains, FnOverloaded,
         Attach, Unjoinable, Flapping, Leaves, store, entry

\* What happens to the entry that begins, and to the others.
LEMMA BeginEffect ==
  ASSUME IInv, NEW r \in Request, NEW file \in BOOLEAN, FnBegin(r, file)
  PROVE  \E f \in Entry :
           /\ Unused(f)
           /\ run'[f] = "none" /\ ring'[f] # "moved"
           /\ \A e \in Entry : e # f =>
                 /\ run'[e] = run[e] /\ state'[e] = state[e] /\ ring'[e] = ring[e]
                 /\ (e \in abandoned' <=> e \in abandoned)
           /\ pc[r] = "begin"
           /\ ent' = [ent EXCEPT ![r] = f] /\ pc' = [pc EXCEPT ![r] = "start"]
           /\ UNCHANGED <<index, leader, tries, shaken>>
<1> DEFINE f == CHOOSE x \in Entry : Unused(x)
<1>1. f \in Entry /\ Unused(f)
  BY DEF FnBegin
<1>2. TypeE
  BY DEF IInv, Types
<1>3. /\ run' = [run EXCEPT ![f] = "none"] /\ state' = [state EXCEPT ![f] = "writing"]
      /\ ring' = [ring EXCEPT ![f] = IF file THEN "no" ELSE "fresh"]
      /\ abandoned' = abandoned \ {f} /\ pc[r] = "begin"
      /\ ent' = [ent EXCEPT ![r] = f] /\ pc' = [pc EXCEPT ![r] = "start"]
      /\ UNCHANGED <<index, leader, tries, shaken>>
  BY DEF FnBegin
<1> HIDE DEF f
<1> QED
  BY <1>1, <1>2, <1>3 DEF TypeE

LEMMA NextPhase == ASSUME IInv, PhaseInv, Acts PROVE PhaseInv'
<1> SUFFICES ASSUME NEW x \in Entry PROVE PhaseOf(x)'
  BY DEF PhaseInv
<1>a. TypeE /\ PhaseOf(x)
  BY DEF IInv, Types, PhaseInv
<1>1. ASSUME UNCHANGED <<run, state>> PROVE PhaseOf(x)'
  BY <1>a, <1>1 DEF PhaseOf
<1>2. ASSUME NEW r \in Request, NEW file \in BOOLEAN, FnBegin(r, file) PROVE PhaseOf(x)'
  <2>1. PICK f \in Entry :
          /\ run'[f] = "none"
          /\ \A e \in Entry : e # f => run'[e] = run[e] /\ state'[e] = state[e]
    BY <1>2, BeginEffect
  <2> QED
    BY <1>a, <2>1 DEF PhaseOf
<1>3. ASSUME NEW r \in Request, FnStart(r) PROVE PhaseOf(x)'
  BY <1>a, <1>3 DEF FnStart, entry, PhaseOf, TypeE
<1>4. ASSUME NEW r \in Request, FnRefused(r) PROVE PhaseOf(x)'
  <2>1. run[ent[r]] = "none" /\ run' = run /\ state' = [state EXCEPT ![ent[r]] = "failed"]
    BY <1>4 DEF FnRefused, IInv, StartInv, StartOf
  <2> QED
    BY <1>a, <2>1 DEF PhaseOf, TypeE
<1>5. ASSUME NEW e \in Entry,
             \/ RingAbandons(e) \/ RunFails(e) \/ Promotes(e) \/ Indexed(e) \/ PromoteFails(e)
             \/ Completes(e) \/ RunExits(e)
      PROVE  PhaseOf(x)'
  BY <1>a, <1>5 DEF RingAbandons, RunFails, Promotes, Indexed, PromoteFails, Completes, RunExits,
                    entry, PhaseOf, TypeE
<1>6. ASSUME \/ \E e \in Entry : Degrade(e) \/ RingFills(e) \/ RingDrains(e) \/ IdleFires(e)
             \/ Evicts \/ CloseBegins \/ CloseEnds \/ UNCHANGED vars
      PROVE  UNCHANGED <<run, state>>
  BY <1>6 DEF Degrade, RingFills, RingDrains, IdleFires, Evicts, CloseBegins, CloseEnds, vars, entry
<1> QED
  BY <1>1, <1>2, <1>3, <1>4, <1>5, <1>6, RequestFrame DEF Acts

LEMMA NextLead == ASSUME IInv, LeadInv, Acts PROVE LeadInv'
<1> SUFFICES ASSUME NEW q \in Request PROVE LeadOf(q)'
  BY DEF LeadInv
<1>a. TypeE /\ TypeA /\ LeadOf(q) /\ FlightOf(q) /\ StartOf(q)
  BY DEF IInv, Types, LeadInv, FlightInv, StartInv
<1>n. None \notin Request /\ None \notin Entry
  BY StreamAssumption
<1>1. ASSUME NEW r \in Request,
             \/ Begins(r) \/ ServesCached(r) \/ AnswersWithoutWork(r) \/ Misses(r) \/ Do(r)
             \/ Attach(r) \/ Unjoinable(r) \/ Flapping(r)
             \/ \E a \in {"whole", "error", "gone"} : Leaves(r, a)
      PROVE  LeadOf(q)'
  <2>1. ring' = ring
    BY <1>1, RequestFrame
  <2>2. /\ \/ leader' = leader /\ pc[r] \notin {"inflight", "contains", "begin", "start"}
           \/ leader = None /\ leader' = r /\ pc'[r] = "inflight"
        /\ pc'[r] # "start"
        /\ q # r => pc'[q] = pc[q] /\ ent'[q] = ent[q]
    BY <1>a, <1>1 DEF Begins, ServesCached, AnswersWithoutWork, Misses, Do, Attach, Unjoinable,
                      Flapping, Leaves, Answers, Again, TypeA, asks
  <2> QED
    BY <1>a, <1>n, <2>1, <2>2 DEF LeadOf
<1>2. ASSUME NEW x, FlightReturns(x), ring' = ring PROVE LeadOf(q)'
  <2>1. leader' = None /\ (pc'[q] = "start" => pc[q] = "start" /\ ent'[q] = ent[q])
    BY <1>a, <1>2, FlightEffect
  <2> QED
    BY <1>a, <1>n, <1>2, <2>1 DEF LeadOf
<1>3. ASSUME NEW r \in Request, FnInFlight(r) PROVE LeadOf(q)'
  <2>1. ring' = ring /\ r = leader
    BY <1>3, RequestFrame DEF FnInFlight, IInv, FlightInv, FlightOf
  <2>2. CASE InFlight # None
    BY <1>2, <1>3, <2>1, <2>2 DEF FnInFlight
  <2>3. CASE InFlight = None
    BY <1>a, <1>3, <2>1, <2>3 DEF FnInFlight, LeadOf, TypeA
  <2> QED
    BY <2>2, <2>3
<1>4. ASSUME NEW r \in Request, FnContains(r) PROVE LeadOf(q)'
  <2>1. ring' = ring /\ r = leader
    BY <1>4, RequestFrame DEF FnContains, IInv, FlightInv, FlightOf
  <2>2. CASE Raced
    BY <1>2, <1>4, <2>1, <2>2 DEF FnContains
  <2>3. CASE ~Raced
    BY <1>a, <1>4, <2>1, <2>3 DEF FnContains, LeadOf, TypeA
  <2> QED
    BY <2>2, <2>3
<1>5. ASSUME NEW r \in Request, FnOverloaded(r) PROVE LeadOf(q)'
  <2>1. ring' = ring /\ leader' = None /\ ent' = ent
        /\ pc'[q] = IF InTheFlight(q) THEN "done" ELSE pc[q]
    BY <1>5, RequestFrame DEF FnOverloaded, FlightFails
  <2> QED
    BY <1>a, <1>n, <2>1 DEF LeadOf
<1>6. ASSUME NEW r \in Request, NEW file \in BOOLEAN, FnBegin(r, file) PROVE LeadOf(q)'
  <2>1. PICK f \in Entry :
          /\ Unused(f) /\ ring'[f] # "moved"
          /\ \A e \in Entry : e # f => ring'[e] = ring[e]
          /\ ent' = [ent EXCEPT ![r] = f] /\ pc' = [pc EXCEPT ![r] = "start"]
          /\ leader' = leader
    BY <1>6, BeginEffect
  <2>2. CASE q = r
    BY <1>a, <2>1, <2>2 DEF LeadOf, TypeA
  <2>3. CASE q # r
    BY <1>a, <2>1, <2>3 DEF LeadOf, TypeA, Unused, FlightOf
  <2> QED
    BY <2>2, <2>3
<1>7. ASSUME NEW r \in Request, FnStart(r) \/ FnRefused(r) PROVE LeadOf(q)'
  <2>1. FlightReturns(ent[r]) /\ ring' = ring
    BY <1>7 DEF FnStart, FnRefused, entry
  <2> QED
    BY <1>2, <2>1
<1>8. ASSUME NEW e \in Entry,
             \/ Degrade(e) \/ RingFills(e) \/ RingDrains(e) \/ PromoteFails(e)
      PROVE  LeadOf(q)'
  <2>1. /\ UNCHANGED <<leader, pc, ent>> /\ run[e] = "running"
        /\ \A x \in Entry : x # e => ring'[x] = ring[x]
    BY <1>a, <1>8 DEF Degrade, RingFills, RingDrains, PromoteFails, asks, TypeE
  <2> QED
    BY <1>a, <2>1 DEF LeadOf, StartOf, FlightOf
<1>9. ASSUME \/ \E e \in Entry : \/ IdleFires(e) \/ RingAbandons(e) \/ RunFails(e) \/ Promotes(e)
                                 \/ Indexed(e) \/ Completes(e) \/ RunExits(e)
             \/ Evicts \/ CloseBegins \/ CloseEnds \/ UNCHANGED vars
      PROVE  LeadOf(q)'
  <2>1. UNCHANGED <<leader, pc, ent, ring>>
    BY <1>9 DEF IdleFires, RingAbandons, Abandon, RunFails, Promotes, Indexed, Completes, RunExits,
                Evicts, CloseBegins, CloseEnds, vars, asks, entry
  <2> QED
    BY <1>a, <2>1 DEF LeadOf
<1> QED
  BY <1>1, <1>3, <1>4, <1>5, <1>6, <1>7, <1>8, <1>9 DEF Acts

-----------------------------------------------------------------------------
\* A loss shakes every request that asks, and Steady says nothing of those.
LEMMA ShakenIsSteady ==
  ASSUME NEW q \in Request, Shake, UNCHANGED asks
  PROVE  SteadyOf(q)'
  BY DEF SteadyOf, Shake, Asking, asks

\* A step that loses nothing, and completes nothing a request was handed.
LEMMA CalmIsSteady ==
  ASSUME NEW q \in Request, SteadyOf(q), FlightOf(q), UNCHANGED <<pc, ent, tries, abandoned>>,
         q \in shaken => q \in shaken',
         index => index', NoStale => NoStale',
         \A e \in Entry : ring'[e] = "moved" => ring[e] = "moved",
         \A e \in Entry : state'[e] = "complete" => state[e] = "complete"
  PROVE  SteadyOf(q)'
  BY DEF SteadyOf, Asking, FlightOf

\* NoStale is only lost to an eviction.
LEMMA NoStaleKept ==
  ASSUME NoStale, index => index',
         \A e \in Entry : Encodes(e)' /\ run'[e] = "promoted" => index' \/ (Encodes(e) /\ run[e] = "promoted")
  PROVE  NoStale'
  BY DEF NoStale

\* The end of a flight: an entry that can be joined goes to its callers, or
\* the completion they raced is in the index.
LEMMA FlightIsSteady ==
  ASSUME Tries >= 3, IInv, LeadInv, NEW q \in Request, SteadyOf(q), NEW x, FlightReturns(x),
         UNCHANGED <<index, ring, abandoned>>, NoStale => NoStale',
         x # None => x \notin abandoned /\ ring[x] # "moved" /\ state'[x] # "complete",
         x = None => index,
         \A e \in Entry : state'[e] = "complete" => state[e] = "complete"
  PROVE  SteadyOf(q)'
<1>a. TypeA /\ FlightOf(q) /\ LeadOf(q) /\ shaken' = shaken
  BY DEF IInv, Types, FlightInv, LeadInv, FlightReturns
<1>b. tries[q] \in Nat /\ Tries \in Nat
  BY <1>a, StreamAssumption DEF TypeA
<1>1. CASE ~InTheFlight(q)
  <2>1. pc'[q] = pc[q] /\ tries'[q] = tries[q] /\ ent'[q] = ent[q]
    BY <1>1 DEF FlightReturns
  <2> QED
    BY <1>a, <2>1 DEF SteadyOf, Asking, FlightOf
<1>2. CASE InTheFlight(q)
  <2>1. pc[q] \in {"wait", "inflight", "contains", "begin", "start"}
    BY <1>a, <1>2 DEF InTheFlight, LeadOf
  <2>2. CASE q \in shaken
    BY <1>a, <2>2 DEF SteadyOf
  <2>3. CASE q \notin shaken
    <3>1. ~(tries[q] >= 3) /\ (tries[q] >= 2 => NoStale)
      BY <2>1, <2>3 DEF SteadyOf, Asking
    <3>2. ~LastTry(q)
      BY <1>b, <3>1 DEF LastTry
    <3>3. CASE x # None
      <4>1. pc'[q] = "attach" /\ ent'[q] = x /\ tries'[q] = tries[q]
        BY <1>2, <3>3 DEF FlightReturns
      <4> QED
        BY <3>1, <3>3, <4>1 DEF SteadyOf
    <3>4. CASE x = None
      <4>1. pc'[q] = "lookup" /\ index'
        BY <1>2, <3>2, <3>4 DEF FlightReturns, Again
      <4> QED
        BY <4>1 DEF SteadyOf, NoStale
    <3> QED
      BY <3>3, <3>4
  <2> QED
    BY <2>2, <2>3
<1> QED
  BY <1>1, <1>2

\* The last section of Complete: a promoted entry that a request was handed is
\* the one that encodes, and its completion leaves no stale entry.
LEMMA CompletesIsSteady ==
  ASSUME IInv, PhaseInv, NEW q \in Request, SteadyOf(q), NEW e \in Entry, Completes(e)
  PROVE  SteadyOf(q)'
<1>a. TypeE /\ FlightOf(q) /\ EncInv /\ PhaseOf(e)
  BY DEF IInv, Types, FlightInv, PhaseInv
<1>b. /\ UNCHANGED <<pc, ent, tries, abandoned, index, ring, asks>>
      /\ state' = [state EXCEPT ![e] = "complete"] /\ run' = [run EXCEPT ![e] = "ended"]
  BY DEF Completes, asks
<1>1. CASE ring[e] # "no"
  BY <1>1, <1>b, ShakenIsSteady DEF Completes
<1>2. CASE ring[e] = "no"
  <2>1. shaken' = shaken /\ run[e] = "promoted" /\ state[e] = "promoting"
    BY <1>a, <1>2 DEF Completes, PhaseOf
  <2>2. ASSUME NEW f \in Entry, Encodes(f)', run'[f] = "promoted"
        PROVE  f # e /\ Encodes(f) /\ run[f] = "promoted"
    BY <1>a, <1>b, <2>2 DEF Encodes, Running, Ended, TypeE
  <2>3. NoStale => NoStale'
    BY <1>b, <2>2, NoStaleKept
  <2>4. CASE e \in abandoned
    BY <1>a, <1>b, <2>1, <2>3, <2>4 DEF SteadyOf, Asking, FlightOf, TypeE
  <2>5. CASE e \notin abandoned
    <3>1. Encodes(e)
      BY <1>2, <2>1, <2>5 DEF Encodes, Running, Ended
    <3>2. NoStale => index
      BY <2>1, <3>1 DEF NoStale
    <3>3. NoStale'
      BY <1>a, <2>2, <3>1 DEF NoStale, EncInv, EncOf
    <3> QED
      BY <1>a, <1>b, <2>1, <3>2, <3>3 DEF SteadyOf, Asking, FlightOf, TypeE
  <2> QED
    BY <2>4, <2>5
<1> QED
  BY <1>1, <1>2

LEMMA NextSteady ==
  ASSUME Tries >= 3, IInv, LeadInv, PhaseInv, SteadyInv, Acts
  PROVE  SteadyInv'
<1> SUFFICES ASSUME NEW q \in Request PROVE SteadyOf(q)'
  BY DEF SteadyInv
<1>a. TypeS /\ TypeE /\ TypeA /\ SteadyOf(q) /\ FlightOf(q) /\ StartInv /\ RegInv
  BY DEF IInv, Types, SteadyInv, FlightInv
<1>b. tries[q] \in Nat /\ Tries \in Nat
  BY <1>a, StreamAssumption DEF TypeA
<1>c. ASSUME UNCHANGED <<index, run, state, ring, abandoned>> PROVE NoStale' = NoStale
  BY <1>c DEF NoStale, Encodes, Running, Ended
<1>1. ASSUME NEW r \in Request, Begins(r) \/ Misses(r) \/ Do(r) \/ Attach(r) PROVE SteadyOf(q)'
  <2>1. UNCHANGED <<index, run, state, ring, abandoned>> /\ NoStale' = NoStale
    BY <1>c, <1>1, RequestFrame
  <2>2. /\ shaken' = shaken /\ ent' = ent /\ pc'[r] \notin {"attach", "flap"}
        /\ q # r => pc'[q] = pc[q] /\ tries'[q] = tries[q]
    BY <1>a, <1>1 DEF Begins, Misses, Do, Attach, TypeA
  <2>3. \/ tries'[r] = 1
        \/ /\ tries'[r] = tries[r] /\ Asking(r)
           /\ pc[r] = "lookup" => ~index
    BY <1>a, <1>1 DEF Begins, Misses, Do, Attach, TypeA, Asking
  <2> QED
    BY <1>a, <1>b, <2>1, <2>2, <2>3 DEF SteadyOf, Asking
<1>2. ASSUME NEW r \in Request, Answers(r), UNCHANGED <<index, run, state, ring, abandoned>>
      PROVE  SteadyOf(q)'
  <2>1. NoStale' = NoStale
    BY <1>c, <1>2
  <2>2. CASE q = r
    BY <1>a, <1>2, <2>2 DEF Answers, SteadyOf, Asking, TypeA
  <2>3. CASE q # r
    BY <1>a, <1>2, <2>1, <2>3 DEF Answers, SteadyOf, Asking, TypeA
  <2> QED
    BY <2>2, <2>3
<1>3. ASSUME NEW r \in Request,
             \/ ServesCached(r) \/ AnswersWithoutWork(r) \/ Flapping(r)
             \/ \E a \in {"whole", "error", "gone"} : Leaves(r, a)
      PROVE  SteadyOf(q)'
  <2>1. Answers(r) /\ UNCHANGED <<index, run, state, ring, abandoned>>
    BY <1>3, RequestFrame DEF ServesCached, AnswersWithoutWork, Flapping, Leaves
  <2> QED
    BY <1>2, <2>1
<1>4. ASSUME NEW r \in Request, FnInFlight(r) PROVE SteadyOf(q)'
  <2>1. UNCHANGED <<index, run, state, ring, abandoned>> /\ NoStale' = NoStale
    BY <1>c, <1>4, RequestFrame
  <2>2. CASE writing # None
    <3>1. FlightReturns(writing) /\ writing \notin abandoned /\ ring[writing] # "moved"
          /\ state'[writing] # "complete"
      BY <1>a, <1>4, <2>1, <2>2 DEF FnInFlight, InFlight, RegInv
    <3> QED
      BY <1>a, <2>1, <2>2, <3>1, FlightIsSteady
  <2>3. CASE writing = None
    <3>1. UNCHANGED <<ent, tries, shaken>> /\ pc' = [pc EXCEPT ![r] = "contains"] /\ pc[r] = "inflight"
      BY <1>4, <2>3 DEF FnInFlight, InFlight
    <3> QED
      BY <1>a, <2>1, <3>1 DEF SteadyOf, Asking, TypeA
  <2> QED
    BY <2>2, <2>3
<1>5. ASSUME NEW r \in Request, FnContains(r) PROVE SteadyOf(q)'
  <2>1. UNCHANGED <<index, run, state, ring, abandoned>> /\ NoStale' = NoStale
    BY <1>c, <1>5, RequestFrame
  <2>2. CASE index
    <3>1. FlightReturns(None)
      BY <1>5, <2>2 DEF FnContains, Raced
    <3> QED
      BY <1>a, <2>1, <2>2, <3>1, FlightIsSteady
  <2>3. CASE ~index
    <3>1. UNCHANGED <<ent, tries, shaken>> /\ pc' = [pc EXCEPT ![r] = "begin"] /\ pc[r] = "contains"
      BY <1>5, <2>3 DEF FnContains, Raced
    <3> QED
      BY <1>a, <2>1, <3>1 DEF SteadyOf, Asking, TypeA
  <2> QED
    BY <2>2, <2>3
<1>6. ASSUME NEW r \in Request, FnOverloaded(r) PROVE SteadyOf(q)'
  <2>1. UNCHANGED <<index, run, state, ring, abandoned>> /\ NoStale' = NoStale
    BY <1>c, <1>6, RequestFrame
  <2>2. /\ pc'[q] = IF InTheFlight(q) THEN "done" ELSE pc[q]
        /\ tries'[q] = IF InTheFlight(q) THEN 0 ELSE tries[q]
        /\ shaken' = {x \in shaken : ~InTheFlight(x)} /\ ent' = ent
    BY <1>6 DEF FnOverloaded, FlightFails
  <2> QED
    BY <1>a, <2>1, <2>2 DEF SteadyOf, Asking
<1>7. ASSUME NEW r \in Request, NEW file \in BOOLEAN, FnBegin(r, file) PROVE SteadyOf(q)'
  <2>1. PICK f \in Entry :
           /\ Unused(f)
           /\ run'[f] = "none"
           /\ \A e \in Entry : e # f =>
                 /\ run'[e] = run[e] /\ state'[e] = state[e] /\ ring'[e] = ring[e]
                 /\ (e \in abandoned' <=> e \in abandoned)
           /\ pc[r] = "begin"
           /\ ent' = [ent EXCEPT ![r] = f] /\ pc' = [pc EXCEPT ![r] = "start"]
           /\ UNCHANGED <<index, leader, tries, shaken>>
    BY <1>7, BeginEffect
  <2>2. ASSUME NEW e \in Entry, Encodes(e)', run'[e] = "promoted"
        PROVE  Encodes(e) /\ run[e] = "promoted"
    BY <2>1, <2>2 DEF Encodes, Running, Ended
  <2>3. NoStale => NoStale'
    BY <2>1, <2>2, NoStaleKept
  <2>4. CASE q = r
    BY <1>a, <2>1, <2>3, <2>4 DEF SteadyOf, Asking, TypeA
  <2>5. CASE q # r
    <3>1. ent[q] # f /\ pc'[q] = pc[q] /\ ent'[q] = ent[q]
      BY <1>a, <2>1, <2>5 DEF Unused, TypeA
    <3> QED
      BY <1>a, <2>1, <2>3, <3>1 DEF SteadyOf, Asking, FlightOf
  <2> QED
    BY <2>4, <2>5
<1>8. ASSUME NEW r \in Request, FnStart(r) \/ FnRefused(r) PROVE SteadyOf(q)'
  <2>1. /\ pc[r] = "start" /\ FlightReturns(ent[r]) /\ UNCHANGED <<index, ring, abandoned>>
        /\ \/ run' = [run EXCEPT ![ent[r]] = "running"] /\ state' = state
           \/ run' = run /\ state' = [state EXCEPT ![ent[r]] = "failed"]
    BY <1>8 DEF FnStart, FnRefused, store, entry
  <2>2. /\ ent[r] \in Entry /\ ent[r] \notin abandoned /\ ring[ent[r]] # "moved"
        /\ run[ent[r]] = "none" /\ state[ent[r]] = "writing"
    BY <1>a, <2>1 DEF StartInv, StartOf, IInv, FlightInv, FlightOf, LeadInv, LeadOf
  <2>3. ASSUME NEW e \in Entry, Encodes(e)', run'[e] = "promoted"
        PROVE  Encodes(e) /\ run[e] = "promoted"
    BY <1>a, <2>1, <2>2, <2>3 DEF Encodes, Running, Ended, TypeE
  <2>4. NoStale => NoStale'
    BY <2>1, <2>3, NoStaleKept
  <2>5. /\ state'[ent[r]] # "complete"
        /\ \A e \in Entry : state'[e] = "complete" => state[e] = "complete"
    BY <1>a, <2>1, <2>2 DEF TypeE
  <2>6. ent[r] # None
    BY <2>2, StreamAssumption
  <2> QED
    BY <1>a, <2>1, <2>2, <2>4, <2>5, <2>6, FlightIsSteady
<1>9. ASSUME NEW r \in Request, Unjoinable(r) PROVE SteadyOf(q)'
  <2>1. UNCHANGED <<index, run, state, ring, abandoned>> /\ NoStale' = NoStale
    BY <1>c, <1>9, RequestFrame
  <2>2. CASE state[ent[r]] = "failed" /\ ent[r] \notin abandoned
    BY <1>2, <1>9, <2>1, <2>2 DEF Unjoinable
  <2>3. CASE ~(state[ent[r]] = "failed" /\ ent[r] \notin abandoned)
    <3>1. /\ pc[r] = "attach" /\ ~Joinable(ent[r]) /\ shaken' = shaken
          /\ pc' = [pc EXCEPT ![r] = Again(r)]
          /\ tries' = [tries EXCEPT ![r] = IF LastTry(r) THEN @ ELSE @ + 1]
          /\ ent' = [ent EXCEPT ![r] = None]
      BY <1>9, <2>3 DEF Unjoinable
    <3>2. CASE q # r
      BY <1>a, <2>1, <3>1, <3>2 DEF SteadyOf, Asking, TypeA
    <3>3. CASE q = r /\ q \in shaken
      BY <3>1, <3>3 DEF SteadyOf
    <3>4. CASE q = r /\ q \notin shaken
      <4>1. ~(tries[q] >= 3) /\ NoStale /\ (tries[q] >= 2 => index)
        <5>1. ent[q] \notin abandoned /\ ring[ent[q]] # "moved" /\ ~(tries[q] >= 3)
          BY <1>a, <3>1, <3>4 DEF SteadyOf, Asking
        <5>2. state[ent[q]] = "complete"
          BY <2>3, <3>1, <3>4, <5>1 DEF Joinable, Released, Ended
        <5> QED
          BY <1>a, <3>1, <3>4, <5>1, <5>2 DEF SteadyOf, Asking
      <4>2. pc'[q] = "lookup" /\ tries'[q] = tries[q] + 1
        BY <1>a, <1>b, <3>1, <3>4, <4>1 DEF LastTry, Again, TypeA
      <4> QED
        BY <1>b, <2>1, <4>1, <4>2 DEF SteadyOf
    <3> QED
      BY <3>2, <3>3, <3>4
  <2> QED
    BY <2>2, <2>3
<1>10. ASSUME \/ Evicts
              \/ \E e \in Entry : Degrade(e) \/ RingDrains(e) \/ IdleFires(e) \/ RingAbandons(e)
                                 \/ PromoteFails(e)
       PROVE  SteadyOf(q)'
  <2>1. Shake /\ UNCHANGED asks
    BY <1>10 DEF Evicts, Degrade, RingDrains, IdleFires, RingAbandons, Abandon, PromoteFails
  <2> QED
    BY <2>1, ShakenIsSteady
<1>11. ASSUME NEW e \in Entry, RingFills(e) \/ RunFails(e) \/ Promotes(e) \/ Indexed(e) \/ RunExits(e)
       PROVE  SteadyOf(q)'
  <2>1. /\ UNCHANGED <<pc, ent, tries, shaken, abandoned>> /\ (index => index')
        /\ \A x \in Entry : ring'[x] = "moved" => ring[x] = "moved"
        /\ \A x \in Entry : state'[x] = "complete" => state[x] = "complete"
    BY <1>a, <1>11 DEF RingFills, RunFails, Promotes, Indexed, RunExits, asks, store, entry, TypeE
  <2>2. ASSUME NEW x \in Entry, Encodes(x)', run'[x] = "promoted"
        PROVE  index' \/ (Encodes(x) /\ run[x] = "promoted")
    BY <1>a, <1>11, <2>2 DEF RingFills, RunFails, Promotes, Indexed, RunExits, store, entry, TypeE,
                             Encodes, Running, Ended
  <2>3. NoStale => NoStale'
    BY <2>1, <2>2, NoStaleKept
  <2> QED
    BY <1>a, <2>1, <2>3, CalmIsSteady
<1>12. ASSUME NEW e \in Entry, Completes(e) PROVE SteadyOf(q)'
  BY <1>a, <1>12, CompletesIsSteady
<1>13. ASSUME CloseBegins \/ CloseEnds \/ UNCHANGED vars PROVE SteadyOf(q)'
  <2>1. UNCHANGED <<index, run, state, ring, abandoned, pc, ent, tries, shaken>>
    BY <1>13 DEF CloseBegins, CloseEnds, vars, asks, store, entry
  <2>2. NoStale' = NoStale
    BY <1>c, <2>1
  <2> QED
    BY <1>a, <2>1, <2>2 DEF SteadyOf, Asking
<1> QED
  BY <1>1, <1>3, <1>4, <1>5, <1>6, <1>7, <1>8, <1>9, <1>10, <1>11, <1>12, <1>13 DEF Acts

\* With the code's three tries or more, "stream slot flapping" is only heard by
\* a request under which the entry was lost: to an eviction, an abandonment, a
\* degradation or an uncached completion (serveViaCache's loop, promote before
\* unregister).
THEOREM FlappingNeedsLossHolds ==
  ASSUME Tries >= 3
  PROVE  Spec => []FlappingNeedsLoss
<1>1. Init => LeadInv /\ PhaseInv /\ SteadyInv
  BY StreamAssumption DEF Init, LeadInv, LeadOf, PhaseInv, PhaseOf, SteadyInv, SteadyOf, Asking
<1>2. IInv /\ LeadInv /\ PhaseInv /\ SteadyInv /\ [Next]_vars
        => LeadInv' /\ PhaseInv' /\ SteadyInv'
  BY StepActs, NextLead, NextPhase, NextSteady
<1>3. SteadyInv => FlappingNeedsLoss
  BY DEF SteadyInv, SteadyOf, Asking, FlappingNeedsLoss
<1> QED
  BY <1>1, <1>2, <1>3, HandlerInvariant, PTL DEF Spec
=============================================================================
