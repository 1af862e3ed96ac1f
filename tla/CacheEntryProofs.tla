-------------------------- MODULE CacheEntryProofs --------------------------
(***************************************************************************)
(* Proofs about CacheEntry, for any set of readers, ring capacity, stream  *)
(* length and chunk size.                                                  *)
(***************************************************************************)
EXTENDS CacheEntry, TLAPS, WellFoundedInduction, SequenceTheorems

LEMMA ChunkIsSeq ==
  ASSUME NEW n \in Nat, NEW k \in Nat
  PROVE  /\ [i \in 1..n |-> k + i] \in Seq(Nat)
         /\ Len([i \in 1..n |-> k + i]) = n
  BY SMTT(60)

LEMMA SubSeqNat ==
  ASSUME NEW s \in Seq(Nat), NEW a \in Nat \ {0}, NEW b \in 0..Len(s)
  PROVE  /\ SubSeq(s, a, b) \in Seq(Nat)
         /\ Len(SubSeq(s, a, b)) = IF a <= b THEN b - a + 1 ELSE 0
         /\ \A i \in 1..Len(SubSeq(s, a, b)) : SubSeq(s, a, b)[i] = s[a + i - 1]
  BY SMTT(60)

LEMMA ConcatNat ==
  ASSUME NEW s \in Seq(Nat), NEW t \in Seq(Nat)
  PROVE  /\ s \o t \in Seq(Nat)
         /\ Len(s \o t) = Len(s) + Len(t)
         /\ \A i \in 1..Len(s) : (s \o t)[i] = s[i]
         /\ \A i \in 1..Len(t) : (s \o t)[Len(s) + i] = t[i]
  BY SMTT(60)

LEMMA MinPosProperty ==
  ASSUME TypeOK, readers # {}
  PROVE  /\ MinPos \in Nat
         /\ \A r \in readers : MinPos <= pos[r]
         /\ \E r \in readers : MinPos = pos[r]
<1> DEFINE S == {pos[r] : r \in readers}
<1>1. S \subseteq Nat /\ S # {}
  BY DEF TypeOK, TypeControl, TypeReaders
<1> DEFINE R == {ss \in Nat \X Nat : ss[1] < ss[2]}
<1>a. IsWellFoundedOn(R, Nat)
  BY NatLessThanWellFounded, Zenon DEF OpToRel
<1> HIDE DEF R
<1>2. PICK m \in S : \A n \in S : ~(<<n, m>> \in R)
  BY <1>1, <1>a, WFMin
<1>3. ASSUME NEW n \in S PROVE m <= n
  <2>1. m \in Nat /\ n \in Nat
    BY <1>1, <1>2, <1>3
  <2>2. <<n, m>> \notin R
    BY <1>2, <1>3
  <2>3. n < m => <<n, m>> \in R
    BY <2>1 DEF R
  <2> QED
    BY <2>1, <2>2, <2>3
<1>4. \A r \in readers : pos[r] \in S
  OBVIOUS
<1> QED
  BY <1>1, <1>3, <1>4 DEF MinPos

LEMMA ConsumedBound ==
  ASSUME TypeOK
  PROVE  /\ Consumed \in 0..Len(mem)
         /\ Consumed > 0 => readers # {} /\ \A r \in readers : memBase + Consumed <= pos[r]
<1>1. Len(mem) \in Nat /\ memBase \in Nat
  BY DEF TypeOK, TypeBytes, TypeBytes, TypeBytes
<1>2. CASE readers = {} \/ mem = <<>> \/ MinPos <= memBase
  BY <1>1, <1>2 DEF Consumed
<1>3. CASE ~(readers = {} \/ mem = <<>> \/ MinPos <= memBase)
  <2>1. Consumed = Smaller(MinPos - memBase, Len(mem))
    BY <1>3 DEF Consumed
  <2>2. \A r \in readers : pos[r] \in Nat
    BY DEF TypeOK, TypeControl, TypeReaders, TypeControl, TypeReaders, TypeControl, TypeReaders
  <2> QED
    BY <1>1, <1>3, <2>1, <2>2, MinPosProperty DEF Smaller
<1> QED
  BY <1>2, <1>3

\* maybeRelease leaves its variables with their types.
LEMMA ReleaseType ==
  ASSUME TypeOK, NEW st, NEW rs, NEW pr, MaybeRelease(st, rs, pr)
  PROVE  /\ released' \in BOOLEAN
         /\ mem' \in Seq(Nat) /\ Len(mem') <= RingCap
         /\ disk' \in SUBSET {"tmp", "out", "meta"}
<1>1. <<>> \in Seq(Nat) /\ Len(<<>>) <= RingCap
  BY RingCapAssumption
<1>2. CASE UNCHANGED <<released, mem, disk>>
  BY <1>2 DEF TypeOK, TypeFlags, TypeBytes, TypeControl
<1>3. CASE /\ released' = TRUE /\ mem' = <<>>
           /\ disk' = IF pr THEN disk ELSE disk \ {"tmp"}
  <2>1. disk' \subseteq disk
    BY <1>3
  <2> QED
    BY <1>1, <1>3, <2>1 DEF TypeOK, TypeControl
<1> QED
  BY <1>2, <1>3 DEF MaybeRelease

\* Everything a step of the ring loop assigns has its type, and the ring
\* stays within its capacity.
LEMMA RingPassType ==
  ASSUME TypeOK, NEW q \in Seq(Nat), NEW base \in Nat, NEW sz \in Nat,
         RingPass(q, base, sz)
  PROVE  /\ memBase' \in Nat /\ size' \in Nat /\ p' \in Seq(Nat)
         /\ mem' \in Seq(Nat) /\ Len(mem') <= RingCap
         /\ wpc' \in WPC /\ state' \in State
         /\ abandoned' \in BOOLEAN /\ released' \in BOOLEAN /\ registered' \in BOOLEAN
         /\ idle' \in Nat /\ disk' \in SUBSET {"tmp", "out", "meta"}
         /\ waiting' \in SUBSET (Reader \cup {Writer})
<1> DEFINE kept == SubSeq(mem, Consumed + 1, Len(mem))
           n    == Smaller(RingSpace(Len(kept)), Len(q))
<1>1. Consumed \in 0..Len(mem) /\ Len(mem) \in Nat /\ Len(mem) <= RingCap
  BY ConsumedBound DEF TypeOK, TypeBytes
<1>2. kept \in Seq(Nat) /\ Len(kept) = Len(mem) - Consumed
  BY <1>1, SubSeqNat DEF TypeOK, TypeBytes
<1> HIDE DEF kept
<1>3. n \in 0..Len(q) /\ Len(kept) + n <= RingCap
  <2>1. Len(q) \in Nat
    OBVIOUS
  <2> QED
    BY <1>1, <1>2, <2>1, RingCapAssumption DEF Smaller, RingSpace
<1> HIDE DEF n
<1>4. memBase' = base + Consumed /\ size' = sz + n /\ p' = Remaining(q, n)
  BY DEF RingPass, kept, n
<1>5. memBase' \in Nat /\ size' \in Nat /\ p' \in Seq(Nat)
  BY <1>1, <1>3, <1>4, SubSeqNat DEF Remaining
<1>6. CASE n < Len(q) /\ everAttached /\ readers = {}
  <2>1. abandoned' = TRUE /\ wpc' = "erred" /\ FailEntry
    BY <1>6 DEF RingPass, kept, n
  <2>2. mem' \in Seq(Nat) /\ Len(mem') <= RingCap
    BY <2>1, ReleaseType DEF FailEntry
  <2>3. released' \in BOOLEAN /\ disk' \in SUBSET {"tmp", "out", "meta"}
    BY <2>1, ReleaseType DEF FailEntry
  <2> QED
    BY <2>1, <2>2, <2>3, <1>5
       DEF FailEntry, Unregister, DisarmIdle, Broadcast,
           TypeOK, TypeFlags, TypeControl, WPC, State
<1>7. CASE ~(n < Len(q) /\ everAttached /\ readers = {})
  <2>1. /\ mem' = kept \o SubSeq(q, 1, n)
        /\ wpc' = IF n < Len(q) THEN "ring" ELSE "run"
        /\ waiting' = (IF n > 0 THEN {} ELSE waiting) \cup (IF n < Len(q) THEN {Writer} ELSE {})
        /\ Unregister
        /\ UNCHANGED <<abandoned, state, idle, released, disk>>
    BY <1>7 DEF RingPass, kept, n
  <2>2. mem' \in Seq(Nat) /\ Len(mem') <= RingCap
    <3>1. SubSeq(q, 1, n) \in Seq(Nat) /\ Len(SubSeq(q, 1, n)) = n
      BY <1>3, SubSeqNat
    <3> QED
      BY <1>2, <1>3, <2>1, <3>1, ConcatNat
  <2> QED
    BY <1>5, <2>1, <2>2 DEF Unregister, TypeOK, TypeFlags, TypeControl, WPC, State
<1> QED
  BY <1>6, <1>7

\* What the two halves of Read assign to the reader has its type.
LEMMA ReadTypes ==
  ASSUME TypeOK, NEW r \in Reader, NEW n \in Nat,
         (Read(r, n) /\ n > 0) \/ ReadAt(r, n)
  PROVE  TypeReaders'
<1>1. /\ rpc \in [Reader -> RPC] /\ pos \in [Reader -> Nat] /\ want \in [Reader -> Nat]
      /\ closed \in [Reader -> BOOLEAN] /\ got \in [Reader -> Seq(Nat)]
      /\ result \in [Reader -> Outcome]
      /\ pos[r] \in Nat /\ memBase \in Nat /\ fileBytes \in Nat
      /\ mem \in Seq(Nat) /\ Len(mem) \in Nat /\ got[r] \in Seq(Nat)
  BY DEF TypeOK, TypeReaders, TypeBytes
<1>2. CASE Read(r, n) /\ n > 0
  <2> DEFINE off   == pos[r] - memBase
             avail == Len(mem) - off
             take  == Smaller(n, avail)
  <2>1. rpc' \in [Reader -> RPC] /\ closed' \in [Reader -> BOOLEAN]
    BY <1>1, <1>2 DEF Read, RPC
  <2>2. result' \in [Reader -> Outcome]
    BY <1>1, <1>2 DEF Read, Outcome
  <2>3. want' \in [Reader -> Nat]
    BY <1>1, <1>2, SMTT(30) DEF Read, Smaller
  <2>4. \/ UNCHANGED <<pos, got>>
        \/ /\ ~(avail <= 0 \/ off < 0)
           /\ pos' = [pos EXCEPT ![r] = @ + take]
           /\ got' = [got EXCEPT ![r] = @ \o SubSeq(mem, off + 1, off + take)]
    BY <1>2 DEF Read
  <2>5. CASE UNCHANGED <<pos, got>>
    BY <1>1, <2>1, <2>2, <2>3, <2>5 DEF TypeReaders
  <2>6. CASE /\ ~(avail <= 0 \/ off < 0)
             /\ pos' = [pos EXCEPT ![r] = @ + take]
             /\ got' = [got EXCEPT ![r] = @ \o SubSeq(mem, off + 1, off + take)]
    <3>1. avail \in Int /\ off \in Int /\ avail > 0 /\ off >= 0
      BY <1>1, <2>6, SMTT(30)
    <3>2. take \in Nat /\ off \in Nat /\ off + take \in 0..Len(mem)
      <4>1. take \in Int /\ take <= avail /\ take > 0
        BY <1>2, <3>1 DEF Smaller
      <4>2. off + avail = Len(mem)
        BY <1>1
      <4> HIDE DEF off, avail, take
      <4> QED
        BY <1>1, <3>1, <4>1, <4>2
    <3> HIDE DEF take, off, avail
    <3>3. SubSeq(mem, off + 1, off + take) \in Seq(Nat)
      BY <1>1, <3>2, SubSeqNat
    <3>4. got[r] \o SubSeq(mem, off + 1, off + take) \in Seq(Nat)
      BY <1>1, <3>3, ConcatNat
    <3>5. pos' \in [Reader -> Nat] /\ got' \in [Reader -> Seq(Nat)]
      BY <1>1, <2>6, <3>2, <3>4
    <3> QED
      BY <2>1, <2>2, <2>3, <3>5 DEF TypeReaders
  <2> QED
    BY <2>4, <2>5, <2>6
<1>3. CASE ReadAt(r, n)
  <2>1. /\ rpc' \in [Reader -> RPC] /\ want' \in [Reader -> Nat]
        /\ closed' \in [Reader -> BOOLEAN] /\ result' \in [Reader -> Outcome]
    BY <1>1, <1>3 DEF ReadAt, RPC, Outcome
  <2>2. [i \in 1..n |-> pos[r] + i] \in Seq(Nat)
    BY <1>1, ChunkIsSeq
  <2>3. got[r] \o [i \in 1..n |-> pos[r] + i] \in Seq(Nat)
    BY <1>1, <2>2, ConcatNat
  <2>4. pos' \in [Reader -> Nat] /\ got' \in [Reader -> Seq(Nat)]
    <3>1. \/ UNCHANGED <<pos, got>>
          \/ /\ pos' = [pos EXCEPT ![r] = pos[r] + n]
             /\ got' = [got EXCEPT ![r] = got[r] \o [i \in 1..n |-> pos[r] + i]]
      BY <1>3 DEF ReadAt
    <3> DEFINE more == got[r] \o [i \in 1..n |-> pos[r] + i]
    <3>2. more \in Seq(Nat)
      BY <2>3
    <3>3. got' = got \/ got' = [got EXCEPT ![r] = more]
      BY <3>1
    <3> HIDE DEF more
    <3>4. got' \in [Reader -> Seq(Nat)]
      BY <1>1, <3>2, <3>3
    <3>5. pos' = pos \/ pos' = [pos EXCEPT ![r] = pos[r] + n]
      BY <3>1
    <3>6. pos' \in [Reader -> Nat]
      <4>1. pos \in [Reader -> Nat] /\ pos[r] + n \in Nat
        BY <1>1
      <4> QED
        BY <3>5, <4>1
    <3> QED
      BY <3>4, <3>6
  <2> QED
    BY <2>1, <2>4 DEF TypeReaders
<1> QED
  BY <1>2, <1>3

\* Type correctness of the entry, its ring bounded by ringCap.
THEOREM TypeCorrect == Spec => []TypeOK
<1>1. Init => TypeOK
  <2> SUFFICES ASSUME Init PROVE TypeOK
    OBVIOUS
  <2>1. TypeFlags
    BY DEF Init, TypeFlags
  <2>2. TypeBytes
    BY RingCapAssumption DEF Init, TypeBytes
  <2>3. TypeControl
    BY DEF Init, TypeControl, State, WPC
  <2>4. TypeReaders
    BY DEF Init, TypeReaders, RPC, Outcome
  <2> QED
    BY <2>1, <2>2, <2>3, <2>4 DEF TypeOK
<1>2. TypeOK /\ [Next]_vars => TypeOK'
  <2> SUFFICES ASSUME TypeOK, [Next]_vars PROVE TypeOK'
    OBVIOUS
  <2> USE DEF Broadcast, Unregister, DisarmIdle
  <2>a. TypeFlags /\ TypeBytes /\ TypeControl /\ TypeReaders
    BY DEF TypeOK
  <2>1. ASSUME NEW n \in 1..MaxChunk, WriteStart(n) PROVE TypeOK'
    <3>1. Chunk(n) \in Seq(Nat) /\ produced + n \in Nat
      BY <2>a, <2>1, BoundsAssumption, ChunkIsSeq DEF Chunk, TypeBytes
    <3>2. CASE abandoned
      <4>1. TypeFlags'
        BY <2>a, <2>1, <3>2 DEF WriteStart, FailEntry, MaybeRelease, TypeFlags
      <4>2. TypeBytes'
        BY <2>a, <2>1, <3>2, ReleaseType DEF WriteStart, FailEntry, TypeBytes
      <4>3. TypeControl'
        BY <2>a, <2>1, <3>2, ReleaseType DEF WriteStart, FailEntry, TypeControl, State, WPC
      <4>4. TypeReaders'
        BY <2>a, <2>1, <3>2 DEF WriteStart, readerVars, TypeReaders
      <4> QED
        BY <4>1, <4>2, <4>3, <4>4 DEF TypeOK
    <3>3. CASE ~abandoned /\ degraded
      <4>1. /\ RingPass(Chunk(n), memBase, size) /\ produced' = produced + n
            /\ UNCHANGED <<backed, fileBytes, degraded, promoted, everAttached, readers,
                           firing, timers, indexed, readerVars>>
        BY <2>1, <3>3 DEF WriteStart
      <4>2. memBase \in Nat /\ size \in Nat
        BY <2>a DEF TypeBytes
      <4>3. /\ TypeFlags' /\ TypeBytes'
        BY <2>a, <3>1, <4>1, <4>2, RingPassType DEF TypeFlags, TypeBytes
      <4>4. TypeControl' /\ TypeReaders'
        BY <2>a, <3>1, <4>1, <4>2, RingPassType DEF TypeControl, TypeReaders, readerVars
      <4> QED
        BY <4>3, <4>4 DEF TypeOK
    <3>4. CASE ~abandoned /\ ~degraded
      <4>1. TypeFlags' /\ TypeBytes'
        BY <2>a, <2>1, <3>1, <3>4 DEF WriteStart, TypeFlags, TypeBytes
      <4>2. TypeControl' /\ TypeReaders'
        BY <2>a, <2>1, <3>4 DEF WriteStart, TypeControl, TypeReaders, WPC, readerVars
      <4> QED
        BY <4>1, <4>2 DEF TypeOK
    <3> QED
      BY <3>2, <3>3, <3>4
  <2>2. CASE FileWriteOK
    <3>1. Len(p) \in Nat /\ <<>> \in Seq(Nat)
      BY <2>a DEF TypeBytes
    <3>2. TypeFlags' /\ TypeBytes'
      BY <2>a, <2>2, <3>1 DEF FileWriteOK, storeVars, TypeFlags, TypeBytes
    <3>3. TypeControl' /\ TypeReaders'
      BY <2>a, <2>2 DEF FileWriteOK, timerVars, storeVars, readerVars, TypeControl, TypeReaders, WPC
    <3> QED
      BY <3>2, <3>3 DEF TypeOK
  <2>3. ASSUME NEW n \in 0..(MaxChunk - 1), FileWriteFail(n) PROVE TypeOK'
    <3>1. n \in Nat /\ n < Len(p)
      BY <2>3, BoundsAssumption DEF FileWriteFail
    <3>2. Remaining(p, n) \in Seq(Nat)
      BY <2>a, <3>1, SubSeqNat DEF Remaining, TypeBytes
    <3>3. size + n \in Nat /\ fileBytes + n \in Nat
      BY <2>a, <3>1 DEF TypeBytes
    <3>4. /\ RingPass(Remaining(p, n), size + n, size + n)
          /\ fileBytes' = fileBytes + n /\ degraded' = TRUE
          /\ UNCHANGED <<backed, promoted, everAttached, readers, firing, timers,
                         indexed, produced, readerVars>>
      BY <2>3 DEF FileWriteFail
    <3>5. TypeFlags' /\ TypeBytes'
      BY <2>a, <3>2, <3>3, <3>4, RingPassType DEF TypeFlags, TypeBytes
    <3>6. TypeControl' /\ TypeReaders'
      BY <2>a, <3>2, <3>3, <3>4, RingPassType DEF TypeControl, TypeReaders, readerVars
    <3> QED
      BY <3>5, <3>6 DEF TypeOK
  <2>4. CASE RingWake
    <3>1. /\ RingPass(p, memBase, size)
          /\ UNCHANGED <<backed, fileBytes, degraded, promoted, everAttached, readers,
                         firing, timers, indexed, produced, readerVars>>
      BY <2>4 DEF RingWake
    <3>2. p \in Seq(Nat) /\ memBase \in Nat /\ size \in Nat
      BY <2>a DEF TypeBytes
    <3>3. TypeFlags' /\ TypeBytes'
      BY <2>a, <3>1, <3>2, RingPassType DEF TypeFlags, TypeBytes
    <3>4. TypeControl' /\ TypeReaders'
      BY <2>a, <3>1, <3>2, RingPassType DEF TypeControl, TypeReaders, readerVars
    <3> QED
      BY <3>3, <3>4 DEF TypeOK
  <2>5. CASE CompleteStart
    <3>1. TypeFlags'
      BY <2>a, <2>5, ReleaseType
         DEF CompleteStart, FailEntry, FinishComplete, readerVars, TypeFlags
    <3>2. TypeBytes'
      BY <2>a, <2>5, ReleaseType
         DEF CompleteStart, FailEntry, FinishComplete, readerVars, TypeBytes
    <3>3. TypeControl'
      <4>1. disk' \in SUBSET {"tmp", "out", "meta"}
        BY <2>a, <2>5, ReleaseType DEF CompleteStart, FailEntry, FinishComplete, TypeControl
      <4>2. /\ state' \in {state, "failed", "complete"}
            /\ wpc' \in {"erred", "done", "sync"}
            /\ idle' = 0
        BY <2>5 DEF CompleteStart, FailEntry, FinishComplete
      <4>3. waiting' \in SUBSET (Reader \cup {Writer})
        BY <2>a, <2>5 DEF CompleteStart, FailEntry, FinishComplete, TypeControl
      <4> QED
        BY <2>a, <2>5, <4>1, <4>2, <4>3 DEF CompleteStart, TypeControl, State, WPC
    <3>4. TypeReaders'
      BY <2>a, <2>5, ReleaseType
         DEF CompleteStart, FailEntry, FinishComplete, readerVars, RPC, Outcome, TypeReaders
    <3> QED
      BY <3>1, <3>2, <3>3, <3>4 DEF TypeOK
  <2>6. CASE PromoteStep
    <3>1. TypeFlags'
      BY <2>a, <2>6
         DEF PromoteStep, entryVars, timerVars, readerVars, TypeFlags
    <3>2. TypeBytes'
      BY <2>a, <2>6
         DEF PromoteStep, entryVars, timerVars, readerVars, TypeBytes
    <3>3. TypeControl'
      BY <2>a, <2>6
         DEF PromoteStep, entryVars, timerVars, readerVars, State, WPC, TypeControl
    <3>4. TypeReaders'
      BY <2>a, <2>6
         DEF PromoteStep, entryVars, timerVars, readerVars, RPC, Outcome, TypeReaders
    <3> QED
      BY <3>1, <3>2, <3>3, <3>4 DEF TypeOK
  <2>7. CASE PromoteOK
    <3>1. TypeFlags'
      BY <2>a, <2>7, ReleaseType
         DEF PromoteOK, FinishComplete, timerVars, readerVars, TypeFlags
    <3>2. TypeBytes'
      BY <2>a, <2>7, ReleaseType
         DEF PromoteOK, FinishComplete, timerVars, readerVars, TypeBytes
    <3>3. TypeControl'
      BY <2>a, <2>7, ReleaseType
         DEF PromoteOK, FinishComplete, timerVars, readerVars, State, WPC, TypeControl
    <3>4. TypeReaders'
      BY <2>a, <2>7, ReleaseType
         DEF PromoteOK, FinishComplete, timerVars, readerVars, RPC, Outcome, TypeReaders
    <3> QED
      BY <3>1, <3>2, <3>3, <3>4 DEF TypeOK
  <2>8. CASE PromoteFail
    <3>1. TypeFlags'
      BY <2>a, <2>8, ReleaseType
         DEF PromoteFail, FinishComplete, timerVars, readerVars, TypeFlags
    <3>2. TypeBytes'
      BY <2>a, <2>8, ReleaseType
         DEF PromoteFail, FinishComplete, timerVars, readerVars, TypeBytes
    <3>3. TypeControl'
      BY <2>a, <2>8, ReleaseType
         DEF PromoteFail, FinishComplete, timerVars, readerVars, State, WPC, TypeControl
    <3>4. TypeReaders'
      BY <2>a, <2>8, ReleaseType
         DEF PromoteFail, FinishComplete, timerVars, readerVars, RPC, Outcome, TypeReaders
    <3> QED
      BY <3>1, <3>2, <3>3, <3>4 DEF TypeOK
  <2>9. CASE Fail
    <3>1. TypeFlags'
      BY <2>a, <2>9, ReleaseType
         DEF Fail, FailEntry, readerVars, TypeFlags
    <3>2. TypeBytes'
      BY <2>a, <2>9, ReleaseType
         DEF Fail, FailEntry, readerVars, TypeBytes
    <3>3. TypeControl'
      <4>1. disk' \in SUBSET {"tmp", "out", "meta"}
        BY <2>a, <2>9, ReleaseType DEF Fail, FailEntry, TypeControl
      <4>2. state' \in State /\ wpc' \in WPC /\ idle' \in Nat
        BY <2>a, <2>9 DEF Fail, FailEntry, TypeControl, State, WPC
      <4>3. waiting' \in SUBSET (Reader \cup {Writer})
        BY <2>a, <2>9 DEF Fail, FailEntry, TypeControl
      <4> QED
        BY <2>a, <2>9, <4>1, <4>2, <4>3 DEF Fail, TypeControl
    <3>4. TypeReaders'
      BY <2>a, <2>9, ReleaseType
         DEF Fail, FailEntry, readerVars, RPC, Outcome, TypeReaders
    <3> QED
      BY <3>1, <3>2, <3>3, <3>4 DEF TypeOK
  <2>10. ASSUME NEW r \in Reader, NewReader(r) PROVE TypeOK'
    <3>1. TypeFlags'
      BY <2>a, <2>10
         DEF NewReader, storeVars, writerVars, TypeFlags
    <3>2. TypeBytes'
      BY <2>a, <2>10
         DEF NewReader, storeVars, writerVars, TypeBytes
    <3>3. TypeControl'
      BY <2>a, <2>10
         DEF NewReader, storeVars, writerVars, State, WPC, TypeControl
    <3>4. TypeReaders'
      BY <2>a, <2>10
         DEF NewReader, storeVars, writerVars, RPC, Outcome, TypeReaders
    <3> QED
      BY <3>1, <3>2, <3>3, <3>4 DEF TypeOK
  <2>11. ASSUME NEW r \in Reader, NEW n \in 1..MaxChunk, Read(r, n) PROVE TypeOK'
    <3>1. UNCHANGED <<entryVars, timerVars, storeVars, writerVars, closed>>
      BY <2>11 DEF Read
    <3>2. TypeFlags' /\ TypeBytes'
      BY <2>a, <3>1 DEF TypeFlags, TypeBytes, entryVars, storeVars, writerVars
    <3>3. waiting' \in SUBSET (Reader \cup {Writer})
      BY <2>a, <2>11 DEF Read, TypeControl
    <3>4. TypeControl'
      BY <2>a, <3>1, <3>3 DEF TypeControl, entryVars, timerVars, storeVars, writerVars
    <3>5. TypeReaders'
      BY <2>11, BoundsAssumption, ReadTypes
    <3> QED
      BY <3>2, <3>4, <3>5 DEF TypeOK
  <2>12. ASSUME NEW r \in Reader, NEW n \in 0..MaxChunk, ReadAt(r, n) PROVE TypeOK'
    <3>1. UNCHANGED <<entryVars, timerVars, waiting, storeVars, writerVars, closed>>
      BY <2>12 DEF ReadAt
    <3>2. TypeFlags' /\ TypeBytes'
      BY <2>a, <3>1 DEF TypeFlags, TypeBytes, entryVars, storeVars, writerVars
    <3>3. TypeControl'
      BY <2>a, <3>1 DEF TypeControl, entryVars, timerVars, storeVars, writerVars
    <3>4. TypeReaders'
      BY <2>12, BoundsAssumption, ReadTypes
    <3> QED
      BY <3>2, <3>3, <3>4 DEF TypeOK
  <2>13. ASSUME NEW r \in Reader, Close(r) PROVE TypeOK'
    <3>1. TypeFlags'
      BY <2>a, <2>13, ReleaseType
         DEF Close, ArmIdle, writerVars, TypeFlags
    <3>2. TypeBytes'
      BY <2>a, <2>13, ReleaseType
         DEF Close, ArmIdle, writerVars, TypeBytes
    <3>3. TypeControl'
      BY <2>a, <2>13, ReleaseType
         DEF Close, ArmIdle, writerVars, State, WPC, TypeControl
    <3>4. TypeReaders'
      BY <2>a, <2>13, ReleaseType
         DEF Close, ArmIdle, writerVars, RPC, Outcome, TypeReaders
    <3> QED
      BY <3>1, <3>2, <3>3, <3>4 DEF TypeOK
  <2>14. CASE TimerExpire
    <3>1. TypeFlags'
      BY <2>a, <2>14
         DEF TimerExpire, entryVars, storeVars, writerVars, readerVars, TypeFlags
    <3>2. TypeBytes'
      BY <2>a, <2>14
         DEF TimerExpire, entryVars, storeVars, writerVars, readerVars, TypeBytes
    <3>3. TypeControl'
      BY <2>a, <2>14
         DEF TimerExpire, entryVars, storeVars, writerVars, readerVars, State, WPC, TypeControl
    <3>4. TypeReaders'
      BY <2>a, <2>14
         DEF TimerExpire, entryVars, storeVars, writerVars, readerVars, RPC, Outcome, TypeReaders
    <3> QED
      BY <3>1, <3>2, <3>3, <3>4 DEF TypeOK
  <2>15. ASSUME NEW it \in firing, IdleFire(it) PROVE TypeOK'
    <3>1. TypeFlags'
      BY <2>a, <2>15
         DEF IdleFire, writerVars, readerVars, TypeFlags
    <3>2. TypeBytes'
      BY <2>a, <2>15
         DEF IdleFire, writerVars, readerVars, TypeBytes
    <3>3. TypeControl'
      BY <2>a, <2>15
         DEF IdleFire, writerVars, readerVars, State, WPC, TypeControl
    <3>4. TypeReaders'
      BY <2>a, <2>15
         DEF IdleFire, writerVars, readerVars, RPC, Outcome, TypeReaders
    <3> QED
      BY <3>1, <3>2, <3>3, <3>4 DEF TypeOK
  <2>16. CASE UNCHANGED vars
    <3>1. TypeFlags'
      BY <2>a, <2>16
         DEF vars, entryVars, timerVars, storeVars, writerVars, readerVars, TypeFlags
    <3>2. TypeBytes'
      BY <2>a, <2>16
         DEF vars, entryVars, timerVars, storeVars, writerVars, readerVars, TypeBytes
    <3>3. TypeControl'
      BY <2>a, <2>16
         DEF vars, entryVars, timerVars, storeVars, writerVars, readerVars, State, WPC, TypeControl
    <3>4. TypeReaders'
      BY <2>a, <2>16
         DEF vars, entryVars, timerVars, storeVars, writerVars, readerVars, RPC, Outcome, TypeReaders
    <3> QED
      BY <3>1, <3>2, <3>3, <3>4 DEF TypeOK
  <2> QED
    BY <2>1, <2>2, <2>3, <2>4, <2>5, <2>6, <2>7, <2>8, <2>9, <2>10, <2>11, <2>12,
       <2>13, <2>14, <2>15, <2>16
       DEF Next, WriterStep, ReaderStep, ReadAtStep, Ended
<1> QED
  BY <1>1, <1>2, PTL DEF Spec
-----------------------------------------------------------------------------
(***************************************************************************)
(* The inductive invariant.  LifeInv ties the entry's flags to where the   *)
(* writer and each reader are; ByteInv says where every byte is: in the    *)
(* file up to fileBytes, then in the ring, then in the writer's hands.     *)
(***************************************************************************)
OffLock == {"filewrite", "sync", "rename", "meta", "indexed"}

LifeInv ==
    /\ state = "writing" <=> wpc \notin {"erred", "done"}
    /\ released => state # "writing" /\ readers = {}
    /\ idle # 0 => readers = {}
    /\ 0 \notin firing
    /\ abandoned => readers = {}
    /\ wpc \in OffLock => ~degraded
    /\ wpc = "ring" => degraded
    /\ ~backed => degraded
    /\ \A r \in Reader :
          /\ r \in readers <=> rpc[r] \in {"open", "readat", "blocked"} /\ ~closed[r]
          /\ rpc[r] \in {"absent", "refused"} => ~closed[r]

FileShape == size = fileBytes /\ mem = <<>> /\ memBase = 0
RingShape == degraded /\ memBase >= fileBytes /\ size = memBase + Len(mem)

Placed ==
    /\ ~released => FileShape \/ RingShape
    /\ state = "writing" /\ degraded => RingShape
    /\ fileBytes <= size
    /\ fileBytes > 0 => backed
    /\ \A i \in 1..Len(mem) : mem[i] = memBase + i

Pending ==
    /\ wpc \in {"filewrite", "ring"} =>
          size + Len(p) = produced /\ \A i \in 1..Len(p) : p[i] = size + i
    /\ wpc \in {"run", "sync", "rename", "meta", "indexed"} => produced = size
    /\ state = "complete" => produced = size

Positions ==
    \A r \in Reader :
        /\ pos[r] <= size
        /\ r \in readers /\ memBase > fileBytes => memBase <= pos[r]
        /\ rpc[r] = "readat" => pos[r] + want[r] <= fileBytes

Results ==
    \A r \in Reader :
        /\ result[r] # "broken"
        /\ rpc[r] \in {"readat", "blocked"} => result[r] = "none"
        /\ result[r] = "eof" => pos[r] = size /\ state = "complete"

ByteInv == Placed /\ Pending /\ Positions /\ Results

-----------------------------------------------------------------------------
\* The two ways a pass of the ring loop ends, with its LET names spelled out.
Kept == SubSeq(mem, Consumed + 1, Len(mem))
Fits(q) == Smaller(RingSpace(Len(Kept)), Len(q))

RingGivesUp(q) ==
    /\ Fits(q) < Len(q) /\ everAttached /\ readers = {}
    /\ abandoned' = TRUE /\ wpc' = "erred" /\ FailEntry

RingAppends(q) ==
    /\ mem' = Kept \o SubSeq(q, 1, Fits(q))
    /\ wpc' = IF Fits(q) < Len(q) THEN "ring" ELSE "run"
    /\ registered' = FALSE
    /\ UNCHANGED <<abandoned, state, idle, released, disk>>

LEMMA RingPassSplit ==
  ASSUME NEW q, NEW base, NEW sz, RingPass(q, base, sz)
  PROVE  /\ memBase' = base + Consumed
         /\ size' = sz + Fits(q)
         /\ p' = Remaining(q, Fits(q))
         /\ RingGivesUp(q) \/ RingAppends(q)
  BY DEF RingPass, RingGivesUp, RingAppends, Kept, Fits, Unregister

\* A pass of the ring loop keeps LifeInv's clauses about the entry.
LEMMA RingPassLife ==
  ASSUME NEW q, NEW base, NEW sz, RingPass(q, base, sz), LifeInv, TypeOK,
         state = "writing", degraded' = TRUE,
         UNCHANGED <<backed, readers, firing, readerVars>>
  PROVE  LifeInv'
<1>1. CASE RingGivesUp(q)
  BY <1>1 DEF RingGivesUp, FailEntry, DisarmIdle, MaybeRelease, LifeInv, OffLock, readerVars
<1>2. CASE RingAppends(q)
  BY <1>2 DEF RingAppends, LifeInv, OffLock, readerVars
<1> QED
  BY <1>1, <1>2, RingPassSplit

LEMMA LifeInductive ==
  ASSUME LifeInv, TypeOK, [Next]_vars
  PROVE  LifeInv'
<1> USE DEF LifeInv, OffLock, Broadcast, Unregister, DisarmIdle
<1>1. ASSUME NEW n \in 1..MaxChunk, WriteStart(n) PROVE LifeInv'
  <2>1. CASE abandoned
    BY <1>1, <2>1 DEF WriteStart, FailEntry, MaybeRelease, readerVars
  <2>2. CASE ~abandoned /\ degraded
    <3>1. /\ RingPass(Chunk(n), memBase, size) /\ state = "writing" /\ degraded' = TRUE
          /\ UNCHANGED <<backed, readers, firing, readerVars>>
      BY <1>1, <2>2 DEF WriteStart, TypeOK, TypeFlags
    <3> QED
      BY <3>1, RingPassLife
  <2>3. CASE ~abandoned /\ ~degraded
    BY <1>1, <2>3 DEF WriteStart, readerVars
  <2> QED
    BY <2>1, <2>2, <2>3
<1>2. CASE FileWriteOK
  BY <1>2 DEF FileWriteOK, timerVars, readerVars
<1>3. ASSUME NEW n \in 0..(MaxChunk - 1), FileWriteFail(n) PROVE LifeInv'
  <2>1. /\ RingPass(Remaining(p, n), size + n, size + n) /\ state = "writing" /\ degraded' = TRUE
        /\ UNCHANGED <<backed, readers, firing, readerVars>>
    BY <1>3 DEF FileWriteFail
  <2> QED
    BY <2>1, RingPassLife
<1>4. CASE RingWake
  <2>1. /\ RingPass(p, memBase, size) /\ state = "writing" /\ degraded' = TRUE
        /\ UNCHANGED <<backed, readers, firing, readerVars>>
    BY <1>4 DEF RingWake, TypeOK, TypeFlags
  <2> QED
    BY <2>1, RingPassLife
<1>5. CASE CompleteStart
  BY <1>5 DEF CompleteStart, Promotable, FailEntry, FinishComplete, MaybeRelease, readerVars
<1>6. CASE PromoteStep
  BY <1>6 DEF PromoteStep, entryVars, timerVars, readerVars
<1>7. CASE PromoteOK
  BY <1>7 DEF PromoteOK, FinishComplete, MaybeRelease, timerVars, readerVars
<1>8. CASE PromoteFail
  BY <1>8 DEF PromoteFail, FinishComplete, MaybeRelease, timerVars, readerVars
<1>9. CASE Fail
  BY <1>9 DEF Fail, FailEntry, MaybeRelease, readerVars
<1>10. ASSUME NEW r \in Reader, NewReader(r) PROVE LifeInv'
  BY <1>10 DEF NewReader, Joinable, storeVars, writerVars, TypeOK, TypeReaders, RPC
<1>11. ASSUME NEW r \in Reader, NEW n \in 1..MaxChunk, Read(r, n) PROVE LifeInv'
  BY <1>11 DEF Read, entryVars, timerVars, storeVars, writerVars, TypeOK, TypeReaders
<1>12. ASSUME NEW r \in Reader, NEW n \in 0..MaxChunk, ReadAt(r, n) PROVE LifeInv'
  BY <1>12 DEF ReadAt, entryVars, timerVars, storeVars, writerVars, TypeOK, TypeReaders
<1>13. ASSUME NEW r \in Reader, Close(r) PROVE LifeInv'
  BY <1>13 DEF Close, ArmIdle, MaybeRelease, writerVars, TypeOK, TypeReaders, TypeControl
<1>14. CASE TimerExpire
  BY <1>14 DEF TimerExpire, entryVars, storeVars, writerVars, readerVars
<1>15. ASSUME NEW it \in firing, IdleFire(it) PROVE LifeInv'
  BY <1>15 DEF IdleFire, writerVars, readerVars
<1>16. CASE UNCHANGED vars
  BY <1>16 DEF vars, entryVars, timerVars, storeVars, writerVars, readerVars
<1> QED
  BY <1>1, <1>2, <1>3, <1>4, <1>5, <1>6, <1>7, <1>8, <1>9, <1>10, <1>11, <1>12,
     <1>13, <1>14, <1>15, <1>16
     DEF Next, WriterStep, ReaderStep, ReadAtStep, Ended

-----------------------------------------------------------------------------
\* A pass of the ring loop keeps every byte where ByteInv says it is: the ring
\* loses only what each attached reader has taken, and gains the next bytes.
LEMMA RingPassBytes ==
  ASSUME TypeOK, LifeInv, Results, state = "writing",
         NEW q \in Seq(Nat), NEW base \in Nat, NEW sz \in Nat,
         RingPass(q, base, sz),
         base = memBase \/ mem = <<>>,
         fileBytes' \in Nat, fileBytes <= fileBytes', fileBytes' <= base, degraded' = TRUE,
         produced' \in Nat,
         sz = base + Len(mem),
         fileBytes' > 0 => backed,
         \A i \in 1..Len(mem) : mem[i] = base + i,
         sz + Len(q) = produced',
         \A i \in 1..Len(q) : q[i] = sz + i,
         \A r \in Reader : /\ pos[r] <= sz
                           /\ r \in readers /\ base > fileBytes' => base <= pos[r]
                           /\ rpc[r] = "readat" => pos[r] + want[r] <= fileBytes,
         UNCHANGED <<backed, readers, readerVars>>
  PROVE  ByteInv'
<1> DEFINE n == Fits(q)
<1>1. Consumed \in 0..Len(mem) /\ Len(mem) \in Nat /\ Len(q) \in Nat /\ Len(mem) <= RingCap
  BY ConsumedBound DEF TypeOK, TypeBytes
<1>2. Kept \in Seq(Nat) /\ Len(Kept) = Len(mem) - Consumed
      /\ \A i \in 1..Len(Kept) : Kept[i] = mem[Consumed + i]
  <2>1. mem \in Seq(Nat) /\ Consumed + 1 \in Nat \ {0} /\ Len(mem) \in 0..Len(mem)
    BY <1>1 DEF TypeOK, TypeBytes
  <2>2. \A i \in 1..Len(Kept) : Kept[i] = mem[Consumed + 1 + i - 1]
    BY <2>1, SubSeqNat, SMTT(30) DEF Kept
  <2>3. Kept \in Seq(Nat) /\ Len(Kept) = Len(mem) - Consumed
    BY <1>1, <2>1, SubSeqNat DEF Kept
  <2> QED
    BY <1>1, <2>2, <2>3, SMTT(30)
<1>3. n \in 0..Len(q)
  BY <1>1, <1>2, RingCapAssumption DEF Fits, Smaller, RingSpace
<1> HIDE DEF n
<1>4. memBase' = base + Consumed /\ size' = sz + n /\ p' = Remaining(q, n)
      /\ (RingGivesUp(q) \/ RingAppends(q))
  BY RingPassSplit DEF n
<1>5. /\ rpc' = rpc /\ pos' = pos /\ want' = want /\ closed' = closed /\ got' = got
      /\ result' = result /\ readers' = readers /\ backed' = backed
  BY DEF readerVars
<1>6. \A r \in Reader : pos[r] \in Nat /\ want[r] \in Nat
  BY DEF TypeOK, TypeReaders
<1>7. Positions'
  <2> SUFFICES ASSUME NEW r \in Reader
               PROVE  /\ pos[r] <= size'
                      /\ r \in readers /\ memBase' > fileBytes' => memBase' <= pos[r]
                      /\ rpc[r] = "readat" => pos[r] + want[r] <= fileBytes'
    BY <1>5 DEF Positions
  <2>1. pos[r] <= size'
    BY <1>3, <1>4, <1>6, SMTT(30)
  <2>2. rpc[r] = "readat" => pos[r] + want[r] <= fileBytes'
    BY <1>6 DEF TypeOK, TypeBytes
  <2>3. ASSUME r \in readers, memBase' > fileBytes' PROVE memBase' <= pos[r]
    <3>1. CASE Consumed = 0
      BY <1>4, <1>6, <2>3, <3>1
    <3>2. CASE Consumed > 0
      <4>1. mem # <<>>
        BY <3>2, ConsumedBound
      <4>2. memBase + Consumed <= pos[r]
        BY <2>3, <3>2, ConsumedBound
      <4> QED
        BY <1>4, <4>1, <4>2
    <3> QED
      BY <1>1, <3>1, <3>2
  <2> QED
    BY <2>1, <2>2, <2>3
<1>8. CASE RingGivesUp(q)
  <2>1. /\ state' = "failed" /\ released' = TRUE /\ mem' = <<>> /\ wpc' = "erred"
    BY <1>8 DEF RingGivesUp, FailEntry, MaybeRelease, LifeInv
  <2>2. Placed'
    BY <1>1, <1>3, <1>4, <1>5, <2>1 DEF Placed, RingShape
  <2>3. Pending'
    BY <2>1 DEF Pending
  <2>4. Results'
    BY <1>5, <2>1 DEF Results
  <2> QED
    BY <1>7, <2>2, <2>3, <2>4 DEF ByteInv
<1>9. CASE RingAppends(q)
  <2> DEFINE t == SubSeq(q, 1, n)
  <2>1. t \in Seq(Nat) /\ Len(t) = n /\ \A i \in 1..n : t[i] = q[i]
    <3>1. 1 \in Nat \ {0} /\ n \in 0..Len(q)
      BY <1>3
    <3>2. /\ t \in Seq(Nat) /\ Len(t) = IF 1 <= n THEN n - 1 + 1 ELSE 0
          /\ \A i \in 1..Len(t) : t[i] = q[1 + i - 1]
      BY <3>1, SubSeqNat
    <3>3. Len(t) = n
      BY <1>1, <3>1, <3>2
    <3> HIDE DEF t
    <3> QED
      BY <1>1, <1>3, <3>2, <3>3, SMTT(30)
  <2>2. mem' = Kept \o t
    BY <1>9 DEF RingAppends, n
  <2> HIDE DEF t
  <2>3. Len(mem') = Len(Kept) + n
    BY <1>2, <2>1, <2>2, ConcatNat
  <2>4. size' = memBase' + Len(mem')
    BY <1>1, <1>2, <1>3, <1>4, <2>3
  <2>5. ASSUME NEW i \in 1..Len(mem') PROVE mem'[i] = memBase' + i
    <3>1. CASE i <= Len(Kept)
      <4>1. mem'[i] = Kept[i] /\ i \in 1..Len(Kept)
        BY <1>2, <2>1, <2>2, <3>1, <2>3, <1>3, <1>1, ConcatNat, SMTT(30)
      <4>2. Kept[i] = mem[Consumed + i] /\ Consumed + i \in 1..Len(mem)
        <5>1. Kept[i] = mem[Consumed + i]
          BY <1>2, <4>1
        <5>2. i \in Nat /\ 1 <= i /\ i <= Len(mem) - Consumed
          BY <1>1, <1>2, <4>1
        <5> QED
          BY <1>1, <5>1, <5>2
      <4> QED
        BY <1>1, <1>4, <4>1, <4>2, SMTT(30)
    <3>2. CASE i > Len(Kept)
      <4>1. i - Len(Kept) \in 1..n
        BY <1>1, <1>2, <1>3, <2>3, <3>2
      <4>2. mem'[Len(Kept) + (i - Len(Kept))] = t[i - Len(Kept)]
        BY <1>2, <2>1, <2>2, <4>1, ConcatNat
      <4>3. mem'[i] = q[i - Len(Kept)]
        <5>1. i \in Int /\ Len(Kept) \in Int
          BY <1>1, <1>2, <1>3, <2>3
        <5>2. Len(Kept) + (i - Len(Kept)) = i
          BY <5>1
        <5>3. t[i - Len(Kept)] = q[i - Len(Kept)]
          BY <2>1, <4>1
        <5> QED
          BY <4>2, <5>2, <5>3
      <4>4. q[i - Len(Kept)] = sz + (i - Len(Kept))
        BY <1>1, <1>3, <4>1, SMTT(30)
      <4> QED
        BY <1>1, <1>2, <1>4, <4>3, <4>4, <2>3, <1>3
    <3> QED
      BY <1>1, <1>2, <1>3, <2>3, <3>1, <3>2
  <2>6. state' = state /\ released' = released
        /\ wpc' = IF n < Len(q) THEN "ring" ELSE "run"
    BY <1>9 DEF RingAppends, n
  <2>7. Placed'
    <3>1. RingShape'
      BY <1>1, <1>4, <2>4 DEF RingShape
    <3>2. fileBytes' <= size'
      BY <1>3, <1>4, <1>1
    <3> QED
      BY <1>5, <2>5, <3>1, <3>2 DEF Placed
  <2>8. Pending'
    <3>1. /\ Len(p') = Len(q) - n
          /\ \A i \in 1..Len(p') : p'[i] = q[n + i]
      <4>1. n + 1 \in Nat \ {0} /\ Len(q) \in 0..Len(q)
        BY <1>1, <1>3
      <4>2. /\ Len(p') = IF n + 1 <= Len(q) THEN Len(q) - (n + 1) + 1 ELSE 0
            /\ \A i \in 1..Len(p') : p'[i] = q[n + 1 + i - 1]
        BY <1>4, <4>1, SubSeqNat, SMTT(30) DEF Remaining
      <4>3. Len(p') = Len(q) - n
        BY <1>1, <1>3, <4>2
      <4>4. ASSUME NEW i \in 1..Len(p') PROVE p'[i] = q[n + i]
        <5>1. i \in Int /\ n \in Int
          BY <1>1, <1>3, <4>3
        <5>2. n + 1 + i - 1 = n + i
          BY <5>1
        <5> QED
          BY <4>2, <5>2
      <4> QED
        BY <4>3, <4>4
    <3>2. size' + Len(p') = produced'
      BY <1>1, <1>3, <1>4, <3>1
    <3>3. ASSUME NEW i \in 1..Len(p') PROVE p'[i] = size' + i
      <4>1. i \in Int /\ n \in Int /\ 1 <= i /\ i <= Len(q) - n
        BY <1>1, <1>3, <3>1
      <4>2. n + i \in 1..Len(q)
        BY <1>1, <1>3, <4>1
      <4>3. p'[i] = sz + (n + i)
        BY <3>1, <4>2
      <4> QED
        BY <1>4, <4>1, <4>3
    <3>4. ~(n < Len(q)) => produced' = size'
      BY <1>1, <1>3, <1>4
    <3> QED
      BY <2>6, <3>2, <3>3, <3>4 DEF Pending
  <2>9. Results'
    BY <1>5, <2>6 DEF Results
  <2> QED
    BY <1>7, <2>7, <2>8, <2>9 DEF ByteInv
<1> QED
  BY <1>4, <1>8, <1>9

\* Steps that move no byte: only flags and control change.
LEMMA BytesUntouched ==
  ASSUME TypeOK, LifeInv, ByteInv, LifeInv',
         UNCHANGED <<size, fileBytes, memBase, produced, p, pos, want, got, result>>,
         mem' = mem \/ (released' /\ state' # "writing" /\ mem' = <<>>),
         backed' = backed, degraded => degraded',
         ~released' => ~released,
         ~released' /\ mem' = mem /\ state' = "writing" => degraded' = degraded /\ state = "writing",
         readers' \subseteq readers,
         \A r \in Reader : rpc'[r] = rpc[r],
         wpc' \in {"filewrite", "ring"} => wpc' = wpc,
         wpc' \in {"run", "sync", "rename", "meta", "indexed"} => produced = size,
         state' = "complete" => produced = size,
         state = "complete" => state' = "complete"
  PROVE  ByteInv'
<1>1. Placed'
  <2>1. ~released' => mem' = mem \/ mem' = <<>>
    OBVIOUS
  <2>2. ~released' => FileShape' \/ RingShape'
    BY DEF ByteInv, Placed, FileShape, RingShape
  <2>3. state' = "writing" /\ degraded' => RingShape'
    BY DEF ByteInv, Placed, FileShape, RingShape, LifeInv
  <2>4. \A k \in 1..Len(mem') : mem'[k] = memBase' + k
    BY DEF ByteInv, Placed
  <2> QED
    BY <2>2, <2>3, <2>4 DEF ByteInv, Placed
<1>2. Pending'
  BY DEF ByteInv, Pending
<1>3. Positions'
  BY DEF ByteInv, Positions
<1>4. Results'
  BY DEF ByteInv, Results
<1> QED
  BY <1>1, <1>2, <1>3, <1>4 DEF ByteInv

\* Reading n more bytes leaves a reader at or before the end of the stream.
LEMMA ReadBytes ==
  ASSUME TypeOK, LifeInv, ByteInv, NEW r \in Reader, NEW n \in Nat,
         (Read(r, n) /\ n > 0) \/ ReadAt(r, n)
  PROVE  ByteInv'
<1>1. /\ UNCHANGED <<entryVars, timerVars, storeVars, writerVars, closed>>
  BY DEF Read, ReadAt
<1>2. /\ pos \in [Reader -> Nat] /\ want \in [Reader -> Nat] /\ rpc \in [Reader -> RPC]
      /\ result \in [Reader -> Outcome]
      /\ pos[r] \in Nat /\ want[r] \in Nat /\ size \in Nat /\ fileBytes \in Nat /\ memBase \in Nat
      /\ Len(mem) \in Nat
  BY DEF TypeOK, TypeReaders, TypeBytes
<1>3. Placed' /\ Pending'
  BY <1>1 DEF ByteInv, Placed, Pending, FileShape, RingShape, entryVars, writerVars
<1>4. CASE Read(r, n) /\ n > 0
  <2> DEFINE off   == pos[r] - memBase
             avail == Len(mem) - off
             take  == Smaller(n, avail)
  <2>1. CASE closed[r]
    <3>1. UNCHANGED <<pos, want>> /\ result' = [result EXCEPT ![r] = "closed"]
          /\ rpc' = [rpc EXCEPT ![r] = "open"]
      BY <1>4, <2>1 DEF Read
    <3> QED
      BY <1>1, <1>2, <1>3, <3>1 DEF ByteInv, Positions, Results, entryVars
  <2>2. CASE ~closed[r]
    <3>1. r \in readers /\ ~released
      BY <1>4, <2>2 DEF Read, LifeInv
    <3>2. CASE pos[r] < size /\ FileOpen /\ pos[r] < fileBytes
      <4>1. UNCHANGED <<pos, result>> /\ rpc' = [rpc EXCEPT ![r] = "readat"]
            /\ want' = [want EXCEPT ![r] = Smaller(n, fileBytes - pos[r])]
        BY <1>2, <1>4, <2>2, <3>2 DEF Read
      <4>2. result[r] = "none"
        BY <1>4 DEF Read
      <4>3. want'[r] <= fileBytes - pos[r] /\ want'[r] \in Int
        BY <1>2, <3>2, <4>1 DEF Smaller
      <4>4. Positions'
        BY <1>1, <1>2, <4>1, <4>3 DEF ByteInv, Positions, entryVars
      <4>5. Results'
        BY <1>1, <1>2, <4>1, <4>2 DEF ByteInv, Results, entryVars
      <4> QED
        BY <1>3, <4>4, <4>5 DEF ByteInv
    <3>3. CASE pos[r] < size /\ ~(FileOpen /\ pos[r] < fileBytes)
      <4>1. pos[r] >= fileBytes
        BY <1>2, <3>1, <3>3 DEF FileOpen, ByteInv, Placed
      <4>2. RingShape
        BY <1>2, <3>1, <3>3, <4>1 DEF ByteInv, Placed, FileShape
      <4>3. memBase <= pos[r]
        BY <1>2, <3>1, <4>1, <4>2 DEF ByteInv, Positions, RingShape
      <4>4. off \in Int /\ avail \in Int /\ off >= 0 /\ avail > 0 /\ off + avail = Len(mem)
        BY <1>2, <3>3, <4>2, <4>3 DEF RingShape
      <4>5. pos' = [pos EXCEPT ![r] = @ + take] /\ UNCHANGED <<want, result>>
            /\ rpc' = [rpc EXCEPT ![r] = "open"]
        <5>1. ~(avail <= 0 \/ off < 0)
          BY <4>4
        <5> QED
          BY <1>2, <1>4, <2>2, <3>3, <5>1 DEF Read
      <4>6. take \in Int /\ 0 < take /\ take <= avail
        BY <1>4, <4>4 DEF Smaller
      <4>7. pos[r] + take <= size /\ memBase <= pos[r] + take
        <5>1. size = memBase + Len(mem) /\ pos[r] = memBase + off
          BY <1>2, <4>2 DEF RingShape
        <5> HIDE DEF off, avail, take
        <5> QED
          BY <1>2, <4>4, <4>6, <5>1
      <4> HIDE DEF off, avail, take
      <4>8. pos'[r] = pos[r] + take /\ \A s \in Reader \ {r} : pos'[s] = pos[s]
        BY <1>2, <4>5
      <4>9. Positions'
        BY <1>1, <1>2, <4>5, <4>7, <4>8 DEF ByteInv, Positions, entryVars
      <4>10. result[r] = "none"
        BY <1>4 DEF Read
      <4>11. Results'
        BY <1>1, <1>2, <4>5, <4>8, <4>10 DEF ByteInv, Results, entryVars
      <4> QED
        BY <1>3, <4>9, <4>11 DEF ByteInv
    <3>4. CASE pos[r] >= size
      <4>1. pos[r] = size
        BY <1>2, <3>4 DEF ByteInv, Positions
      <4>2. /\ UNCHANGED <<pos, want>>
            /\ \/ state = "complete" /\ result' = [result EXCEPT ![r] = "eof"]
                  /\ rpc' = [rpc EXCEPT ![r] = "open"]
               \/ result' = [result EXCEPT ![r] = "err"] /\ rpc' = [rpc EXCEPT ![r] = "open"]
               \/ UNCHANGED result /\ rpc' = [rpc EXCEPT ![r] = "blocked"]
        BY <1>2, <1>4, <2>2, <3>4 DEF Read
      <4>3. result[r] = "none"
        BY <1>4 DEF Read
      <4>4. Positions'
        BY <1>1, <1>2, <4>2 DEF ByteInv, Positions, entryVars
      <4>5. Results'
        BY <1>1, <1>2, <4>1, <4>2, <4>3 DEF ByteInv, Results, entryVars
      <4> QED
        BY <1>3, <4>4, <4>5 DEF ByteInv
    <3> QED
      BY <1>2, <3>2, <3>3, <3>4
  <2> QED
    BY <2>1, <2>2
<1>5. CASE ReadAt(r, n)
  <2>1. rpc[r] = "readat" /\ n <= want[r] /\ rpc' = [rpc EXCEPT ![r] = "open"]
        /\ want' = [want EXCEPT ![r] = 0]
    BY <1>5 DEF ReadAt
  <2>2. pos[r] + n <= fileBytes /\ result[r] = "none"
    BY <1>2, <2>1 DEF ByteInv, Positions, Results
  <2>3. fileBytes <= size
    BY DEF ByteInv, Placed
  <2>4. CASE closed[r]
    <3>1. UNCHANGED pos /\ result' = [result EXCEPT ![r] = "closed"]
      BY <1>5, <2>4 DEF ReadAt
    <3> QED
      BY <1>1, <1>2, <1>3, <2>1, <3>1 DEF ByteInv, Positions, Results, entryVars
  <2>5. CASE ~closed[r]
    <3>1. pos' = [pos EXCEPT ![r] = @ + n]
          /\ result' = [result EXCEPT ![r] = IF n > 0 THEN @ ELSE "ioerr"]
      BY <1>5, <2>5 DEF ReadAt
    <3>2. pos'[r] = pos[r] + n /\ \A s \in Reader \ {r} : pos'[s] = pos[s]
      BY <1>2, <3>1
    <3>3. pos'[r] <= size /\ (r \in readers /\ memBase > fileBytes => memBase <= pos'[r])
      BY <1>2, <2>2, <2>3, <3>2 DEF ByteInv, Positions
    <3>4. Positions'
      BY <1>1, <1>2, <2>1, <3>2, <3>3 DEF ByteInv, Positions, entryVars
    <3>5. Results'
      BY <1>1, <1>2, <2>1, <2>2, <3>1, <3>2 DEF ByteInv, Results, entryVars
    <3> QED
      BY <1>3, <3>4, <3>5 DEF ByteInv
  <2> QED
    BY <2>4, <2>5
<1> QED
  BY <1>4, <1>5

LEMMA ByteInductive ==
  ASSUME TypeOK, LifeInv, ByteInv, LifeInv', [Next]_vars
  PROVE  ByteInv'
<1> USE DEF Broadcast, Unregister, DisarmIdle
<1>0. /\ Placed /\ Pending /\ Positions /\ Results
      /\ size \in Nat /\ fileBytes \in Nat /\ memBase \in Nat /\ produced \in Nat
      /\ mem \in Seq(Nat) /\ p \in Seq(Nat) /\ Len(p) \in Nat /\ Len(mem) \in Nat
      /\ degraded \in BOOLEAN /\ abandoned \in BOOLEAN
      /\ \A r \in Reader : pos[r] \in Nat /\ want[r] \in Nat
  BY DEF ByteInv, TypeOK, TypeBytes, TypeFlags, TypeReaders
<1>1. ASSUME NEW n \in 1..MaxChunk, WriteStart(n) PROVE ByteInv'
  <2>1. wpc = "run" /\ state = "writing" /\ ~released /\ produced = size /\ n \in Nat
    BY <1>0, <1>1, BoundsAssumption DEF WriteStart, LifeInv, Pending
  <2>2. Chunk(n) \in Seq(Nat) /\ Len(Chunk(n)) = n /\ \A i \in 1..n : Chunk(n)[i] = size + i
    BY <1>0, <2>1, ChunkIsSeq DEF Chunk
  <2>3. CASE abandoned
    <3>1. /\ UNCHANGED <<size, fileBytes, memBase, produced, p, backed, degraded, readers, readerVars>>
          /\ state' = "failed" /\ wpc' = "erred" /\ MaybeRelease("failed", readers, promoted)
      BY <1>1, <2>3 DEF WriteStart, FailEntry
    <3> QED
      BY <2>1, <3>1, BytesUntouched DEF MaybeRelease, readerVars
  <2>4. CASE ~abandoned /\ degraded
    <3>1. /\ RingPass(Chunk(n), memBase, size) /\ produced' = produced + n
          /\ UNCHANGED <<backed, fileBytes, degraded, readers, readerVars>>
      BY <1>1, <2>4 DEF WriteStart
    <3>2. RingShape
      BY <1>0, <2>1, <2>4 DEF Placed
    <3>3. /\ fileBytes' \in Nat /\ fileBytes <= fileBytes' /\ fileBytes' <= memBase
          /\ degraded' = TRUE /\ produced' \in Nat
          /\ size = memBase + Len(mem) /\ size + Len(Chunk(n)) = produced'
          /\ fileBytes' > 0 => backed
      BY <1>0, <2>1, <2>2, <2>4, <3>1, <3>2 DEF RingShape, Placed
    <3>4. /\ \A i \in 1..Len(mem) : mem[i] = memBase + i
          /\ \A i \in 1..Len(Chunk(n)) : Chunk(n)[i] = size + i
      BY <1>0, <2>2 DEF Placed
    <3>5. \A r \in Reader : /\ pos[r] <= size
                            /\ r \in readers /\ memBase > fileBytes' => memBase <= pos[r]
                            /\ rpc[r] = "readat" => pos[r] + want[r] <= fileBytes
      BY <1>0, <3>1 DEF Positions
    <3>6. UNCHANGED <<backed, readers, readerVars>>
      BY <3>1
    <3> QED
      BY <1>0, <2>1, <2>2, <3>1, <3>3, <3>4, <3>5, <3>6, RingPassBytes
  <2>5. CASE ~abandoned /\ ~degraded
    <3>1. /\ UNCHANGED <<size, fileBytes, memBase, mem, state, released, backed, degraded,
                         readers, readerVars>>
          /\ produced' = produced + n /\ p' = Chunk(n) /\ wpc' = "filewrite"
      BY <1>1, <2>5 DEF WriteStart
    <3>2. Placed' /\ Positions' /\ Results'
      BY <1>0, <3>1 DEF Placed, Positions, Results, FileShape, RingShape, readerVars
    <3>3. Pending'
      BY <1>0, <2>1, <2>2, <3>1 DEF Pending
    <3> QED
      BY <3>2, <3>3 DEF ByteInv
  <2> QED
    BY <2>3, <2>4, <2>5
<1>2. CASE FileWriteOK
  <2>1. /\ wpc = "filewrite" /\ wpc' = "run" /\ p' = <<>>
        /\ fileBytes' = fileBytes + Len(p) /\ size' = size + Len(p)
        /\ UNCHANGED <<state, mem, memBase, released, backed, degraded, readers, produced, readerVars>>
    BY <1>2 DEF FileWriteOK
  <2>2. ~degraded /\ backed /\ state = "writing" /\ ~released
    BY <2>1 DEF LifeInv, OffLock
  <2>3. FileShape /\ size + Len(p) = produced
    BY <1>0, <2>1, <2>2 DEF Placed, RingShape, Pending
  <2>4. Placed'
    BY <1>0, <2>1, <2>2, <2>3 DEF Placed, FileShape, RingShape
  <2>5. Pending'
    BY <1>0, <2>1, <2>2, <2>3 DEF Pending
  <2>6. Positions'
    BY <1>0, <2>1, <2>3 DEF Positions, FileShape, readerVars
  <2>7. Results'
    BY <1>0, <2>1, <2>2 DEF Results, readerVars
  <2> QED
    BY <2>4, <2>5, <2>6, <2>7 DEF ByteInv
<1>3. ASSUME NEW n \in 0..(MaxChunk - 1), FileWriteFail(n) PROVE ByteInv'
  <2>1. /\ wpc = "filewrite" /\ n \in Nat /\ n < Len(p)
        /\ fileBytes' = fileBytes + n /\ degraded' = TRUE
        /\ RingPass(Remaining(p, n), size + n, size + n)
        /\ UNCHANGED <<backed, readers, produced, readerVars>>
    BY <1>3, BoundsAssumption DEF FileWriteFail
  <2>2. ~degraded /\ backed /\ state = "writing" /\ ~released
    BY <2>1 DEF LifeInv, OffLock
  <2>3. size = fileBytes /\ mem = <<>> /\ memBase = 0 /\ size + Len(p) = produced
        /\ \A i \in 1..Len(p) : p[i] = size + i
    BY <1>0, <2>1, <2>2 DEF Placed, FileShape, RingShape, Pending
  <2> DEFINE q == Remaining(p, n)
  <2>4. n + 1 \in Nat \ {0} /\ Len(p) \in 0..Len(p)
    BY <1>0, <2>1
  <2>5. /\ q \in Seq(Nat) /\ Len(q) = IF n + 1 <= Len(p) THEN Len(p) - (n + 1) + 1 ELSE 0
        /\ \A i \in 1..Len(q) : q[i] = p[n + 1 + i - 1]
    BY <1>0, <2>4, SubSeqNat DEF Remaining
  <2>6. Len(q) = Len(p) - n
    BY <1>0, <2>1, <2>5
  <2> HIDE DEF q
  <2>7. ASSUME NEW i \in 1..Len(q) PROVE q[i] = size + n + i
    <3>1. i \in Int /\ 1 <= i /\ i <= Len(p) - n
      BY <1>0, <2>1, <2>6
    <3>2. n + 1 + i - 1 = n + i /\ n + i \in 1..Len(p)
      BY <1>0, <2>1, <3>1
    <3>3. q[i] = p[n + i]
      BY <2>5, <3>2
    <3>4. q[i] = size + (n + i)
      BY <2>3, <3>2, <3>3
    <3> QED
      BY <1>0, <2>1, <3>1, <3>4
  <2>8. /\ size + n \in Nat /\ fileBytes' \in Nat /\ fileBytes <= fileBytes'
        /\ fileBytes' <= size + n /\ produced' \in Nat /\ size + n = (size + n) + Len(mem)
        /\ (size + n) + Len(q) = produced'
    BY <1>0, <2>1, <2>3, <2>6
  <2>9. \A r \in Reader : /\ pos[r] <= size + n
                          /\ r \in readers /\ size + n > fileBytes' => size + n <= pos[r]
                          /\ rpc[r] = "readat" => pos[r] + want[r] <= fileBytes
    BY <1>0, <2>1, <2>3 DEF Positions
  <2>10. \A i \in 1..Len(mem) : mem[i] = size + n + i
    BY <2>3
  <2>11. RingPass(q, size + n, size + n) /\ UNCHANGED <<backed, readers, readerVars>>
    BY <2>1 DEF q
  <2> QED
    BY <1>0, <2>1, <2>2, <2>3, <2>5, <2>7, <2>8, <2>9, <2>10, <2>11, RingPassBytes, ZenonT(60)
<1>4. CASE RingWake
  <2>1. /\ wpc = "ring" /\ RingPass(p, memBase, size)
        /\ UNCHANGED <<backed, fileBytes, degraded, readers, produced, readerVars>>
    BY <1>4 DEF RingWake
  <2>2. degraded /\ state = "writing" /\ ~released
    BY <2>1 DEF LifeInv
  <2>3. RingShape
    BY <1>0, <2>2 DEF Placed
  <2>4. /\ fileBytes' \in Nat /\ fileBytes <= fileBytes' /\ fileBytes' <= memBase
        /\ degraded' = TRUE /\ produced' \in Nat
        /\ size = memBase + Len(mem) /\ size + Len(p) = produced'
        /\ fileBytes' > 0 => backed
    BY <1>0, <2>1, <2>2, <2>3 DEF RingShape, Placed, Pending
  <2>5. /\ \A i \in 1..Len(mem) : mem[i] = memBase + i
        /\ \A i \in 1..Len(p) : p[i] = size + i
    BY <1>0, <2>1 DEF Placed, Pending
  <2>6. \A r \in Reader : /\ pos[r] <= size
                          /\ r \in readers /\ memBase > fileBytes' => memBase <= pos[r]
                          /\ rpc[r] = "readat" => pos[r] + want[r] <= fileBytes
    BY <1>0, <2>1 DEF Positions
  <2>7. UNCHANGED <<backed, readers, readerVars>>
    BY <2>1
  <2> QED
    BY <1>0, <2>1, <2>2, <2>4, <2>5, <2>6, <2>7, RingPassBytes
<1>5. CASE CompleteStart
  <2>1. wpc = "run" /\ produced = size /\ state = "writing" /\ ~released
    BY <1>0, <1>5 DEF CompleteStart, Pending, LifeInv
  <2>2. /\ UNCHANGED <<size, fileBytes, memBase, produced, p, backed, degraded, readers, readerVars>>
        /\ \/ /\ state' \in {"failed", "complete"} /\ wpc' \in {"erred", "done"}
              /\ \E st \in {"failed", "complete"}, pr \in BOOLEAN : MaybeRelease(st, readers, pr)
           \/ UNCHANGED <<state, released, mem>> /\ wpc' = "sync"
    BY <1>5 DEF CompleteStart, FailEntry, FinishComplete, Promotable, TypeOK, TypeFlags
  <2>3. CASE UNCHANGED <<state, released, mem>> /\ wpc' = "sync"
    BY <2>1, <2>2, <2>3, BytesUntouched DEF readerVars
  <2>4. CASE /\ state' \in {"failed", "complete"} /\ wpc' \in {"erred", "done"}
             /\ \E st \in {"failed", "complete"}, pr \in BOOLEAN : MaybeRelease(st, readers, pr)
    BY <2>1, <2>2, <2>4, BytesUntouched DEF MaybeRelease, readerVars
  <2> QED
    BY <2>2, <2>3, <2>4
<1>6. CASE PromoteStep
  BY <1>0, <1>6, BytesUntouched DEF PromoteStep, Pending, entryVars, readerVars
<1>7. CASE PromoteOK
  BY <1>0, <1>7, BytesUntouched DEF PromoteOK, FinishComplete, MaybeRelease, Pending, LifeInv, readerVars
<1>8. CASE PromoteFail
  BY <1>0, <1>8, BytesUntouched DEF PromoteFail, FinishComplete, MaybeRelease, Pending, LifeInv, readerVars
<1>9. CASE Fail
  BY <1>0, <1>9, BytesUntouched DEF Fail, FailEntry, MaybeRelease, Pending, LifeInv, readerVars
<1>10. ASSUME NEW r \in Reader, NewReader(r) PROVE ByteInv'
  <2>1. /\ UNCHANGED <<state, size, fileBytes, mem, memBase, degraded, released, backed,
                       writerVars, pos, want, result>>
        /\ rpc[r] = "absent"
        /\ \E x \in {"open", "refused"} : rpc' = [rpc EXCEPT ![r] = x]
        /\ readers' = readers \/ (Joinable /\ readers' = readers \cup {r})
    BY <1>10 DEF NewReader
  <2>2. Placed' /\ Pending'
    BY <1>0, <2>1 DEF Placed, Pending, FileShape, RingShape, writerVars
  <2>3. rpc \in [Reader -> RPC]
    BY DEF TypeOK, TypeReaders
  <2>4. Joinable => ~(memBase > fileBytes)
    BY <1>0 DEF Joinable, Placed, FileShape, RingShape
  <2>5. Positions'
    BY <1>0, <2>1, <2>3, <2>4 DEF Positions
  <2>6. Results'
    BY <1>0, <2>1, <2>3 DEF Results
  <2> QED
    BY <2>2, <2>5, <2>6 DEF ByteInv
<1>11. ASSUME NEW r \in Reader, NEW n \in 1..MaxChunk, Read(r, n) PROVE ByteInv'
  BY <1>11, BoundsAssumption, ReadBytes
<1>12. ASSUME NEW r \in Reader, NEW n \in 0..MaxChunk, ReadAt(r, n) PROVE ByteInv'
  BY <1>12, BoundsAssumption, ReadBytes
<1>13. ASSUME NEW r \in Reader, Close(r) PROVE ByteInv'
  BY <1>0, <1>13, BytesUntouched DEF Close, MaybeRelease, Pending, writerVars
<1>14. CASE TimerExpire
  BY <1>0, <1>14, BytesUntouched DEF TimerExpire, Pending, entryVars, writerVars, readerVars
<1>15. ASSUME NEW it \in firing, IdleFire(it) PROVE ByteInv'
  BY <1>0, <1>15, BytesUntouched DEF IdleFire, Pending, writerVars, readerVars
<1>16. CASE UNCHANGED vars
  BY <1>0, <1>16, BytesUntouched DEF Pending, vars, entryVars, writerVars, readerVars
<1> QED
  BY <1>1, <1>2, <1>3, <1>4, <1>5, <1>6, <1>7, <1>8, <1>9, <1>10, <1>11, <1>12,
     <1>13, <1>14, <1>15, <1>16
     DEF Next, WriterStep, ReaderStep, ReadAtStep, Ended

LEMMA InvInit == Init => LifeInv /\ ByteInv
<1> SUFFICES ASSUME Init PROVE LifeInv /\ ByteInv
  OBVIOUS
<1>1. LifeInv
  BY DEF Init, LifeInv, OffLock
<1>2. ByteInv
  BY DEF Init, ByteInv, Placed, Pending, Positions, Results, FileShape, RingShape
<1> QED
  BY <1>1, <1>2

\* The inductive invariant holds throughout.
THEOREM EntryInvariant == Spec => [](TypeOK /\ LifeInv /\ ByteInv)
<1>1. TypeOK /\ LifeInv /\ ByteInv /\ [Next]_vars => LifeInv' /\ ByteInv'
  BY LifeInductive, ByteInductive
<1> QED
  BY <1>1, InvInit, TypeCorrect, PTL DEF Spec

\* The ring retains every byte an attached reader still needs, and Read never
\* reports a broken retention invariant, whatever the ring's capacity.
THEOREM RetentionHolds == Spec => []RingRetention
<1>1. TypeOK /\ LifeInv /\ ByteInv => RingRetention
  <2> SUFFICES ASSUME TypeOK, LifeInv, ByteInv PROVE RingRetention
    OBVIOUS
  <2>1. ASSUME NEW r \in readers, NEW b \in (pos[r] + 1)..size PROVE Readable(b)
    <3>1. r \in Reader /\ ~released /\ pos[r] \in Nat /\ size \in Nat /\ memBase \in Nat
          /\ fileBytes \in Nat /\ b \in Nat /\ pos[r] < b /\ b <= size /\ Len(mem) \in Nat
      BY <2>1 DEF LifeInv, TypeOK, TypeControl, TypeReaders, TypeBytes
    <3>2. CASE b <= fileBytes
      BY <3>1, <3>2 DEF Readable, FileOpen, ByteInv, Placed
    <3>3. CASE b > fileBytes
      <4>1. RingShape
        BY <3>1, <3>3 DEF ByteInv, Placed, FileShape
      <4>2. memBase < b /\ b <= memBase + Len(mem)
        BY <2>1, <3>1, <3>3, <4>1 DEF RingShape, ByteInv, Positions
      <4>3. b - memBase \in 1..Len(mem) /\ memBase + (b - memBase) = b
        BY <3>1, <4>2
      <4>4. mem[b - memBase] = memBase + (b - memBase)
        BY <4>3 DEF ByteInv, Placed
      <4> QED
        BY <4>2, <4>3, <4>4 DEF Readable
    <3> QED
      BY <3>1, <3>2, <3>3
  <2> QED
    BY <2>1 DEF RingRetention, ByteInv, Results
<1> QED
  BY <1>1, EntryInvariant, PTL

\* io.EOF is only reported at the end of a complete stream.
THEOREM EOFHolds == Spec => []EOFMeansWhole
<1>1. TypeOK /\ LifeInv /\ ByteInv => EOFMeansWhole
  BY DEF ByteInv, Pending, Results, EOFMeansWhole
<1> QED
  BY <1>1, EntryInvariant, PTL

\* An abandoned entry has no reader attached.
THEOREM AbandonedHolds == Spec => []AbandonedHasNoReader
<1>1. TypeOK /\ LifeInv /\ ByteInv => AbandonedHasNoReader
  BY DEF LifeInv, AbandonedHasNoReader
<1> QED
  BY <1>1, EntryInvariant, PTL
-----------------------------------------------------------------------------
(***************************************************************************)
(* The store's side.  What the registry, the disk and the index hold is    *)
(* a function of how far the writer and its promotion have come.           *)
(***************************************************************************)
Registry == registered <=> backed /\ state = "writing" /\ ~degraded /\ ~abandoned

OnDisk ==
    CASE ~backed -> {}
      [] backed /\ wpc = "meta" -> {"out"}
      [] backed /\ wpc = "indexed" -> {"out", "meta"}
      [] OTHER -> {"tmp"}

Index ==
    /\ promoted => indexed /\ wpc = "done"
    /\ wpc = "indexed" => indexed
    /\ indexed => /\ wpc \in {"indexed", "done"}
                  /\ wpc = "done" => promoted
                  /\ disk = {"out", "meta"}
                  /\ fileBytes = size
                  /\ state # "failed"

Files ==
    /\ state = "writing" => disk = OnDisk
    /\ released => "tmp" \notin disk

StoreInv == Registry /\ Index /\ Files

\* The readers' side: what each was handed, and that nobody is ahead of its
\* own attachment.
Handed ==
    \A r \in Reader :
        /\ got[r] = [i \in 1..pos[r] |-> i]
        /\ rpc[r] \in {"absent", "refused"} => pos[r] = 0

\* A pass of the ring loop leaves the registry, and the store otherwise alone.
LEMMA RingPassStore ==
  ASSUME NEW q, NEW base, NEW sz, RingPass(q, base, sz), LifeInv, StoreInv, TypeOK,
         state = "writing", wpc \in {"run", "filewrite", "ring"}, degraded' = TRUE,
         UNCHANGED <<backed, promoted, indexed, readers>>
  PROVE  StoreInv'
<1>1. ~promoted /\ ~indexed /\ ~promoted' /\ ~indexed'
  BY DEF StoreInv, Index
<1>2. disk = IF backed THEN {"tmp"} ELSE {}
  BY DEF StoreInv, Files, OnDisk
<1>3. CASE RingGivesUp(q)
  <2>1. state' = "failed" /\ wpc' = "erred" /\ registered' = FALSE
        /\ released' = TRUE /\ "tmp" \notin disk'
    BY <1>1, <1>3 DEF RingGivesUp, FailEntry, Unregister, MaybeRelease, LifeInv
  <2> QED
    BY <1>1, <2>1 DEF StoreInv, Registry, Index, Files
<1>4. CASE RingAppends(q)
  <2>1. registered' = FALSE /\ wpc' \in {"run", "ring"}
        /\ UNCHANGED <<state, released, disk>>
    BY <1>4 DEF RingAppends
  <2>2. ~released
    BY DEF LifeInv
  <2> QED
    BY <1>1, <1>2, <2>1, <2>2 DEF StoreInv, Registry, Index, Files, OnDisk
<1> QED
  BY <1>3, <1>4, RingPassSplit

LEMMA StoreInductive ==
  ASSUME TypeOK, LifeInv, ByteInv, StoreInv, [Next]_vars
  PROVE  StoreInv'
<1> USE DEF StoreInv, Registry, Index, Files, OnDisk, Unregister
<1>1. ASSUME NEW n \in 1..MaxChunk, WriteStart(n) PROVE StoreInv'
  <2>1. CASE abandoned
    BY <1>1, <2>1 DEF WriteStart, FailEntry, MaybeRelease, LifeInv
  <2>2. CASE ~abandoned /\ degraded
    <3>1. /\ RingPass(Chunk(n), memBase, size) /\ state = "writing" /\ degraded' = TRUE
          /\ wpc = "run" /\ UNCHANGED <<backed, promoted, indexed, readers>>
      BY <1>1, <2>2 DEF WriteStart, TypeOK, TypeFlags, LifeInv
    <3> QED
      BY <3>1, RingPassStore
  <2>3. CASE ~abandoned /\ ~degraded
    BY <1>1, <2>3 DEF WriteStart, LifeInv
  <2> QED
    BY <2>1, <2>2, <2>3
<1>2. CASE FileWriteOK
  BY <1>2 DEF FileWriteOK, storeVars, LifeInv
<1>3. ASSUME NEW n \in 0..(MaxChunk - 1), FileWriteFail(n) PROVE StoreInv'
  <2>1. /\ RingPass(Remaining(p, n), size + n, size + n) /\ state = "writing" /\ degraded' = TRUE
        /\ wpc = "filewrite" /\ UNCHANGED <<backed, promoted, indexed, readers>>
    BY <1>3 DEF FileWriteFail, LifeInv
  <2> QED
    BY <2>1, RingPassStore
<1>4. CASE RingWake
  <2>1. /\ RingPass(p, memBase, size) /\ state = "writing" /\ degraded' = TRUE
        /\ wpc = "ring" /\ UNCHANGED <<backed, promoted, indexed, readers>>
    BY <1>4 DEF RingWake, TypeOK, TypeFlags, LifeInv
  <2> QED
    BY <2>1, RingPassStore
<1>5. CASE CompleteStart
  BY <1>5 DEF CompleteStart, Promotable, FailEntry, FinishComplete, MaybeRelease, LifeInv
<1>6. CASE PromoteStep
  <2>1. ~degraded /\ ~released /\ backed /\ state = "writing"
    BY <1>6 DEF PromoteStep, LifeInv, OffLock
  <2>2. fileBytes = size
    BY <2>1 DEF ByteInv, Placed, FileShape, RingShape
  <2> QED
    BY <1>6, <2>1, <2>2 DEF PromoteStep, entryVars
<1>7. CASE PromoteOK
  BY <1>7 DEF PromoteOK, FinishComplete, MaybeRelease, LifeInv
<1>8. CASE PromoteFail
  BY <1>8 DEF PromoteFail, FinishComplete, MaybeRelease, LifeInv
<1>9. CASE Fail
  BY <1>9 DEF Fail, FailEntry, MaybeRelease, LifeInv
<1>10. ASSUME NEW r \in Reader, NewReader(r) PROVE StoreInv'
  BY <1>10 DEF NewReader, storeVars, writerVars
<1>11. ASSUME NEW r \in Reader, NEW n \in 1..MaxChunk, Read(r, n) PROVE StoreInv'
  <2>1. UNCHANGED <<entryVars, storeVars, writerVars>>
    BY <1>11 DEF Read
  <2> QED
    BY <2>1 DEF entryVars, storeVars, writerVars
<1>12. ASSUME NEW r \in Reader, NEW n \in 0..MaxChunk, ReadAt(r, n) PROVE StoreInv'
  <2>1. UNCHANGED <<entryVars, storeVars, writerVars>>
    BY <1>12 DEF ReadAt
  <2> QED
    BY <2>1 DEF entryVars, storeVars, writerVars
<1>13. ASSUME NEW r \in Reader, Close(r) PROVE StoreInv'
  BY <1>13 DEF Close, MaybeRelease, writerVars, LifeInv
<1>14. CASE TimerExpire
  BY <1>14 DEF TimerExpire, entryVars, storeVars, writerVars
<1>15. ASSUME NEW it \in firing, IdleFire(it) PROVE StoreInv'
  BY <1>15 DEF IdleFire, writerVars
<1>16. CASE UNCHANGED vars
  BY <1>16 DEF vars, entryVars, storeVars, writerVars
<1> QED
  BY <1>1, <1>2, <1>3, <1>4, <1>5, <1>6, <1>7, <1>8, <1>9, <1>10, <1>11, <1>12,
     <1>13, <1>14, <1>15, <1>16
     DEF Next, WriterStep, ReaderStep, ReadAtStep, Ended

LEMMA StoreInvariant == Spec => []StoreInv
<1>1. Init => StoreInv
  <2> SUFFICES ASSUME Init PROVE StoreInv
    OBVIOUS
  <2>1. /\ backed \in BOOLEAN /\ registered = backed /\ degraded = ~backed
        /\ ~promoted /\ ~released /\ ~abandoned /\ ~indexed
        /\ state = "writing" /\ wpc = "run"
        /\ disk = IF backed THEN {"tmp"} ELSE {}
    BY DEF Init
  <2>2. Registry
    BY <2>1, Zenon DEF Registry
  <2>3. Index /\ Files
    BY <2>1 DEF Index, Files, OnDisk
  <2> QED
    BY <2>2, <2>3 DEF StoreInv
<1> QED
  BY <1>1, StoreInductive, EntryInvariant, PTL DEF Spec

\* What the store hands out is good: the registry holds exactly the entries
\* that can be joined, and the index only whole outputs under their final name
\* with their meta.json, whichever write, sync, rename or reader failed.
THEOREM StoreSoundHolds == Spec => []StoreIsSound
<1>1. TypeOK /\ LifeInv /\ ByteInv /\ StoreInv => StoreIsSound
  <2> SUFFICES ASSUME TypeOK, LifeInv, ByteInv, StoreInv PROVE StoreIsSound
    OBVIOUS
  <2>1. RegisteredIsJoinable
    BY DEF StoreInv, Registry, RegisteredIsJoinable, Joinable, LifeInv
  <2>2. IndexedIsWhole
    BY DEF StoreInv, Index, IndexedIsWhole, ByteInv, Pending, LifeInv, TypeOK, TypeControl, State
  <2> QED
    BY <2>1, <2>2 DEF StoreIsSound
<1> QED
  BY <1>1, EntryInvariant, StoreInvariant, PTL
-----------------------------------------------------------------------------
\* The stream's first a bytes followed by its next ones are a longer prefix.
LEMMA PrefixExtends ==
  ASSUME NEW a \in Nat, NEW t \in Seq(Nat), \A i \in 1..Len(t) : t[i] = a + i
  PROVE  [i \in 1..a |-> i] \o t = [i \in 1..(a + Len(t)) |-> i]
<1> DEFINE s == [i \in 1..a |-> i]
           u == [i \in 1..(a + Len(t)) |-> i]
<1>1. Len(t) \in Nat
  OBVIOUS
<1>2. s \in Seq(Nat) /\ Len(s) = a /\ \A i \in 1..a : s[i] = i
  OBVIOUS
<1>3. u \in Seq(Nat) /\ Len(u) = a + Len(t) /\ \A i \in 1..(a + Len(t)) : u[i] = i
  BY <1>1
<1> HIDE DEF s, u
<1>4. s \o t \in Seq(Nat) /\ Len(s \o t) = a + Len(t)
  BY <1>2, ConcatNat
<1>5. ASSUME NEW i \in 1..(a + Len(t)) PROVE (s \o t)[i] = u[i]
  <2>1. CASE i <= a
    <3>1. i \in 1..Len(s)
      BY <1>1, <1>2, <2>1
    <3> QED
      BY <1>2, <1>3, <1>5, <3>1, ConcatNat
  <2>2. CASE i > a
    <3>1. i - a \in 1..Len(t) /\ Len(s) + (i - a) = i /\ a + (i - a) = i
      BY <1>1, <1>2, <2>2
    <3>2. (s \o t)[Len(s) + (i - a)] = t[i - a]
      BY <1>2, <3>1, ConcatNat
    <3>3. t[i - a] = a + (i - a)
      BY <3>1
    <3> QED
      BY <1>3, <1>5, <3>1, <3>2, <3>3
  <2>3. i <= a \/ i > a
    BY <1>1
  <2> QED
    BY <2>1, <2>2, <2>3
<1>6. s \o t = u
  BY <1>1, <1>3, <1>4, <1>5, SeqEqual
<1> QED
  BY <1>6 DEF s, u

\* The five ways a Read goes on, of which "broken" is ruled out by ByteInv.
ReadSteps(r, n) ==
    \/ /\ UNCHANGED <<pos, got, result>> /\ rpc' = [rpc EXCEPT ![r] = "readat"]
    \/ /\ UNCHANGED <<pos, got, result>> /\ rpc' = [rpc EXCEPT ![r] = "blocked"]
    \/ /\ UNCHANGED <<pos, got>> /\ rpc' = [rpc EXCEPT ![r] = "open"]
       /\ \E how \in {"eof", "err", "closed"} :
             /\ result' = [result EXCEPT ![r] = how]
             /\ how = "eof" => state = "complete" /\ pos[r] = size
             /\ how = "err" => state = "failed" /\ pos[r] = size
    \/ /\ UNCHANGED result /\ rpc' = [rpc EXCEPT ![r] = "open"]
       /\ \E t \in Seq(Nat) :
             /\ Len(t) > 0 /\ pos[r] + Len(t) <= size
             /\ \A i \in 1..Len(t) : t[i] = pos[r] + i
             /\ pos' = [pos EXCEPT ![r] = @ + Len(t)]
             /\ got' = [got EXCEPT ![r] = @ \o t]

LEMMA ReadStep ==
  ASSUME TypeOK, LifeInv, ByteInv, NEW r \in Reader, NEW n \in Nat, n > 0, Read(r, n)
  PROVE  /\ rpc[r] \in {"open", "blocked"} /\ result[r] = "none"
         /\ ReadSteps(r, n)
<1>0. rpc[r] \in {"open", "blocked"} /\ result[r] = "none"
  BY DEF Read
<1>2. /\ pos[r] \in Nat /\ size \in Nat /\ fileBytes \in Nat /\ memBase \in Nat
      /\ mem \in Seq(Nat) /\ Len(mem) \in Nat /\ state \in State
  BY DEF TypeOK, TypeReaders, TypeBytes, TypeControl
<1> DEFINE off   == pos[r] - memBase
           avail == Len(mem) - off
           take  == Smaller(n, avail)
<1>3. CASE closed[r]
  BY <1>3 DEF Read, ReadSteps
<1>4. CASE ~closed[r] /\ pos[r] < size /\ FileOpen /\ pos[r] < fileBytes
  BY <1>2, <1>4 DEF Read, ReadSteps
<1>5. CASE ~closed[r] /\ pos[r] < size /\ ~(FileOpen /\ pos[r] < fileBytes)
  <2>1. r \in readers /\ ~released
    BY <1>0, <1>5 DEF LifeInv
  <2>2. pos[r] >= fileBytes
    BY <1>2, <1>5, <2>1 DEF FileOpen, ByteInv, Placed
  <2>3. RingShape
    BY <1>2, <1>5, <2>1, <2>2 DEF ByteInv, Placed, FileShape
  <2>4. memBase <= pos[r]
    BY <1>2, <2>1, <2>2, <2>3 DEF ByteInv, Positions, RingShape
  <2>5. /\ off \in Nat /\ avail \in Nat /\ avail > 0 /\ off + avail = Len(mem)
        /\ pos[r] = memBase + off /\ size = memBase + Len(mem)
    <3>1. size = memBase + Len(mem) /\ pos[r] < size
      BY <1>5, <2>3 DEF RingShape
    <3>2. off \in Nat /\ pos[r] = memBase + off
      BY <1>2, <2>4
    <3>3. avail \in Nat /\ avail > 0 /\ off + avail = Len(mem)
      BY <1>2, <2>4, <3>1
    <3> QED
      BY <3>1, <3>2, <3>3
  <2>6. take \in Nat /\ 0 < take /\ take <= avail
    BY <2>5 DEF Smaller
  <2> DEFINE t == SubSeq(mem, off + 1, off + take)
  <2>7. /\ pos' = [pos EXCEPT ![r] = @ + take] /\ UNCHANGED result
        /\ got' = [got EXCEPT ![r] = @ \o t]
        /\ rpc' = [rpc EXCEPT ![r] = "open"]
    <3>1. ~(avail <= 0 \/ off < 0) /\ ~(pos[r] >= size)
      <4> HIDE DEF off, avail, take, t
      <4> QED
        BY <1>2, <1>5, <2>5
    <3>2. pos' = [pos EXCEPT ![r] = @ + take] /\ UNCHANGED result
          /\ rpc' = [rpc EXCEPT ![r] = "open"]
      BY <1>2, <1>5, <3>1 DEF Read
    <3>3. got' = [got EXCEPT ![r] = @ \o t]
      BY <1>5, <3>1, ZenonT(60) DEF Read
    <3> QED
      BY <3>2, <3>3
  <2> HIDE DEF off, avail, take
  <2>8. t \in Seq(Nat) /\ Len(t) = take /\ \A i \in 1..Len(t) : t[i] = mem[off + 1 + i - 1]
    <3> DEFINE a == off + 1
               b == off + take
    <3>1. a \in Nat \ {0} /\ b \in 0..Len(mem)
      BY <1>2, <2>5, <2>6
    <3> HIDE DEF a, b
    <3>0. /\ SubSeq(mem, a, b) \in Seq(Nat)
          /\ Len(SubSeq(mem, a, b)) = IF a <= b THEN b - a + 1 ELSE 0
          /\ \A i \in 1..Len(SubSeq(mem, a, b)) : SubSeq(mem, a, b)[i] = mem[a + i - 1]
      BY <1>2, <3>1, SubSeqNat, Zenon
    <3>2. t = SubSeq(mem, a, b) /\ a = off + 1 /\ b = off + take
      BY DEF a, b
    <3> HIDE DEF t
    <3>3. /\ t \in Seq(Nat) /\ Len(t) = IF a <= b THEN b - a + 1 ELSE 0
          /\ \A i \in 1..Len(t) : t[i] = mem[a + i - 1]
      BY <3>0, <3>2, Zenon
    <3>4. Len(t) = take
      BY <2>5, <2>6, <3>2, <3>3
    <3>5. \A i \in 1..Len(t) : t[i] = mem[off + 1 + i - 1]
      BY <3>2, <3>3, Zenon
    <3> QED
      BY <3>3, <3>4, <3>5
  <2> HIDE DEF t
  <2>9. ASSUME NEW i \in 1..Len(t) PROVE t[i] = pos[r] + i
    <3>1. i \in Nat /\ 1 <= i /\ i <= take
      BY <2>6, <2>8
    <3>2. off + 1 + i - 1 = off + i /\ off + i \in 1..Len(mem)
      BY <1>2, <2>5, <2>6, <3>1
    <3>3. t[i] = mem[off + i]
      BY <2>8, <2>9, <3>2
    <3>4. mem[off + i] = memBase + (off + i)
      BY <3>2 DEF ByteInv, Placed
    <3> QED
      BY <1>2, <2>5, <3>1, <3>3, <3>4
  <2>10. Len(t) > 0 /\ pos[r] + Len(t) <= size
    BY <1>2, <2>5, <2>6, <2>8
  <2>11. pos' = [pos EXCEPT ![r] = @ + Len(t)]
    BY <2>7, <2>8
  <2>12. got' = [got EXCEPT ![r] = @ \o t]
    BY <2>7, Zenon
  <2>13. \E u \in Seq(Nat) :
           /\ Len(u) > 0 /\ pos[r] + Len(u) <= size
           /\ \A i \in 1..Len(u) : u[i] = pos[r] + i
           /\ pos' = [pos EXCEPT ![r] = @ + Len(u)]
           /\ got' = [got EXCEPT ![r] = @ \o u]
    BY <2>8, <2>9, <2>10, <2>11, <2>12, Zenon
  <2> QED
    BY <1>0, <2>7, <2>13, Zenon DEF ReadSteps
<1>6. CASE ~closed[r] /\ pos[r] >= size
  <2>1. pos[r] = size
    BY <1>2, <1>6 DEF ByteInv, Positions
  <2> QED
    BY <1>2, <1>6, <2>1 DEF Read, ReadSteps
<1> QED
  BY <1>0, <1>2, <1>3, <1>4, <1>5, <1>6

\* The disk read's return hands over the bytes read, or ends the reader.
LEMMA ReadAtStepBytes ==
  ASSUME TypeOK, LifeInv, ByteInv, NEW r \in Reader, NEW n \in Nat, ReadAt(r, n)
  PROVE  /\ rpc[r] = "readat" /\ result[r] = "none"
         /\ rpc' = [rpc EXCEPT ![r] = "open"]
         /\ \/ UNCHANGED <<pos, got>> /\ result' = [result EXCEPT ![r] = "closed"]
            \/ UNCHANGED <<pos, got>> /\ result' = [result EXCEPT ![r] = "ioerr"]
            \/ /\ UNCHANGED result
               /\ \E t \in Seq(Nat) :
                     /\ Len(t) > 0 /\ pos[r] + Len(t) <= size
                     /\ \A i \in 1..Len(t) : t[i] = pos[r] + i
                     /\ pos' = [pos EXCEPT ![r] = @ + Len(t)]
                     /\ got' = [got EXCEPT ![r] = @ \o t]
<1>1. /\ pos \in [Reader -> Nat] /\ got \in [Reader -> Seq(Nat)]
      /\ result \in [Reader -> Outcome]
      /\ pos[r] \in Nat /\ want[r] \in Nat /\ size \in Nat /\ fileBytes \in Nat
  BY DEF TypeOK, TypeReaders, TypeBytes
<1>2. rpc[r] = "readat" /\ n <= want[r] /\ rpc' = [rpc EXCEPT ![r] = "open"]
  BY DEF ReadAt
<1>3. result[r] = "none" /\ pos[r] + n <= size
  BY <1>1, <1>2 DEF ByteInv, Placed, Positions, Results
<1>4. CASE closed[r]
  BY <1>2, <1>3, <1>4 DEF ReadAt
<1>5. CASE ~closed[r]
  <2> DEFINE t == [i \in 1..n |-> pos[r] + i]
  <2>1. /\ pos' = [pos EXCEPT ![r] = @ + n]
        /\ got' = [got EXCEPT ![r] = @ \o t]
        /\ result' = [result EXCEPT ![r] = IF n > 0 THEN @ ELSE "ioerr"]
    BY <1>5 DEF ReadAt
  <2>2. t \in Seq(Nat) /\ Len(t) = n /\ \A i \in 1..Len(t) : t[i] = pos[r] + i
    BY <1>1, ChunkIsSeq
  <2> HIDE DEF t
  <2>3. CASE n = 0
    <3>1. t = <<>>
      BY <2>2, <2>3
    <3>2. got[r] \o t = got[r]
      BY <1>1, <3>1
    <3>3. UNCHANGED <<pos, got>>
      BY <1>1, <2>1, <2>3, <3>2
    <3> QED
      BY <1>2, <1>3, <2>1, <2>3, <3>3
  <2>4. CASE n > 0
    <3>1. UNCHANGED result
      BY <1>1, <2>1, <2>4
    <3> QED
      BY <1>2, <1>3, <2>1, <2>2, <2>4, <3>1
  <2>5. n = 0 \/ n > 0
    OBVIOUS
  <2> QED
    BY <2>3, <2>4, <2>5, Zenon
<1> QED
  BY <1>4, <1>5

\* Handing over the next bytes of the stream keeps Handed.
LEMMA TakeKeepsHanded ==
  ASSUME TypeOK, Handed, NEW r \in Reader, rpc' = [rpc EXCEPT ![r] = "open"],
         rpc[r] \in {"open", "blocked", "readat"},
         NEW t \in Seq(Nat), \A i \in 1..Len(t) : t[i] = pos[r] + i,
         pos' = [pos EXCEPT ![r] = @ + Len(t)],
         got' = [got EXCEPT ![r] = @ \o t]
  PROVE  Handed'
<1>1. /\ pos \in [Reader -> Nat] /\ got \in [Reader -> Seq(Nat)] /\ rpc \in [Reader -> RPC]
      /\ pos[r] \in Nat
  BY DEF TypeOK, TypeReaders
<1>2. got'[r] = got[r] \o t /\ pos'[r] = pos[r] + Len(t) /\ rpc'[r] = "open"
  BY <1>1
<1>3. got'[r] = [i \in 1..pos'[r] |-> i]
  <2>1. got[r] = [i \in 1..pos[r] |-> i]
    BY DEF Handed
  <2>2. [i \in 1..pos[r] |-> i] \o t = [i \in 1..(pos[r] + Len(t)) |-> i]
    BY <1>1, PrefixExtends
  <2> QED
    BY <1>2, <2>1, <2>2, Zenon
<1>4. \A s \in Reader \ {r} : got'[s] = got[s] /\ pos'[s] = pos[s] /\ rpc'[s] = rpc[s]
  BY <1>1
<1>5. ASSUME NEW s \in Reader
      PROVE  /\ got'[s] = [i \in 1..pos'[s] |-> i]
             /\ rpc'[s] \in {"absent", "refused"} => pos'[s] = 0
  <2>1. CASE s = r
    BY <1>2, <1>3, <2>1
  <2>2. CASE s # r
    BY <1>4, <2>2, Zenon DEF Handed
  <2> QED
    BY <2>1, <2>2
<1> QED
  BY <1>5 DEF Handed

\* Steps after which every reader is where it was, or has at most attached.
LEMMA HandedUntouched ==
  ASSUME Handed, UNCHANGED <<pos, got>>,
         \A r \in Reader : rpc'[r] \in {"absent", "refused"} => rpc[r] \in {"absent", "refused"}
  PROVE  Handed'
  BY Zenon DEF Handed

LEMMA HandedInductive ==
  ASSUME TypeOK, LifeInv, ByteInv, Handed, [Next]_vars
  PROVE  Handed'
<1>0. rpc \in [Reader -> RPC]
  BY DEF TypeOK, TypeReaders
<1>1. ASSUME UNCHANGED <<pos, got, rpc>> PROVE Handed'
  BY <1>1, HandedUntouched
<1>2. ASSUME WriterStep PROVE UNCHANGED <<pos, got, rpc>>
  BY <1>2 DEF WriterStep, WriteStart, FileWriteOK, FileWriteFail, RingWake, CompleteStart,
              PromoteStep, PromoteOK, PromoteFail, Fail, readerVars
<1>3. ASSUME NEW r \in Reader, NewReader(r) PROVE Handed'
  <2>1. UNCHANGED <<pos, got>> /\ \E x \in {"open", "refused"} : rpc' = [rpc EXCEPT ![r] = x]
        /\ rpc[r] = "absent"
    BY <1>3 DEF NewReader
  <2> QED
    BY <1>0, <2>1, HandedUntouched
<1>4. ASSUME NEW r \in Reader, NEW n \in 1..MaxChunk, Read(r, n) PROVE Handed'
  <2>1. /\ rpc[r] \in {"open", "blocked"} /\ ReadSteps(r, n)
    BY <1>4, ReadStep, BoundsAssumption
  <2>2. CASE UNCHANGED <<pos, got>> /\ \E x \in {"readat", "blocked", "open"} :
                                          rpc' = [rpc EXCEPT ![r] = x]
    BY <1>0, <2>2, HandedUntouched
  <2>3. ASSUME rpc' = [rpc EXCEPT ![r] = "open"], NEW t \in Seq(Nat),
               \A i \in 1..Len(t) : t[i] = pos[r] + i,
               pos' = [pos EXCEPT ![r] = @ + Len(t)], got' = [got EXCEPT ![r] = @ \o t]
        PROVE  Handed'
    BY <2>1, <2>3, TakeKeepsHanded
  <2> QED
    BY <2>1, <2>2, <2>3, Zenon DEF ReadSteps
<1>5. ASSUME NEW r \in Reader, NEW n \in 0..MaxChunk, ReadAt(r, n) PROVE Handed'
  <2>1. n \in Nat
    BY BoundsAssumption
  <2>2. /\ rpc[r] = "readat" /\ rpc' = [rpc EXCEPT ![r] = "open"]
        /\ \/ UNCHANGED <<pos, got>>
           \/ \E t \in Seq(Nat) : /\ \A i \in 1..Len(t) : t[i] = pos[r] + i
                                  /\ pos' = [pos EXCEPT ![r] = @ + Len(t)]
                                  /\ got' = [got EXCEPT ![r] = @ \o t]
    BY <1>5, <2>1, ReadAtStepBytes, Zenon
  <2>3. CASE UNCHANGED <<pos, got>>
    BY <1>0, <2>2, <2>3, HandedUntouched
  <2>4. ASSUME NEW t \in Seq(Nat), \A i \in 1..Len(t) : t[i] = pos[r] + i,
               pos' = [pos EXCEPT ![r] = @ + Len(t)], got' = [got EXCEPT ![r] = @ \o t]
        PROVE  Handed'
    BY <2>2, <2>4, TakeKeepsHanded
  <2> QED
    BY <2>2, <2>3, <2>4, Zenon
<1>6. ASSUME NEW r \in Reader, Close(r) PROVE UNCHANGED <<pos, got, rpc>>
  BY <1>6 DEF Close
<1>7. ASSUME TimerExpire \/ \E it \in firing : IdleFire(it) PROVE UNCHANGED <<pos, got, rpc>>
  BY <1>7 DEF TimerExpire, IdleFire, readerVars
<1>8. ASSUME UNCHANGED vars PROVE UNCHANGED <<pos, got, rpc>>
  BY <1>8 DEF vars, readerVars
<1> QED
  BY <1>1, <1>2, <1>3, <1>4, <1>5, <1>6, <1>7, <1>8, Zenon
     DEF Next, ReaderStep, ReadAtStep, Ended

LEMMA HandedHolds == Spec => []Handed
<1>1. Init => Handed
  <2> SUFFICES ASSUME Init, NEW r \in Reader
               PROVE  got[r] = [i \in 1..pos[r] |-> i] /\ pos[r] = 0
    BY DEF Handed
  <2>1. got[r] = <<>> /\ pos[r] = 0
    BY DEF Init
  <2>2. <<>> = [i \in 1..0 |-> i]
    OBVIOUS
  <2> QED
    BY <2>1, <2>2
<1> QED
  BY <1>1, HandedInductive, EntryInvariant, PTL DEF Spec

\* What a reader is handed is the stream from its first byte, across the
\* change from file to ring, and release takes nothing from under it.
THEOREM ReadersServedHolds == Spec => []ReadersAreServed
<1>1. TypeOK /\ LifeInv /\ StoreInv /\ Handed => ReadersAreServed
  <2> SUFFICES ASSUME TypeOK, LifeInv, StoreInv, Handed PROVE ReadersAreServed
    OBVIOUS
  <2>1. StreamPrefix
    BY Zenon DEF Handed, StreamPrefix
  <2>2. ReleaseIsSafe
    BY DEF ReleaseIsSafe, LifeInv, StoreInv, Files
  <2> QED
    BY <2>1, <2>2 DEF ReadersAreServed
<1> QED
  BY <1>1, EntryInvariant, StoreInvariant, HandedHolds, PTL
-----------------------------------------------------------------------------
(***************************************************************************)
(* The refinement.  Every step of the entry is a step of ReadBehind under  *)
(* the mapping of RB, or leaves the abstract variables alone.              *)
(***************************************************************************)
Ending == IF state = "writing" THEN "open" ELSE state
Taken  == [r \in Reader |-> IF rpc[r] \in {"absent", "refused"} THEN -1 ELSE pos[r]]

\* What the writer's steps do to what readers can see: nothing, or the stream
\* grows while it is open, and may end.
Grows ==
    /\ UNCHANGED <<rpc, pos, result>>
    /\ \/ UNCHANGED <<size, state>>
       \/ state = "writing" /\ size' >= size /\ state' \in State

LEMMA RingPassGrows ==
  ASSUME TypeOK, NEW q \in Seq(Nat), NEW base \in Nat, NEW sz \in Nat, sz >= size,
         state = "writing", RingPass(q, base, sz)
  PROVE  size' >= size /\ state' \in State
<1>1. size' = sz + Fits(q)
  BY RingPassSplit
<1>2. Consumed \in 0..Len(mem) /\ mem \in Seq(Nat) /\ Len(mem) \in Nat /\ Len(mem) <= RingCap
      /\ size \in Nat /\ Len(q) \in Nat
  BY ConsumedBound DEF TypeOK, TypeBytes
<1>3. Len(Kept) = Len(mem) - Consumed
  BY <1>2, SubSeqNat DEF Kept
<1>4. Fits(q) \in Nat
  BY <1>2, <1>3, RingCapAssumption DEF Fits, Smaller, RingSpace
<1> QED
  BY <1>1, <1>2, <1>4, RingPassType

LEMMA WriterGrows ==
  ASSUME TypeOK, LifeInv, ByteInv, WriterStep
  PROVE  Grows
<1>0. /\ size \in Nat /\ memBase \in Nat /\ produced \in Nat /\ p \in Seq(Nat) /\ Len(p) \in Nat
      /\ state \in State
  BY DEF TypeOK, TypeBytes, TypeControl
<1> USE DEF Grows, State
<1>1. ASSUME NEW n \in 1..MaxChunk, WriteStart(n) PROVE Grows
  <2>1. UNCHANGED <<rpc, pos, result>> /\ state = "writing"
    BY <1>1 DEF WriteStart, readerVars, LifeInv
  <2>2. CASE ~abandoned /\ degraded
    <3>1. n \in Nat /\ Chunk(n) \in Seq(Nat)
      BY <1>0, BoundsAssumption, ChunkIsSeq DEF Chunk
    <3>2. RingPass(Chunk(n), memBase, size) /\ size >= size
      BY <1>0, <1>1, <2>2 DEF WriteStart
    <3> QED
      BY <1>0, <2>1, <3>1, <3>2, RingPassGrows
  <2>3. CASE ~(~abandoned /\ degraded)
    BY <1>0, <1>1, <2>1, <2>3 DEF WriteStart, FailEntry
  <2> QED
    BY <2>2, <2>3
<1>2. CASE FileWriteOK
  BY <1>0, <1>2 DEF FileWriteOK, readerVars, LifeInv
<1>3. ASSUME NEW n \in 0..(MaxChunk - 1), FileWriteFail(n) PROVE Grows
  <2>1. /\ UNCHANGED <<rpc, pos, result>> /\ state = "writing" /\ n \in Nat /\ n < Len(p)
        /\ RingPass(Remaining(p, n), size + n, size + n)
    BY <1>3, BoundsAssumption DEF FileWriteFail, readerVars, LifeInv
  <2>2. Remaining(p, n) \in Seq(Nat)
    <3>1. n + 1 \in Nat \ {0} /\ Len(p) \in 0..Len(p)
      BY <1>0, <2>1
    <3> QED
      BY <1>0, <3>1, SubSeqNat DEF Remaining
  <2>3. size + n \in Nat /\ size + n >= size
    BY <1>0, <2>1
  <2> QED
    BY <2>1, <2>2, <2>3, RingPassGrows
<1>4. CASE RingWake
  <2>1. /\ UNCHANGED <<rpc, pos, result>> /\ state = "writing"
        /\ RingPass(p, memBase, size) /\ size >= size
    BY <1>0, <1>4 DEF RingWake, readerVars, LifeInv
  <2> QED
    BY <1>0, <2>1, RingPassGrows
<1>5. CASE CompleteStart
  <2>1. UNCHANGED <<rpc, pos, result, size>>
    BY <1>5 DEF CompleteStart, readerVars
  <2>2. state = "writing"
    BY <1>5 DEF CompleteStart, LifeInv
  <2>3. state' \in {state, "failed", "complete"}
    BY <1>5 DEF CompleteStart, FailEntry, FinishComplete
  <2> QED
    BY <1>0, <2>1, <2>2, <2>3
<1>6. CASE PromoteStep
  BY <1>6 DEF PromoteStep, entryVars, readerVars
<1>7. CASE PromoteOK
  BY <1>0, <1>7 DEF PromoteOK, FinishComplete, readerVars, LifeInv
<1>8. CASE PromoteFail
  BY <1>0, <1>8 DEF PromoteFail, FinishComplete, readerVars, LifeInv
<1>9. CASE Fail
  BY <1>0, <1>9 DEF Fail, FailEntry, readerVars, LifeInv
<1> QED
  BY <1>1, <1>2, <1>3, <1>4, <1>5, <1>6, <1>7, <1>8, <1>9 DEF WriterStep

\* The abstract step each kind of step is.
LEMMA StepRefines ==
  ASSUME TypeOK, TypeOK', LifeInv, ByteInv, Handed, [Next]_vars
  PROVE  [RB!Step]_(RB!abstractVars)
<1>0. /\ rpc \in [Reader -> RPC] /\ pos \in [Reader -> Nat] /\ result \in [Reader -> Outcome]
      /\ rpc' \in [Reader -> RPC] /\ pos' \in [Reader -> Nat]
      /\ size \in Nat /\ size' \in Nat /\ state \in State
  BY DEF TypeOK, TypeReaders, TypeBytes, TypeControl
<1>a. /\ RB!abstractVars = <<size, Ending, Taken, result>>
      /\ RB!abstractVars' = <<size', Ending', Taken', result'>>
  BY DEF RB!abstractVars, Ending, Taken
<1>1. ASSUME UNCHANGED <<size, state, rpc, pos, result>>
      PROVE  UNCHANGED RB!abstractVars
  BY <1>1, <1>a DEF Ending, Taken
<1>2. ASSUME Grows PROVE [RB!Step]_(RB!abstractVars)
  <2>1. CASE UNCHANGED <<size, state>>
    BY <1>1, <1>2, <2>1 DEF Grows
  <2>2. CASE state = "writing" /\ size' >= size /\ state' \in State
    <3>1. UNCHANGED <<Taken, result>>
      BY <1>2 DEF Grows, Taken
    <3>2. Ending = "open" /\ Ending' \in {"open", "complete", "failed"}
      BY <2>2 DEF Ending, State
    <3>3. RB!Grow
      BY <1>0, <2>2, <3>1, <3>2 DEF RB!Grow, Ending, Taken
    <3> QED
      BY <3>3 DEF RB!Step
  <2> QED
    BY <1>2, <2>1, <2>2 DEF Grows
<1>3. ASSUME NEW r \in Reader, NewReader(r) PROVE [RB!Step]_(RB!abstractVars)
  <2>1. /\ UNCHANGED <<size, state, pos, result>> /\ rpc[r] = "absent"
        /\ \E x \in {"open", "refused"} : rpc' = [rpc EXCEPT ![r] = x]
    BY <1>3 DEF NewReader
  <2>2. pos[r] = 0 /\ Taken[r] = -1
    BY <2>1 DEF Handed, Taken
  <2>3. CASE rpc' = [rpc EXCEPT ![r] = "open"]
    <3>1. Taken' = [Taken EXCEPT ![r] = 0]
      BY <1>0, <2>1, <2>2, <2>3 DEF Taken
    <3>2. RB!Attach(r)
      BY <2>1, <2>2, <3>1 DEF RB!Attach, Taken
    <3> QED
      BY <3>2 DEF RB!Step
  <2>4. CASE rpc' = [rpc EXCEPT ![r] = "refused"]
    <3>1. Taken' = Taken
      BY <1>0, <2>1, <2>4 DEF Taken
    <3> QED
      BY <1>a, <2>1, <3>1 DEF Ending
  <2> QED
    BY <2>1, <2>3, <2>4
<1>4. ASSUME NEW r \in Reader, rpc[r] \in {"open", "blocked", "readat"}, result[r] = "none",
             \E x \in {"open", "blocked", "readat"} : rpc' = [rpc EXCEPT ![r] = x],
             UNCHANGED <<size, state>>
      PROVE  /\ Taken[r] = pos[r] /\ Taken[r] >= 0
             /\ UNCHANGED pos => UNCHANGED Taken
             /\ \A k \in Nat : pos' = [pos EXCEPT ![r] = k] => Taken' = [Taken EXCEPT ![r] = k]
  <2>1. /\ rpc'[r] \notin {"absent", "refused"} /\ rpc[r] \notin {"absent", "refused"}
        /\ \A s \in Reader \ {r} : rpc'[s] = rpc[s]
    BY <1>0, <1>4
  <2>2. Taken[r] = pos[r] /\ Taken[r] >= 0
    BY <1>0, <2>1 DEF Taken
  <2>3. UNCHANGED pos => UNCHANGED Taken
    BY <2>1 DEF Taken
  <2>4. ASSUME NEW k \in Nat, pos' = [pos EXCEPT ![r] = k] PROVE Taken' = [Taken EXCEPT ![r] = k]
    BY <1>0, <2>1, <2>4 DEF Taken
  <2> QED
    BY <2>2, <2>3, <2>4
<1>5. ASSUME NEW r \in Reader, rpc[r] \in {"open", "blocked", "readat"}, result[r] = "none",
             rpc' = [rpc EXCEPT ![r] = "open"], UNCHANGED <<size, state, result>>,
             NEW t \in Seq(Nat), Len(t) > 0, pos[r] + Len(t) <= size,
             pos' = [pos EXCEPT ![r] = @ + Len(t)]
      PROVE  [RB!Step]_(RB!abstractVars)
  <2>1. pos[r] + Len(t) \in (pos[r] + 1)..size /\ pos[r] + Len(t) \in Nat
    <3>1. Len(t) \in Nat /\ pos[r] \in Nat
      BY <1>0
    <3> QED
      BY <1>0, <1>5, <3>1
  <2>2. Taken[r] = pos[r] /\ Taken[r] >= 0 /\ Taken' = [Taken EXCEPT ![r] = pos[r] + Len(t)]
    BY <1>4, <1>5, <2>1
  <2>3. UNCHANGED <<size, Ending, result>>
    BY <1>5 DEF Ending
  <2>4. RB!Take(r)
    BY <1>5, <2>1, <2>2, <2>3 DEF RB!Take, Taken, Ending
  <2> QED
    BY <2>4 DEF RB!Step
<1>6. ASSUME NEW r \in Reader, rpc[r] \in {"open", "blocked", "readat"}, result[r] = "none",
             rpc' = [rpc EXCEPT ![r] = "open"], UNCHANGED <<size, state, pos>>,
             NEW how \in {"eof", "err", "ioerr", "closed"},
             result' = [result EXCEPT ![r] = how],
             how = "eof" => state = "complete" /\ pos[r] = size,
             how = "err" => state = "failed" /\ pos[r] = size
      PROVE  [RB!Step]_(RB!abstractVars)
  <2>1. Taken[r] = pos[r] /\ Taken[r] >= 0 /\ UNCHANGED Taken
    BY <1>4, <1>6
  <2>2. UNCHANGED <<size, Ending>>
    BY <1>6 DEF Ending
  <2>3. RB!Finish(r)
    BY <1>6, <2>1, <2>2 DEF RB!Finish, Taken, Ending
  <2> QED
    BY <2>3 DEF RB!Step
<1>7. ASSUME NEW r \in Reader, NEW n \in 1..MaxChunk, Read(r, n)
      PROVE  [RB!Step]_(RB!abstractVars)
  <2>1. /\ rpc[r] \in {"open", "blocked", "readat"} /\ result[r] = "none" /\ ReadSteps(r, n)
    BY <1>7, ReadStep, BoundsAssumption
  <2>2. UNCHANGED <<size, state>>
    BY <1>7 DEF Read, entryVars
  <2>3. CASE UNCHANGED <<pos, got, result>> /\ \E x \in {"readat", "blocked"} : rpc' = [rpc EXCEPT ![r] = x]
    <3>1. UNCHANGED Taken
      BY <1>4, <2>1, <2>2, <2>3
    <3> QED
      BY <1>a, <2>2, <2>3, <3>1 DEF Ending
  <2>4. ASSUME UNCHANGED <<pos, got>>, rpc' = [rpc EXCEPT ![r] = "open"],
               NEW how \in {"eof", "err", "closed"},
               result' = [result EXCEPT ![r] = how],
               how = "eof" => state = "complete" /\ pos[r] = size,
               how = "err" => state = "failed" /\ pos[r] = size
        PROVE  [RB!Step]_(RB!abstractVars)
    BY <1>6, <2>1, <2>2, <2>4
  <2>5. ASSUME UNCHANGED result, rpc' = [rpc EXCEPT ![r] = "open"],
               NEW t \in Seq(Nat), Len(t) > 0, pos[r] + Len(t) <= size,
               pos' = [pos EXCEPT ![r] = @ + Len(t)]
        PROVE  [RB!Step]_(RB!abstractVars)
    BY <1>5, <2>1, <2>2, <2>5
  <2> QED
    BY <2>1, <2>3, <2>4, <2>5, Zenon DEF ReadSteps
<1>8. ASSUME NEW r \in Reader, NEW n \in 0..MaxChunk, ReadAt(r, n)
      PROVE  [RB!Step]_(RB!abstractVars)
  <2>0. n \in Nat /\ UNCHANGED <<size, state>>
    BY <1>8, BoundsAssumption DEF ReadAt, entryVars
  <2>1. /\ rpc[r] = "readat" /\ result[r] = "none"
        /\ rpc' = [rpc EXCEPT ![r] = "open"]
        /\ \/ UNCHANGED pos /\ result' = [result EXCEPT ![r] = "closed"]
           \/ UNCHANGED pos /\ result' = [result EXCEPT ![r] = "ioerr"]
           \/ /\ UNCHANGED result
              /\ \E t \in Seq(Nat) :
                    /\ Len(t) > 0 /\ pos[r] + Len(t) <= size
                    /\ pos' = [pos EXCEPT ![r] = @ + Len(t)]
    BY <1>8, <2>0, ReadAtStepBytes, Zenon
  <2>2. ASSUME UNCHANGED pos, NEW how \in {"closed", "ioerr"}, result' = [result EXCEPT ![r] = how]
        PROVE  [RB!Step]_(RB!abstractVars)
    BY <1>6, <2>0, <2>1, <2>2
  <2>3. ASSUME UNCHANGED result, NEW t \in Seq(Nat), Len(t) > 0, pos[r] + Len(t) <= size,
               pos' = [pos EXCEPT ![r] = @ + Len(t)]
        PROVE  [RB!Step]_(RB!abstractVars)
    BY <1>5, <2>0, <2>1, <2>3
  <2> QED
    BY <2>1, <2>2, <2>3, Zenon
<1>9. ASSUME \/ \E r \in Reader : Close(r)
             \/ TimerExpire
             \/ \E it \in firing : IdleFire(it)
             \/ UNCHANGED vars
      PROVE  UNCHANGED <<size, state, rpc, pos, result>>
  BY <1>9 DEF Close, TimerExpire, IdleFire, vars, entryVars, readerVars
<1> QED
  BY <1>1, <1>2, <1>3, <1>7, <1>8, <1>9, WriterGrows
     DEF Next, ReaderStep, ReadAtStep, Ended

\* The entry implements ReadBehind: whatever carries the bytes, the stream
\* grows and ends once, and each reader takes it in order to its true end.
THEOREM EntryImplementsReadBehind == Spec => ImplementsReadBehind
<1>1. Init => RB!Start
  BY DEF Init, RB!Start
<1>2. TypeOK /\ TypeOK' /\ LifeInv /\ ByteInv /\ Handed /\ [Next]_vars
        => [RB!Step]_(RB!abstractVars)
  BY StepRefines
<1> QED
  BY <1>1, <1>2, EntryInvariant, HandedHolds, PTL DEF Spec, ImplementsReadBehind, RB!ReadBehindSpec
=============================================================================
