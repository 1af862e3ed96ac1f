------------------------- MODULE TimelineStoreProofs -------------------------
(***************************************************************************)
(* Theorems about TimelineStore: a timeline outlives the URLs minted       *)
(* against it and its document says when it ends, and the cap takes what   *)
(* was used least recently, for any number of timelines, requests, crashes *)
(* and expiries, and any cap.                                              *)
(***************************************************************************)
EXTENDS TimelineStore, FiniteSetTheorems, WellFoundedInduction, TLAPS

-----------------------------------------------------------------------------
(* The inductive invariant.                                                *)

\* Only a running process serves, and about a timeline.
BusyOf(c) == pc[c] # "idle" => up /\ on[c] \in Digest
Busy      == \A c \in Client : BusyOf(c)

\* The two promises, per timeline.
UrlOf(d)  ==
    d \notin evicted /\ d \notin raced /\ d \notin lost /\ minted[d] > now =>
        /\ file[d] >= minted[d]
        /\ up => expires[d] >= minted[d] \/ (d \in unread /\ expires[d] = 0)
Urls      == \A d \in Digest : UrlOf(d)
DiskOf(d) == d \notin raced /\ expires[d] # 0 => file[d] = expires[d]
Disks     == \A d \in Digest : DiskOf(d)

\* No URL counts on d.
Useless(d) == d \in evicted \/ d \in lost \/ minted[d] <= now

Dropping(d) == \E c \in Client : pc[c] = "drop" /\ on[c] = d

\* What is about to be removed is unlisted and of no use to any URL, unless it
\* was stored again since; and so is what is about to be unlisted, unless its
\* document is there and could not be loaded.  Only a running process sweeps.
GoneOf(d) ==
    /\ d \in sweep => up
    /\ d \in sweep /\ d \notin raced => expires[d] = 0 /\ Useless(d)
    /\ Dropping(d) /\ d \notin raced => d \in unread \/ (expires[d] = 0 /\ Useless(d))
Gones     == \A d \in Digest : GoneOf(d)

IInv == TypeOK /\ Busy /\ Urls /\ Disks /\ Gones

-----------------------------------------------------------------------------
(* A Put, under the lock, whoever makes it.                                 *)

LEMMA PutTypes ==
    ASSUME TypeOK, NEW d \in Digest, NEW e \in 0 .. MaxTime, PutStep(d, e)
    PROVE  /\ expires' \in [Digest -> 0 .. MaxTime] /\ file' \in [Digest -> 0 .. MaxTime]
           /\ minted' \in [Digest -> 0 .. MaxTime]
           /\ raced' \subseteq Digest /\ unread' \subseteq Digest /\ lost' \subseteq Digest
           /\ faults' \in 0 .. MaxFault /\ boot' \in BOOLEAN
<1> USE DEF TypeOK
<1>1. CASE PutHeld(d, e)
  BY <1>1 DEF PutHeld, Mint
<1>2. CASE PutExtends(d, e)
  BY <1>2 DEF PutExtends, Mint, Rewritten, Stored
<1>3. ASSUME NEW left \in SUBSET Victims, PutNew(d, e, left)
      PROVE  /\ expires' \in [Digest -> 0 .. MaxTime] /\ file' \in [Digest -> 0 .. MaxTime]
             /\ minted' \in [Digest -> 0 .. MaxTime]
             /\ raced' \subseteq Digest /\ unread' \subseteq Digest /\ lost' \subseteq Digest
             /\ faults' \in 0 .. MaxFault /\ boot' \in BOOLEAN
  <2>1. expires' \in [Digest -> 0 .. MaxTime]
    BY <1>3 DEF PutNew
  <2>2. file' \in [Digest -> 0 .. MaxTime]
    BY <1>3 DEF PutNew
  <2>3. minted' \in [Digest -> 0 .. MaxTime]
    BY <1>3 DEF PutNew, Mint
  <2>4. raced' \subseteq Digest /\ unread' \subseteq Digest /\ lost' \subseteq Digest
    BY <1>3 DEF PutNew, Stored
  <2>5. faults' \in 0 .. MaxFault
    <3>1. Fails(left # {}) /\ faults \in Nat /\ MaxFault \in Nat
      BY <1>3, TimelineAssumption DEF PutNew
    <3> QED
      BY <3>1 DEF Fails
  <2>6. boot' \in BOOLEAN
    BY <1>3 DEF PutNew
  <2> QED
    BY <2>1, <2>2, <2>3, <2>4, <2>5, <2>6
<1> QED
  BY <1>1, <1>2, <1>3 DEF PutStep

LEMMA PutKeeps ==
    ASSUME TypeOK, Urls, Disks, Gones, up, up' = up, now' = now,
           NEW d \in Digest, NEW e \in 0 .. MaxTime, PutStep(d, e), NEW x \in Digest,
           sweep' = sweep, Dropping(x)' <=> Dropping(x)
    PROVE  UrlOf(x)' /\ DiskOf(x)' /\ GoneOf(x)'
<1>a. UrlOf(x) /\ DiskOf(x) /\ GoneOf(x) /\ UrlOf(d) /\ DiskOf(d) /\ GoneOf(d)
  BY DEF Urls, Disks, Gones
<1>b. /\ now \in Nat /\ file[x] \in Nat /\ expires[x] \in Nat /\ minted[x] \in Nat
      /\ file[d] \in Nat /\ expires[d] \in Nat /\ minted[d] \in Nat /\ e \in Nat
  BY TimelineAssumption DEF TypeOK
<1>c. UnderRemoval(d) <=> d \in sweep \/ Dropping(d)
  BY DEF UnderRemoval, Dropping
<1> DEFINE m == IF e > minted[d] \/ d \in evicted \cup raced \cup unread \cup lost THEN e ELSE minted[d]
<1>m. ASSUME Mint(d, e) PROVE minted'[x] = IF x = d THEN m ELSE minted[x]
  BY <1>m DEF Mint, TypeOK
<1>1. CASE PutHeld(d, e)
  <2>1. /\ file' = file /\ expires' = expires /\ evicted' = evicted /\ raced' = raced
        /\ unread' = unread /\ lost' = lost
        /\ expires[d] # 0 /\ e <= expires[d]
        /\ minted'[x] = IF x = d THEN m ELSE minted[x]
    BY <1>1, <1>m DEF PutHeld, Held
  <2>2. CASE x = d
    BY <1>a, <1>b, <1>c, <2>1, <2>2 DEF UrlOf, DiskOf, GoneOf, Useless
  <2>3. CASE x # d
    BY <1>a, <1>b, <1>c, <2>1, <2>3 DEF UrlOf, DiskOf, GoneOf, Useless
  <2> QED
    BY <2>2, <2>3
<1>2. CASE PutExtends(d, e)
  <2>1. /\ file'[x] = (IF x = d THEN e ELSE file[x])
        /\ expires'[x] = (IF x = d THEN e ELSE expires[x])
        /\ evicted' = evicted /\ expires[d] # 0 /\ ~(e <= expires[d])
        /\ minted'[x] = IF x = d THEN m ELSE minted[x]
        /\ raced' = IF UnderRemoval(d) THEN raced \cup {d} ELSE raced \ {d}
        /\ unread' = unread \ {d} /\ lost' = lost \ {d}
    BY <1>2, <1>m DEF PutExtends, Held, Rewritten, Stored, TypeOK
  <2>2. CASE x = d
    BY <1>a, <1>b, <1>c, <2>1, <2>2 DEF UrlOf, DiskOf, GoneOf, Useless
  <2>3. CASE x # d
    BY <1>a, <1>b, <1>c, <2>1, <2>3 DEF UrlOf, DiskOf, GoneOf, Useless
  <2> QED
    BY <2>2, <2>3
<1>3. ASSUME NEW left \in SUBSET Victims, PutNew(d, e, left)
      PROVE  UrlOf(x)' /\ DiskOf(x)' /\ GoneOf(x)'
  <2>1. /\ file'[x] = (IF x = d THEN e ELSE IF x \in Victims \ left THEN 0 ELSE file[x])
        /\ expires'[x] = (IF x = d THEN e ELSE IF x \in Victims THEN 0 ELSE expires[x])
        /\ evicted' = (evicted \cup Victims) \ {d} /\ expires[d] = 0
        /\ minted'[x] = IF x = d THEN m ELSE minted[x]
        /\ raced' = IF UnderRemoval(d) THEN raced \cup {d} ELSE raced \ {d}
        /\ unread' = unread \ {d} /\ lost' = lost \ {d}
    BY <1>3, <1>m DEF PutNew, Stored, TypeOK
  <2>2. CASE x = d
    BY <1>a, <1>b, <1>c, <2>1, <2>2 DEF UrlOf, DiskOf, GoneOf, Useless
  <2>3. CASE x # d
    BY <1>a, <1>b, <1>c, <2>1, <2>3 DEF UrlOf, DiskOf, GoneOf, Useless
  <2> QED
    BY <2>2, <2>3
<1> QED
  BY <1>1, <1>2, <1>3 DEF PutStep

-----------------------------------------------------------------------------
(* Every step.                                                              *)

Acts ==
    \/ \E d \in Digest, e \in Time : Put(d, e)
    \/ \E c \in Client : Extend(c)
    \/ \E c \in Client : Load(c) \/ LoadFails(c) \/ Drop(c) \/ Reload(c) \/ ExtendFails(c)
    \/ \E c \in Client, d \in Digest : Members(c, d) \/ \E e \in Time : Touch(c, d, e)
    \/ Sweep \/ (\E d \in Digest, ok \in BOOLEAN : Unlink(d, ok))
    \/ Tick \/ Crash
    \/ \E bad \in SUBSET Documents : \E left \in SUBSET (Documents \ Loaded(bad)) : Open(bad, left)
    \/ UNCHANGED vars

LEMMA StepActs == ASSUME [Next]_vars PROVE Acts
  BY DEF Next, Acts


LEMMA NextTypes == ASSUME IInv, Acts PROVE TypeOK'
<1>a. TypeOK /\ Busy
  BY DEF IInv
<1> USE <1>a, TimelineAssumption DEF TypeOK, Busy, BusyOf, Time, spent
<1>1. ASSUME NEW d \in Digest, NEW e \in Time, Put(d, e) PROVE TypeOK'
  <2>1. PutStep(d, e) /\ e \in 0 .. MaxTime /\ UNCHANGED <<now, up, pc, on, exp, sweep, crashes>>
    BY <1>1 DEF Put, asks
  <2> QED
    BY <2>1, PutTypes
<1>2. ASSUME NEW c \in Client, Extend(c) PROVE TypeOK'
  <2>1. /\ PutStep(on[c], exp[c]) /\ on[c] \in Digest /\ exp[c] \in 0 .. MaxTime
        /\ UNCHANGED <<now, up, sweep, crashes>>
    BY <1>2 DEF Extend
  <2>2. /\ pc' \in [Client -> {"idle", "load", "drop", "reload", "extend"}]
        /\ on' \in [Client -> Digest \cup {NoDigest}] /\ exp' \in [Client -> 0 .. MaxTime]
    BY <1>2 DEF Extend, Finishes, Becomes
  <2> QED
    BY <2>1, <2>2, PutTypes
<1>3. ASSUME NEW c \in Client, Load(c) PROVE TypeOK'
  BY <1>3 DEF Load, Finishes, Becomes, index, past
<1>4. ASSUME NEW c \in Client, Drop(c) PROVE TypeOK'
  BY <1>4 DEF Drop, Finishes, Becomes, past
<1>5. ASSUME NEW c \in Client, Reload(c) PROVE TypeOK'
  BY <1>5 DEF Reload, Finishes, Becomes, index, past
<1>6. ASSUME NEW c \in Client, ExtendFails(c) PROVE TypeOK'
  BY <1>6 DEF ExtendFails, Finishes, Becomes, index, past
<1>7. ASSUME NEW c \in Client, NEW d \in Digest, Members(c, d) PROVE TypeOK'
  BY <1>7 DEF Members, Becomes
<1>8. ASSUME NEW c \in Client, NEW d \in Digest, NEW e \in Time, Touch(c, d, e) PROVE TypeOK'
  BY <1>8 DEF Touch, Becomes, asks
<1>9. ASSUME Sweep PROVE TypeOK'
  BY <1>9 DEF Sweep, Dead, Indexed, asks, past
<1>10. ASSUME NEW d \in Digest, NEW ok \in BOOLEAN, Unlink(d, ok) PROVE TypeOK'
  BY <1>10 DEF Unlink, Fails, index, asks, past
<1>11. ASSUME Tick PROVE TypeOK'
  BY <1>11 DEF Tick, index, asks, past
<1>12. ASSUME Crash PROVE TypeOK'
  <2>1. /\ crashes' \in 0 .. MaxCrash /\ up' = FALSE /\ boot' = FALSE /\ sweep' = {}
        /\ UNCHANGED <<now, file, minted, raced, unread, lost, faults>>
    BY <1>12 DEF Crash
  <2>2. /\ pc' \in [Client -> {"idle", "load", "drop", "reload", "extend"}]
        /\ on' \in [Client -> Digest \cup {NoDigest}] /\ exp' \in [Client -> 0 .. MaxTime]
        /\ expires' \in [Digest -> 0 .. MaxTime]
    BY <1>12 DEF Crash
  <2> QED
    BY <2>1, <2>2
<1>13. ASSUME NEW bad \in SUBSET Documents, NEW left \in SUBSET (Documents \ Loaded(bad)),
              Open(bad, left)
       PROVE  TypeOK'
  BY <1>13 DEF Open, Loaded, Documents, Fails, asks
<1>15. ASSUME NEW c \in Client, LoadFails(c) PROVE TypeOK'
  BY <1>15 DEF LoadFails, Becomes, Fails, index
<1>14. ASSUME UNCHANGED vars PROVE TypeOK'
  BY <1>14 DEF vars, index, asks, past
<1> QED
  BY <1>1, <1>2, <1>3, <1>4, <1>5, <1>6, <1>7, <1>8, <1>9, <1>10, <1>11, <1>12, <1>13, <1>14, <1>15 DEF
     Acts

LEMMA NextBusy == ASSUME IInv, Acts PROVE Busy'
<1> SUFFICES ASSUME NEW b \in Client PROVE BusyOf(b)'
  BY DEF Busy
<1>a. TypeOK /\ BusyOf(b)
  BY DEF IInv, Busy
<1> USE <1>a, TimelineAssumption DEF TypeOK, BusyOf
<1>1. ASSUME NEW d \in Digest, NEW e \in Time, Put(d, e) PROVE BusyOf(b)'
  BY <1>1 DEF Put, asks
<1>2. ASSUME NEW c \in Client, Extend(c) PROVE BusyOf(b)'
  BY <1>2 DEF Extend, Finishes, Becomes
<1>3. ASSUME NEW c \in Client, Load(c) PROVE BusyOf(b)'
  BY <1>3 DEF Load, Finishes, Becomes, index, past
<1>4. ASSUME NEW c \in Client, Drop(c) PROVE BusyOf(b)'
  BY <1>4 DEF Drop, Finishes, Becomes, past
<1>5. ASSUME NEW c \in Client, Reload(c) PROVE BusyOf(b)'
  BY <1>5 DEF Reload, Finishes, Becomes, index, past
<1>6. ASSUME NEW c \in Client, ExtendFails(c) PROVE BusyOf(b)'
  BY <1>6 DEF ExtendFails, Finishes, Becomes, index, past
<1>7. ASSUME NEW c \in Client, NEW d \in Digest, Members(c, d) PROVE BusyOf(b)'
  BY <1>7 DEF Members, Becomes
<1>8. ASSUME NEW c \in Client, NEW d \in Digest, NEW e \in Time, Touch(c, d, e) PROVE BusyOf(b)'
  BY <1>8 DEF Touch, Becomes, asks
<1>9. ASSUME Sweep PROVE BusyOf(b)'
  BY <1>9 DEF Sweep, Dead, Indexed, asks, past
<1>10. ASSUME NEW d \in Digest, NEW ok \in BOOLEAN, Unlink(d, ok) PROVE BusyOf(b)'
  BY <1>10 DEF Unlink, index, asks, past
<1>11. ASSUME Tick PROVE BusyOf(b)'
  BY <1>11 DEF Tick, index, asks, past
<1>12. ASSUME Crash PROVE BusyOf(b)'
  BY <1>12 DEF Crash
<1>13. ASSUME NEW bad \in SUBSET Documents, NEW left \in SUBSET (Documents \ Loaded(bad)),
              Open(bad, left)
       PROVE  BusyOf(b)'
  BY <1>13 DEF Open, Loaded, Documents, asks
<1>15. ASSUME NEW c \in Client, LoadFails(c) PROVE BusyOf(b)'
  BY <1>15 DEF LoadFails, Becomes, index
<1>14. ASSUME UNCHANGED vars PROVE BusyOf(b)'
  BY <1>14 DEF vars, index, asks, past
<1> QED
  BY <1>1, <1>2, <1>3, <1>4, <1>5, <1>6, <1>7, <1>8, <1>9, <1>10, <1>11, <1>12, <1>13, <1>14, <1>15 DEF
     Acts

LEMMA NextUrls == ASSUME IInv, Acts PROVE Urls'
<1> SUFFICES ASSUME NEW x \in Digest PROVE UrlOf(x)'
  BY DEF Urls
<1>a. TypeOK /\ Busy /\ UrlOf(x) /\ GoneOf(x)
  BY DEF IInv, Urls, Gones
<1> USE <1>a, TimelineAssumption DEF TypeOK, UrlOf, GoneOf, Useless, Dropping
<1>1. ASSUME NEW d \in Digest, NEW e \in Time, Put(d, e) PROVE UrlOf(x)'
  <2>1. PutStep(d, e) /\ up /\ UNCHANGED <<now, up, pc, on, sweep>> /\ e \in 0 .. MaxTime
    BY <1>1 DEF Put, asks, Time
  <2>2. Dropping(x)' <=> Dropping(x)
    BY <2>1 DEF Dropping
  <2> QED
    BY <2>1, <2>2, PutKeeps DEF IInv
<1>2. ASSUME NEW c \in Client, Extend(c) PROVE UrlOf(x)'
  <2>1. /\ PutStep(on[c], exp[c]) /\ up /\ UNCHANGED <<now, up, sweep>>
        /\ on[c] \in Digest /\ exp[c] \in 0 .. MaxTime /\ pc[c] = "extend"
        /\ pc' = [pc EXCEPT ![c] = "idle"] /\ on' = [on EXCEPT ![c] = NoDigest]
    BY <1>2 DEF Extend, Finishes, Becomes, Busy, BusyOf
  <2>2. Dropping(x)' <=> Dropping(x)
    BY <2>1 DEF Dropping
  <2> QED
    BY <2>1, <2>2, PutKeeps DEF IInv
<1>3. ASSUME NEW c \in Client, Load(c) PROVE UrlOf(x)'
  BY <1>3 DEF Load, Finishes, Becomes, index, past
<1>4. ASSUME NEW c \in Client, Drop(c) PROVE UrlOf(x)'
  BY <1>4 DEF Drop, Finishes, Becomes, past
<1>5. ASSUME NEW c \in Client, Reload(c) PROVE UrlOf(x)'
  BY <1>5 DEF Reload, Finishes, Becomes, index, past
<1>6. ASSUME NEW c \in Client, ExtendFails(c) PROVE UrlOf(x)'
  BY <1>6 DEF ExtendFails, Finishes, Becomes, index, past
<1>7. ASSUME NEW c \in Client, NEW d \in Digest, Members(c, d) PROVE UrlOf(x)'
  BY <1>7 DEF Members, Becomes
<1>8. ASSUME NEW c \in Client, NEW d \in Digest, NEW e \in Time, Touch(c, d, e) PROVE UrlOf(x)'
  BY <1>8 DEF Touch, Becomes, asks
<1>9. ASSUME Sweep PROVE UrlOf(x)'
  BY <1>9 DEF Sweep, Dead, Indexed, asks, past
<1>10. ASSUME NEW d \in Digest, NEW ok \in BOOLEAN, Unlink(d, ok) PROVE UrlOf(x)'
  BY <1>10 DEF Unlink, index, asks, past
<1>11. ASSUME Tick PROVE UrlOf(x)'
  BY <1>11 DEF Tick, index, asks, past
<1>12. ASSUME Crash PROVE UrlOf(x)'
  BY <1>12 DEF Crash
<1>13. ASSUME NEW bad \in SUBSET Documents, NEW left \in SUBSET (Documents \ Loaded(bad)),
              Open(bad, left)
       PROVE  UrlOf(x)'
  BY <1>13 DEF Open, Loaded, Documents, asks
<1>15. ASSUME NEW c \in Client, LoadFails(c) PROVE UrlOf(x)'
  BY <1>15 DEF LoadFails, Becomes, index
<1>14. ASSUME UNCHANGED vars PROVE UrlOf(x)'
  BY <1>14 DEF vars, index, asks, past
<1> QED
  BY <1>1, <1>2, <1>3, <1>4, <1>5, <1>6, <1>7, <1>8, <1>9, <1>10, <1>11, <1>12, <1>13, <1>14, <1>15 DEF
     Acts

LEMMA NextDisks == ASSUME IInv, Acts PROVE Disks'
<1> SUFFICES ASSUME NEW x \in Digest PROVE DiskOf(x)'
  BY DEF Disks
<1>a. TypeOK /\ Busy /\ DiskOf(x) /\ GoneOf(x)
  BY DEF IInv, Disks, Gones
<1> USE <1>a, TimelineAssumption DEF TypeOK, DiskOf, GoneOf, Useless, Dropping
<1>1. ASSUME NEW d \in Digest, NEW e \in Time, Put(d, e) PROVE DiskOf(x)'
  <2>1. PutStep(d, e) /\ up /\ UNCHANGED <<now, up, pc, on, sweep>> /\ e \in 0 .. MaxTime
    BY <1>1 DEF Put, asks, Time
  <2>2. Dropping(x)' <=> Dropping(x)
    BY <2>1 DEF Dropping
  <2> QED
    BY <2>1, <2>2, PutKeeps DEF IInv
<1>2. ASSUME NEW c \in Client, Extend(c) PROVE DiskOf(x)'
  <2>1. /\ PutStep(on[c], exp[c]) /\ up /\ UNCHANGED <<now, up, sweep>>
        /\ on[c] \in Digest /\ exp[c] \in 0 .. MaxTime /\ pc[c] = "extend"
        /\ pc' = [pc EXCEPT ![c] = "idle"] /\ on' = [on EXCEPT ![c] = NoDigest]
    BY <1>2 DEF Extend, Finishes, Becomes, Busy, BusyOf
  <2>2. Dropping(x)' <=> Dropping(x)
    BY <2>1 DEF Dropping
  <2> QED
    BY <2>1, <2>2, PutKeeps DEF IInv
<1>3. ASSUME NEW c \in Client, Load(c) PROVE DiskOf(x)'
  BY <1>3 DEF Load, Finishes, Becomes, index, past
<1>4. ASSUME NEW c \in Client, Drop(c) PROVE DiskOf(x)'
  BY <1>4 DEF Drop, Finishes, Becomes, past
<1>5. ASSUME NEW c \in Client, Reload(c) PROVE DiskOf(x)'
  BY <1>5 DEF Reload, Finishes, Becomes, index, past
<1>6. ASSUME NEW c \in Client, ExtendFails(c) PROVE DiskOf(x)'
  BY <1>6 DEF ExtendFails, Finishes, Becomes, index, past
<1>7. ASSUME NEW c \in Client, NEW d \in Digest, Members(c, d) PROVE DiskOf(x)'
  BY <1>7 DEF Members, Becomes
<1>8. ASSUME NEW c \in Client, NEW d \in Digest, NEW e \in Time, Touch(c, d, e) PROVE DiskOf(x)'
  BY <1>8 DEF Touch, Becomes, asks
<1>9. ASSUME Sweep PROVE DiskOf(x)'
  BY <1>9 DEF Sweep, Dead, Indexed, asks, past
<1>10. ASSUME NEW d \in Digest, NEW ok \in BOOLEAN, Unlink(d, ok) PROVE DiskOf(x)'
  BY <1>10 DEF Unlink, index, asks, past
<1>11. ASSUME Tick PROVE DiskOf(x)'
  BY <1>11 DEF Tick, index, asks, past
<1>12. ASSUME Crash PROVE DiskOf(x)'
  BY <1>12 DEF Crash
<1>13. ASSUME NEW bad \in SUBSET Documents, NEW left \in SUBSET (Documents \ Loaded(bad)),
              Open(bad, left)
       PROVE  DiskOf(x)'
  BY <1>13 DEF Open, Loaded, Documents, asks
<1>15. ASSUME NEW c \in Client, LoadFails(c) PROVE DiskOf(x)'
  BY <1>15 DEF LoadFails, Becomes, index
<1>14. ASSUME UNCHANGED vars PROVE DiskOf(x)'
  BY <1>14 DEF vars, index, asks, past
<1> QED
  BY <1>1, <1>2, <1>3, <1>4, <1>5, <1>6, <1>7, <1>8, <1>9, <1>10, <1>11, <1>12, <1>13, <1>14, <1>15 DEF
     Acts

LEMMA NextGones == ASSUME IInv, Acts PROVE Gones'
<1> SUFFICES ASSUME NEW x \in Digest PROVE GoneOf(x)'
  BY DEF Gones
<1>a. TypeOK /\ Busy /\ UrlOf(x) /\ DiskOf(x) /\ GoneOf(x)
  BY DEF IInv, Urls, Disks, Gones
<1> USE <1>a, TimelineAssumption DEF TypeOK, UrlOf, DiskOf, GoneOf, Useless, Dropping
<1>1. ASSUME NEW d \in Digest, NEW e \in Time, Put(d, e) PROVE GoneOf(x)'
  <2>1. PutStep(d, e) /\ up /\ UNCHANGED <<now, up, pc, on, sweep>> /\ e \in 0 .. MaxTime
    BY <1>1 DEF Put, asks, Time
  <2>2. Dropping(x)' <=> Dropping(x)
    BY <2>1 DEF Dropping
  <2> QED
    BY <2>1, <2>2, PutKeeps DEF IInv
<1>2. ASSUME NEW c \in Client, Extend(c) PROVE GoneOf(x)'
  <2>1. /\ PutStep(on[c], exp[c]) /\ up /\ UNCHANGED <<now, up, sweep>>
        /\ on[c] \in Digest /\ exp[c] \in 0 .. MaxTime /\ pc[c] = "extend"
        /\ pc' = [pc EXCEPT ![c] = "idle"] /\ on' = [on EXCEPT ![c] = NoDigest]
    BY <1>2 DEF Extend, Finishes, Becomes, Busy, BusyOf
  <2>2. Dropping(x)' <=> Dropping(x)
    BY <2>1 DEF Dropping
  <2> QED
    BY <2>1, <2>2, PutKeeps DEF IInv
<1>3. ASSUME NEW c \in Client, Load(c) PROVE GoneOf(x)'
  BY <1>3 DEF Load, Finishes, Becomes, index, past
<1>4. ASSUME NEW c \in Client, Drop(c) PROVE GoneOf(x)'
  BY <1>4 DEF Drop, Finishes, Becomes, past
<1>5. ASSUME NEW c \in Client, Reload(c) PROVE GoneOf(x)'
  BY <1>5 DEF Reload, Finishes, Becomes, index, past
<1>6. ASSUME NEW c \in Client, ExtendFails(c) PROVE GoneOf(x)'
  BY <1>6 DEF ExtendFails, Finishes, Becomes, index, past
<1>7. ASSUME NEW c \in Client, NEW d \in Digest, Members(c, d) PROVE GoneOf(x)'
  BY <1>7 DEF Members, Becomes
<1>8. ASSUME NEW c \in Client, NEW d \in Digest, NEW e \in Time, Touch(c, d, e) PROVE GoneOf(x)'
  BY <1>8 DEF Touch, Becomes, asks
<1>9. ASSUME Sweep PROVE GoneOf(x)'
  BY <1>9 DEF Sweep, Dead, Indexed, asks, past
<1>10. ASSUME NEW d \in Digest, NEW ok \in BOOLEAN, Unlink(d, ok) PROVE GoneOf(x)'
  BY <1>10 DEF Unlink, index, asks, past
<1>11. ASSUME Tick PROVE GoneOf(x)'
  BY <1>11 DEF Tick, index, asks, past
<1>12. ASSUME Crash PROVE GoneOf(x)'
  BY <1>12 DEF Crash
<1>13. ASSUME NEW bad \in SUBSET Documents, NEW left \in SUBSET (Documents \ Loaded(bad)),
              Open(bad, left)
       PROVE  GoneOf(x)'
  <2>1. ~up /\ pc' = pc /\ sweep' = sweep
    BY <1>13 DEF Open, asks
  <2>2. ~Dropping(x)' /\ x \notin sweep'
    BY <2>1 DEF Busy, BusyOf
  <2> QED
    BY <2>2
<1>15. ASSUME NEW c \in Client, LoadFails(c) PROVE GoneOf(x)'
  BY <1>15 DEF LoadFails, Becomes, index
<1>14. ASSUME UNCHANGED vars PROVE GoneOf(x)'
  BY <1>14 DEF vars, index, asks, past
<1> QED
  BY <1>1, <1>2, <1>3, <1>4, <1>5, <1>6, <1>7, <1>8, <1>9, <1>10, <1>11, <1>12, <1>13, <1>14, <1>15 DEF
     Acts

LEMMA InitIInv == Init => IInv
<1> SUFFICES ASSUME Init PROVE IInv
  OBVIOUS
<1> USE TimelineAssumption DEF Init
<1>1. up \in BOOLEAN /\ boot \in BOOLEAN
  BY Zenon
<1>2. TypeOK
  BY <1>1 DEF TypeOK
<1>3. Busy /\ Urls /\ Disks /\ Gones
  BY DEF Busy, BusyOf, Urls, UrlOf, Disks, DiskOf, Gones, GoneOf, Dropping
<1> QED
  BY <1>2, <1>3 DEF IInv

\* The inductive invariant: types, the two promises of each timeline, and that
\* what is about to be removed or unlisted is of no use to anyone, unless it was
\* stored again or its document could not be loaded (internal/timeline/store.go:
\* Put, Members, Touch, GC, Open).
THEOREM StoreInvariant == Spec => []IInv
<1>1. IInv /\ [Next]_vars => IInv'
  BY StepActs, NextTypes, NextBusy, NextUrls, NextDisks, NextGones DEF IInv
<1> QED
  BY InitIInv, <1>1, PTL DEF Spec

\* A timeline outlives every URL minted against it, in memory and on disk,
\* unless the cap took it, a removal was under way when it was stored or its
\* document could not be loaded (by a boot, which removes it, or by a request,
\* which unlists it), and its document carries the expiry the index goes by
\* (Put, Members, Touch, GC, Open).
THEOREM TimelinesOutliveHolds == Spec => []TimelinesOutlive
<1>1. IInv => TimelinesOutlive
  BY DEF IInv, TimelinesOutlive, UrlOutlived, DiskMatchesIndex, Urls, UrlOf, Disks, DiskOf, Indexed
<1> QED
  BY <1>1, StoreInvariant, PTL
-----------------------------------------------------------------------------
(* The order of use, and what the cap takes of it.                          *)

LEMMA WithoutIsOrder ==
    ASSUME NEW s, NEW U, IsOrder(s, U), NEW D
    PROVE  IsOrder(Without(s, D), U \ D)
<1> USE DEF IsOrder, Without
<1>1. Without(s, D) \subseteq (U \ D) \X (U \ D)
  OBVIOUS
<1>2. \A x \in U \ D : <<x, x>> \notin Without(s, D)
  OBVIOUS
<1>3. \A x, y \in U \ D : x # y => <<x, y>> \in Without(s, D) \/ <<y, x>> \in Without(s, D)
  OBVIOUS
<1>4. \A x, y, z \in U \ D :
        <<x, y>> \in Without(s, D) /\ <<y, z>> \in Without(s, D) => <<x, z>> \in Without(s, D)
  OBVIOUS
<1> QED
  BY <1>1, <1>2, <1>3, <1>4

LEMMA MarkedIsOrder ==
    ASSUME NEW s, NEW U, IsOrder(s, U), NEW d
    PROVE  /\ IsOrder(Marked(s, U, d), U \cup {d})
           /\ \A x \in U \ {d} : <<x, d>> \in Marked(s, U, d)
<1> DEFINE w == Without(s, {d})
           V == U \ {d}
           m == w \cup (V \X {d})
<1>1. IsOrder(w, V)
  BY WithoutIsOrder
<1>2. d \notin V /\ U \cup {d} = V \cup {d} /\ Marked(s, U, d) = m
  BY DEF Marked
<1> HIDE DEF w, V
<1>3. m \subseteq (V \cup {d}) \X (V \cup {d})
  BY <1>1 DEF IsOrder
<1>4. \A x, y : <<x, y>> \in m <=> (<<x, y>> \in w \/ (x \in V /\ y = d))
  OBVIOUS
<1>5. \A x, y : <<x, y>> \in w => x \in V /\ y \in V
  BY <1>1 DEF IsOrder
<1> HIDE DEF m
<1>6. \A x \in V \cup {d} : <<x, x>> \notin m
  BY <1>1, <1>2, <1>4, <1>5 DEF IsOrder
<1>7. \A x, y \in V \cup {d} : x # y => <<x, y>> \in m \/ <<y, x>> \in m
  BY <1>1, <1>4 DEF IsOrder
<1>8. \A x, y, z \in V \cup {d} : <<x, y>> \in m /\ <<y, z>> \in m => <<x, z>> \in m
  BY <1>1, <1>2, <1>4, <1>5 DEF IsOrder
<1>9. IsOrder(m, V \cup {d})
  BY <1>3, <1>6, <1>7, <1>8 DEF IsOrder
<1>10. \A x \in V : <<x, d>> \in m
  BY <1>4
<1> QED
  BY <1>2, <1>9, <1>10 DEF V

\* A nonempty set of ordered timelines has one that was used before the others.
LEMMA OldestOf ==
    ASSUME NEW s, NEW U, IsFiniteSet(U), IsOrder(s, U), NEW T \in SUBSET U, T # {}
    PROVE  \E d \in T : \A x \in T : <<x, d>> \notin s
<1> DEFINE Below(d) == {x \in U : <<x, d>> \in s}
           B == {Below(d) : d \in T}
<1>1. IsWellFoundedOn(StrictSubsetOrdering(U), FiniteSubsetsOf(U))
  BY FS_StrictSubsetOrderingWellFounded
<1>2. B \subseteq FiniteSubsetsOf(U) /\ B # {}
  <2>1. \A R \in B : R \in SUBSET U
    OBVIOUS
  <2>2. B # {}
    OBVIOUS
  <2> HIDE DEF B
  <2> QED
    BY <2>1, <2>2, FS_Subset DEF FiniteSubsetsOf
<1>3. PICK S \in B : \A R \in B : ~(<<R, S>> \in StrictSubsetOrdering(U))
  <2> HIDE DEF B
  <2> QED
    BY <1>1, <1>2, WFMin
<1>4. PICK d \in T : S = Below(d)
  OBVIOUS
<1>5. ASSUME NEW x \in T, <<x, d>> \in s PROVE FALSE
  <2>1. Below(x) \subseteq Below(d)
    BY <1>5 DEF IsOrder
  <2>2. x \in Below(d) /\ x \notin Below(x)
    BY <1>5 DEF IsOrder
  <2>3. Below(x) \in B
    OBVIOUS
  <2>4. <<Below(x), S>> \in StrictSubsetOrdering(U)
    <3>1. Below(x) \in SUBSET U /\ S \in SUBSET U /\ Below(x) \subseteq S /\ Below(x) # S
      BY <1>4, <2>1, <2>2
    <3> HIDE DEF Below, B
    <3> QED
      BY <3>1 DEF StrictSubsetOrdering
  <2> QED
    BY <1>3, <2>3, <2>4
<1> QED
  BY <1>5

LEMMA IndexedIsFinite == IsFiniteSet(Indexed) /\ Indexed \in SUBSET Digest /\ Cardinality(Indexed) \in Nat
<1>1. Indexed \in SUBSET Digest
  BY DEF Indexed
<1>2. IsFiniteSet(Indexed)
  BY <1>1, TimelineAssumption, FS_Subset
<1> QED
  BY <1>1, <1>2, FS_CardinalityType

\* The eviction loop makes room for one more.
LEMMA VictimsMakeRoom ==
    ASSUME IsOrder(older, Indexed)
    PROVE  /\ IsFiniteSet(Indexed \ Victims)
           /\ Cardinality(Indexed \ Victims) + 1 <= MaxEntries
<1> DEFINE n == Cardinality(Indexed)
           T == Indexed \ Victims
<1>1. /\ IsFiniteSet(Indexed) /\ n \in Nat /\ MaxEntries \in Nat /\ MaxEntries >= 1
      /\ Victims \in SUBSET Indexed
  BY IndexedIsFinite, TimelineAssumption DEF Victims
<1>2. /\ IsFiniteSet(Victims) /\ IsFiniteSet(T)
      /\ Cardinality(Victims) \in Nat /\ Cardinality(T) \in Nat
  <2>1. T \in SUBSET Indexed
    OBVIOUS
  <2> QED
    BY <1>1, <2>1, FS_Subset, FS_CardinalityType
<1>3. n = Cardinality(Victims) + Cardinality(T)
  <2>1. Indexed \cap Victims = Victims
    BY <1>1
  <2>2. Cardinality(T) = n - Cardinality(Victims)
    BY <1>1, <2>1, FS_Difference
  <2> QED
    BY <1>1, <1>2, <2>2
<1>4. Excess \in Nat /\ Excess <= n /\ n - Excess + 1 <= MaxEntries
  BY <1>1 DEF Excess
<1>5. Cardinality(Victims) >= Excess
  <2>1. CASE T = {}
    <3>1. Victims = Indexed
      BY <1>1, <2>1
    <3> QED
      BY <1>1, <1>4, <3>1
  <2>2. CASE T # {}
    <3>1. PICK d \in T : \A x \in T : <<x, d>> \notin older
      BY <1>1, <2>2, OldestOf
    <3>2. Before(d) \in SUBSET Victims
      BY <3>1 DEF Before
    <3>3. Cardinality(Before(d)) <= Cardinality(Victims) /\ Cardinality(Before(d)) \in Nat
      BY <1>2, <3>2, FS_Subset, FS_CardinalityType
    <3>4. ~(Cardinality(Before(d)) < Excess)
      BY DEF Victims
    <3> QED
      BY <1>2, <1>4, <3>3, <3>4
  <2> QED
    BY <2>1, <2>2
<1> QED
  BY <1>1, <1>2, <1>3, <1>4, <1>5

\* Everything else was used before the timeline that was used last.
LatestOf(d) == d \in Indexed => \A x \in Indexed \ {d} : <<x, d>> \in older

\* With a cap of two or more, the timeline used last is no victim.
LEMMA LatestIsSpared ==
    ASSUME MaxEntries > 1, IsOrder(older, Indexed), NEW d, LatestOf(d)
    PROVE  d \notin Victims
<1> SUFFICES ASSUME d \in Indexed PROVE ~(Cardinality(Before(d)) < Excess)
  BY DEF Victims
<1>1. IsFiniteSet(Indexed) /\ Cardinality(Indexed) \in Nat /\ MaxEntries \in Nat
  BY IndexedIsFinite, TimelineAssumption
<1>2. Before(d) = Indexed \ {d}
  BY DEF LatestOf, Before, IsOrder
<1>3. Cardinality(Before(d)) = Cardinality(Indexed) - 1
  BY <1>1, <1>2, FS_RemoveElement
<1>4. Cardinality(Indexed) >= 1
  BY <1>1, FS_EmptySet
<1> QED
  BY <1>1, <1>3, <1>4 DEF Excess

-----------------------------------------------------------------------------
(* The second invariant: the order of use is one, the store is within its   *)
(* cap, and the timeline used last is the last of the order.                *)

Latest == (~up => last = NoDigest) /\ LatestOf(last)

\* An extension asked for is to a time that is not zero.
Asked == \A c \in Client : pc[c] \in {"reload", "extend"} => exp[c] # 0

FairInv == OrderMatchesIndex /\ CapConverges /\ Latest /\ Asked

\* What a step takes from the index, if anything, it takes from the order.
LEMMA ForgetKeeps ==
    ASSUME OrderMatchesIndex, CapConverges, Latest, NEW D,
           Indexed' = Indexed \ D, older' = Without(older, D), UNCHANGED <<up, last, boot>>
    PROVE  OrderMatchesIndex' /\ CapConverges' /\ Latest'
<1>1. IsOrder(older', Indexed')
  BY WithoutIsOrder DEF OrderMatchesIndex
<1>2. OrderMatchesIndex'
  BY <1>1 DEF OrderMatchesIndex
<1>3. Cardinality(Indexed') <= Cardinality(Indexed) /\ Cardinality(Indexed') \in Nat
  <2>1. Indexed \ D \in SUBSET Indexed
    OBVIOUS
  <2> QED
    BY <2>1, IndexedIsFinite, FS_Subset, FS_CardinalityType
<1>4. CapConverges'
  <2>1. Cardinality(Indexed)' = Cardinality(Indexed')
    OBVIOUS
  <2> QED
    BY <1>3, <2>1, IndexedIsFinite, TimelineAssumption DEF CapConverges
<1>5. Latest'
  BY DEF Latest, LatestOf, Without
<1> QED
  BY <1>2, <1>4, <1>5

\* A use of d, already listed.
LEMMA UseKeeps ==
    ASSUME OrderMatchesIndex, CapConverges, NEW d \in Indexed,
           Indexed' = Indexed, older' = Marked(older, Indexed, d), last' = d, up, UNCHANGED <<up, boot>>
    PROVE  OrderMatchesIndex' /\ CapConverges' /\ Latest'
<1>1. /\ IsOrder(older', Indexed \cup {d})
      /\ \A x \in Indexed \ {d} : <<x, d>> \in older'
  BY MarkedIsOrder DEF OrderMatchesIndex
<1>2. Indexed \cup {d} = Indexed'
  OBVIOUS
<1>3. OrderMatchesIndex'
  BY <1>1, <1>2 DEF OrderMatchesIndex
<1>4. CapConverges'
  BY DEF CapConverges
<1>5. Latest'
  BY <1>1 DEF Latest, LatestOf
<1> QED
  BY <1>3, <1>4, <1>5

LEMMA PutKeepsFair ==
    ASSUME TypeOK, FairInv, up, up' = up, NEW d \in Digest, NEW e \in (0 .. MaxTime) \ {0}, PutStep(d, e)
    PROVE  /\ OrderMatchesIndex' /\ CapConverges' /\ Latest'
           /\ evicted' \subseteq evicted \cup Victims
<1> USE DEF TypeOK, FairInv
<1>1. CASE PutHeld(d, e)
  <2>1. /\ d \in Indexed /\ expires' = expires /\ boot' = boot /\ evicted' = evicted
        /\ older' = Marked(older, Indexed, d) /\ last' = d
    BY <1>1 DEF PutHeld, Held, Indexed, Mint
  <2>2. Indexed' = Indexed
    BY <2>1 DEF Indexed
  <2> QED
    BY <2>1, <2>2, UseKeeps
<1>2. CASE PutExtends(d, e)
  <2>1. /\ d \in Indexed /\ expires' = [expires EXCEPT ![d] = e] /\ boot' = boot
        /\ older' = Marked(older, Indexed, d) /\ last' = d /\ evicted' = evicted
    BY <1>2 DEF PutExtends, Indexed, Mint
  <2>2. Indexed' = Indexed
    BY <2>1 DEF Indexed
  <2> QED
    BY <2>1, <2>2, UseKeeps
<1>3. ASSUME NEW left \in SUBSET Victims, PutNew(d, e, left)
      PROVE  /\ OrderMatchesIndex' /\ CapConverges' /\ Latest'
             /\ evicted' \subseteq evicted \cup Victims
  <2> DEFINE U == Indexed \ Victims
  <2>1. /\ expires' = [x \in Digest |-> IF x = d THEN e ELSE IF x \in Victims THEN 0 ELSE expires[x]]
        /\ older' = Marked(Without(older, Victims), U, d)
        /\ last' = d /\ boot' = FALSE /\ evicted' = (evicted \cup Victims) \ {d}
        /\ d \notin Indexed
    BY <1>3 DEF PutNew, Mint, Indexed
  <2>2. Indexed' = U \cup {d}
    BY <2>1 DEF Indexed
  <2>3. IsOrder(Without(older, Victims), U)
    BY WithoutIsOrder DEF OrderMatchesIndex
  <2>4. /\ IsOrder(older', U \cup {d})
        /\ \A x \in U \ {d} : <<x, d>> \in older'
    <3> HIDE DEF U
    <3> QED
      BY <2>1, <2>3, MarkedIsOrder
  <2>5. IsFiniteSet(U) /\ Cardinality(U) + 1 <= MaxEntries
    BY VictimsMakeRoom DEF OrderMatchesIndex
  <2>6. Cardinality(U \cup {d}) = Cardinality(U) + 1
    <3>1. d \notin U
      BY <2>1
    <3> HIDE DEF U
    <3> QED
      BY <2>5, <3>1, FS_AddElement
  <2>7. OrderMatchesIndex'
    BY <2>2, <2>4 DEF OrderMatchesIndex
  <2>8. CapConverges'
    <3>1. Cardinality(Indexed)' = Cardinality(U) + 1
      BY <2>2, <2>6
    <3>2. Cardinality(U) \in Nat
      BY <2>5, FS_CardinalityType
    <3> HIDE DEF U
    <3> QED
      BY <2>5, <3>1, <3>2, TimelineAssumption DEF CapConverges
  <2>9. Latest'
    BY <2>1, <2>2, <2>4 DEF Latest, LatestOf
  <2> QED
    BY <2>1, <2>7, <2>8, <2>9
<1> QED
  BY <1>1, <1>2, <1>3 DEF PutStep

\* The step's promise: the invariant holds after it, and the cap spared the
\* timeline used last.
Spares == MaxEntries > 1 /\ last \in evicted' => last \in evicted
Fairly == OrderMatchesIndex' /\ CapConverges' /\ Latest' /\ Spares

LEMMA StepIsFair == ASSUME IInv, FairInv, Acts PROVE Fairly
<1>a. TypeOK /\ Busy /\ OrderMatchesIndex /\ CapConverges /\ Latest /\ Asked
  BY DEF IInv, FairInv
<1>b. evicted' \subseteq evicted \cup Victims => Spares
  BY <1>a, LatestIsSpared DEF Spares, Latest, OrderMatchesIndex
<1>c. ASSUME UNCHANGED <<expires, older, last, up, boot, evicted>> PROVE Fairly
  BY <1>a, <1>c DEF Fairly, Spares, OrderMatchesIndex, CapConverges, Latest, LatestOf, Indexed
<1>1. ASSUME NEW d \in Digest, NEW e \in Time, Put(d, e) PROVE Fairly
  <2>1. PutStep(d, e) /\ up /\ up' = up /\ e \in (0 .. MaxTime) \ {0}
    BY <1>1 DEF Put, Time
  <2> QED
    BY <1>a, <1>b, <2>1, PutKeepsFair DEF Fairly, FairInv
<1>2. ASSUME NEW c \in Client, Extend(c) PROVE Fairly
  <2>1. PutStep(on[c], exp[c]) /\ up /\ up' = up /\ on[c] \in Digest /\ exp[c] \in (0 .. MaxTime) \ {0}
    BY <1>a, <1>2 DEF Extend, Busy, BusyOf, Asked, TypeOK
  <2> QED
    BY <1>a, <1>b, <2>1, PutKeepsFair DEF Fairly, FairInv
<1>3. ASSUME NEW c \in Client, Load(c) \/ LoadFails(c) \/ Reload(c) \/ ExtendFails(c) PROVE Fairly
  BY <1>3, <1>c DEF Load, LoadFails, Reload, ExtendFails, index, past
<1>4. ASSUME NEW c \in Client, Drop(c) PROVE Fairly
  <2>1. /\ expires' = [expires EXCEPT ![on[c]] = 0] /\ older' = Without(older, {on[c]})
        /\ UNCHANGED <<up, last, boot, evicted>>
    BY <1>4 DEF Drop, past
  <2>2. Indexed' = Indexed \ {on[c]}
    BY <1>a, <2>1 DEF Indexed, TypeOK
  <2>3. OrderMatchesIndex' /\ CapConverges' /\ Latest'
    BY <1>a, <2>1, <2>2, ForgetKeeps
  <2> QED
    BY <2>1, <2>3 DEF Fairly, Spares
<1>5. ASSUME NEW c \in Client, NEW d \in Digest, Members(c, d) PROVE Fairly
  <2>1. /\ d \in Indexed /\ up /\ older' = Marked(older, Indexed, d) /\ last' = d
        /\ UNCHANGED <<expires, up, boot, evicted>>
    BY <1>5 DEF Members, Indexed
  <2>2. Indexed' = Indexed
    BY <2>1 DEF Indexed
  <2>3. OrderMatchesIndex' /\ CapConverges' /\ Latest'
    BY <1>a, <2>1, <2>2, UseKeeps
  <2> QED
    BY <2>1, <2>3 DEF Fairly, Spares
<1>6. ASSUME NEW c \in Client, NEW d \in Digest, NEW e \in Time, Touch(c, d, e) PROVE Fairly
  <2>1. /\ d \in Indexed /\ up /\ older' = Marked(older, Indexed, d) /\ last' = d
        /\ UNCHANGED <<expires, up, boot, evicted>>
    BY <1>6 DEF Touch, Indexed
  <2>2. Indexed' = Indexed
    BY <2>1 DEF Indexed
  <2>3. OrderMatchesIndex' /\ CapConverges' /\ Latest'
    BY <1>a, <2>1, <2>2, UseKeeps
  <2> QED
    BY <2>1, <2>3 DEF Fairly, Spares
<1>7. ASSUME Sweep PROVE Fairly
  <2>1. /\ expires' = [d \in Digest |-> IF d \in Dead THEN 0 ELSE expires[d]]
        /\ older' = Without(older, Dead) /\ UNCHANGED <<up, last, boot, evicted>>
    BY <1>7 DEF Sweep, past
  <2>2. Indexed' = Indexed \ Dead
    BY <2>1 DEF Indexed
  <2>3. OrderMatchesIndex' /\ CapConverges' /\ Latest'
    BY <1>a, <2>1, <2>2, ForgetKeeps
  <2> QED
    BY <2>1, <2>3 DEF Fairly, Spares
<1>8. ASSUME NEW d \in Digest, NEW ok \in BOOLEAN, Unlink(d, ok) PROVE Fairly
  BY <1>8, <1>c DEF Unlink, index, past
<1>9. ASSUME Tick PROVE Fairly
  BY <1>9, <1>c DEF Tick, index, past
<1>10. ASSUME Crash PROVE Fairly
  <2>1. /\ expires' = [d \in Digest |-> 0] /\ older' = {} /\ last' = NoDigest /\ evicted' = evicted
    BY <1>10 DEF Crash
  <2>2. Indexed' = {}
    BY <2>1 DEF Indexed
  <2>3. OrderMatchesIndex'
    BY <2>1, <2>2 DEF OrderMatchesIndex, IsOrder
  <2>4. CapConverges'
    <3>1. Cardinality(Indexed)' = 0
      BY <2>2, FS_EmptySet
    <3> QED
      BY <3>1, TimelineAssumption DEF CapConverges
  <2>5. Latest'
    BY <2>1, <2>2 DEF Latest, LatestOf
  <2> QED
    BY <2>1, <2>3, <2>4, <2>5 DEF Fairly, Spares
<1>11. ASSUME NEW bad \in SUBSET Documents, NEW left \in SUBSET (Documents \ Loaded(bad)),
              Open(bad, left)
       PROVE  Fairly
  <2>1. /\ expires' = [d \in Digest |-> IF d \in Loaded(bad) THEN file[d] ELSE 0]
        /\ IsOrder(older', Loaded(bad)) /\ last' = last /\ last = NoDigest /\ evicted' = evicted
        /\ boot' = (Cardinality(Loaded(bad)) > MaxEntries)
    BY <1>a, <1>11 DEF Open, past, Latest
  <2>2. Indexed' = Loaded(bad)
    BY <1>a, <2>1 DEF Indexed, Loaded, TypeOK
  <2>3. OrderMatchesIndex'
    BY <2>1, <2>2 DEF OrderMatchesIndex
  <2>4. CapConverges'
    BY <2>1, <2>2 DEF CapConverges
  <2>5. Latest'
    BY <2>1, <2>2, TimelineAssumption DEF Latest, LatestOf, Loaded
  <2> QED
    BY <2>1, <2>3, <2>4, <2>5 DEF Fairly, Spares
<1>12. ASSUME UNCHANGED vars PROVE Fairly
  BY <1>12, <1>c DEF vars, index, past
<1> QED
  BY <1>1, <1>2, <1>3, <1>4, <1>5, <1>6, <1>7, <1>8, <1>9, <1>10, <1>11, <1>12 DEF Acts

LEMMA NextAsked == ASSUME IInv, Asked, Acts PROVE Asked'
<1> SUFFICES ASSUME NEW b \in Client, pc'[b] \in {"reload", "extend"} PROVE exp'[b] # 0
  BY DEF Asked
<1>a. TypeOK /\ (pc[b] \in {"reload", "extend"} => exp[b] # 0)
  BY DEF IInv, Asked
<1> USE <1>a DEF TypeOK
<1>1. ASSUME NEW d \in Digest, NEW e \in Time, Put(d, e) PROVE exp'[b] # 0
  BY <1>1 DEF Put, asks
<1>2. ASSUME NEW c \in Client, Extend(c) PROVE exp'[b] # 0
  BY <1>2 DEF Extend, Finishes, Becomes
<1>3. ASSUME NEW c \in Client, Load(c) \/ LoadFails(c) \/ Drop(c) \/ Reload(c) \/ ExtendFails(c) PROVE exp'[b] # 0
  BY <1>3 DEF Load, LoadFails, Drop, Reload, ExtendFails, Finishes, Becomes
<1>4. ASSUME NEW c \in Client, NEW d \in Digest, Members(c, d) PROVE exp'[b] # 0
  BY <1>4 DEF Members, Becomes
<1>5. ASSUME NEW c \in Client, NEW d \in Digest, NEW e \in Time, Touch(c, d, e) PROVE exp'[b] # 0
  BY <1>5 DEF Touch, Becomes, asks, Time
<1>6. ASSUME Sweep PROVE exp'[b] # 0
  BY <1>6 DEF Sweep, asks
<1>7. ASSUME NEW d \in Digest, NEW ok \in BOOLEAN, Unlink(d, ok) PROVE exp'[b] # 0
  BY <1>7 DEF Unlink, asks
<1>8. ASSUME Tick PROVE exp'[b] # 0
  BY <1>8 DEF Tick, asks
<1>9. ASSUME Crash PROVE exp'[b] # 0
  BY <1>9 DEF Crash
<1>10. ASSUME NEW bad \in SUBSET Documents, NEW left \in SUBSET (Documents \ Loaded(bad)),
              Open(bad, left)
       PROVE  exp'[b] # 0
  BY <1>10 DEF Open, asks
<1>11. ASSUME UNCHANGED vars PROVE exp'[b] # 0
  BY <1>11 DEF vars, asks
<1> QED
  BY <1>1, <1>2, <1>3, <1>4, <1>5, <1>6, <1>7, <1>8, <1>9, <1>10, <1>11 DEF Acts

LEMMA InitFair == Init => FairInv
<1> SUFFICES ASSUME Init PROVE FairInv
  OBVIOUS
<1>1. Indexed = {} /\ older = {} /\ up /\ last = NoDigest
  BY DEF Init, Indexed
<1>2. OrderMatchesIndex /\ Latest /\ Asked
  BY <1>1 DEF OrderMatchesIndex, IsOrder, Latest, LatestOf, Asked, Init
<1>3. CapConverges
  BY <1>1, FS_EmptySet, TimelineAssumption DEF CapConverges
<1> QED
  BY <1>2, <1>3 DEF FairInv

\* Whatever is stored, fetched, swept, lost to a crash or found at a boot, each
\* step leaves the order of use that of the index and the store within its cap,
\* and with a cap of at least two never evicts the timeline that was used last
\* (markLocked, evictOldestLocked and the loop of Put).
THEOREM CapIsFairHolds == Spec => CapIsFair
<1>1. IInv /\ FairInv /\ [Next]_vars => FairInv'
  BY StepActs, StepIsFair, NextAsked DEF FairInv, Fairly
<1>2. Spec => []FairInv
  BY InitFair, StoreInvariant, <1>1, PTL DEF Spec
<1>3. IInv /\ FairInv /\ [Next]_vars
        => [/\ OrderMatchesIndex' /\ CapConverges'
            /\ (MaxEntries > 1 /\ last \in evicted' => last \in evicted)]_vars
  BY StepActs, StepIsFair DEF Fairly, Spares
<1> QED
  BY StoreInvariant, <1>2, <1>3, PTL DEF Spec, CapIsFair
=============================================================================
