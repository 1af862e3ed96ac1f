---------------------------- MODULE StoreProofs ----------------------------
(***************************************************************************)
(* The two stores that keep a directory beside an index: the cache store   *)
(* and the upload spool.                                                   *)
(*                                                                         *)
(* Of the cache store, for every set of keys and of goroutines, any sizes, *)
(* any budget and any number of crashes and failures: the index against    *)
(* the directories, the byte count against the index, and the budget       *)
(* against the sweeps under way.                                           *)
(*                                                                         *)
(* Of the upload spool, for every set of uploads, every cap and any number *)
(* of crashes: the index against the files, through every order of Put,    *)
(* Delete, sweep, failed removal, crash and scan; and the byte count       *)
(* against the index.                                                      *)
(*                                                                         *)
(* Both counts rest on what sums over a finite set obey.                   *)
(***************************************************************************)
EXTENDS CacheStore, Uploads, FiniteSetTheorems, WellFoundedInduction, TLAPS

\* The types TypeOK leaves out.
Types ==
    /\ TypeOK
    /\ todo \in [Actor -> SUBSET (Key \X Nat)]
    /\ listed \in [Actor -> SUBSET Name]
    /\ name \in [Actor -> {"init", "seg"}]

\* What an actor works on, wherever it is.
PlaceOf(a) ==
    /\ pc[a] = "idle" => key[a] = None
    /\ pc[a] \in {"create", "recreate", "write", "meta", "index", "open"} => key[a] \in FileKey
    /\ pc[a] = "finish" => key[a] \in FileKey \cup {None}
    /\ pc[a] \in {"describe", "register", "born", "rename", "fold"} => key[a] \in VariantKey
    /\ pc[a] \in {"drop", "list", "unlink"} => victim[a] \in Key
    /\ \A v, w \in todo[a] : v[1] = w[1] => v = w

\* What files a key can have, and what it counts for without an entry.
NamesOf(k) ==
    /\ k \in FileKey => disk[k] \subseteq {"out", "meta", "stray"} \cup Actor
    /\ k \in VariantKey => disk[k] \subseteq {"meta", "init", "seg", "stray"}
    /\ k \notin index => size[k] = 0 /\ k \notin booted

Works(a, k) == Removes(a, k) \/ (key[a] = k /\ pc[a] \notin Clear)

Bit(p) == IF p THEN 1 ELSE 0

\* A variant's bytes as its directory has them.
Weighs(k) == Bit("init" \in disk[k]) + Bit("seg" \in disk[k]) + Bit(k \in booted)

\* k as it is with nobody at work on it.
Whole(k) ==
    /\ k \in index => /\ "meta" \in disk[k]
                      /\ k \in FileKey => "out" \in disk[k]
                      /\ k \in VariantKey \ leaked => size[k] = Weighs(k)
    /\ k \in leaked \ index => "meta" \notin disk[k]
    /\ k \notin leaked \cup index => disk[k] = {} /\ (k \in VariantKey => k \notin dirs)

\* k as its only worker has it, removing it ...
Removing(a, k) == k \notin index /\ (pc[a] = "unlink" => disk[k] = listed[a])

\* ... or writing it, or sweeping in between.
Writing(a, k) ==
    /\ pc[a] = "write" => IF k \in index
                          THEN "out" \in disk[k] /\ "meta" \in disk[k]
                          ELSE "meta" \notin disk[k] /\ (disk[k] \ {a} = {} \/ k \in leaked)
    /\ pc[a] = "meta" => "out" \in disk[k] /\ (k \in index <=> "meta" \in disk[k])
    /\ pc[a] = "index" => "out" \in disk[k] /\ "meta" \in disk[k]
    /\ pc[a] = "describe" => k \notin index /\ "meta" \notin disk[k] /\ (disk[k] = {} \/ k \in leaked)
    /\ pc[a] = "register" => k \notin index /\ "meta" \in disk[k] /\ (disk[k] = {"meta"} \/ k \in leaked)
    /\ pc[a] = "rename" => Whole(k) /\ prev[a] = Bit(name[a] \in disk[k])
    /\ pc[a] = "fold" => /\ k \in index => "meta" \in disk[k] /\ name[a] \in disk[k]
                         /\ k \in index \ leaked => size[k] + 1 - prev[a] = Weighs(k)
                         /\ k \notin index => k \in leaked /\ "meta" \notin disk[k]
    /\ pc[a] \in {"over", "sweep", "drop", "list", "unlink", "finish"} => Whole(k)

At(a, k) == IF Removes(a, k) THEN Removing(a, k) ELSE Writing(a, k)

Vouched(k) == k \in FileKey /\ "meta" \in disk[k] => "out" \in disk[k] \/ \E a \in Actor : Removes(a, k)

\* A key nobody contended for: one worker at most, and it finds what it left.
KeyOf(k) ==
    k \notin torn =>
        /\ \A a, b \in Actor : Works(a, k) /\ Works(b, k) => a = b
        /\ (\A a \in Actor : ~Works(a, k)) => Whole(k)
        /\ \A a \in Actor : Works(a, k) => At(a, k)
        /\ Vouched(k)

-----------------------------------------------------------------------------
(* Types and places.                                                       *)

\* The types of all but total, whose type comes from its being a sum.
TypesBut ==
    /\ index \subseteq Key /\ size \in [Key -> Nat]
    /\ writing \in [Key -> Actor \cup {None}]
    /\ pinned \in [Key -> SUBSET Actor]
    /\ dirs \subseteq Key /\ disk \in [Key -> SUBSET Name]
    /\ pc \in [Actor -> Places]
    /\ key \in [Actor -> Key \cup {None}] /\ victim \in [Actor -> Key \cup {None}]
    /\ prev \in [Actor -> 0 .. 1] /\ left \in [Actor -> Int]
    /\ booted \subseteq VariantKey /\ torn \subseteq Key /\ leaked \subseteq Key
    /\ todo \in [Actor -> SUBSET (Key \X Nat)]
    /\ listed \in [Actor -> SUBSET Name]
    /\ name \in [Actor -> {"init", "seg"}]

Ready == Types /\ (\A a \in Actor : PlaceOf(a)) /\ (\A k \in Key : NamesOf(k))

LEMMA CardOfOne ==
    ASSUME NEW D, IsFiniteSet(D), NEW x
    PROVE  Cardinality(D) = Cardinality(D \ {x}) + Bit(x \in D)
<1>1. CASE x \in D
  <2>1. Cardinality(D \ {x}) = Cardinality(D) - 1
    BY <1>1, FS_RemoveElement
  <2>2. Cardinality(D) \in Nat
    BY FS_CardinalityType
  <2> QED
    BY <1>1, <2>1, <2>2 DEF Bit
<1>2. CASE x \notin D
  <2>1. D \ {x} = D
    BY <1>2
  <2> QED
    BY <1>2, <2>1, FS_CardinalityType DEF Bit
<1> QED
  BY <1>1, <1>2

\* The number of a variant's files is what its directory weighs.
LEMMA CardOfFiles ==
    ASSUME NEW D, D \subseteq {"meta", "init", "seg"}
    PROVE  Cardinality(D) = Bit("meta" \in D) + Bit("init" \in D) + Bit("seg" \in D)
<1> DEFINE E == D \ {"meta"}
           F == E \ {"init"}
<1>1. IsFiniteSet({"meta", "init", "seg"})
  <2>1. IsFiniteSet({} \cup {"meta"} \cup {"init"} \cup {"seg"})
    BY FS_EmptySet, FS_AddElement
  <2>2. {} \cup {"meta"} \cup {"init"} \cup {"seg"} = {"meta", "init", "seg"}
    OBVIOUS
  <2> QED
    BY <2>1, <2>2
<1>2. IsFiniteSet(D) /\ IsFiniteSet(E) /\ IsFiniteSet(F)
  BY <1>1, FS_Subset
<1>3. Cardinality(D) = Cardinality(E) + Bit("meta" \in D)
  BY <1>2, CardOfOne
<1>4. Cardinality(E) = Cardinality(F) + Bit("init" \in D)
  <2>1. ("init" \in E) = ("init" \in D)
    OBVIOUS
  <2> HIDE DEF E, F
  <2>2. Cardinality(E) = Cardinality(E \ {"init"}) + Bit("init" \in E)
    BY <1>2, CardOfOne
  <2> QED
    BY <2>1, <2>2 DEF F
<1>5. Cardinality(F) = Bit("seg" \in D)
  <2>1. F \ {"seg"} = {} /\ ("seg" \in F) = ("seg" \in D)
    OBVIOUS
  <2> HIDE DEF F
  <2>2. Cardinality(F) = Cardinality(F \ {"seg"}) + Bit("seg" \in F)
    BY <1>2, CardOfOne
  <2>3. Cardinality({}) = 0
    BY FS_EmptySet
  <2> QED
    BY <2>1, <2>2, <2>3 DEF Bit
<1> HIDE DEF E, F
<1> QED
  BY <1>3, <1>4, <1>5 DEF Bit

LEMMA KeptWeighs ==
    ASSUME NEW k \in VariantKey, NamesOf(k)
    PROVE  Cardinality(Kept(k)) = Bit("meta" \in disk[k]) + Bit("init" \in disk[k]) + Bit("seg" \in disk[k])
<1> DEFINE D == Kept(k)
<1>1. D \subseteq {"meta", "init", "seg"}
  BY StoreAssumption DEF NamesOf, Kept
<1>2. /\ ("meta" \in D) = ("meta" \in disk[k]) /\ ("init" \in D) = ("init" \in disk[k])
      /\ ("seg" \in D) = ("seg" \in disk[k])
  BY StoreAssumption DEF Kept
<1> HIDE DEF D
<1>3. Cardinality(D) = Bit("meta" \in D) + Bit("init" \in D) + Bit("seg" \in D)
  BY <1>1, CardOfFiles
<1>4. Cardinality(D) = Bit("meta" \in disk[k]) + Bit("init" \in disk[k]) + Bit("seg" \in disk[k])
  BY <1>2, <1>3
<1> QED
  BY <1>4 DEF D

\* What a boot leaves of a directory.
LEMMA RemainsOf ==
    ASSUME NEW k \in Key, NEW good, NEW missed \in SUBSET Swept(good)
    PROVE  /\ Remains(k, good, missed) \subseteq disk[k] \cup {"stray"}
           /\ Remains(k, good, missed) \cap Actor = {}
           /\ (\A f \in Name : <<k, f>> \notin missed) =>
                Remains(k, good, missed) = IF k \in good THEN Kept(k) ELSE {}
<1>1. \A f : <<k, f>> \in missed => f \in Temps(k) \cup Kept(k)
  BY DEF Swept
<1>2. Kept(k) \subseteq disk[k] /\ Kept(k) \cap Actor = {} /\ Temps(k) \subseteq {"stray"}
  BY DEF Kept, Temps
<1>3. "stray" \notin Actor
  BY StoreAssumption
<1> QED
  BY <1>1, <1>2, <1>3 DEF Remains

LEMMA RemainsCount ==
    ASSUME NEW k \in VariantKey, NamesOf(k), NEW good, NEW missed \in SUBSET Swept(good)
    PROVE  Cardinality(Remains(k, good, missed)) \in Nat
<1>1. IsFiniteSet({} \cup {"meta"} \cup {"init"} \cup {"seg"} \cup {"stray"})
  <2>1. IsFiniteSet({} \cup {"meta"} \cup {"init"})
    BY FS_EmptySet, FS_AddElement
  <2> QED
    BY <2>1, FS_AddElement
<1>2. Remains(k, good, missed) \subseteq {} \cup {"meta"} \cup {"init"} \cup {"seg"} \cup {"stray"}
  BY RemainsOf DEF NamesOf, Key
<1> QED
  BY <1>1, <1>2, FS_Subset, FS_CardinalityType

LEMMA NextTypes == ASSUME Ready, [Next]_vars PROVE TypesBut'
<1> USE DEF Ready, Types, TypeOK, TypesBut, Places, Name, mem, files, write, sweep, past, spent
<1>p. \A a \in Actor : PlaceOf(a)
  OBVIOUS
<1> USE <1>p DEF PlaceOf
<1>1. ASSUME NEW a \in Actor, NEW k \in Key, Begin(a, k) PROVE TypesBut'
  BY <1>1 DEF Begin, Goes
<1>2. ASSUME NEW a \in Actor, NEW k \in Key, Lookup(a, k) PROVE TypesBut'
  BY <1>2 DEF Lookup, Goes
<1>3. ASSUME NEW a \in Actor, NEW k \in Key, Birth(a, k) PROVE TypesBut'
  BY <1>3 DEF Birth, Goes, Touches
<1>4. ASSUME NEW a \in Actor, NEW f \in Debris, Abort(a, f) PROVE TypesBut'
  <2>1. key[a] \in Key /\ f \subseteq {"stray"}
    BY <1>4 DEF Abort, Key, Debris
  <2>2. writing' \in [Key -> Actor \cup {None}]
    BY <1>4 DEF Abort, Unregister
  <2>3. dirs' \subseteq Key /\ disk' \in [Key -> SUBSET Name] /\ leaked' \subseteq Key /\ torn' \subseteq Key
    BY <1>4, <2>1 DEF Abort, Leaves, Rmdir
  <2>4. pc' \in [Actor -> Places] /\ key' \in [Actor -> Key \cup {None}] /\ prev' \in [Actor -> 0 .. 1]
        /\ name' \in [Actor -> {"init", "seg"}]
    BY <1>4 DEF Abort, Done, Goes
  <2> QED
    BY <1>4, <2>2, <2>3, <2>4 DEF Abort
<1>5. ASSUME NEW a \in Actor, Publish(a) PROVE TypesBut'
  <2>1. key[a] \in Key
    BY <1>5 DEF Publish, Key
  <2>2. disk' \in [Key -> SUBSET Name]
    BY <1>5, <2>1 DEF Publish, Published
  <2>3. torn' \subseteq Key /\ pc' \in [Actor -> Places]
    BY <1>5, <2>1 DEF Publish, Touches, Goes
  <2> QED
    BY <1>5, <2>2, <2>3 DEF Publish
<1>6. ASSUME NEW a \in Actor, Vouch(a) PROVE TypesBut'
  BY <1>6 DEF Vouch, Goes, Touches
<1>7. ASSUME NEW a \in Actor, NEW f \in Debris, VouchFails(a, f) PROVE TypesBut'
  <2>1. key[a] \in Key /\ f \subseteq {"stray"}
    BY <1>7 DEF VouchFails, Key, Debris
  <2>2. writing' \in [Key -> Actor \cup {None}]
    BY <1>7 DEF VouchFails, Unregister
  <2>3. dirs' \subseteq Key /\ disk' \in [Key -> SUBSET Name] /\ leaked' \subseteq Key /\ torn' \subseteq Key
    BY <1>7, <2>1 DEF VouchFails, Rmdir
  <2>4. pc' \in [Actor -> Places] /\ key' \in [Actor -> Key \cup {None}] /\ prev' \in [Actor -> 0 .. 1]
        /\ name' \in [Actor -> {"init", "seg"}]
    BY <1>7 DEF VouchFails, Done, Goes
  <2> QED
    BY <1>7, <2>2, <2>3, <2>4 DEF VouchFails
<1>8. ASSUME NEW a \in Actor, AbandonLate(a) PROVE TypesBut'
  BY <1>8 DEF AbandonLate, Unregister
<1>9. ASSUME NEW a \in Actor, Index(a) PROVE TypesBut'
  BY <1>9, StoreAssumption DEF Index, Goes, Touches, Key
<1>10. ASSUME NEW a \in Actor, Finish(a) PROVE TypesBut'
  BY <1>10 DEF Finish, Goes, Done, Unregister
<1>11. ASSUME NEW a \in Actor, OpenOut(a) PROVE TypesBut'
  BY <1>11 DEF OpenOut, Goes, Done
<1>12. ASSUME NEW a \in Actor, Register(a) PROVE TypesBut'
  BY <1>12 DEF Register, Goes, Touches, Key
<1>13. ASSUME NEW a \in Actor, Pin(a) PROVE TypesBut'
  BY <1>13 DEF Pin
<1>14. ASSUME NEW a \in Actor, Leave(a) PROVE TypesBut'
  BY <1>14 DEF Leave, Goes, Done
<1>15. ASSUME NEW a \in Actor, Rename(a) PROVE TypesBut'
  BY <1>15 DEF Rename, Goes, Touches
<1>16. ASSUME NEW a \in Actor, NEW f \in Debris, RenameFails(a, f) PROVE TypesBut'
  <2>1. key[a] \in Key /\ f \subseteq {"stray"}
    BY <1>16 DEF RenameFails, Key, Debris
  <2>2. writing' \in [Key -> Actor \cup {None}]
    BY <1>16 DEF RenameFails, Unregister
  <2>3. dirs' \subseteq Key /\ disk' \in [Key -> SUBSET Name] /\ leaked' \subseteq Key /\ torn' \subseteq Key
    BY <1>16, <2>1 DEF RenameFails
  <2>4. pc' \in [Actor -> Places] /\ key' \in [Actor -> Key \cup {None}] /\ prev' \in [Actor -> 0 .. 1]
        /\ name' \in [Actor -> {"init", "seg"}]
    BY <1>16 DEF RenameFails, Done, Goes
  <2> QED
    BY <1>16, <2>2, <2>3, <2>4 DEF RenameFails
<1>17. ASSUME NEW a \in Actor, Fold(a) PROVE TypesBut'
  BY <1>17 DEF Fold, Grown, Goes, Touches, Key
<1>18. ASSUME NEW a \in Actor, NEW f \in {"init", "seg"}, Stat(a, f) PROVE TypesBut'
  BY <1>18 DEF Stat, Goes, Touches, Key
<1>19. ASSUME NEW a \in Actor, Collect(a) PROVE TypesBut'
  BY <1>19 DEF Collect, Goes
<1>20. ASSUME NEW a \in Actor, Snapshot(a) PROVE TypesBut'
  BY <1>20 DEF Snapshot, Goes
<1>21. ASSUME NEW a \in Actor, Drop(a) PROVE TypesBut'
  BY <1>21 DEF Drop, Goes, Touches
<1>22. ASSUME NEW a \in Actor, List(a) PROVE TypesBut'
  BY <1>22 DEF List, Goes, Touches
<1>23. ASSUME NEW a \in Actor, RemoveEnds(a) PROVE TypesBut'
  BY <1>23 DEF RemoveEnds, Goes, Rmdir
<1>24. ASSUME NEW a \in Actor, SweepEnds(a) PROVE TypesBut'
  BY <1>24 DEF SweepEnds, Goes
<1>25. ASSUME NEW a \in Actor, NEW v \in todo[a], Evict(a, v) PROVE TypesBut'
  BY <1>25 DEF Evict, Goes
<1>26. ASSUME NEW a \in Actor, NEW f \in listed[a], Unlink(a, f) PROVE TypesBut'
  BY <1>26 DEF Unlink, Touches
<1>29. ASSUME NEW a \in Actor, Remake(a) PROVE TypesBut'
  BY <1>29 DEF Remake, Goes, Key
<1>30. ASSUME NEW a \in Actor, Create(a) PROVE TypesBut'
  BY <1>30 DEF Create, Goes, Touches
<1>31. ASSUME NEW a \in Actor, CreateFails(a) PROVE TypesBut'
  BY <1>31 DEF CreateFails, Goes, Done, Rmdir
<1>32. ASSUME NEW a \in Actor, NEW f \in Debris, DuplicateBegin(a, f) PROVE TypesBut'
  <2>1. key[a] \in Key /\ f \subseteq {"stray"}
    BY <1>32 DEF DuplicateBegin, Key, Debris
  <2>2. writing' \in [Key -> Actor \cup {None}]
    BY <1>32 DEF DuplicateBegin, Unregister
  <2>3. dirs' \subseteq Key /\ disk' \in [Key -> SUBSET Name] /\ leaked' \subseteq Key /\ torn' \subseteq Key
    BY <1>32, <2>1 DEF DuplicateBegin, Leaves, Touches
  <2>4. pc' \in [Actor -> Places] /\ key' \in [Actor -> Key \cup {None}] /\ prev' \in [Actor -> 0 .. 1]
        /\ name' \in [Actor -> {"init", "seg"}]
    BY <1>32 DEF DuplicateBegin, Done, Goes
  <2> QED
    BY <1>32, <2>2, <2>3, <2>4 DEF DuplicateBegin
<1>33. ASSUME NEW a \in Actor, OpenFails(a) PROVE TypesBut'
  BY <1>33 DEF OpenFails, Goes, Key
<1>34. ASSUME NEW a \in Actor, Describe(a) \/ (\E f \in Debris : DescribeFails(a, f)) PROVE TypesBut'
  <2>1. CASE Describe(a)
    BY <2>1 DEF Describe, Goes, Touches, Key
  <2>2. ASSUME NEW f \in Debris, DescribeFails(a, f) PROVE TypesBut'
    <3>1. key[a] \in Key /\ f \subseteq {"stray"}
      BY <2>2 DEF DescribeFails, Key, Debris
    <3>2. disk' \in [Key -> SUBSET Name] /\ leaked' \subseteq Key
      BY <2>2, <3>1 DEF DescribeFails
    <3>3. pc' \in [Actor -> Places] /\ key' \in [Actor -> Key \cup {None}] /\ prev' \in [Actor -> 0 .. 1]
          /\ name' \in [Actor -> {"init", "seg"}]
      BY <2>2 DEF DescribeFails, Done, Goes
    <3> QED
      BY <2>2, <3>2, <3>3 DEF DescribeFails
  <2> QED
    BY <1>34, <2>1, <2>2
<1>35. ASSUME NEW a \in Actor, RemoveFails(a) PROVE TypesBut'
  BY <1>35 DEF RemoveFails, Goes
<1>28. ASSUME UNCHANGED vars PROVE TypesBut'
  BY <1>28 DEF vars
<1>27. ASSUME NEW good \in SUBSET Scanned, NEW missed \in SUBSET Swept(good), CrashAndOpen(good, missed)
       PROVE TypesBut'
  <2>1. \A k \in Key : (IF k \in good THEN ScannedSize(k, Remains(k, good, missed)) ELSE 0) \in Nat
    BY RemainsCount, StoreAssumption DEF ScannedSize, Key
  <2>2. size' \in [Key -> Nat]
    BY <1>27, <2>1 DEF CrashAndOpen
  <2>3. good \subseteq Key /\ index' = good /\ dirs' \subseteq Key
    BY <1>27 DEF CrashAndOpen, Scanned
  <2>4. disk' \in [Key -> SUBSET Name]
    <3>1. \A k \in Key : Remains(k, good, missed) \in SUBSET Name
      BY DEF Remains, Kept
    <3> QED
      BY <1>27, <3>1 DEF CrashAndOpen
  <2>5. /\ booted' \subseteq VariantKey /\ torn' \subseteq Key /\ leaked' \subseteq Key
    BY <1>27, <2>3 DEF CrashAndOpen
  <2>6. /\ writing' \in [Key -> Actor \cup {None}]
        /\ pinned' \in [Key -> SUBSET Actor]
        /\ pc' \in [Actor -> Places]
        /\ key' \in [Actor -> Key \cup {None}] /\ victim' \in [Actor -> Key \cup {None}]
        /\ prev' \in [Actor -> 0 .. 1] /\ left' \in [Actor -> Int]
        /\ todo' \in [Actor -> SUBSET (Key \X Nat)]
        /\ listed' \in [Actor -> SUBSET Name]
        /\ name' \in [Actor -> {"init", "seg"}]
    BY <1>27 DEF CrashAndOpen
  <2> QED
    BY <2>2, <2>3, <2>4, <2>5, <2>6
<1> QED
  BY <1>1, <1>2, <1>3, <1>4, <1>5, <1>6, <1>7, <1>8, <1>9, <1>10, <1>11, <1>12, <1>13, <1>14,
       <1>15, <1>16,
     <1>17, <1>18, <1>19, <1>20, <1>21, <1>22, <1>23, <1>24, <1>25, <1>26, <1>27, <1>28,
     <1>29, <1>30, <1>31, <1>32, <1>33, <1>34, <1>35 DEF Next

LEMMA NextPlace == ASSUME Ready, [Next]_vars, NEW b \in Actor PROVE PlaceOf(b)'
<1>a. PlaceOf(b) /\ Types
  BY DEF Ready
<1>b. None \notin Key /\ Key = FileKey \cup VariantKey /\ FileKey \cap VariantKey = {}
  BY StoreAssumption DEF Key
<1> USE <1>a, <1>b DEF Types, TypeOK, PlaceOf, Places, mem, files, write, sweep, past, spent
<1>1. ASSUME NEW a \in Actor, NEW k \in Key, Begin(a, k) PROVE PlaceOf(b)'
  BY <1>1 DEF Begin, Goes
<1>2. ASSUME NEW a \in Actor, NEW k \in Key, Lookup(a, k) PROVE PlaceOf(b)'
  BY <1>2 DEF Lookup, Goes
<1>3. ASSUME NEW a \in Actor, NEW k \in Key, Birth(a, k) PROVE PlaceOf(b)'
  BY <1>3 DEF Birth, Goes
<1>4. ASSUME NEW a \in Actor, NEW f \in Debris, Abort(a, f) PROVE PlaceOf(b)'
  BY <1>4 DEF Abort, Goes, Done
<1>5. ASSUME NEW a \in Actor, Publish(a) PROVE PlaceOf(b)'
  BY <1>5 DEF Publish, Goes, Published
<1>6. ASSUME NEW a \in Actor, Vouch(a) PROVE PlaceOf(b)'
  BY <1>6 DEF Vouch, Goes
<1>7. ASSUME NEW a \in Actor, NEW f \in Debris, VouchFails(a, f) PROVE PlaceOf(b)'
  BY <1>7 DEF VouchFails, Goes, Done
<1>8. ASSUME NEW a \in Actor, AbandonLate(a) PROVE PlaceOf(b)'
  BY <1>8 DEF AbandonLate
<1>9. ASSUME NEW a \in Actor, Index(a) PROVE PlaceOf(b)'
  BY <1>9 DEF Index, Goes
<1>10. ASSUME NEW a \in Actor, Finish(a) PROVE PlaceOf(b)'
  BY <1>10 DEF Finish, Goes, Done
<1>11. ASSUME NEW a \in Actor, OpenOut(a) PROVE PlaceOf(b)'
  BY <1>11 DEF OpenOut, Goes, Done
<1>12. ASSUME NEW a \in Actor, Register(a) PROVE PlaceOf(b)'
  BY <1>12 DEF Register, Goes
<1>13. ASSUME NEW a \in Actor, Pin(a) PROVE PlaceOf(b)'
  BY <1>13 DEF Pin
<1>14. ASSUME NEW a \in Actor, Leave(a) PROVE PlaceOf(b)'
  BY <1>14 DEF Leave, Goes, Done
<1>15. ASSUME NEW a \in Actor, Rename(a) PROVE PlaceOf(b)'
  BY <1>15 DEF Rename, Goes
<1>16. ASSUME NEW a \in Actor, NEW f \in Debris, RenameFails(a, f) PROVE PlaceOf(b)'
  BY <1>16 DEF RenameFails, Goes, Done
<1>17. ASSUME NEW a \in Actor, Fold(a) PROVE PlaceOf(b)'
  BY <1>17 DEF Fold, Goes, Grown
<1>18. ASSUME NEW a \in Actor, NEW f \in {"init", "seg"}, Stat(a, f) PROVE PlaceOf(b)'
  BY <1>18 DEF Stat, Goes
<1>19. ASSUME NEW a \in Actor, Collect(a) PROVE PlaceOf(b)'
  BY <1>19 DEF Collect, Goes
<1>20. ASSUME NEW a \in Actor, Snapshot(a) PROVE PlaceOf(b)'
  BY <1>20 DEF Snapshot, Goes
<1>21. ASSUME NEW a \in Actor, Drop(a) PROVE PlaceOf(b)'
  BY <1>21 DEF Drop, Goes, Weight
<1>22. ASSUME NEW a \in Actor, List(a) PROVE PlaceOf(b)'
  BY <1>22 DEF List, Goes
<1>23. ASSUME NEW a \in Actor, RemoveEnds(a) PROVE PlaceOf(b)'
  BY <1>23 DEF RemoveEnds, Goes
<1>24. ASSUME NEW a \in Actor, SweepEnds(a) PROVE PlaceOf(b)'
  BY <1>24 DEF SweepEnds, Goes
<1>25. ASSUME NEW a \in Actor, NEW v \in todo[a], Evict(a, v) PROVE PlaceOf(b)'
  BY <1>25 DEF Evict, Goes
<1>26. ASSUME NEW a \in Actor, NEW f \in listed[a], Unlink(a, f) PROVE PlaceOf(b)'
  BY <1>26 DEF Unlink
<1>27. ASSUME NEW good \in SUBSET Scanned, NEW missed \in SUBSET Swept(good), CrashAndOpen(good, missed)
       PROVE PlaceOf(b)'
  BY <1>27 DEF CrashAndOpen
<1>29. ASSUME NEW a \in Actor, Remake(a) PROVE PlaceOf(b)'
  BY <1>29 DEF Remake, Goes
<1>30. ASSUME NEW a \in Actor, Create(a) PROVE PlaceOf(b)'
  BY <1>30 DEF Create, Goes
<1>31. ASSUME NEW a \in Actor, CreateFails(a) PROVE PlaceOf(b)'
  BY <1>31 DEF CreateFails, Goes, Done
<1>32. ASSUME NEW a \in Actor, NEW f \in Debris, DuplicateBegin(a, f) PROVE PlaceOf(b)'
  BY <1>32 DEF DuplicateBegin, Goes, Done
<1>33. ASSUME NEW a \in Actor, OpenFails(a) PROVE PlaceOf(b)'
  BY <1>33 DEF OpenFails, Goes
<1>34. ASSUME NEW a \in Actor, Describe(a) PROVE PlaceOf(b)'
  BY <1>34 DEF Describe, Goes
<1>36. ASSUME NEW a \in Actor, NEW f \in Debris, DescribeFails(a, f) PROVE PlaceOf(b)'
  BY <1>36 DEF DescribeFails, Goes, Done
<1>35. ASSUME NEW a \in Actor, RemoveFails(a) PROVE PlaceOf(b)'
  BY <1>35 DEF RemoveFails, Goes
<1>28. ASSUME UNCHANGED vars PROVE PlaceOf(b)'
  BY <1>28 DEF vars
<1>37. ASSUME NEW a \in Actor, NEW f \in Debris,
              DuplicateBegin(a, f) \/ Abort(a, f) \/ VouchFails(a, f) \/ DescribeFails(a, f) \/ RenameFails(a, f)
       PROVE PlaceOf(b)'
  BY <1>4, <1>7, <1>16, <1>32, <1>36, <1>37
<1>38. ASSUME NEW a \in Actor, (\E v \in todo[a] : Evict(a, v)) \/ (\E f \in listed[a] : Unlink(a, f))
       PROVE PlaceOf(b)'
  BY <1>25, <1>26, <1>38
<1> HIDE <1>a, <1>b DEF Types, TypeOK, PlaceOf, Places, mem, files, write, sweep, past, spent
<1> QED
  BY <1>1, <1>2, <1>3, <1>5, <1>6, <1>8, <1>9, <1>10, <1>11, <1>12, <1>13, <1>14, <1>15,
     <1>17, <1>18, <1>19, <1>20, <1>21, <1>22, <1>23, <1>24, <1>27, <1>28,
     <1>29, <1>30, <1>31, <1>33, <1>34, <1>35, <1>37, <1>38 DEF Next

LEMMA NextNames == ASSUME Ready, [Next]_vars, NEW x \in Key PROVE NamesOf(x)'
<1>a. NamesOf(x) /\ Types /\ \A a \in Actor : PlaceOf(a)
  BY DEF Ready
<1>b. Key = FileKey \cup VariantKey /\ FileKey \cap VariantKey = {}
  BY StoreAssumption DEF Key
<1> USE <1>a, <1>b DEF Types, TypeOK, NamesOf, PlaceOf, Places, mem, files, write, sweep, past, spent
<1>1. ASSUME NEW a \in Actor, NEW k \in Key, Begin(a, k) PROVE NamesOf(x)'
  BY <1>1 DEF Begin, Goes
<1>2. ASSUME NEW a \in Actor, NEW k \in Key, Lookup(a, k) PROVE NamesOf(x)'
  BY <1>2 DEF Lookup, Goes
<1>3. ASSUME NEW a \in Actor, NEW k \in Key, Birth(a, k) PROVE NamesOf(x)'
  BY <1>3 DEF Birth, Goes
<1>4. ASSUME NEW a \in Actor, NEW f \in Debris, Abort(a, f) PROVE NamesOf(x)'
  BY <1>4 DEF Abort, Goes, Done, Leaves, Debris
<1>5. ASSUME NEW a \in Actor, Publish(a) PROVE NamesOf(x)'
  BY <1>5 DEF Publish, Goes, Published
<1>6. ASSUME NEW a \in Actor, Vouch(a) PROVE NamesOf(x)'
  BY <1>6 DEF Vouch, Goes
<1>7. ASSUME NEW a \in Actor, NEW f \in Debris, VouchFails(a, f) PROVE NamesOf(x)'
  BY <1>7 DEF VouchFails, Goes, Done, Debris
<1>8. ASSUME NEW a \in Actor, AbandonLate(a) PROVE NamesOf(x)'
  BY <1>8 DEF AbandonLate
<1>9. ASSUME NEW a \in Actor, Index(a) PROVE NamesOf(x)'
  BY <1>9 DEF Index, Goes
<1>10. ASSUME NEW a \in Actor, Finish(a) PROVE NamesOf(x)'
  BY <1>10 DEF Finish, Goes, Done
<1>11. ASSUME NEW a \in Actor, OpenOut(a) PROVE NamesOf(x)'
  BY <1>11 DEF OpenOut, Goes, Done
<1>12. ASSUME NEW a \in Actor, Register(a) PROVE NamesOf(x)'
  BY <1>12 DEF Register, Goes
<1>13. ASSUME NEW a \in Actor, Pin(a) PROVE NamesOf(x)'
  BY <1>13 DEF Pin
<1>14. ASSUME NEW a \in Actor, Leave(a) PROVE NamesOf(x)'
  BY <1>14 DEF Leave, Goes, Done
<1>15. ASSUME NEW a \in Actor, Rename(a) PROVE NamesOf(x)'
  BY <1>15 DEF Rename, Goes
<1>16. ASSUME NEW a \in Actor, NEW f \in Debris, RenameFails(a, f) PROVE NamesOf(x)'
  BY <1>16 DEF RenameFails, Goes, Done, Debris
<1>17. ASSUME NEW a \in Actor, Fold(a) PROVE NamesOf(x)'
  BY <1>17 DEF Fold, Goes, Grown
<1>18. ASSUME NEW a \in Actor, NEW f \in {"init", "seg"}, Stat(a, f) PROVE NamesOf(x)'
  BY <1>18 DEF Stat, Goes
<1>19. ASSUME NEW a \in Actor, Collect(a) PROVE NamesOf(x)'
  BY <1>19 DEF Collect, Goes
<1>20. ASSUME NEW a \in Actor, Snapshot(a) PROVE NamesOf(x)'
  BY <1>20 DEF Snapshot, Goes
<1>21. ASSUME NEW a \in Actor, Drop(a) PROVE NamesOf(x)'
  BY <1>21 DEF Drop, Goes, Weight
<1>22. ASSUME NEW a \in Actor, List(a) PROVE NamesOf(x)'
  BY <1>22 DEF List, Goes
<1>23. ASSUME NEW a \in Actor, RemoveEnds(a) PROVE NamesOf(x)'
  BY <1>23 DEF RemoveEnds, Goes
<1>24. ASSUME NEW a \in Actor, SweepEnds(a) PROVE NamesOf(x)'
  BY <1>24 DEF SweepEnds, Goes
<1>25. ASSUME NEW a \in Actor, NEW v \in todo[a], Evict(a, v) PROVE NamesOf(x)'
  BY <1>25 DEF Evict, Goes
<1>26. ASSUME NEW a \in Actor, NEW f \in listed[a], Unlink(a, f) PROVE NamesOf(x)'
  BY <1>26 DEF Unlink
<1>27. ASSUME NEW good \in SUBSET Scanned, NEW missed \in SUBSET Swept(good), CrashAndOpen(good, missed)
       PROVE NamesOf(x)'
  <2>1. disk'[x] \subseteq disk[x] \cup {"stray"}
    BY <1>27, RemainsOf DEF CrashAndOpen
  <2>2. index' = good /\ booted' = good \cap VariantKey /\ (x \notin good => size'[x] = 0)
    BY <1>27 DEF CrashAndOpen
  <2> QED
    BY <2>1, <2>2
<1>29. ASSUME NEW a \in Actor, Remake(a) PROVE NamesOf(x)'
  BY <1>29 DEF Remake, Goes
<1>30. ASSUME NEW a \in Actor, Create(a) PROVE NamesOf(x)'
  BY <1>30 DEF Create, Goes
<1>31. ASSUME NEW a \in Actor, CreateFails(a) PROVE NamesOf(x)'
  BY <1>31 DEF CreateFails, Goes, Done
<1>32. ASSUME NEW a \in Actor, NEW f \in Debris, DuplicateBegin(a, f) PROVE NamesOf(x)'
  BY <1>32 DEF DuplicateBegin, Goes, Done, Leaves, Debris
<1>33. ASSUME NEW a \in Actor, OpenFails(a) PROVE NamesOf(x)'
  BY <1>33 DEF OpenFails, Goes
<1>34. ASSUME NEW a \in Actor, Describe(a) PROVE NamesOf(x)'
  BY <1>34 DEF Describe, Goes
<1>36. ASSUME NEW a \in Actor, NEW f \in Debris, DescribeFails(a, f) PROVE NamesOf(x)'
  BY <1>36 DEF DescribeFails, Goes, Done, Debris
<1>35. ASSUME NEW a \in Actor, RemoveFails(a) PROVE NamesOf(x)'
  BY <1>35 DEF RemoveFails, Goes
<1>28. ASSUME UNCHANGED vars PROVE NamesOf(x)'
  BY <1>28 DEF vars
<1>37. ASSUME NEW a \in Actor, NEW f \in Debris,
              DuplicateBegin(a, f) \/ Abort(a, f) \/ VouchFails(a, f) \/ DescribeFails(a, f) \/ RenameFails(a, f)
       PROVE NamesOf(x)'
  BY <1>4, <1>7, <1>16, <1>32, <1>36, <1>37
<1>38. ASSUME NEW a \in Actor, (\E v \in todo[a] : Evict(a, v)) \/ (\E f \in listed[a] : Unlink(a, f))
       PROVE NamesOf(x)'
  BY <1>25, <1>26, <1>38
<1> HIDE <1>a, <1>b DEF Types, TypeOK, NamesOf, PlaceOf, Places, mem, files, write, sweep, past, spent
<1> QED
  BY <1>1, <1>2, <1>3, <1>5, <1>6, <1>8, <1>9, <1>10, <1>11, <1>12, <1>13, <1>14, <1>15,
     <1>17, <1>18, <1>19, <1>20, <1>21, <1>22, <1>23, <1>24, <1>27, <1>28,
     <1>29, <1>30, <1>31, <1>33, <1>34, <1>35, <1>37, <1>38 DEF Next
-----------------------------------------------------------------------------
(* Keys.                                                                   *)

Unmoved(b) ==
    /\ pc'[b] = pc[b] /\ key'[b] = key[b] /\ victim'[b] = victim[b]
    /\ name'[b] = name[b] /\ prev'[b] = prev[b] /\ listed'[b] = listed[b]

\* A step of a alone.
Only(a) == \A b \in Actor \ {a} : Unmoved(b)

Still(k) ==
    /\ (k \in index') = (k \in index) /\ size'[k] = size[k] /\ disk'[k] = disk[k]
    /\ k \in VariantKey => (k \in dirs') = (k \in dirs)
    /\ (k \in booted') = (k \in booted) /\ (k \in leaked') = (k \in leaked)
    /\ (k \in torn => k \in torn')

LEMMA UnmovedWorks ==
    ASSUME NEW b \in Actor, NEW k \in Key, Unmoved(b)
    PROVE  (Works(b, k)' <=> Works(b, k)) /\ (Removes(b, k)' <=> Removes(b, k))
  BY DEF Unmoved, Works, Removes

LEMMA StillAt ==
    ASSUME NEW b \in Actor, NEW k \in Key, Unmoved(b), Still(k)
    PROVE  At(b, k)' <=> At(b, k)
  BY DEF Unmoved, Still, At, Removes, Removing, Writing, Whole, Weighs, Bit

LEMMA StillWhole == ASSUME NEW k \in Key, Still(k) PROVE Whole(k)' <=> Whole(k)
  BY DEF Still, Whole, Weighs, Bit

\* A step of a that leaves k alone keeps it, if it leaves a's own part there.
LEMMA KeyFrame ==
    ASSUME NEW a \in Actor, NEW k \in Key, Only(a), Still(k), KeyOf(k),
           k \notin torn' => /\ (Works(a, k)' <=> Works(a, k))
                             /\ Works(a, k) /\ At(a, k) => At(a, k)'
                             /\ Removes(a, k) => Removes(a, k)'
    PROVE  KeyOf(k)'
<1> SUFFICES ASSUME k \notin torn'
             PROVE  /\ \A b, c \in Actor : Works(b, k)' /\ Works(c, k)' => b = c
                    /\ (\A b \in Actor : ~Works(b, k)') => Whole(k)'
                    /\ \A b \in Actor : Works(b, k)' => At(b, k)'
                    /\ Vouched(k)'
  BY DEF KeyOf
<1>1. k \notin torn
  BY DEF Still
<1>2. \A b \in Actor : /\ (Works(b, k)' <=> Works(b, k)) /\ (Removes(b, k) => Removes(b, k)')
                       /\ Works(b, k) /\ At(b, k) => At(b, k)'
  BY UnmovedWorks, StillAt DEF Only
<1>3. Whole(k)' <=> Whole(k)
  BY StillWhole
<1>4. Vouched(k)'
  BY <1>1, <1>2 DEF Vouched, KeyOf, Still
<1> QED
  BY <1>1, <1>2, <1>3, <1>4 DEF KeyOf

\* A step of the one actor that works on k.
LEMMA KeyMine ==
    ASSUME NEW a \in Actor, NEW k \in Key, Only(a),
           k \notin torn' => /\ \A b \in Actor \ {a} : ~Works(b, k)
                             /\ Works(a, k)' => At(a, k)'
                             /\ ~Works(a, k)' => Whole(k)'
                             /\ Vouched(k)'
    PROVE  KeyOf(k)'
<1> SUFFICES ASSUME k \notin torn'
             PROVE  /\ \A b, c \in Actor : Works(b, k)' /\ Works(c, k)' => b = c
                    /\ (\A b \in Actor : ~Works(b, k)') => Whole(k)'
                    /\ \A b \in Actor : Works(b, k)' => At(b, k)'
                    /\ Vouched(k)'
  BY DEF KeyOf
<1>1. \A b \in Actor \ {a} : ~Works(b, k)'
  BY UnmovedWorks DEF Only
<1> QED
  BY <1>1

\* A contended key is torn from then on.
LEMMA TouchesAlone ==
    ASSUME NEW a \in Actor, NEW k \in Key, Touches(a, k), k \notin torn'
    PROVE  k \notin torn /\ \A b \in Actor \ {a} : ~Works(b, k)
  BY DEF Touches, Contended, Works

\* Another key is not touched.
LEMMA TouchesOther ==
    ASSUME NEW a, NEW k, NEW x, x # k, Touches(a, k)
    PROVE  (x \in torn') = (x \in torn)
  BY DEF Touches

\* What a's own place says of the key it works on.
LEMMA AloneAt ==
    ASSUME NEW a \in Actor, NEW k \in Key, KeyOf(k), k \notin torn, Works(a, k)
    PROVE  At(a, k) /\ \A b \in Actor \ {a} : ~Works(b, k)
  BY DEF KeyOf

\* An untouched key nobody else works on is whole.
LEMMA WholeAlone ==
    ASSUME NEW a \in Actor, NEW k \in Key, KeyOf(k), k \notin torn, ~Works(a, k),
           \A b \in Actor \ {a} : ~Works(b, k)
    PROVE  Whole(k)
  BY DEF KeyOf
-----------------------------------------------------------------------------
(* A key through each step that writes it or removes it. *)

LEMMA CreateKey ==
    ASSUME Ready, NEW a \in Actor, Create(a), NEW x \in Key, KeyOf(x)
    PROVE  KeyOf(x)'
<1>a. Types /\ PlaceOf(a) /\ NamesOf(x)
  BY DEF Ready
<1>b. /\ Key = FileKey \cup VariantKey /\ FileKey \cap VariantKey = {} /\ None \notin Key
      /\ "meta" \notin Actor /\ "out" \notin Actor
  BY StoreAssumption DEF Key
<1> USE <1>a, <1>b DEF Types, TypeOK, PlaceOf, Places, mem, files, write, sweep, past, spent
<1>1. Only(a)
  BY DEF Create, Goes, Only, Unmoved
<1>2. CASE x # key[a]
  <2>1. Still(x)
    BY <1>2, TouchesOther DEF Create, Goes, Still
  <2>2. ~Works(a, x) /\ ~Works(a, x)' /\ ~Removes(a, x)
    BY <1>2 DEF Create, Goes, Works, Removes, Clear
  <2> QED
    BY <1>1, <2>1, <2>2, KeyFrame
<1>3. CASE x = key[a]
  <2>1. ~Works(a, x)
    BY <1>3 DEF Create, Goes, Works, Removes, Clear
  <2>2. ASSUME x \notin torn'
        PROVE  Whole(x) /\ Vouched(x) /\ \A b \in Actor \ {a} : ~Works(b, x)
    <3>1. x \notin torn /\ \A b \in Actor \ {a} : ~Works(b, x)
      BY <1>3, <2>2, TouchesAlone DEF Create
    <3> QED
      BY <2>1, <3>1, WholeAlone DEF KeyOf
  <2>3. ASSUME x \notin torn' PROVE (Works(a, x)' => At(a, x)') /\ (~Works(a, x)' => Whole(x)')
    BY <1>3, <2>2, <2>3 DEF Create, Goes, NamesOf, Works, Removes, Clear, At, Removing, Writing, Whole, Weighs,
         Bit, Clear
  <2>4. ASSUME x \notin torn' PROVE Vouched(x)'
    BY <1>3, <2>2, <2>4 DEF Create, Goes, NamesOf, Works, Removes, Vouched, At, Writing, Whole
  <2> QED
    BY <1>1, <2>2, <2>3, <2>4, KeyMine
<1> QED
  BY <1>2, <1>3

\* The refusal of a second Begin: it touches the key only if it leaves its file.
LEMMA DuplicateBeginKey ==
    ASSUME Ready, NEW a \in Actor, NEW f \in Debris, DuplicateBegin(a, f), NEW x \in Key, KeyOf(x)
    PROVE  KeyOf(x)'
<1>a. Types /\ PlaceOf(a) /\ NamesOf(x) /\ None \notin Key
  BY StoreAssumption DEF Ready
<1> USE <1>a DEF Types, TypeOK, PlaceOf, Places, mem, files, write, sweep, past, spent
<1>1. Only(a)
  BY DEF DuplicateBegin, Goes, Done, Only, Unmoved
<1>2. ~Works(a, x) /\ ~Works(a, x)' /\ ~Removes(a, x)
  BY DEF DuplicateBegin, Goes, Done, Works, Removes, Clear
<1>3. CASE x # key[a] \/ f = {}
  <2>1. Still(x)
    BY <1>3, TouchesOther DEF DuplicateBegin, Leaves, Still
  <2> QED
    BY <1>1, <1>2, <2>1, KeyFrame
<1>4. CASE x = key[a] /\ f # {}
  <2>1. ASSUME x \notin torn'
        PROVE  /\ Whole(x) /\ Vouched(x) /\ x \notin torn
               /\ \A b \in Actor \ {a} : ~Works(b, x)
    <3>1. x \notin torn /\ \A b \in Actor \ {a} : ~Works(b, x)
      BY <1>4, <2>1, TouchesAlone DEF DuplicateBegin
    <3> QED
      BY <1>2, <3>1, WholeAlone DEF KeyOf
  <2>2. /\ disk'[x] = disk[x] \cup {"stray"} /\ x \in leaked' /\ index' = index /\ size' = size
        /\ booted' = booted /\ dirs' = dirs
    BY <1>4 DEF DuplicateBegin, Leaves, Debris
  <2>3. ASSUME x \notin torn' PROVE Whole(x)' /\ Vouched(x)'
    <3>1. x \in FileKey /\ x \notin VariantKey
      BY <1>4, StoreAssumption DEF DuplicateBegin
    <3>2. x \notin index => "meta" \notin disk[x]
      BY <2>1, <2>3 DEF Whole
    <3>3. Whole(x)'
      BY <2>1, <2>2, <2>3, <3>1, <3>2 DEF Whole
    <3> QED
      BY <2>1, <2>2, <2>3, <3>1, <3>2, <3>3 DEF Whole, Vouched
  <2> QED
    BY <1>1, <1>2, <2>1, <2>3, KeyMine
<1> QED
  BY <1>3, <1>4

LEMMA DescribeKey ==
    ASSUME Ready, NEW a \in Actor, Describe(a), NEW x \in Key, KeyOf(x)
    PROVE  KeyOf(x)'
<1>a. Types /\ PlaceOf(a) /\ NamesOf(x)
  BY DEF Ready
<1>b. /\ Key = FileKey \cup VariantKey /\ FileKey \cap VariantKey = {} /\ None \notin Key
      /\ "meta" \notin Actor /\ "out" \notin Actor
  BY StoreAssumption DEF Key
<1> USE <1>a, <1>b DEF Types, TypeOK, PlaceOf, Places, mem, files, write, sweep, past, spent
<1>1. Only(a)
  BY DEF Describe, Goes, Only, Unmoved
<1>2. CASE x # key[a]
  <2>1. Still(x)
    BY <1>2, TouchesOther DEF Describe, Goes, Still
  <2>2. ~Works(a, x) /\ ~Works(a, x)' /\ ~Removes(a, x)
    BY <1>2 DEF Describe, Goes, Works, Removes, Clear
  <2> QED
    BY <1>1, <2>1, <2>2, KeyFrame
<1>3. CASE x = key[a]
  <2>1. Works(a, x)
    BY <1>3 DEF Describe, Goes, Works, Removes, Clear
  <2>2. ASSUME x \notin torn'
        PROVE  At(a, x) /\ Vouched(x) /\ \A b \in Actor \ {a} : ~Works(b, x)
    <3>1. x \notin torn
      BY <1>3, <2>2, TouchesAlone DEF Describe
    <3> QED
      BY <2>1, <3>1, AloneAt DEF KeyOf
  <2>3. ASSUME x \notin torn' PROVE (Works(a, x)' => At(a, x)') /\ (~Works(a, x)' => Whole(x)')
    BY <1>3, <2>2, <2>3 DEF Describe, Goes, NamesOf, Works, Removes, Clear, At, Removing, Writing, Whole, Weighs,
         Bit, Clear
  <2>4. ASSUME x \notin torn' PROVE Vouched(x)'
    BY <1>3, <2>2, <2>4 DEF Describe, Goes, NamesOf, Works, Removes, Vouched, At, Writing, Whole
  <2> QED
    BY <1>1, <2>2, <2>3, <2>4, KeyMine
<1> QED
  BY <1>2, <1>3

LEMMA DescribeFailsKey ==
    ASSUME Ready, NEW a \in Actor, NEW f \in Debris, DescribeFails(a, f), NEW x \in Key, KeyOf(x)
    PROVE  KeyOf(x)'
<1>a. Types /\ PlaceOf(a) /\ NamesOf(x)
  BY DEF Ready
<1>b. /\ Key = FileKey \cup VariantKey /\ FileKey \cap VariantKey = {} /\ None \notin Key
      /\ "meta" \notin Actor /\ "out" \notin Actor
  BY StoreAssumption DEF Key
<1> USE <1>a, <1>b DEF Types, TypeOK, PlaceOf, Places, mem, files, write, sweep, past, spent
<1>1. Only(a)
  BY DEF DescribeFails, Goes, Done, Debris, Only, Unmoved
<1>2. CASE x # key[a]
  <2>1. Still(x)
    BY <1>2, TouchesOther DEF DescribeFails, Goes, Done, Debris, Still
  <2>2. ~Works(a, x) /\ ~Works(a, x)' /\ ~Removes(a, x)
    BY <1>2 DEF DescribeFails, Goes, Done, Debris, Works, Removes, Clear
  <2> QED
    BY <1>1, <2>1, <2>2, KeyFrame
<1>3. CASE x = key[a]
  <2>1. Works(a, x)
    BY <1>3 DEF DescribeFails, Goes, Done, Debris, Works, Removes, Clear
  <2>2. ASSUME x \notin torn'
        PROVE  At(a, x) /\ Vouched(x) /\ \A b \in Actor \ {a} : ~Works(b, x)
    <3>1. x \notin torn
      BY <1>3, <2>2 DEF DescribeFails
    <3> QED
      BY <2>1, <3>1, AloneAt DEF KeyOf
  <2>3. ASSUME x \notin torn' PROVE (Works(a, x)' => At(a, x)') /\ (~Works(a, x)' => Whole(x)')
    BY <1>3, <2>2, <2>3 DEF DescribeFails, Goes, Done, Debris, NamesOf, Works, Removes, Clear, At, Removing, Writing, Whole, Weighs,
         Bit, Clear
  <2>4. ASSUME x \notin torn' PROVE Vouched(x)'
    BY <1>3, <2>2, <2>4 DEF DescribeFails, Goes, Done, Debris, NamesOf, Works, Removes, Vouched, At, Writing, Whole
  <2> QED
    BY <1>1, <2>2, <2>3, <2>4, KeyMine
<1> QED
  BY <1>2, <1>3

LEMMA BirthKey ==
    ASSUME Ready, NEW a \in Actor, NEW k \in Key, Birth(a, k), NEW x \in Key, KeyOf(x)
    PROVE  KeyOf(x)'
<1>a. Types /\ PlaceOf(a) /\ NamesOf(x)
  BY DEF Ready
<1>b. /\ Key = FileKey \cup VariantKey /\ FileKey \cap VariantKey = {} /\ None \notin Key
      /\ "meta" \notin Actor /\ "out" \notin Actor
  BY StoreAssumption DEF Key
<1> USE <1>a, <1>b DEF Types, TypeOK, PlaceOf, Places, mem, files, write, sweep, past, spent
<1>1. Only(a)
  BY DEF Birth, Goes, Only, Unmoved
<1>2. CASE ~(x = k /\ k \notin index)
  <2>1. Still(x)
    BY <1>2, TouchesOther DEF Birth, Goes, Still
  <2>2. ~Works(a, x) /\ ~Works(a, x)' /\ ~Removes(a, x)
    BY <1>2 DEF Birth, Goes, Works, Removes, Clear
  <2> QED
    BY <1>1, <2>1, <2>2, KeyFrame
<1>3. CASE x = k /\ k \notin index
  <2>1. ~Works(a, x)
    BY <1>3 DEF Birth, Goes, Works, Removes, Clear
  <2>2. ASSUME x \notin torn'
        PROVE  Whole(x) /\ Vouched(x) /\ \A b \in Actor \ {a} : ~Works(b, x)
    <3>1. x \notin torn /\ \A b \in Actor \ {a} : ~Works(b, x)
      BY <1>3, <2>2, TouchesAlone DEF Birth
    <3> QED
      BY <2>1, <3>1, WholeAlone DEF KeyOf
  <2>3. ASSUME x \notin torn' PROVE (Works(a, x)' => At(a, x)') /\ (~Works(a, x)' => Whole(x)')
    BY <1>3, <2>2, <2>3 DEF Birth, Goes, NamesOf, Works, Removes, Clear, At, Removing, Writing, Whole,
         Weighs, Bit
  <2>4. ASSUME x \notin torn' PROVE Vouched(x)'
    BY <1>3, <2>2, <2>4 DEF Birth, Goes, NamesOf, Works, Removes, Vouched, At, Writing, Whole
  <2> QED
    BY <1>1, <2>2, <2>3, <2>4, KeyMine
<1> QED
  BY <1>2, <1>3

LEMMA AbortKey ==
    ASSUME Ready, NEW a \in Actor, NEW f \in Debris, Abort(a, f), NEW x \in Key, KeyOf(x)
    PROVE  KeyOf(x)'
<1>a. Types /\ PlaceOf(a) /\ NamesOf(x)
  BY DEF Ready
<1>b. /\ Key = FileKey \cup VariantKey /\ FileKey \cap VariantKey = {} /\ None \notin Key
      /\ "meta" \notin Actor /\ "out" \notin Actor
  BY StoreAssumption DEF Key
<1> USE <1>a, <1>b DEF Types, TypeOK, PlaceOf, Places, mem, files, write, sweep, past, spent
<1>1. Only(a)
  BY DEF Abort, Leaves, Goes, Done, Rmdir, Debris, Only, Unmoved
<1>2. CASE x # key[a]
  <2>1. Still(x)
    BY <1>2, TouchesOther DEF Abort, Leaves, Goes, Done, Rmdir, Debris, Still
  <2>2. ~Works(a, x) /\ ~Works(a, x)' /\ ~Removes(a, x)
    BY <1>2 DEF Abort, Leaves, Goes, Done, Rmdir, Debris, Works, Removes, Clear
  <2> QED
    BY <1>1, <2>1, <2>2, KeyFrame
<1>3. CASE x = key[a]
  <2>1. Works(a, x)
    BY <1>3 DEF Abort, Leaves, Goes, Done, Rmdir, Debris, Works, Removes, Clear
  <2>2. ASSUME x \notin torn'
        PROVE  At(a, x) /\ Vouched(x) /\ \A b \in Actor \ {a} : ~Works(b, x)
    <3>1. x \notin torn
      BY <1>3, <2>2 DEF Abort
    <3> QED
      BY <2>1, <3>1, AloneAt DEF KeyOf
  <2>3. ASSUME x \notin torn' PROVE (Works(a, x)' => At(a, x)') /\ (~Works(a, x)' => Whole(x)')
    BY <1>3, <2>2, <2>3 DEF Abort, Leaves, Goes, Done, Rmdir, Debris, NamesOf, Works, Removes, Clear, At, Removing, Writing, Whole, Weighs,
         Bit, Clear
  <2>4. ASSUME x \notin torn' PROVE Vouched(x)'
    BY <1>3, <2>2, <2>4 DEF Abort, Leaves, Goes, Done, Rmdir, Debris, NamesOf, Works, Removes, Vouched, At, Writing, Whole
  <2> QED
    BY <1>1, <2>2, <2>3, <2>4, KeyMine
<1> QED
  BY <1>2, <1>3

LEMMA PublishKey ==
    ASSUME Ready, NEW a \in Actor, Publish(a), NEW x \in Key, KeyOf(x)
    PROVE  KeyOf(x)'
<1>a. Types /\ PlaceOf(a) /\ NamesOf(x)
  BY DEF Ready
<1>b. /\ Key = FileKey \cup VariantKey /\ FileKey \cap VariantKey = {} /\ None \notin Key
      /\ "meta" \notin Actor /\ "out" \notin Actor
  BY StoreAssumption DEF Key
<1> USE <1>a, <1>b DEF Types, TypeOK, PlaceOf, Places, mem, files, write, sweep, past, spent
<1>1. Only(a)
  BY DEF Publish, Goes, Published, Only, Unmoved
<1>2. CASE x # key[a]
  <2>1. Still(x)
    BY <1>2, TouchesOther DEF Publish, Goes, Published, Still
  <2>2. ~Works(a, x) /\ ~Works(a, x)' /\ ~Removes(a, x)
    BY <1>2 DEF Publish, Goes, Published, Works, Removes, Clear
  <2> QED
    BY <1>1, <2>1, <2>2, KeyFrame
<1>3. CASE x = key[a]
  <2>1. Works(a, x)
    BY <1>3 DEF Publish, Goes, Published, Works, Removes, Clear
  <2>2. ASSUME x \notin torn'
        PROVE  At(a, x) /\ Vouched(x) /\ \A b \in Actor \ {a} : ~Works(b, x)
    <3>1. x \notin torn
      BY <1>3, <2>2, TouchesAlone DEF Publish
    <3> QED
      BY <2>1, <3>1, AloneAt DEF KeyOf
  <2>3. ASSUME x \notin torn' PROVE (Works(a, x)' => At(a, x)') /\ (~Works(a, x)' => Whole(x)')
    BY <1>3, <2>2, <2>3 DEF Publish, Goes, Published, NamesOf, Works, Removes, Clear, At, Removing,
         Writing, Whole, Weighs, Bit
  <2>4. ASSUME x \notin torn' PROVE Vouched(x)'
    BY <1>3, <2>2, <2>4 DEF Publish, Goes, Published, NamesOf, Works, Removes, Vouched, At,
         Writing, Whole
  <2> QED
    BY <1>1, <2>2, <2>3, <2>4, KeyMine
<1> QED
  BY <1>2, <1>3

LEMMA VouchKey ==
    ASSUME Ready, NEW a \in Actor, Vouch(a), NEW x \in Key, KeyOf(x)
    PROVE  KeyOf(x)'
<1>a. Types /\ PlaceOf(a) /\ NamesOf(x)
  BY DEF Ready
<1>b. /\ Key = FileKey \cup VariantKey /\ FileKey \cap VariantKey = {} /\ None \notin Key
      /\ "meta" \notin Actor /\ "out" \notin Actor
  BY StoreAssumption DEF Key
<1> USE <1>a, <1>b DEF Types, TypeOK, PlaceOf, Places, mem, files, write, sweep, past, spent
<1>1. Only(a)
  BY DEF Vouch, Goes, Only, Unmoved
<1>2. CASE x # key[a]
  <2>1. Still(x)
    BY <1>2, TouchesOther DEF Vouch, Goes, Still
  <2>2. ~Works(a, x) /\ ~Works(a, x)' /\ ~Removes(a, x)
    BY <1>2 DEF Vouch, Goes, Works, Removes, Clear
  <2> QED
    BY <1>1, <2>1, <2>2, KeyFrame
<1>3. CASE x = key[a]
  <2>1. Works(a, x)
    BY <1>3 DEF Vouch, Goes, Works, Removes, Clear
  <2>2. ASSUME x \notin torn'
        PROVE  At(a, x) /\ Vouched(x) /\ \A b \in Actor \ {a} : ~Works(b, x)
    <3>1. x \notin torn
      BY <1>3, <2>2, TouchesAlone DEF Vouch
    <3> QED
      BY <2>1, <3>1, AloneAt DEF KeyOf
  <2>3. ASSUME x \notin torn' PROVE (Works(a, x)' => At(a, x)') /\ (~Works(a, x)' => Whole(x)')
    BY <1>3, <2>2, <2>3 DEF Vouch, Goes, NamesOf, Works, Removes, Clear, At, Removing, Writing, Whole,
         Weighs, Bit
  <2>4. ASSUME x \notin torn' PROVE Vouched(x)'
    BY <1>3, <2>2, <2>4 DEF Vouch, Goes, NamesOf, Works, Removes, Vouched, At, Writing, Whole
  <2> QED
    BY <1>1, <2>2, <2>3, <2>4, KeyMine
<1> QED
  BY <1>2, <1>3

LEMMA VouchFailsKey ==
    ASSUME Ready, NEW a \in Actor, NEW f \in Debris, VouchFails(a, f), NEW x \in Key, KeyOf(x)
    PROVE  KeyOf(x)'
<1>a. Types /\ PlaceOf(a) /\ NamesOf(x)
  BY DEF Ready
<1>b. /\ Key = FileKey \cup VariantKey /\ FileKey \cap VariantKey = {} /\ None \notin Key
      /\ "meta" \notin Actor /\ "out" \notin Actor
  BY StoreAssumption DEF Key
<1> USE <1>a, <1>b DEF Types, TypeOK, PlaceOf, Places, mem, files, write, sweep, past, spent
<1>1. Only(a)
  BY DEF VouchFails, Goes, Done, Rmdir, Debris, Only, Unmoved
<1>2. CASE x # key[a]
  <2>1. Still(x)
    BY <1>2, TouchesOther DEF VouchFails, Goes, Done, Rmdir, Debris, Still
  <2>2. ~Works(a, x) /\ ~Works(a, x)' /\ ~Removes(a, x)
    BY <1>2 DEF VouchFails, Goes, Done, Rmdir, Debris, Works, Removes, Clear
  <2> QED
    BY <1>1, <2>1, <2>2, KeyFrame
<1>3. CASE x = key[a]
  <2>1. Works(a, x)
    BY <1>3 DEF VouchFails, Goes, Done, Rmdir, Debris, Works, Removes, Clear
  <2>2. ASSUME x \notin torn'
        PROVE  At(a, x) /\ Vouched(x) /\ \A b \in Actor \ {a} : ~Works(b, x)
    <3>1. x \notin torn
      BY <1>3, <2>2 DEF VouchFails
    <3> QED
      BY <2>1, <3>1, AloneAt DEF KeyOf
  <2>3. ASSUME x \notin torn' PROVE (Works(a, x)' => At(a, x)') /\ (~Works(a, x)' => Whole(x)')
    BY <1>3, <2>2, <2>3 DEF VouchFails, Goes, Done, Rmdir, Debris, NamesOf, Works, Removes, Clear, At, Removing, Writing, Whole, Weighs,
         Bit, Clear
  <2>4. ASSUME x \notin torn' PROVE Vouched(x)'
    BY <1>3, <2>2, <2>4 DEF VouchFails, Goes, Done, Rmdir, Debris, NamesOf, Works, Removes, Vouched, At, Writing, Whole
  <2> QED
    BY <1>1, <2>2, <2>3, <2>4, KeyMine
<1> QED
  BY <1>2, <1>3

LEMMA IndexKey ==
    ASSUME Ready, NEW a \in Actor, Index(a), NEW x \in Key, KeyOf(x)
    PROVE  KeyOf(x)'
<1>a. Types /\ PlaceOf(a) /\ NamesOf(x)
  BY DEF Ready
<1>b. /\ Key = FileKey \cup VariantKey /\ FileKey \cap VariantKey = {} /\ None \notin Key
      /\ "meta" \notin Actor /\ "out" \notin Actor
  BY StoreAssumption DEF Key
<1> USE <1>a, <1>b DEF Types, TypeOK, PlaceOf, Places, mem, files, write, sweep, past, spent
<1>1. Only(a)
  BY DEF Index, Goes, OverBudget, Only, Unmoved
<1>2. CASE x # key[a]
  <2>1. Still(x)
    BY <1>2, TouchesOther DEF Index, Goes, OverBudget, Still
  <2>2. ~Works(a, x) /\ ~Works(a, x)' /\ ~Removes(a, x)
    BY <1>2 DEF Index, Goes, OverBudget, Works, Removes, Clear
  <2> QED
    BY <1>1, <2>1, <2>2, KeyFrame
<1>3. CASE x = key[a]
  <2>1. Works(a, x)
    BY <1>3 DEF Index, Goes, OverBudget, Works, Removes, Clear
  <2>2. ASSUME x \notin torn'
        PROVE  At(a, x) /\ Vouched(x) /\ \A b \in Actor \ {a} : ~Works(b, x)
    <3>1. x \notin torn
      BY <1>3, <2>2, TouchesAlone DEF Index
    <3> QED
      BY <2>1, <3>1, AloneAt DEF KeyOf
  <2>3. ASSUME x \notin torn' PROVE (Works(a, x)' => At(a, x)') /\ (~Works(a, x)' => Whole(x)')
    BY <1>3, <2>2, <2>3 DEF Index, Goes, OverBudget, NamesOf, Works, Removes, Clear, At, Removing,
         Writing, Whole, Weighs, Bit
  <2>4. ASSUME x \notin torn' PROVE Vouched(x)'
    BY <1>3, <2>2, <2>4 DEF Index, Goes, OverBudget, NamesOf, Works, Removes, Vouched, At, Writing,
         Whole
  <2> QED
    BY <1>1, <2>2, <2>3, <2>4, KeyMine
<1> QED
  BY <1>2, <1>3

LEMMA FinishKey ==
    ASSUME Ready, NEW a \in Actor, Finish(a), NEW x \in Key, KeyOf(x)
    PROVE  KeyOf(x)'
<1>a. Types /\ PlaceOf(a) /\ NamesOf(x)
  BY DEF Ready
<1>b. /\ Key = FileKey \cup VariantKey /\ FileKey \cap VariantKey = {} /\ None \notin Key
      /\ "meta" \notin Actor /\ "out" \notin Actor
  BY StoreAssumption DEF Key
<1> USE <1>a, <1>b DEF Types, TypeOK, PlaceOf, Places, mem, files, write, sweep, past, spent
<1>1. Only(a)
  BY DEF Finish, Goes, Done, Only, Unmoved
<1>2. CASE x # key[a]
  <2>1. Still(x)
    BY <1>2 DEF Finish, Goes, Done, Still
  <2>2. ~Works(a, x) /\ ~Works(a, x)' /\ ~Removes(a, x)
    BY <1>2 DEF Finish, Goes, Done, Works, Removes, Clear
  <2> QED
    BY <1>1, <2>1, <2>2, KeyFrame
<1>3. CASE x = key[a]
  <2>1. Works(a, x)
    BY <1>3 DEF Finish, Goes, Done, Works, Removes, Clear
  <2>2. ASSUME x \notin torn'
        PROVE  At(a, x) /\ Vouched(x) /\ \A b \in Actor \ {a} : ~Works(b, x)
    <3>1. x \notin torn
      BY <1>3, <2>2 DEF Finish
    <3> QED
      BY <2>1, <3>1, AloneAt DEF KeyOf
  <2>3. ASSUME x \notin torn' PROVE (Works(a, x)' => At(a, x)') /\ (~Works(a, x)' => Whole(x)')
    BY <1>3, <2>2, <2>3 DEF Finish, Goes, Done, NamesOf, Works, Removes, Clear, At, Removing, Writing,
         Whole, Weighs, Bit
  <2>4. ASSUME x \notin torn' PROVE Vouched(x)'
    BY <1>3, <2>2, <2>4 DEF Finish, Goes, Done, NamesOf, Works, Removes, Vouched, At, Writing, Whole
  <2> QED
    BY <1>1, <2>2, <2>3, <2>4, KeyMine
<1> QED
  BY <1>2, <1>3

LEMMA RegisterKey ==
    ASSUME Ready, NEW a \in Actor, Register(a), NEW x \in Key, KeyOf(x)
    PROVE  KeyOf(x)'
<1>a. Types /\ PlaceOf(a) /\ NamesOf(x)
  BY DEF Ready
<1>b. /\ Key = FileKey \cup VariantKey /\ FileKey \cap VariantKey = {} /\ None \notin Key
      /\ "meta" \notin Actor /\ "out" \notin Actor
  BY StoreAssumption DEF Key
<1> USE <1>a, <1>b DEF Types, TypeOK, PlaceOf, Places, mem, files, write, sweep, past, spent
<1>1. Only(a)
  BY DEF Register, Goes, Only, Unmoved
<1>2. CASE x # key[a]
  <2>1. Still(x)
    BY <1>2, TouchesOther DEF Register, Goes, Still
  <2>2. ~Works(a, x) /\ ~Works(a, x)' /\ ~Removes(a, x)
    BY <1>2 DEF Register, Goes, Works, Removes, Clear
  <2> QED
    BY <1>1, <2>1, <2>2, KeyFrame
<1>3. CASE x = key[a]
  <2>1. Works(a, x)
    BY <1>3 DEF Register, Goes, Works, Removes, Clear
  <2>2. ASSUME x \notin torn'
        PROVE  At(a, x) /\ Vouched(x) /\ \A b \in Actor \ {a} : ~Works(b, x)
    <3>1. x \notin torn
      BY <1>3, <2>2, TouchesAlone DEF Register
    <3> QED
      BY <2>1, <3>1, AloneAt DEF KeyOf
  <2>3. ASSUME x \notin torn' PROVE (Works(a, x)' => At(a, x)') /\ (~Works(a, x)' => Whole(x)')
    BY <1>3, <2>2, <2>3 DEF Register, Goes, NamesOf, Works, Removes, Clear, At, Removing, Writing, Whole,
         Weighs, Bit
  <2>4. ASSUME x \notin torn' PROVE Vouched(x)'
    BY <1>3, <2>2, <2>4 DEF Register, Goes, NamesOf, Works, Removes, Vouched, At, Writing, Whole
  <2> QED
    BY <1>1, <2>2, <2>3, <2>4, KeyMine
<1> QED
  BY <1>2, <1>3

LEMMA StatKey ==
    ASSUME Ready, NEW a \in Actor, NEW f \in {"init", "seg"}, Stat(a, f), NEW x \in Key, KeyOf(x)
    PROVE  KeyOf(x)'
<1>a. Types /\ PlaceOf(a) /\ NamesOf(x)
  BY DEF Ready
<1>b. /\ Key = FileKey \cup VariantKey /\ FileKey \cap VariantKey = {} /\ None \notin Key
      /\ "meta" \notin Actor /\ "out" \notin Actor
  BY StoreAssumption DEF Key
<1> USE <1>a, <1>b DEF Types, TypeOK, PlaceOf, Places, mem, files, write, sweep, past, spent
<1>1. Only(a)
  BY DEF Stat, Goes, Only, Unmoved
<1>2. CASE x # key[a]
  <2>1. Still(x)
    BY <1>2, TouchesOther DEF Stat, Goes, Still
  <2>2. ~Works(a, x) /\ ~Works(a, x)' /\ ~Removes(a, x)
    BY <1>2 DEF Stat, Goes, Works, Removes, Clear
  <2> QED
    BY <1>1, <2>1, <2>2, KeyFrame
<1>3. CASE x = key[a]
  <2>1. ~Works(a, x)
    BY <1>3 DEF Stat, Goes, Works, Removes, Clear
  <2>2. ASSUME x \notin torn'
        PROVE  Whole(x) /\ Vouched(x) /\ \A b \in Actor \ {a} : ~Works(b, x)
    <3>1. x \notin torn /\ \A b \in Actor \ {a} : ~Works(b, x)
      BY <1>3, <2>2, TouchesAlone DEF Stat
    <3> QED
      BY <2>1, <3>1, WholeAlone DEF KeyOf
  <2>3. ASSUME x \notin torn' PROVE (Works(a, x)' => At(a, x)') /\ (~Works(a, x)' => Whole(x)')
    BY <1>3, <2>2, <2>3 DEF Stat, Goes, NamesOf, Works, Removes, Clear, At, Removing, Writing, Whole,
         Weighs, Bit
  <2>4. ASSUME x \notin torn' PROVE Vouched(x)'
    BY <1>3, <2>2, <2>4 DEF Stat, Goes, NamesOf, Works, Removes, Vouched, At, Writing, Whole
  <2> QED
    BY <1>1, <2>2, <2>3, <2>4, KeyMine
<1> QED
  BY <1>2, <1>3

LEMMA RenameKey ==
    ASSUME Ready, NEW a \in Actor, Rename(a), NEW x \in Key, KeyOf(x)
    PROVE  KeyOf(x)'
<1>a. Types /\ PlaceOf(a) /\ NamesOf(x)
  BY DEF Ready
<1>b. /\ Key = FileKey \cup VariantKey /\ FileKey \cap VariantKey = {} /\ None \notin Key
      /\ "meta" \notin Actor /\ "out" \notin Actor
  BY StoreAssumption DEF Key
<1> USE <1>a, <1>b DEF Types, TypeOK, PlaceOf, Places, mem, files, write, sweep, past, spent
<1>1. Only(a)
  BY DEF Rename, Goes, Only, Unmoved
<1>2. CASE x # key[a]
  <2>1. Still(x)
    BY <1>2, TouchesOther DEF Rename, Goes, Still
  <2>2. ~Works(a, x) /\ ~Works(a, x)' /\ ~Removes(a, x)
    BY <1>2 DEF Rename, Goes, Works, Removes, Clear
  <2> QED
    BY <1>1, <2>1, <2>2, KeyFrame
<1>3. CASE x = key[a]
  <2>1. Works(a, x)
    BY <1>3 DEF Rename, Goes, Works, Removes, Clear
  <2>2. ASSUME x \notin torn'
        PROVE  At(a, x) /\ Vouched(x) /\ \A b \in Actor \ {a} : ~Works(b, x)
    <3>1. x \notin torn
      BY <1>3, <2>2, TouchesAlone DEF Rename
    <3> QED
      BY <2>1, <3>1, AloneAt DEF KeyOf
  <2>3. ASSUME x \notin torn' PROVE (Works(a, x)' => At(a, x)') /\ (~Works(a, x)' => Whole(x)')
    BY <1>3, <2>2, <2>3 DEF Rename, Goes, NamesOf, Works, Removes, Clear, At, Removing, Writing, Whole,
         Weighs, Bit
  <2>4. ASSUME x \notin torn' PROVE Vouched(x)'
    BY <1>3, <2>2, <2>4 DEF Rename, Goes, NamesOf, Works, Removes, Vouched, At, Writing, Whole
  <2> QED
    BY <1>1, <2>2, <2>3, <2>4, KeyMine
<1> QED
  BY <1>2, <1>3

LEMMA RenameFailsKey ==
    ASSUME Ready, NEW a \in Actor, NEW f \in Debris, RenameFails(a, f), NEW x \in Key, KeyOf(x)
    PROVE  KeyOf(x)'
<1>a. Types /\ PlaceOf(a) /\ NamesOf(x)
  BY DEF Ready
<1>b. /\ Key = FileKey \cup VariantKey /\ FileKey \cap VariantKey = {} /\ None \notin Key
      /\ "meta" \notin Actor /\ "out" \notin Actor
  BY StoreAssumption DEF Key
<1> USE <1>a, <1>b DEF Types, TypeOK, PlaceOf, Places, mem, files, write, sweep, past, spent
<1>1. Only(a)
  BY DEF RenameFails, Goes, Done, Debris, Only, Unmoved
<1>2. CASE x # key[a]
  <2>1. Still(x)
    BY <1>2, TouchesOther DEF RenameFails, Goes, Done, Debris, Still
  <2>2. ~Works(a, x) /\ ~Works(a, x)' /\ ~Removes(a, x)
    BY <1>2 DEF RenameFails, Goes, Done, Debris, Works, Removes, Clear
  <2> QED
    BY <1>1, <2>1, <2>2, KeyFrame
<1>3. CASE x = key[a]
  <2>1. Works(a, x)
    BY <1>3 DEF RenameFails, Goes, Done, Debris, Works, Removes, Clear
  <2>2. ASSUME x \notin torn'
        PROVE  At(a, x) /\ Vouched(x) /\ \A b \in Actor \ {a} : ~Works(b, x)
    <3>1. x \notin torn
      BY <1>3, <2>2 DEF RenameFails
    <3> QED
      BY <2>1, <3>1, AloneAt DEF KeyOf
  <2>3. ASSUME x \notin torn' PROVE (Works(a, x)' => At(a, x)') /\ (~Works(a, x)' => Whole(x)')
    BY <1>3, <2>2, <2>3 DEF RenameFails, Goes, Done, Debris, NamesOf, Works, Removes, Clear, At, Removing, Writing, Whole, Weighs,
         Bit, Clear
  <2>4. ASSUME x \notin torn' PROVE Vouched(x)'
    BY <1>3, <2>2, <2>4 DEF RenameFails, Goes, Done, Debris, NamesOf, Works, Removes, Vouched, At, Writing, Whole
  <2> QED
    BY <1>1, <2>2, <2>3, <2>4, KeyMine
<1> QED
  BY <1>2, <1>3

LEMMA FoldKey ==
    ASSUME Ready, NEW a \in Actor, Fold(a), NEW x \in Key, KeyOf(x)
    PROVE  KeyOf(x)'
<1>a. Types /\ PlaceOf(a) /\ NamesOf(x)
  BY DEF Ready
<1>b. /\ Key = FileKey \cup VariantKey /\ FileKey \cap VariantKey = {} /\ None \notin Key
      /\ "meta" \notin Actor /\ "out" \notin Actor
  BY StoreAssumption DEF Key
<1> USE <1>a, <1>b DEF Types, TypeOK, PlaceOf, Places, mem, files, write, sweep, past, spent
<1>1. Only(a)
  BY DEF Fold, Goes, Grown, OverBudget, Only, Unmoved
<1>2. CASE x # key[a]
  <2>1. Still(x)
    BY <1>2, TouchesOther DEF Fold, Goes, Grown, OverBudget, Still
  <2>2. ~Works(a, x) /\ ~Works(a, x)' /\ ~Removes(a, x)
    BY <1>2 DEF Fold, Goes, Grown, OverBudget, Works, Removes, Clear
  <2> QED
    BY <1>1, <2>1, <2>2, KeyFrame
<1>3. CASE x = key[a]
  <2>1. Works(a, x)
    BY <1>3 DEF Fold, Goes, Grown, OverBudget, Works, Removes, Clear
  <2>2. ASSUME x \notin torn'
        PROVE  At(a, x) /\ Vouched(x) /\ \A b \in Actor \ {a} : ~Works(b, x)
    <3>1. x \notin torn
      BY <1>3, <2>2, TouchesAlone DEF Fold
    <3> QED
      BY <2>1, <3>1, AloneAt DEF KeyOf
  <2>3. ASSUME x \notin torn' PROVE (Works(a, x)' => At(a, x)') /\ (~Works(a, x)' => Whole(x)')
    BY <1>3, <2>2, <2>3 DEF Fold, Goes, Grown, OverBudget, NamesOf, Works, Removes, Clear, At, Removing,
         Writing, Whole, Weighs, Bit
  <2>4. ASSUME x \notin torn' PROVE Vouched(x)'
    BY <1>3, <2>2, <2>4 DEF Fold, Goes, Grown, OverBudget, NamesOf, Works, Removes, Vouched, At,
         Writing, Whole
  <2> QED
    BY <1>1, <2>2, <2>3, <2>4, KeyMine
<1> QED
  BY <1>2, <1>3

LEMMA SweepEndsKey ==
    ASSUME Ready, NEW a \in Actor, SweepEnds(a), NEW x \in Key, KeyOf(x)
    PROVE  KeyOf(x)'
<1>a. Types /\ PlaceOf(a) /\ NamesOf(x)
  BY DEF Ready
<1>b. /\ Key = FileKey \cup VariantKey /\ FileKey \cap VariantKey = {} /\ None \notin Key
      /\ "meta" \notin Actor /\ "out" \notin Actor
  BY StoreAssumption DEF Key
<1> USE <1>a, <1>b DEF Types, TypeOK, PlaceOf, Places, mem, files, write, sweep, past, spent
<1>1. Only(a)
  BY DEF SweepEnds, Goes, Only, Unmoved
<1>2. CASE x # key[a]
  <2>1. Still(x)
    BY <1>2 DEF SweepEnds, Goes, Still
  <2>2. ~Works(a, x) /\ ~Works(a, x)' /\ ~Removes(a, x)
    BY <1>2 DEF SweepEnds, Goes, Works, Removes, Clear
  <2> QED
    BY <1>1, <2>1, <2>2, KeyFrame
<1>3. CASE x = key[a]
  <2>1. Works(a, x)
    BY <1>3 DEF SweepEnds, Goes, Works, Removes, Clear
  <2>2. ASSUME x \notin torn'
        PROVE  At(a, x) /\ Vouched(x) /\ \A b \in Actor \ {a} : ~Works(b, x)
    <3>1. x \notin torn
      BY <1>3, <2>2 DEF SweepEnds
    <3> QED
      BY <2>1, <3>1, AloneAt DEF KeyOf
  <2>3. ASSUME x \notin torn' PROVE (Works(a, x)' => At(a, x)') /\ (~Works(a, x)' => Whole(x)')
    BY <1>3, <2>2, <2>3 DEF SweepEnds, Goes, NamesOf, Works, Removes, Clear, At, Removing, Writing, Whole,
         Weighs, Bit
  <2>4. ASSUME x \notin torn' PROVE Vouched(x)'
    BY <1>3, <2>2, <2>4 DEF SweepEnds, Goes, NamesOf, Works, Removes, Vouched, At, Writing, Whole
  <2> QED
    BY <1>1, <2>2, <2>3, <2>4, KeyMine
<1> QED
  BY <1>2, <1>3

LEMMA ListKey ==
    ASSUME Ready, NEW a \in Actor, List(a), NEW x \in Key, KeyOf(x)
    PROVE  KeyOf(x)'
<1>a. Types /\ PlaceOf(a) /\ NamesOf(x)
  BY DEF Ready
<1>b. /\ Key = FileKey \cup VariantKey /\ FileKey \cap VariantKey = {} /\ None \notin Key
      /\ "meta" \notin Actor /\ "out" \notin Actor
  BY StoreAssumption DEF Key
<1> USE <1>a, <1>b DEF Types, TypeOK, PlaceOf, Places, mem, files, write, sweep, past, spent
<1>1. Only(a)
  BY DEF List, Goes, Only, Unmoved
<1>2. CASE x # victim[a]
  <2>1. Still(x)
    BY <1>2, TouchesOther DEF List, Goes, Still
  <2>2. /\ (Works(a, x)' <=> Works(a, x)) /\ (Removes(a, x)' <=> Removes(a, x))
        /\ At(a, x) => At(a, x)'
    BY <1>2, <2>1 DEF List, Goes, Works, Removes, Clear, At, Removing, Writing, Still, Whole, Weighs, Bit
  <2> QED
    BY <1>1, <2>1, <2>2, KeyFrame
<1>3. CASE x = victim[a]
  <2>1. Works(a, x)
    BY <1>3 DEF List, Goes, Works, Removes, Clear
  <2>2. ASSUME x \notin torn'
        PROVE  At(a, x) /\ Vouched(x) /\ \A b \in Actor \ {a} : ~Works(b, x)
    <3>1. x \notin torn
      BY <1>3, <2>2, TouchesAlone DEF List
    <3> QED
      BY <2>1, <3>1, AloneAt DEF KeyOf
  <2>3. ASSUME x \notin torn' PROVE (Works(a, x)' => At(a, x)') /\ (~Works(a, x)' => Whole(x)')
    BY <1>3, <2>2, <2>3 DEF List, Goes, NamesOf, Works, Removes, Clear, At, Removing, Writing, Whole,
         Weighs, Bit
  <2>4. ASSUME x \notin torn' PROVE Vouched(x)'
    BY <1>3, <2>2, <2>4 DEF List, Goes, NamesOf, Works, Removes, Vouched, At, Writing, Whole
  <2> QED
    BY <1>1, <2>2, <2>3, <2>4, KeyMine
<1> QED
  BY <1>2, <1>3

LEMMA UnlinkKey ==
    ASSUME Ready, NEW a \in Actor, NEW f \in listed[a], Unlink(a, f), NEW x \in Key, KeyOf(x)
    PROVE  KeyOf(x)'
<1>a. Types /\ PlaceOf(a) /\ NamesOf(x)
  BY DEF Ready
<1>b. /\ Key = FileKey \cup VariantKey /\ FileKey \cap VariantKey = {} /\ None \notin Key
      /\ "meta" \notin Actor /\ "out" \notin Actor
  BY StoreAssumption DEF Key
<1> USE <1>a, <1>b DEF Types, TypeOK, PlaceOf, Places, mem, files, write, sweep, past, spent
<1>1. Only(a)
  BY DEF Unlink, Goes, Only, Unmoved
<1>2. CASE x # victim[a]
  <2>1. Still(x)
    BY <1>2, TouchesOther DEF Unlink, Goes, Still
  <2>2. /\ (Works(a, x)' <=> Works(a, x)) /\ (Removes(a, x)' <=> Removes(a, x))
        /\ At(a, x) => At(a, x)'
    BY <1>2, <2>1 DEF Unlink, Goes, Works, Removes, Clear, At, Removing, Writing, Still, Whole, Weighs, Bit
  <2> QED
    BY <1>1, <2>1, <2>2, KeyFrame
<1>3. CASE x = victim[a]
  <2>1. Works(a, x)
    BY <1>3 DEF Unlink, Goes, Works, Removes, Clear
  <2>2. ASSUME x \notin torn'
        PROVE  At(a, x) /\ Vouched(x) /\ \A b \in Actor \ {a} : ~Works(b, x)
    <3>1. x \notin torn
      BY <1>3, <2>2, TouchesAlone DEF Unlink
    <3> QED
      BY <2>1, <3>1, AloneAt DEF KeyOf
  <2>3. ASSUME x \notin torn' PROVE (Works(a, x)' => At(a, x)') /\ (~Works(a, x)' => Whole(x)')
    BY <1>3, <2>2, <2>3 DEF Unlink, Goes, NamesOf, Works, Removes, Clear, At, Removing, Writing, Whole,
         Weighs, Bit
  <2>4. ASSUME x \notin torn' PROVE Vouched(x)'
    BY <1>3, <2>2, <2>4 DEF Unlink, Goes, NamesOf, Works, Removes, Vouched, At, Writing, Whole
  <2> QED
    BY <1>1, <2>2, <2>3, <2>4, KeyMine
<1> QED
  BY <1>2, <1>3
-----------------------------------------------------------------------------
(* ... through each that leaves it alone, a removal's two ends, and a crash. *)

LEMMA BeginKey ==
    ASSUME Ready, NEW a \in Actor, NEW k \in Key, Begin(a, k), NEW x \in Key, KeyOf(x)
    PROVE  KeyOf(x)'
<1>a. Types /\ PlaceOf(a) /\ None \notin Key /\ FileKey \cap VariantKey = {}
  BY StoreAssumption DEF Ready
<1> USE <1>a DEF Types, TypeOK, PlaceOf, Places, mem, files, write, sweep, past, spent
<1>1. Only(a)
  BY DEF Begin, Goes, Only, Unmoved
<1>2. Still(x)
  BY DEF Begin, Goes, Still
<1>3. /\ (Works(a, x)' <=> Works(a, x)) /\ (Removes(a, x)' <=> Removes(a, x))
      /\ Works(a, x) /\ At(a, x) => At(a, x)'
  BY <1>2 DEF Begin, Goes, Works, Removes, At, Removing, Writing, Still, Whole, Weighs, Bit, Clear
<1> QED
  BY <1>1, <1>2, <1>3, KeyFrame

LEMMA RemakeKey ==
    ASSUME Ready, NEW a \in Actor, Remake(a), NEW x \in Key, KeyOf(x)
    PROVE  KeyOf(x)'
<1>a. Types /\ PlaceOf(a) /\ None \notin Key /\ FileKey \cap VariantKey = {}
  BY StoreAssumption DEF Ready
<1> USE <1>a DEF Types, TypeOK, PlaceOf, Places, mem, files, write, sweep, past, spent
<1>1. Only(a)
  BY DEF Remake, Goes, Only, Unmoved
<1>2. Still(x)
  BY DEF Remake, Goes, Still
<1>3. /\ (Works(a, x)' <=> Works(a, x)) /\ (Removes(a, x)' <=> Removes(a, x))
      /\ Works(a, x) /\ At(a, x) => At(a, x)'
  BY <1>2 DEF Remake, Goes, Works, Removes, At, Removing, Writing, Still, Whole, Weighs, Bit, Clear
<1> QED
  BY <1>1, <1>2, <1>3, KeyFrame

LEMMA CreateFailsKey ==
    ASSUME Ready, NEW a \in Actor, CreateFails(a), NEW x \in Key, KeyOf(x)
    PROVE  KeyOf(x)'
<1>a. Types /\ PlaceOf(a) /\ None \notin Key /\ FileKey \cap VariantKey = {}
  BY StoreAssumption DEF Ready
<1> USE <1>a DEF Types, TypeOK, PlaceOf, Places, mem, files, write, sweep, past, spent
<1>1. Only(a)
  BY DEF CreateFails, Goes, Done, Rmdir, Only, Unmoved
<1>2. Still(x)
  BY DEF CreateFails, Goes, Done, Rmdir, Still
<1>3. /\ (Works(a, x)' <=> Works(a, x)) /\ (Removes(a, x)' <=> Removes(a, x))
      /\ Works(a, x) /\ At(a, x) => At(a, x)'
  BY <1>2 DEF CreateFails, Goes, Done, Rmdir, Works, Removes, At, Removing, Writing, Still, Whole, Weighs, Bit, Clear
<1> QED
  BY <1>1, <1>2, <1>3, KeyFrame

LEMMA LookupKey ==
    ASSUME Ready, NEW a \in Actor, NEW k \in Key, Lookup(a, k), NEW x \in Key, KeyOf(x)
    PROVE  KeyOf(x)'
<1>a. Types /\ PlaceOf(a) /\ None \notin Key
  BY StoreAssumption DEF Ready
<1> USE <1>a DEF Types, TypeOK, PlaceOf, Places, mem, files, write, sweep, past, spent
<1>1. Only(a)
  BY DEF Lookup, Goes, Only, Unmoved
<1>2. Still(x)
  BY DEF Lookup, Goes, Still
<1>3. /\ (Works(a, x)' <=> Works(a, x)) /\ (Removes(a, x)' <=> Removes(a, x))
      /\ Works(a, x) /\ At(a, x) => At(a, x)'
  BY <1>2 DEF Lookup, Goes, Works, Removes, Clear, At, Removing, Writing, Still, Whole, Weighs, Bit
<1> QED
  BY <1>1, <1>2, <1>3, KeyFrame

LEMMA OpenOutKey ==
    ASSUME Ready, NEW a \in Actor, OpenOut(a), NEW x \in Key, KeyOf(x)
    PROVE  KeyOf(x)'
<1>a. Types /\ PlaceOf(a) /\ None \notin Key
  BY StoreAssumption DEF Ready
<1> USE <1>a DEF Types, TypeOK, PlaceOf, Places, mem, files, write, sweep, past, spent
<1>1. Only(a)
  BY DEF OpenOut, Goes, Done, Only, Unmoved
<1>2. Still(x)
  BY DEF OpenOut, Goes, Done, Still
<1>3. /\ (Works(a, x)' <=> Works(a, x)) /\ (Removes(a, x)' <=> Removes(a, x))
      /\ Works(a, x) /\ At(a, x) => At(a, x)'
  BY <1>2 DEF OpenOut, Goes, Done, Works, Removes, Clear, At, Removing, Writing, Still, Whole, Weighs, Bit
<1> QED
  BY <1>1, <1>2, <1>3, KeyFrame

LEMMA OpenFailsKey ==
    ASSUME Ready, NEW a \in Actor, OpenFails(a), NEW x \in Key, KeyOf(x)
    PROVE  KeyOf(x)'
<1>a. Types /\ PlaceOf(a) /\ None \notin Key /\ FileKey \cap VariantKey = {}
  BY StoreAssumption DEF Ready
<1> USE <1>a DEF Types, TypeOK, PlaceOf, Places, mem, files, write, sweep, past, spent
<1>1. Only(a)
  BY DEF OpenFails, Goes, Only, Unmoved
<1>2. Still(x)
  BY DEF OpenFails, Goes, Still
<1>3. /\ (Works(a, x)' <=> Works(a, x)) /\ (Removes(a, x)' <=> Removes(a, x))
      /\ Works(a, x) /\ At(a, x) => At(a, x)'
  BY <1>2 DEF OpenFails, Goes, Works, Removes, At, Removing, Writing, Still, Whole, Weighs, Bit, Clear
<1> QED
  BY <1>1, <1>2, <1>3, KeyFrame

LEMMA AbandonLateKey ==
    ASSUME Ready, NEW a \in Actor, AbandonLate(a), NEW x \in Key, KeyOf(x)
    PROVE  KeyOf(x)'
<1>a. Types /\ PlaceOf(a) /\ None \notin Key
  BY StoreAssumption DEF Ready
<1> USE <1>a DEF Types, TypeOK, PlaceOf, Places, mem, files, write, sweep, past, spent
<1>1. Only(a)
  BY DEF AbandonLate, Only, Unmoved
<1>2. Still(x)
  BY DEF AbandonLate, Still
<1>3. /\ (Works(a, x)' <=> Works(a, x)) /\ (Removes(a, x)' <=> Removes(a, x))
      /\ Works(a, x) /\ At(a, x) => At(a, x)'
  BY <1>2 DEF AbandonLate, Works, Removes, Clear, At, Removing, Writing, Still, Whole, Weighs, Bit
<1> QED
  BY <1>1, <1>2, <1>3, KeyFrame

LEMMA PinKey ==
    ASSUME Ready, NEW a \in Actor, Pin(a), NEW x \in Key, KeyOf(x)
    PROVE  KeyOf(x)'
<1>a. Types /\ PlaceOf(a) /\ None \notin Key
  BY StoreAssumption DEF Ready
<1> USE <1>a DEF Types, TypeOK, PlaceOf, Places, mem, files, write, sweep, past, spent
<1>1. Only(a)
  BY DEF Pin, Only, Unmoved
<1>2. Still(x)
  BY DEF Pin, Still
<1>3. /\ (Works(a, x)' <=> Works(a, x)) /\ (Removes(a, x)' <=> Removes(a, x))
      /\ Works(a, x) /\ At(a, x) => At(a, x)'
  BY <1>2 DEF Pin, Works, Removes, Clear, At, Removing, Writing, Still, Whole, Weighs, Bit
<1> QED
  BY <1>1, <1>2, <1>3, KeyFrame

LEMMA LeaveKey ==
    ASSUME Ready, NEW a \in Actor, Leave(a), NEW x \in Key, KeyOf(x)
    PROVE  KeyOf(x)'
<1>a. Types /\ PlaceOf(a) /\ None \notin Key
  BY StoreAssumption DEF Ready
<1> USE <1>a DEF Types, TypeOK, PlaceOf, Places, mem, files, write, sweep, past, spent
<1>1. Only(a)
  BY DEF Leave, Goes, Done, Only, Unmoved
<1>2. Still(x)
  BY DEF Leave, Goes, Done, Still
<1>3. /\ (Works(a, x)' <=> Works(a, x)) /\ (Removes(a, x)' <=> Removes(a, x))
      /\ Works(a, x) /\ At(a, x) => At(a, x)'
  BY <1>2 DEF Leave, Goes, Done, Works, Removes, Clear, At, Removing, Writing, Still, Whole, Weighs, Bit
<1> QED
  BY <1>1, <1>2, <1>3, KeyFrame

LEMMA CollectKey ==
    ASSUME Ready, NEW a \in Actor, Collect(a), NEW x \in Key, KeyOf(x)
    PROVE  KeyOf(x)'
<1>a. Types /\ PlaceOf(a) /\ None \notin Key
  BY StoreAssumption DEF Ready
<1> USE <1>a DEF Types, TypeOK, PlaceOf, Places, mem, files, write, sweep, past, spent
<1>1. Only(a)
  BY DEF Collect, Goes, Only, Unmoved
<1>2. Still(x)
  BY DEF Collect, Goes, Still
<1>3. /\ (Works(a, x)' <=> Works(a, x)) /\ (Removes(a, x)' <=> Removes(a, x))
      /\ Works(a, x) /\ At(a, x) => At(a, x)'
  BY <1>2 DEF Collect, Goes, Works, Removes, Clear, At, Removing, Writing, Still, Whole, Weighs, Bit
<1> QED
  BY <1>1, <1>2, <1>3, KeyFrame

LEMMA SnapshotKey ==
    ASSUME Ready, NEW a \in Actor, Snapshot(a), NEW x \in Key, KeyOf(x)
    PROVE  KeyOf(x)'
<1>a. Types /\ PlaceOf(a) /\ None \notin Key
  BY StoreAssumption DEF Ready
<1> USE <1>a DEF Types, TypeOK, PlaceOf, Places, mem, files, write, sweep, past, spent
<1>1. Only(a)
  BY DEF Snapshot, Goes, Only, Unmoved
<1>2. Still(x)
  BY DEF Snapshot, Goes, Still
<1>3. /\ (Works(a, x)' <=> Works(a, x)) /\ (Removes(a, x)' <=> Removes(a, x))
      /\ Works(a, x) /\ At(a, x) => At(a, x)'
  BY <1>2 DEF Snapshot, Goes, Works, Removes, Clear, At, Removing, Writing, Still, Whole, Weighs, Bit
<1> QED
  BY <1>1, <1>2, <1>3, KeyFrame

LEMMA EvictKey ==
    ASSUME Ready, NEW a \in Actor, NEW v \in todo[a], Evict(a, v), NEW x \in Key, KeyOf(x)
    PROVE  KeyOf(x)'
<1>a. Types /\ PlaceOf(a) /\ None \notin Key
  BY StoreAssumption DEF Ready
<1> USE <1>a DEF Types, TypeOK, PlaceOf, Places, mem, files, write, sweep, past, spent
<1>1. Only(a)
  BY DEF Evict, Goes, Only, Unmoved
<1>2. Still(x)
  BY DEF Evict, Goes, Still
<1>3. /\ (Works(a, x)' <=> Works(a, x)) /\ (Removes(a, x)' <=> Removes(a, x))
      /\ Works(a, x) /\ At(a, x) => At(a, x)'
  BY <1>2 DEF Evict, Goes, Works, Removes, Clear, At, Removing, Writing, Still, Whole, Weighs, Bit
<1> QED
  BY <1>1, <1>2, <1>3, KeyFrame

LEMMA DropKey ==
    ASSUME Ready, NEW a \in Actor, Drop(a), NEW x \in Key, KeyOf(x)
    PROVE  KeyOf(x)'
<1>a. Types /\ PlaceOf(a) /\ NamesOf(x)
  BY DEF Ready
<1> USE <1>a DEF Types, TypeOK, PlaceOf, Places, mem, files, write, sweep, past, spent
<1>1. Only(a)
  BY DEF Drop, Goes, Weight, Only, Unmoved
<1>2. CASE ~(x = victim[a] /\ x \in index)
  <2>1. Still(x)
    <3>1. CASE x # victim[a]
      BY <3>1, TouchesOther DEF Drop, Still
    <3>2. CASE x = victim[a] /\ x \notin index
      <4>1. size'[x] = size[x] /\ x \notin index' /\ x \notin booted /\ x \notin booted'
        BY <3>2 DEF Drop, NamesOf
      <4>2. x \in torn => x \in torn'
        BY DEF Drop, Touches
      <4> QED
        BY <3>2, <4>1, <4>2 DEF Drop, Still
    <3> QED
      BY <1>2, <3>1, <3>2
  <2>2. /\ (Works(a, x)' <=> Works(a, x)) /\ (Removes(a, x)' <=> Removes(a, x))
        /\ Works(a, x) /\ At(a, x) => At(a, x)'
    BY <1>2, <2>1 DEF Drop, Goes, Weight, Works, Removes, Clear, At, Removing, Writing, Still, Whole,
         Weighs, Bit
  <2> QED
    BY <1>1, <2>1, <2>2, KeyFrame
<1>3. CASE x = victim[a] /\ x \in index
  <2>1. x \notin torn' => \A b \in Actor \ {a} : ~Works(b, x)
    BY <1>3, TouchesAlone DEF Drop
  <2>2. Removes(a, x)' /\ At(a, x)'
    BY <1>3 DEF Drop, Goes, Removes, At, Removing
  <2>3. Works(a, x)' /\ Vouched(x)'
    BY <2>2 DEF Works, Vouched
  <2> QED
    BY <1>1, <2>1, <2>2, <2>3, KeyMine
<1> QED
  BY <1>2, <1>3

LEMMA RemoveEndsKey ==
    ASSUME Ready, NEW a \in Actor, RemoveEnds(a), NEW x \in Key, KeyOf(x)
    PROVE  KeyOf(x)'
<1>a. Types /\ PlaceOf(a) /\ NamesOf(x)
  BY DEF Ready
<1> USE <1>a DEF Types, TypeOK, PlaceOf, Places, mem, files, write, sweep, past, spent
<1>1. Only(a)
  BY DEF RemoveEnds, Goes, Rmdir, Only, Unmoved
<1>2. CASE x # victim[a]
  <2>1. Still(x)
    BY <1>2 DEF RemoveEnds, Goes, Rmdir, NamesOf, Still
  <2>2. /\ (Works(a, x)' <=> Works(a, x)) /\ (Removes(a, x)' <=> Removes(a, x))
        /\ Works(a, x) /\ At(a, x) => At(a, x)'
    BY <1>2, <2>1 DEF RemoveEnds, Goes, Rmdir, Works, Removes, Clear, At, Removing, Writing, Still, Whole,
         Weighs, Bit
  <2> QED
    BY <1>1, <2>1, <2>2, KeyFrame
<1>3. CASE x = victim[a]
  <2>1. ASSUME x \notin torn'
        PROVE  /\ x \notin index /\ disk[x] = {}
               /\ \A b \in Actor \ {a} : ~Works(b, x)
    <3>1. CASE x \notin torn
      <4>1. Works(a, x) /\ Removes(a, x)
        BY <1>3 DEF RemoveEnds, Works, Removes, Clear
      <4>2. At(a, x) /\ \A b \in Actor \ {a} : ~Works(b, x)
        BY <3>1, <4>1, AloneAt
      <4> QED
        BY <1>3, <4>1, <4>2 DEF RemoveEnds, At, Removing
    <3>2. CASE x \in torn
      BY <1>3, <2>1, <3>2 DEF RemoveEnds, Contended, Works
    <3> QED
      BY <3>1, <3>2
  <2>2. ASSUME x \notin torn' PROVE Whole(x)' /\ Vouched(x)'
    <3>1. x \notin index' /\ disk'[x] = {} /\ x \notin dirs'
      BY <1>3, <2>1, <2>2 DEF RemoveEnds, Rmdir
    <3> QED
      BY <3>1 DEF Whole, Vouched
  <2>3. ASSUME x \notin torn' PROVE At(a, x)'
    <3>1. pc'[a] = "sweep"
      BY DEF RemoveEnds, Goes
    <3> QED
      BY <2>2, <2>3, <3>1 DEF At, Writing, Removes
  <2> QED
    BY <1>1, <2>1, <2>2, <2>3, KeyMine
<1> QED
  BY <1>2, <1>3

LEMMA RemoveFailsKey ==
    ASSUME Ready, NEW a \in Actor, RemoveFails(a), NEW x \in Key, KeyOf(x)
    PROVE  KeyOf(x)'
<1>a. Types /\ PlaceOf(a)
  BY DEF Ready
<1> USE <1>a DEF Types, TypeOK, PlaceOf, Places, mem, files, write, sweep, past, spent
<1>1. Only(a)
  BY DEF RemoveFails, Goes, Only, Unmoved
<1>2. CASE x # victim[a]
  <2>1. Still(x)
    BY <1>2 DEF RemoveFails, Still
  <2>2. /\ (Works(a, x)' <=> Works(a, x)) /\ (Removes(a, x)' <=> Removes(a, x))
        /\ At(a, x) => At(a, x)'
    BY <1>2, <2>1 DEF RemoveFails, Goes, Works, Removes, Clear, At, Removing, Writing, Still, Whole,
         Weighs, Bit
  <2> QED
    BY <1>1, <2>1, <2>2, KeyFrame
<1>3. CASE x = victim[a]
  BY <1>3 DEF RemoveFails, KeyOf
<1> QED
  BY <1>2, <1>3

LEMMA CrashKey ==
    ASSUME Ready, NEW good \in SUBSET Scanned, NEW missed \in SUBSET Swept(good),
           CrashAndOpen(good, missed), NEW x \in Key, KeyOf(x)
    PROVE  KeyOf(x)'
<1>a. Types /\ NamesOf(x) /\ Key = FileKey \cup VariantKey /\ FileKey \cap VariantKey = {}
  BY StoreAssumption DEF Ready, Key
<1>1. \A a \in Actor : ~Works(a, x)'
  BY StoreAssumption DEF CrashAndOpen, Works, Removes, Clear
<1>2. ASSUME x \notin torn' PROVE Whole(x)' /\ Vouched(x)'
  <2>1. \A f \in Name : <<x, f>> \notin missed
    BY <1>2 DEF CrashAndOpen
  <2>2. disk'[x] = IF x \in good THEN Kept(x) ELSE {}
    BY <2>1, RemainsOf DEF CrashAndOpen
  <2>3. index' = good /\ leaked' = {} /\ (x \in dirs' => x \in good)
    BY <2>1 DEF CrashAndOpen
  <2>4. CASE x \notin good
    BY <2>2, <2>3, <2>4 DEF Whole, Vouched
  <2>5. CASE x \in good
    <3>1. x \notin torn /\ "meta" \in disk[x] /\ ~\E a \in Actor : Removes(a, x)
      BY <1>2, <2>5 DEF CrashAndOpen, Scanned
    <3>2. x \in FileKey => "out" \in disk[x]
      BY <3>1 DEF KeyOf, Vouched
    <3>3. "meta" \in disk'[x] /\ (x \in FileKey => "out" \in disk'[x])
      BY <2>2, <2>5, <3>1, <3>2, StoreAssumption DEF Kept
    <3>4. ASSUME x \in VariantKey PROVE size'[x] = Weighs(x)'
      <4>1. size'[x] = Cardinality(Kept(x))
        <5>1. Remains(x, good, missed) = Kept(x)
          BY <2>1, <2>5, RemainsOf
        <5> QED
          BY <1>a, <2>5, <3>4, <5>1 DEF CrashAndOpen, ScannedSize
      <4>2. size'[x] = 1 + Bit("init" \in disk[x]) + Bit("seg" \in disk[x])
        BY <1>a, <3>1, <3>4, <4>1, KeptWeighs DEF Bit
      <4>3. /\ ("init" \in disk'[x]) = ("init" \in disk[x]) /\ ("seg" \in disk'[x]) = ("seg" \in disk[x])
            /\ x \in booted'
        BY <2>2, <2>5, <3>4, StoreAssumption DEF CrashAndOpen, Kept
      <4> QED
        BY <4>2, <4>3 DEF Weighs, Bit
    <3> QED
      BY <2>3, <2>5, <3>3, <3>4 DEF Whole, Vouched
  <2> QED
    BY <2>4, <2>5
<1> QED
  BY <1>1, <1>2 DEF KeyOf

LEMMA NextKey == ASSUME Ready, [Next]_vars, NEW x \in Key, KeyOf(x) PROVE KeyOf(x)'
<1>1. CASE UNCHANGED vars
  BY <1>1 DEF vars, mem, files, write, sweep, past, KeyOf, Works, Removes, Clear, At, Removing, Writing,
       Whole, Weighs, Bit, Vouched
<1> QED
  BY <1>1, BeginKey, RemakeKey, CreateKey, CreateFailsKey, DuplicateBeginKey, LookupKey, BirthKey,
     AbortKey, PublishKey, VouchKey, VouchFailsKey, AbandonLateKey, IndexKey, FinishKey,
     OpenOutKey, OpenFailsKey, DescribeKey, DescribeFailsKey, RegisterKey, PinKey, LeaveKey, RenameKey,
     RenameFailsKey, FoldKey, StatKey, CollectKey, SnapshotKey, DropKey, ListKey, RemoveEndsKey,
     RemoveFailsKey, SweepEndsKey, EvictKey, UnlinkKey, CrashKey DEF Next
-----------------------------------------------------------------------------
(* Sums.  MapThenSumSet is a recursive function over the subsets of its set; *)
(* what it computes is proved from a smallest counterexample, since strict   *)
(* inclusion of finite sets is well founded.                                 *)

Pick(s) == CHOOSE x \in s : TRUE

\* g sums b over every subset of S, and Summing(b, S) is such a g.
Sums(g, b, S) == g = [s \in SUBSET S |-> IF s = {} THEN 0 ELSE b[Pick(s)] + g[s \ {Pick(s)}]]
Summing(b, S) == CHOOSE g : Sums(g, b, S)
SumOver(b, S) == MapThenSumSet(LAMBDA u : b[u], S)

LEMMA SmallestSet ==
    ASSUME NEW S, IsFiniteSet(S), NEW B, B \subseteq SUBSET S, B # {}
    PROVE  \E T \in B : \A U \in B : U \subseteq T => U = T
<1>1. IsWellFoundedOn(StrictSubsetOrdering(S), FiniteSubsetsOf(S))
  BY FS_StrictSubsetOrderingWellFounded
<1>2. B \subseteq FiniteSubsetsOf(S)
  BY FS_Subset DEF FiniteSubsetsOf
<1>3. PICK T \in B : \A U \in B : ~(<<U, T>> \in StrictSubsetOrdering(S))
  BY <1>1, <1>2, WFMin
<1>4. ASSUME NEW U \in B, U \subseteq T, U # T PROVE FALSE
  <2>1. <<U, T>> \in StrictSubsetOrdering(S)
    BY <1>4 DEF StrictSubsetOrdering
  <2> QED
    BY <1>3, <2>1
<1> QED
  BY <1>4

LEMMA PickIn == ASSUME NEW s, s # {} PROVE Pick(s) \in s
  BY DEF Pick

LEMMA SumIsSumming == ASSUME NEW b, NEW S PROVE SumOver(b, S) = Summing(b, S)[S]
  BY DEF SumOver, MapThenSumSet, MapThenFoldSet, Summing, Sums, Pick

\* Two of them agree where both are defined.
LEMMA SumsAgree ==
    ASSUME NEW b, NEW S, NEW T, NEW g, NEW h, Sums(g, b, S), Sums(h, b, T),
           NEW R, R \subseteq S, R \subseteq T, IsFiniteSet(R)
    PROVE  g[R] = h[R]
<1> DEFINE B == {Q \in SUBSET R : g[Q] # h[Q]}
<1>1. CASE B = {}
  BY <1>1
<1>2. CASE B # {}
  <2>2. PICK Q \in B : \A U \in B : U \subseteq Q => U = Q
    <3> HIDE DEF B
    <3>1. B \subseteq SUBSET R
      BY DEF B
    <3> QED
      BY <1>2, <3>1, SmallestSet
  <2>3. Q # {}
    BY DEF Sums
  <2>4. g[Q \ {Pick(Q)}] = h[Q \ {Pick(Q)}]
    BY <2>2, <2>3, PickIn
  <2>5. Q \in SUBSET S /\ Q \in SUBSET T
    OBVIOUS
  <2>6. g[Q] = b[Pick(Q)] + g[Q \ {Pick(Q)}]
    BY <2>3, <2>5 DEF Sums
  <2>7. h[Q] = b[Pick(Q)] + h[Q \ {Pick(Q)}]
    BY <2>3, <2>5 DEF Sums
  <2> QED
    BY <2>4, <2>6, <2>7
<1> QED
  BY <1>1, <1>2

\* There is one over the subsets of every finite set.
LEMMA SummingSums == ASSUME NEW b, NEW S, IsFiniteSet(S) PROVE Sums(Summing(b, S), b, S)
<1> DEFINE B == {Q \in SUBSET S : ~Sums(Summing(b, Q), b, Q)}
<1>1. CASE B = {}
  BY <1>1
<1>2. CASE B # {}
  <2>1. \A Q \in B : IsFiniteSet(Q)
    BY FS_Subset
  <2>2. PICK T \in B : \A U \in B : U \subseteq T => U = T
    <3> HIDE DEF B
    <3>1. B \subseteq SUBSET S
      BY DEF B
    <3> QED
      BY <1>2, <3>1, SmallestSet
  <2>3. \A s \in SUBSET T : s # T => Sums(Summing(b, s), b, s)
    BY <2>2
  <2> DEFINE V(s) == IF s = {} THEN 0 ELSE b[Pick(s)] + Summing(b, s \ {Pick(s)})[s \ {Pick(s)}]
             g == [s \in SUBSET T |-> V(s)]
  <2>4. ASSUME NEW s \in SUBSET T, s # T PROVE Summing(b, s)[s] = V(s)
    <3>1. Sums(Summing(b, s), b, s)
      BY <2>3, <2>4
    <3>2. CASE s = {}
      BY <3>1, <3>2 DEF Sums
    <3>3. CASE s # {}
      <4>1. Pick(s) \in s /\ IsFiniteSet(s \ {Pick(s)})
        <5>1. IsFiniteSet(T) /\ s \ {Pick(s)} \in SUBSET T
          BY <2>1
        <5> HIDE DEF B
        <5> QED
          BY <3>3, <5>1, PickIn, FS_Subset
      <4>2. Sums(Summing(b, s \ {Pick(s)}), b, s \ {Pick(s)})
        BY <2>3, <4>1
      <4>3. Summing(b, s)[s \ {Pick(s)}] = Summing(b, s \ {Pick(s)})[s \ {Pick(s)}]
        BY <3>1, <4>1, <4>2, SumsAgree
      <4>4. Summing(b, s)[s] = b[Pick(s)] + Summing(b, s)[s \ {Pick(s)}]
        <5>1. s \in SUBSET s
          OBVIOUS
        <5> QED
          BY <3>1, <3>3, <5>1 DEF Sums
      <4> QED
        BY <3>3, <4>3, <4>4
    <3> QED
      BY <3>2, <3>3
  <2>5. ASSUME NEW s \in SUBSET T
        PROVE  g[s] = IF s = {} THEN 0 ELSE b[Pick(s)] + g[s \ {Pick(s)}]
    <3>1. CASE s = {}
      BY <3>1
    <3>2. CASE s # {}
      <4>1. s \ {Pick(s)} \in SUBSET T /\ s \ {Pick(s)} # T
        BY <3>2, PickIn
      <4>2. g[s \ {Pick(s)}] = Summing(b, s \ {Pick(s)})[s \ {Pick(s)}]
        BY <2>4, <4>1
      <4> QED
        BY <3>2, <4>2
    <3> QED
      BY <3>1, <3>2
  <2>6. Sums(g, b, T)
    <3> HIDE DEF V
    <3>1. g = [s \in SUBSET T |-> IF s = {} THEN 0 ELSE b[Pick(s)] + g[s \ {Pick(s)}]]
      BY <2>5
    <3> QED
      BY <3>1 DEF Sums
  <2>7. Sums(Summing(b, T), b, T)
    <3> HIDE DEF g
    <3> QED
      BY <2>6 DEF Summing
  <2> QED
    BY <2>7
<1> QED
  BY <1>1, <1>2

LEMMA SumOfNone == ASSUME NEW b PROVE SumOver(b, {}) = 0
<1>1. Sums(Summing(b, {}), b, {})
  BY SummingSums, FS_EmptySet
<1>2. Summing(b, {})[{}] = 0
  <2>1. {} \in SUBSET {}
    OBVIOUS
  <2> QED
    BY <1>1, <2>1 DEF Sums
<1> QED
  BY <1>2, SumIsSumming

LEMMA SumPick ==
    ASSUME NEW b, NEW S, IsFiniteSet(S), S # {}
    PROVE  SumOver(b, S) = b[Pick(S)] + SumOver(b, S \ {Pick(S)})
<1>1. Sums(Summing(b, S), b, S)
  BY SummingSums
<1>2. IsFiniteSet(S \ {Pick(S)})
  BY FS_Subset
<1>3. Sums(Summing(b, S \ {Pick(S)}), b, S \ {Pick(S)})
  BY <1>2, SummingSums
<1>4. Summing(b, S)[S \ {Pick(S)}] = Summing(b, S \ {Pick(S)})[S \ {Pick(S)}]
  BY <1>1, <1>2, <1>3, SumsAgree
<1>5. Summing(b, S)[S] = b[Pick(S)] + Summing(b, S)[S \ {Pick(S)}]
  <2>1. S \in SUBSET S
    OBVIOUS
  <2> QED
    BY <1>1, <2>1 DEF Sums
<1> QED
  BY <1>4, <1>5, SumIsSumming

LEMMA SumType ==
    ASSUME NEW D, NEW b \in [D -> Nat], NEW S \in SUBSET D, IsFiniteSet(S)
    PROVE  SumOver(b, S) \in Nat
<1> DEFINE B == {Q \in SUBSET S : SumOver(b, Q) \notin Nat}
<1>1. CASE B = {}
  BY <1>1
<1>2. CASE B # {}
  <2>1. PICK T \in B : \A U \in B : U \subseteq T => U = T
    <3>1. B \subseteq SUBSET S
      OBVIOUS
    <3> HIDE DEF B
    <3> QED
      BY <1>2, <3>1, SmallestSet
  <2>2. T # {} /\ IsFiniteSet(T)
    <3>1. SumOver(b, T) \notin Nat /\ T \subseteq S
      OBVIOUS
    <3> HIDE DEF B
    <3>2. T # {}
      BY <3>1, SumOfNone
    <3> QED
      BY <3>1, <3>2, FS_Subset
  <2>3. Pick(T) \in T
    BY <2>2, PickIn
  <2>4. SumOver(b, T \ {Pick(T)}) \in Nat
    BY <2>1, <2>3
  <2>5. b[Pick(T)] \in Nat
    BY <2>3
  <2> HIDE DEF B
  <2>6. SumOver(b, T) = b[Pick(T)] + SumOver(b, T \ {Pick(T)})
    BY <2>2, SumPick
  <2>7. SumOver(b, T) \in Nat
    BY <2>4, <2>5, <2>6
  <2> QED
    BY <2>7 DEF B
<1> QED
  BY <1>1, <1>2

\* The order of the summands does not matter: any one of them comes out.
LEMMA SumRemove ==
    ASSUME NEW D, NEW b \in [D -> Nat], NEW S \in SUBSET D, IsFiniteSet(S), NEW x \in S
    PROVE  SumOver(b, S) = b[x] + SumOver(b, S \ {x})
<1> DEFINE Out(Q) == \A y \in Q : SumOver(b, Q) = b[y] + SumOver(b, Q \ {y})
           B == {Q \in SUBSET S : ~Out(Q)}
<1>1. CASE B = {}
  BY <1>1
<1>2. CASE B # {}
  <2>1. PICK T \in B : \A U \in B : U \subseteq T => U = T
    <3>1. B \subseteq SUBSET S
      OBVIOUS
    <3> HIDE DEF B
    <3> QED
      BY <1>2, <3>1, SmallestSet
  <2>2. PICK y \in T : SumOver(b, T) # b[y] + SumOver(b, T \ {y})
    OBVIOUS
  <2>3. \A Q \in SUBSET T : Q # T => Out(Q)
    BY <2>1
  <2> DEFINE p == Pick(T)
  <2>4. p \in T /\ T \in SUBSET D /\ IsFiniteSet(T)
    BY PickIn, FS_Subset
  <2> HIDE DEF B, p
  <2>5. SumOver(b, T) = b[p] + SumOver(b, T \ {p})
    BY <2>4, SumPick DEF p
  <2>6. y # p
    BY <2>2, <2>5
  <2>7. Out(T \ {p}) /\ Out(T \ {y})
    <3> HIDE DEF Out
    <3> QED
      BY <2>3, <2>4
  <2>8. (T \ {p}) \ {y} = (T \ {y}) \ {p}
    OBVIOUS
  <2>9. SumOver(b, T \ {p}) = b[y] + SumOver(b, (T \ {p}) \ {y})
    BY <2>6, <2>7
  <2>10. SumOver(b, T \ {y}) = b[p] + SumOver(b, (T \ {p}) \ {y})
    BY <2>4, <2>6, <2>7, <2>8
  <2>11. SumOver(b, (T \ {p}) \ {y}) \in Nat
    <3>1. (T \ {p}) \ {y} \in SUBSET D /\ IsFiniteSet((T \ {p}) \ {y})
      BY <2>4, FS_Subset
    <3> QED
      BY <3>1, SumType
  <2>12. b[p] \in Nat /\ b[y] \in Nat
    BY <2>4
  <2> QED
    BY <2>2, <2>5, <2>9, <2>10, <2>11, <2>12
<1> QED
  BY <1>1, <1>2

\* A sum reads its function on its set alone.
LEMMA SumSame ==
    ASSUME NEW D, NEW b \in [D -> Nat], NEW c \in [D -> Nat], NEW S \in SUBSET D,
           IsFiniteSet(S), \A x \in S : b[x] = c[x]
    PROVE  SumOver(b, S) = SumOver(c, S)
<1> DEFINE B == {Q \in SUBSET S : SumOver(b, Q) # SumOver(c, Q)}
<1>1. CASE B = {}
  BY <1>1
<1>2. CASE B # {}
  <2>1. PICK T \in B : \A U \in B : U \subseteq T => U = T
    <3>1. B \subseteq SUBSET S
      OBVIOUS
    <3> HIDE DEF B
    <3> QED
      BY <1>2, <3>1, SmallestSet
  <2>2. T # {} /\ IsFiniteSet(T)
    <3>1. SumOver(b, T) # SumOver(c, T) /\ T \subseteq S
      OBVIOUS
    <3> HIDE DEF B
    <3>2. T # {}
      BY <3>1, SumOfNone
    <3> QED
      BY <3>1, <3>2, FS_Subset
  <2>3. Pick(T) \in T
    BY <2>2, PickIn
  <2>4. SumOver(b, T \ {Pick(T)}) = SumOver(c, T \ {Pick(T)})
    BY <2>1, <2>3
  <2>5. b[Pick(T)] = c[Pick(T)]
    BY <2>3
  <2> HIDE DEF B
  <2>6. SumOver(b, T) = SumOver(c, T)
    BY <2>2, <2>4, <2>5, SumPick
  <2> QED
    BY <2>6 DEF B
<1> QED
  BY <1>1, <1>2

\* A sum follows a change of one summand.
LEMMA SumUpdate ==
    ASSUME NEW D, NEW b \in [D -> Nat], NEW c \in [D -> Nat], IsFiniteSet(D), NEW x \in D,
           \A y \in D \ {x} : b[y] = c[y]
    PROVE  SumOver(c, D) = SumOver(b, D) - b[x] + c[x]
<1>2. D \ {x} \in SUBSET D /\ IsFiniteSet(D \ {x}) /\ D \in SUBSET D
  BY FS_Subset
<1>3. SumOver(b, D \ {x}) = SumOver(c, D \ {x})
  BY <1>2, SumSame
<1>4. SumOver(b, D) = b[x] + SumOver(b, D \ {x})
  BY <1>2, SumRemove
<1>5. SumOver(c, D) = c[x] + SumOver(c, D \ {x})
  BY <1>2, SumRemove
<1>6. SumOver(b, D \ {x}) \in Nat /\ b[x] \in Nat /\ c[x] \in Nat
  BY <1>2, SumType
<1> QED
  BY <1>3, <1>4, <1>5, <1>6

LEMMA SumMono ==
    ASSUME NEW D, NEW b \in [D -> Nat], NEW c \in [D -> Nat], NEW S \in SUBSET D,
           IsFiniteSet(S), \A x \in S : b[x] <= c[x]
    PROVE  SumOver(b, S) <= SumOver(c, S)
<1> DEFINE B == {Q \in SUBSET S : ~(SumOver(b, Q) <= SumOver(c, Q))}
<1>1. CASE B = {}
  BY <1>1
<1>2. CASE B # {}
  <2>1. PICK T \in B : \A U \in B : U \subseteq T => U = T
    <3>1. B \subseteq SUBSET S
      OBVIOUS
    <3> HIDE DEF B
    <3> QED
      BY <1>2, <3>1, SmallestSet
  <2>2. T # {} /\ IsFiniteSet(T) /\ T \in SUBSET D
    <3>1. ~(SumOver(b, T) <= SumOver(c, T)) /\ T \subseteq S
      OBVIOUS
    <3> HIDE DEF B
    <3>2. T # {}
      BY <3>1, SumOfNone
    <3> QED
      BY <3>1, <3>2, FS_Subset
  <2>3. Pick(T) \in T
    BY <2>2, PickIn
  <2>4. SumOver(b, T \ {Pick(T)}) <= SumOver(c, T \ {Pick(T)})
    BY <2>1, <2>3
  <2>5. b[Pick(T)] <= c[Pick(T)] /\ b[Pick(T)] \in Nat /\ c[Pick(T)] \in Nat
    BY <2>2, <2>3
  <2> HIDE DEF B
  <2>6. SumOver(b, T \ {Pick(T)}) \in Nat /\ SumOver(c, T \ {Pick(T)}) \in Nat
    <3>1. T \ {Pick(T)} \in SUBSET D /\ IsFiniteSet(T \ {Pick(T)})
      BY <2>2, FS_Subset
    <3> QED
      BY <3>1, SumType
  <2>7. SumOver(b, T) = b[Pick(T)] + SumOver(b, T \ {Pick(T)})
    BY <2>2, SumPick
  <2>8. SumOver(c, T) = c[Pick(T)] + SumOver(c, T \ {Pick(T)})
    BY <2>2, SumPick
  <2>9. SumOver(b, T) <= SumOver(c, T)
    BY <2>4, <2>5, <2>6, <2>7, <2>8
  <2> QED
    BY <2>9 DEF B
<1> QED
  BY <1>1, <1>2

\* What counts for nothing may be left out.
LEMMA SumOfPart ==
    ASSUME NEW D, NEW b \in [D -> Nat], IsFiniteSet(D), NEW S \in SUBSET D,
           \A x \in D \ S : b[x] = 0
    PROVE  SumOver(b, D) = SumOver(b, S)
<1> DEFINE B == {Q \in SUBSET (D \ S) : SumOver(b, S \cup Q) # SumOver(b, S)}
<1>1. CASE B = {}
  <2>1. D \ S \notin B
    BY <1>1
  <2>2. S \cup (D \ S) = D
    OBVIOUS
  <2> QED
    BY <2>1, <2>2
<1>2. CASE B # {}
  <2>1. PICK T \in B : \A U \in B : U \subseteq T => U = T
    <3>1. B \subseteq SUBSET (D \ S) /\ IsFiniteSet(D \ S)
      BY FS_Subset
    <3> HIDE DEF B
    <3> QED
      BY <1>2, <3>1, SmallestSet
  <2>2. T \subseteq D \ S /\ SumOver(b, S \cup T) # SumOver(b, S)
    OBVIOUS
  <2>3. PICK y \in T : TRUE
    <3>1. S \cup {} = S
      OBVIOUS
    <3> HIDE DEF B
    <3> QED
      BY <2>2, <3>1
  <2>4. SumOver(b, S \cup (T \ {y})) = SumOver(b, S)
    <3>1. T \ {y} \subseteq T /\ T \ {y} # T /\ T \ {y} \in SUBSET (D \ S)
      BY <2>2, <2>3
    <3>2. T \ {y} \notin B
      <4> HIDE DEF B
      <4> QED
        BY <2>1, <3>1
    <3> QED
      BY <3>1, <3>2
  <2> HIDE DEF B
  <2>5. S \cup T \in SUBSET D /\ IsFiniteSet(S \cup T) /\ y \in S \cup T /\ (S \cup T) \ {y} = S \cup (T \ {y})
    BY <2>2, FS_Subset
  <2>6. SumOver(b, S \cup T) = b[y] + SumOver(b, S \cup (T \ {y}))
    BY <2>5, SumRemove
  <2>7. b[y] = 0 /\ SumOver(b, S) \in Nat
    BY <2>2, SumType, FS_Subset
  <2> QED
    BY <2>2, <2>4, <2>6, <2>7
<1> QED
  BY <1>1, <1>2

LEMMA SumAdd ==
    ASSUME NEW D, NEW b \in [D -> Nat], NEW S \in SUBSET D, IsFiniteSet(S), NEW x \in D \ S
    PROVE  SumOver(b, S \cup {x}) = SumOver(b, S) + b[x]
<1>1. S \cup {x} \in SUBSET D /\ IsFiniteSet(S \cup {x})
  BY FS_AddElement
<1>2. (S \cup {x}) \ {x} = S
  OBVIOUS
<1>3. SumOver(b, S \cup {x}) = b[x] + SumOver(b, S)
  BY <1>1, <1>2, SumRemove
<1>4. b[x] \in Nat /\ SumOver(b, S) \in Nat
  BY SumType
<1> QED
  BY <1>3, <1>4

\* A part of the set takes its own sum with it.
LEMMA SumDiff ==
    ASSUME NEW D, NEW b \in [D -> Nat], NEW S \in SUBSET D, IsFiniteSet(S), NEW V \in SUBSET S
    PROVE  SumOver(b, S) = SumOver(b, V) + SumOver(b, S \ V)
<1> DEFINE Splits(Q) == SumOver(b, S) = SumOver(b, Q) + SumOver(b, S \ Q)
           B == {Q \in SUBSET S : ~Splits(Q)}
<1>a. SumOver(b, S) \in Nat
  BY SumType
<1>1. CASE B = {}
  BY <1>1
<1>2. CASE B # {}
  <2>1. PICK T \in B : \A U \in B : U \subseteq T => U = T
    <3>1. B \subseteq SUBSET S
      OBVIOUS
    <3> HIDE DEF B
    <3> QED
      BY <1>2, <3>1, SmallestSet
  <2>2. \A Q \in SUBSET T : Q # T => Splits(Q)
    BY <2>1
  <2>3. T \in SUBSET S /\ ~Splits(T)
    OBVIOUS
  <2> HIDE DEF B
  <2>4. T # {}
    <3>1. S \ {} = S
      OBVIOUS
    <3> QED
      BY <1>a, <2>3, <3>1, SumOfNone
  <2>5. PICK y \in T : TRUE
    BY <2>4
  <2>6. Splits(T \ {y})
    <3> HIDE DEF Splits
    <3> QED
      BY <2>2
  <2>7. IsFiniteSet(T) /\ IsFiniteSet(T \ {y}) /\ IsFiniteSet(S \ T)
    BY <2>3, FS_Subset
  <2>8. SumOver(b, T) = b[y] + SumOver(b, T \ {y})
    BY <2>3, <2>7, SumRemove
  <2>9. SumOver(b, S \ (T \ {y})) = SumOver(b, S \ T) + b[y]
    <3>1. S \ (T \ {y}) = (S \ T) \cup {y} /\ y \in D \ (S \ T) /\ S \ T \in SUBSET D
      BY <2>3
    <3> QED
      BY <2>7, <3>1, SumAdd
  <2>10. SumOver(b, T \ {y}) \in Nat /\ SumOver(b, S \ T) \in Nat /\ b[y] \in Nat
    <3>1. T \ {y} \in SUBSET D /\ S \ T \in SUBSET D /\ y \in D
      BY <2>3
    <3> QED
      BY <2>7, <3>1, SumType
  <2> QED
    BY <2>3, <2>6, <2>8, <2>9, <2>10
<1> QED
  BY <1>1, <1>2

-----------------------------------------------------------------------------
(* The byte count.                                                         *)

Balanced == total = SumOver(size, Key)

LEMMA SumNext == SumOver(size, Key)' = SumOver(size', Key)
  BY DEF SumOver, MapThenSumSet, MapThenFoldSet

\* Only promotions, folds, evictions and the scan touch the books.
LEMMA BooksStay ==
    ASSUME [Next]_vars, ~\E good \in SUBSET Scanned : \E missed \in SUBSET Swept(good) : CrashAndOpen(good, missed),
           \A a \in Actor : ~Index(a) /\ ~Fold(a) /\ ~Drop(a)
    PROVE  UNCHANGED <<size, total>>
<1> USE DEF mem
<1>1. ASSUME NEW a \in Actor, NEW k \in Key, Begin(a, k) PROVE UNCHANGED <<size, total>>
  BY <1>1 DEF Begin
<1>2. ASSUME NEW a \in Actor, NEW k \in Key, Lookup(a, k) PROVE UNCHANGED <<size, total>>
  BY <1>2 DEF Lookup
<1>3. ASSUME NEW a \in Actor, NEW k \in Key, Birth(a, k) PROVE UNCHANGED <<size, total>>
  BY <1>3 DEF Birth
<1>4. ASSUME NEW a \in Actor, NEW f \in Debris, Abort(a, f) PROVE UNCHANGED <<size, total>>
  BY <1>4 DEF Abort
<1>5. ASSUME NEW a \in Actor, Publish(a) PROVE UNCHANGED <<size, total>>
  BY <1>5 DEF Publish
<1>6. ASSUME NEW a \in Actor, Vouch(a) PROVE UNCHANGED <<size, total>>
  BY <1>6 DEF Vouch
<1>7. ASSUME NEW a \in Actor, NEW f \in Debris, VouchFails(a, f) PROVE UNCHANGED <<size, total>>
  BY <1>7 DEF VouchFails
<1>8. ASSUME NEW a \in Actor, AbandonLate(a) PROVE UNCHANGED <<size, total>>
  BY <1>8 DEF AbandonLate
<1>9. ASSUME NEW a \in Actor, Finish(a) PROVE UNCHANGED <<size, total>>
  BY <1>9 DEF Finish
<1>10. ASSUME NEW a \in Actor, OpenOut(a) PROVE UNCHANGED <<size, total>>
  BY <1>10 DEF OpenOut
<1>11. ASSUME NEW a \in Actor, Register(a) PROVE UNCHANGED <<size, total>>
  BY <1>11 DEF Register
<1>12. ASSUME NEW a \in Actor, Pin(a) PROVE UNCHANGED <<size, total>>
  BY <1>12 DEF Pin
<1>13. ASSUME NEW a \in Actor, Leave(a) PROVE UNCHANGED <<size, total>>
  BY <1>13 DEF Leave
<1>14. ASSUME NEW a \in Actor, Rename(a) PROVE UNCHANGED <<size, total>>
  BY <1>14 DEF Rename
<1>15. ASSUME NEW a \in Actor, NEW f \in Debris, RenameFails(a, f) PROVE UNCHANGED <<size, total>>
  BY <1>15 DEF RenameFails
<1>16. ASSUME NEW a \in Actor, NEW f \in {"init", "seg"}, Stat(a, f) PROVE UNCHANGED <<size, total>>
  BY <1>16 DEF Stat
<1>17. ASSUME NEW a \in Actor, Collect(a) PROVE UNCHANGED <<size, total>>
  BY <1>17 DEF Collect
<1>18. ASSUME NEW a \in Actor, Snapshot(a) PROVE UNCHANGED <<size, total>>
  BY <1>18 DEF Snapshot
<1>19. ASSUME NEW a \in Actor, List(a) PROVE UNCHANGED <<size, total>>
  BY <1>19 DEF List
<1>20. ASSUME NEW a \in Actor, RemoveEnds(a) PROVE UNCHANGED <<size, total>>
  BY <1>20 DEF RemoveEnds
<1>21. ASSUME NEW a \in Actor, SweepEnds(a) PROVE UNCHANGED <<size, total>>
  BY <1>21 DEF SweepEnds
<1>22. ASSUME NEW a \in Actor, NEW v \in todo[a], Evict(a, v) PROVE UNCHANGED <<size, total>>
  BY <1>22 DEF Evict
<1>23. ASSUME NEW a \in Actor, NEW f \in listed[a], Unlink(a, f) PROVE UNCHANGED <<size, total>>
  BY <1>23 DEF Unlink
<1>25. ASSUME NEW a \in Actor, Remake(a) \/ Create(a) \/ CreateFails(a) \/ OpenFails(a) \/ Describe(a)
                                   \/ RemoveFails(a)
       PROVE  UNCHANGED <<size, total>>
  BY <1>25 DEF Remake, Create, CreateFails, OpenFails, Describe, RemoveFails
<1>26. ASSUME NEW a \in Actor, NEW f \in Debris, DuplicateBegin(a, f) \/ DescribeFails(a, f)
       PROVE  UNCHANGED <<size, total>>
  BY <1>26 DEF DuplicateBegin, DescribeFails
<1>24. ASSUME UNCHANGED vars PROVE UNCHANGED <<size, total>>
  BY <1>24 DEF vars
<1> QED
  BY <1>1, <1>2, <1>3, <1>4, <1>5, <1>6, <1>7, <1>8, <1>9, <1>10, <1>11, <1>12, <1>13, <1>14,
       <1>15, <1>16,
     <1>17, <1>18, <1>19, <1>20, <1>21, <1>22, <1>23, <1>24, <1>25, <1>26 DEF Next

LEMMA NextBalanced == ASSUME Ready, Balanced, TypesBut', [Next]_vars PROVE Balanced' /\ total' \in Nat
<1>a. /\ IsFiniteSet(Key) /\ Key \in SUBSET Key /\ OutBytes \in Nat
      /\ size \in [Key -> Nat] /\ size' \in [Key -> Nat] /\ total \in Nat
      /\ prev \in [Actor -> 0 .. 1] /\ victim \in [Actor -> Key \cup {None}]
  BY StoreAssumption DEF Ready, Types, TypeOK, TypesBut
<1>b. SumOver(size', Key) \in Nat
  BY <1>a, SumType
<1>c. ASSUME NEW k \in Key, NEW m \in Nat, size' = [size EXCEPT ![k] = m]
      PROVE  SumOver(size', Key) = SumOver(size, Key) - size[k] + m
  <2>1. size'[k] = m /\ \A y \in Key \ {k} : size[y] = size'[y]
    BY <1>a, <1>c
  <2>2. size \in [Key -> Nat] /\ size' \in [Key -> Nat] /\ IsFiniteSet(Key)
    BY <1>a
  <2>3. SumOver(size', Key) = SumOver(size, Key) - size[k] + size'[k]
    <3> HIDE <1>c
    <3> QED
      BY <2>1, <2>2, SumUpdate
  <2> QED
    BY <2>1, <2>3
<1> SUFFICES total' = SumOver(size', Key)
  BY <1>b, SumNext DEF Balanced
<1>1. ASSUME NEW a \in Actor, Index(a) PROVE total' = SumOver(size', Key)
  <2>1. key[a] \in Key
    BY <1>1 DEF Index, Ready, PlaceOf, Key
  <2> QED
    BY <1>1, <1>a, <1>c, <2>1 DEF Index, Balanced
<1>2. ASSUME NEW a \in Actor, Fold(a) PROVE total' = SumOver(size', Key)
  <2>1. key[a] \in Key
    BY <1>2 DEF Fold, Ready, PlaceOf, Key
  <2> DEFINE n == IF key[a] \in index THEN Grown(a) ELSE 0
  <2>2. n \in Nat
    BY <1>a DEF Grown
  <2>3. size' = [size EXCEPT ![key[a]] = size[key[a]] + n] /\ total' = total + n
    BY <1>2 DEF Fold
  <2>4. size[key[a]] + n \in Nat /\ size[key[a]] \in Nat
    BY <1>a, <2>1, <2>2
  <2> HIDE DEF n
  <2>5. SumOver(size', Key) = SumOver(size, Key) - size[key[a]] + (size[key[a]] + n)
    BY <1>a, <2>1, <2>3, <2>4, <1>c
  <2> QED
    BY <1>a, <2>2, <2>3, <2>4, <2>5 DEF Balanced
<1>3. ASSUME NEW a \in Actor, Drop(a) PROVE total' = SumOver(size', Key)
  <2>1. victim[a] \in Key
    BY <1>3 DEF Drop, Ready, PlaceOf
  <2>2. size' = [size EXCEPT ![victim[a]] = 0] /\ total' = total - size[victim[a]]
    BY <1>3 DEF Drop, Weight
  <2>3. SumOver(size', Key) = SumOver(size, Key) - size[victim[a]] + 0
    BY <1>a, <2>1, <2>2, <1>c
  <2> QED
    BY <1>a, <2>1, <2>2, <2>3 DEF Balanced
<1>4. ASSUME NEW good \in SUBSET Scanned, NEW missed \in SUBSET Swept(good), CrashAndOpen(good, missed)
      PROVE  total' = SumOver(size', Key)
  <2>1. total' = SumOver(size', good)
    BY <1>4 DEF CrashAndOpen, SumOver
  <2>2. \A k \in Key \ good : size'[k] = 0
    BY <1>4 DEF CrashAndOpen
  <2>3. good \in SUBSET Key
    BY DEF Scanned, Ready, Types, TypeOK
  <2> QED
    BY <1>a, <2>1, <2>2, <2>3, SumOfPart
<1>5. CASE UNCHANGED <<size, total>>
  BY <1>5 DEF Balanced
<1> QED
  BY <1>1, <1>2, <1>3, <1>4, <1>5, BooksStay
-----------------------------------------------------------------------------
(* The budget.                                                             *)

Sweeping == {"sweep", "drop", "list", "unlink"}

\* What a's sweep has left covers what it believes each key still weighs: a
\* victim ahead what the snapshot said, everything else no less than the index.
Account(a, w) ==
    /\ left[a] >= SumOver(w, Key)
    /\ \A v \in todo[a] : w[v[1]] = v[2]
    /\ \A k \in Key : size[k] <= w[k] \/ (pc[a] = "drop" /\ victim[a] = k)

\* A sweep that answers for the whole of the index.
Attends(a) == pc[a] = "over" \/ (pc[a] \in Sweeping /\ \E w \in [Key -> Nat] : Account(a, w))

Attended == total > MaxBytes => over \/ \E a \in Actor : Attends(a)

Aside(b) == pc'[b] = pc[b] /\ victim'[b] = victim[b] /\ left'[b] = left[b] /\ todo'[b] = todo[b]

Shrinks == \A k \in Key : size[k] \in Nat /\ size'[k] \in Nat /\ size'[k] <= size[k]

LEMMA AttendsOn ==
    ASSUME NEW b \in Actor, Aside(b), Shrinks, Attends(b)
    PROVE  Attends(b)'
<1>1. CASE pc[b] = "over"
  BY <1>1 DEF Aside, Attends
<1>2. ASSUME pc[b] \in Sweeping, NEW w \in [Key -> Nat], Account(b, w) PROVE Attends(b)'
  <2>1. \A k \in Key : size'[k] <= w[k] \/ (pc'[b] = "drop" /\ victim'[b] = k)
    <3> SUFFICES ASSUME NEW k \in Key PROVE size'[k] <= w[k] \/ (pc'[b] = "drop" /\ victim'[b] = k)
      OBVIOUS
    <3>1. w[k] \in Nat /\ size[k] \in Nat /\ size'[k] \in Nat /\ size'[k] <= size[k]
      BY DEF Shrinks
    <3> QED
      BY <1>2, <3>1 DEF Account, Aside
  <2>2. left'[b] >= SumOver(w, Key) /\ \A v \in todo'[b] : w[v[1]] = v[2]
    BY <1>2 DEF Account, Aside
  <2>3. Account(b, w)'
    BY <2>1, <2>2 DEF Account
  <2> QED
    BY <1>2, <2>3 DEF Attends, Aside, Sweeping
<1> QED
  BY <1>1, <1>2 DEF Attends

\* A step of a that takes nothing from the account of anybody else's sweep.
LEMMA AttendedFrame ==
    ASSUME NEW a \in Actor, Attended, Shrinks, \A b \in Actor \ {a} : Aside(b),
           total' > MaxBytes => total > MaxBytes, over => over',
           total > MaxBytes /\ Attends(a) => over' \/ Attends(a)'
    PROVE  Attended'
  BY AttendsOn DEF Attended

\* A step of a outside any sweep, and away from the books.
Outside(a) ==
    /\ UNCHANGED <<size, total, over>>
    /\ pc[a] \notin Sweeping \cup {"over"}
    /\ \A b \in Actor \ {a} : Aside(b)

\* None of these is a step of a sweep, and none touches the books.
LEMMA QuietAttended ==
    ASSUME Ready, Attended, NEW a \in Actor,
           \/ \E k \in Key : Begin(a, k) \/ Lookup(a, k) \/ Birth(a, k)
           \/ Remake(a) \/ Create(a) \/ CreateFails(a)
           \/ Publish(a) \/ Vouch(a) \/ AbandonLate(a) \/ Finish(a) \/ OpenOut(a) \/ OpenFails(a)
           \/ Describe(a) \/ Register(a) \/ Pin(a) \/ Leave(a) \/ Rename(a)
           \/ Collect(a) \/ \E f \in {"init", "seg"} : Stat(a, f)
           \/ \E f \in Debris :
                DuplicateBegin(a, f) \/ Abort(a, f) \/ VouchFails(a, f) \/ DescribeFails(a, f) \/ RenameFails(a, f)
    PROVE  Attended'
<1>a. Types /\ PlaceOf(a)
  BY DEF Ready
<1>b. ASSUME Outside(a) PROVE Attended'
  <2>1. Shrinks
    BY <1>a, <1>b DEF Types, TypeOK, Shrinks, Outside
  <2>2. ~Attends(a)
    BY <1>b DEF Attends, Outside
  <2> QED
    BY <1>b, <2>1, <2>2, AttendedFrame DEF Outside
<1> USE <1>a DEF Types, TypeOK, PlaceOf, Sweeping, Places, mem, sweep, past, write, Aside, Outside
<1>1. ASSUME NEW k \in Key, Begin(a, k) PROVE Attended'
  <2>1. Outside(a)
    BY <1>1 DEF Begin, Goes
  <2> QED
    BY <1>b, <2>1
<1>2. ASSUME NEW k \in Key, Lookup(a, k) PROVE Attended'
  <2>1. Outside(a)
    BY <1>2 DEF Lookup, Goes
  <2> QED
    BY <1>b, <2>1
<1>3. ASSUME NEW k \in Key, Birth(a, k) PROVE Attended'
  <2>1. Outside(a)
    BY <1>3 DEF Birth, Goes
  <2> QED
    BY <1>b, <2>1
<1>4. ASSUME NEW f \in Debris, Abort(a, f) PROVE Attended'
  <2>1. Outside(a)
    BY <1>4 DEF Abort, Goes, Done
  <2> QED
    BY <1>b, <2>1
<1>5. ASSUME Publish(a) PROVE Attended'
  <2>1. Outside(a)
    BY <1>5 DEF Publish, Goes
  <2> QED
    BY <1>b, <2>1
<1>6. ASSUME Vouch(a) PROVE Attended'
  <2>1. Outside(a)
    BY <1>6 DEF Vouch, Goes
  <2> QED
    BY <1>b, <2>1
<1>7. ASSUME NEW f \in Debris, VouchFails(a, f) PROVE Attended'
  <2>1. Outside(a)
    BY <1>7 DEF VouchFails, Goes, Done
  <2> QED
    BY <1>b, <2>1
<1>8. ASSUME AbandonLate(a) PROVE Attended'
  <2>1. Outside(a)
    BY <1>8 DEF AbandonLate
  <2> QED
    BY <1>b, <2>1
<1>9. ASSUME Finish(a) PROVE Attended'
  <2>1. Outside(a)
    BY <1>9 DEF Finish, Goes, Done
  <2> QED
    BY <1>b, <2>1
<1>10. ASSUME OpenOut(a) PROVE Attended'
  <2>1. Outside(a)
    BY <1>10 DEF OpenOut, Goes, Done
  <2> QED
    BY <1>b, <2>1
<1>11. ASSUME Register(a) PROVE Attended'
  <2>1. Outside(a)
    BY <1>11 DEF Register, Goes
  <2> QED
    BY <1>b, <2>1
<1>12. ASSUME Pin(a) PROVE Attended'
  <2>1. Outside(a)
    BY <1>12 DEF Pin
  <2> QED
    BY <1>b, <2>1
<1>13. ASSUME Leave(a) PROVE Attended'
  <2>1. Outside(a)
    BY <1>13 DEF Leave, Goes, Done
  <2> QED
    BY <1>b, <2>1
<1>14. ASSUME Rename(a) PROVE Attended'
  <2>1. Outside(a)
    BY <1>14 DEF Rename, Goes
  <2> QED
    BY <1>b, <2>1
<1>15. ASSUME NEW f \in Debris, RenameFails(a, f) PROVE Attended'
  <2>1. Outside(a)
    BY <1>15 DEF RenameFails, Goes, Done
  <2> QED
    BY <1>b, <2>1
<1>16. ASSUME Collect(a) PROVE Attended'
  <2>1. Outside(a)
    BY <1>16 DEF Collect, Goes
  <2> QED
    BY <1>b, <2>1
<1>17. ASSUME NEW f \in {"init", "seg"}, Stat(a, f) PROVE Attended'
  <2>1. Outside(a)
    BY <1>17 DEF Stat, Goes
  <2> QED
    BY <1>b, <2>1
<1>18. ASSUME Remake(a) PROVE Attended'
  <2>1. Outside(a)
    BY <1>18 DEF Remake, Goes
  <2> QED
    BY <1>b, <2>1
<1>19. ASSUME Create(a) PROVE Attended'
  <2>1. Outside(a)
    BY <1>19 DEF Create, Goes
  <2> QED
    BY <1>b, <2>1
<1>20. ASSUME CreateFails(a) PROVE Attended'
  <2>1. Outside(a)
    BY <1>20 DEF CreateFails, Goes, Done
  <2> QED
    BY <1>b, <2>1
<1>21. ASSUME OpenFails(a) PROVE Attended'
  <2>1. Outside(a)
    BY <1>21 DEF OpenFails, Goes
  <2> QED
    BY <1>b, <2>1
<1>22. ASSUME Describe(a) PROVE Attended'
  <2>1. Outside(a)
    BY <1>22 DEF Describe, Goes
  <2> QED
    BY <1>b, <2>1
<1>23. ASSUME NEW f \in Debris, DuplicateBegin(a, f) PROVE Attended'
  <2>1. Outside(a)
    BY <1>23 DEF DuplicateBegin, Goes, Done
  <2> QED
    BY <1>b, <2>1
<1>24. ASSUME NEW f \in Debris, DescribeFails(a, f) PROVE Attended'
  <2>1. Outside(a)
    BY <1>24 DEF DescribeFails, Goes, Done
  <2> QED
    BY <1>b, <2>1
<1> QED
  BY <1>1, <1>2, <1>3, <1>4, <1>5, <1>6, <1>7, <1>8, <1>9, <1>10, <1>11, <1>12, <1>13, <1>14,
       <1>15, <1>16, <1>17, <1>18, <1>19, <1>20, <1>21, <1>22, <1>23, <1>24

\* Whoever takes the store over its budget attends to it.
LEMMA AddedAttended == ASSUME Ready, NEW a \in Actor, Index(a) \/ Fold(a) PROVE Attended'
<1>1. total' > MaxBytes => pc'[a] = "over"
  BY DEF Index, Fold, Goes, OverBudget, Ready, Types, TypeOK
<1> QED
  BY <1>1 DEF Attended, Attends

\* A snapshot starts from the index as it is.
LEMMA SnapshotAttended == ASSUME Ready, Balanced, NEW a \in Actor, Snapshot(a) PROVE Attended'
<1>1. size \in [Key -> Nat] /\ pc \in [Actor -> Places] /\ left \in [Actor -> Int] /\ total \in Nat
      /\ todo \in [Actor -> SUBSET (Key \X Nat)] /\ index \subseteq Key
  BY DEF Ready, Types, TypeOK
<1>2. pc'[a] = "sweep" /\ left'[a] = total /\ size' = size
  BY <1>1 DEF Snapshot, Goes, mem
<1>3. \A v \in todo'[a] : size[v[1]] = v[2]
  BY <1>1 DEF Snapshot
<1>4. Account(a, size)'
  <2>1. left'[a] >= SumOver(size, Key)
    BY <1>1, <1>2 DEF Balanced
  <2>2. SumOver(size, Key)' = SumOver(size, Key)
    BY <1>2, SumNext
  <2>3. \A k \in Key : size'[k] <= size'[k]
    BY <1>1, <1>2
  <2> QED
    BY <1>2, <1>3, <2>1, <2>2, <2>3 DEF Account
<1>5. \E w \in [Key -> Nat] : Account(a, w)'
  BY <1>1, <1>2, <1>4
<1>6. Attends(a)'
  BY <1>2, <1>5 DEF Attends, Sweeping
<1> QED
  BY <1>6 DEF Attended

LEMMA SumWithout ==
    ASSUME NEW w \in [Key -> Nat], NEW x \in Key
    PROVE  \E z \in [Key -> Nat] : /\ z[x] = 0 /\ \A k \in Key \ {x} : z[k] = w[k]
                                  /\ SumOver(z, Key) = SumOver(w, Key) - w[x]
<1> DEFINE z == [w EXCEPT ![x] = 0]
<1>1. z \in [Key -> Nat] /\ z[x] = 0 /\ \A k \in Key \ {x} : w[k] = z[k]
  OBVIOUS
<1>2. IsFiniteSet(Key)
  BY StoreAssumption
<1> HIDE DEF z
<1>3. SumOver(z, Key) = SumOver(w, Key) - w[x] + z[x]
  BY <1>1, <1>2, SumUpdate
<1>4. SumOver(w, Key) \in Nat /\ w[x] \in Nat
  <2>1. Key \in SUBSET Key
    OBVIOUS
  <2> QED
    BY <1>2, <2>1, SumType
<1>5. SumOver(z, Key) = SumOver(w, Key) - w[x]
  BY <1>1, <1>3, <1>4
<1> QED
  BY <1>1, <1>5

\* The next victim: its weight leaves the account with it.
LEMMA EvictAttended ==
    ASSUME Ready, Attended, NEW a \in Actor, NEW u \in todo[a], Evict(a, u) PROVE Attended'
<1>a. Types /\ PlaceOf(a) /\ IsFiniteSet(Key)
  BY StoreAssumption DEF Ready
<1> USE <1>a DEF Types, TypeOK
<1>1. /\ UNCHANGED <<size, total, over>> /\ \A b \in Actor \ {a} : Aside(b)
      /\ pc[a] = "sweep" /\ pc'[a] = "drop" /\ victim'[a] = u[1] /\ u \in Key \X Nat
      /\ todo'[a] = todo[a] \ {u} /\ left'[a] = left[a] - u[2]
  BY DEF Evict, Goes, mem, past, Aside
<1>2. Shrinks
  BY <1>1 DEF Shrinks
<1>3. ASSUME Attends(a) PROVE Attends(a)'
  <2>1. PICK w \in [Key -> Nat] : Account(a, w)
    BY <1>1, <1>3 DEF Attends
  <2>3. w[u[1]] = u[2] /\ u[1] \in Key /\ u[2] \in Nat
    BY <1>1, <2>1 DEF Account
  <2>2. PICK z \in [Key -> Nat] :
          /\ z[u[1]] = 0 /\ \A k \in Key \ {u[1]} : z[k] = w[k]
          /\ SumOver(z, Key) = SumOver(w, Key) - w[u[1]]
    BY <2>3, SumWithout
  <2>5. SumOver(w, Key) \in Nat
    <3>1. Key \in SUBSET Key
      OBVIOUS
    <3> QED
      BY <3>1, SumType
  <2>6. left'[a] >= SumOver(z, Key)
    BY <1>1, <2>1, <2>2, <2>3, <2>5 DEF Account
  <2>7. \A v \in todo'[a] : z[v[1]] = v[2]
    <3> SUFFICES ASSUME NEW v \in todo'[a] PROVE z[v[1]] = v[2]
      OBVIOUS
    <3>1. v \in todo[a] /\ v # u /\ v \in Key \X Nat
      BY <1>1
    <3>2. v[1] # u[1]
      BY <3>1 DEF PlaceOf
    <3> QED
      BY <2>1, <2>2, <3>1, <3>2 DEF Account
  <2>8. \A k \in Key : size'[k] <= z[k] \/ (pc'[a] = "drop" /\ victim'[a] = k)
    BY <1>1, <2>1, <2>2 DEF Account
  <2>9. Account(a, z)'
    BY <2>6, <2>7, <2>8 DEF Account
  <2> QED
    BY <1>1, <2>2, <2>9 DEF Attends, Sweeping
<1> QED
  BY <1>1, <1>2, <1>3, AttendedFrame

\* The removal of a victim: what the index counted for it is gone.
LEMMA RemovalAttended ==
    ASSUME Ready, Attended, NEW a \in Actor,
           \/ Drop(a) \/ List(a) \/ RemoveEnds(a) \/ RemoveFails(a)
           \/ \E f \in listed[a] : Unlink(a, f)
    PROVE  Attended'
<1>a. Types /\ PlaceOf(a)
  BY DEF Ready
<1> USE <1>a DEF Types, TypeOK, PlaceOf
<1>1. /\ total' <= total /\ over' = over /\ \A b \in Actor \ {a} : Aside(b)
      /\ pc[a] \in {"drop", "list", "unlink"} /\ pc'[a] \in {"sweep", "list", "unlink"}
      /\ todo'[a] = todo[a] /\ left'[a] = left[a]
      /\ \A k \in Key : size'[k] = IF pc[a] = "drop" /\ k = victim[a] THEN 0 ELSE size[k]
  <2>1. CASE Drop(a)
    BY <2>1 DEF Drop, Weight, Goes, sweep, Aside
  <2>2. CASE List(a)
    BY <2>2 DEF List, Goes, mem, Aside
  <2>3. CASE RemoveEnds(a)
    BY <2>3 DEF RemoveEnds, Goes, mem, Aside
  <2>4. CASE \E f \in listed[a] : Unlink(a, f)
    BY <2>4 DEF Unlink, mem, Aside
  <2>5. CASE RemoveFails(a)
    BY <2>5 DEF RemoveFails, Goes, mem, Aside
  <2> QED
    BY <2>1, <2>2, <2>3, <2>4, <2>5
<1>2. Shrinks
  BY <1>1 DEF Shrinks
<1>3. ASSUME Attends(a) PROVE Attends(a)'
  <2>1. PICK w \in [Key -> Nat] : Account(a, w)
    BY <1>1, <1>3 DEF Attends
  <2>2. \A k \in Key : size'[k] <= w[k]
    BY <1>1, <2>1 DEF Account
  <2>3. Account(a, w)'
    BY <1>1, <2>1, <2>2 DEF Account
  <2> QED
    BY <1>1, <2>3 DEF Attends, Sweeping
<1>4. total' > MaxBytes => total > MaxBytes
  <2>1. total' \in Int
    BY <1>1, StoreAssumption DEF Drop, Weight, List, RemoveEnds, RemoveFails, Unlink, mem
  <2> QED
    BY <1>1, <2>1, StoreAssumption
<1> QED
  BY <1>1, <1>2, <1>3, <1>4, AttendedFrame

\* A sweep ends within the budget, by its count, or with nothing left to take:
\* if it covered the index, the store is within it, or it is known not to be.
LEMMA SweepEndsAttended ==
    ASSUME Ready, Balanced, Attended, NEW a \in Actor, SweepEnds(a) PROVE Attended'
<1>a. Types /\ IsFiniteSet(Key) /\ MaxBytes \in Nat
  BY StoreAssumption DEF Ready
<1> USE <1>a DEF Types, TypeOK
<1>1. /\ UNCHANGED <<size, total>> /\ \A b \in Actor \ {a} : Aside(b)
      /\ pc[a] = "sweep" /\ over' = (over \/ (left[a] > MaxBytes /\ total > MaxBytes))
  BY DEF SweepEnds, Goes, mem, Aside
<1>2. Shrinks
  BY <1>1 DEF Shrinks
<1>3. ASSUME total > MaxBytes, Attends(a) PROVE over'
  <2>1. PICK w \in [Key -> Nat] : Account(a, w)
    BY <1>1, <1>3 DEF Attends
  <2>2. \A k \in Key : size[k] <= w[k]
    BY <1>1, <2>1 DEF Account
  <2>3. Key \in SUBSET Key /\ size \in [Key -> Nat]
    OBVIOUS
  <2>4. SumOver(size, Key) <= SumOver(w, Key)
    BY <2>2, <2>3, SumMono
  <2>5. SumOver(w, Key) \in Nat
    BY <2>3, SumType
  <2>6. left[a] > MaxBytes
    BY <1>3, <2>1, <2>4, <2>5 DEF Account, Balanced
  <2> QED
    BY <1>1, <1>3, <2>6
<1> QED
  BY <1>1, <1>2, <1>3, AttendedFrame

LEMMA NextAttended == ASSUME Ready, Balanced, Attended, [Next]_vars PROVE Attended'
<1>1. ASSUME NEW good \in SUBSET Scanned, NEW missed \in SUBSET Swept(good), CrashAndOpen(good, missed)
      PROVE  Attended'
  BY <1>1 DEF CrashAndOpen, Attended
<1>2. CASE UNCHANGED vars
  <2>1. UNCHANGED <<size, total, over>> /\ \A b \in Actor : Aside(b)
    BY <1>2 DEF vars, mem, sweep, past, Aside
  <2>2. Shrinks
    BY <2>1 DEF Shrinks, Ready, Types, TypeOK
  <2> QED
    BY <2>1, <2>2, AttendsOn DEF Attended
<1> QED
  BY <1>1, <1>2, QuietAttended, AddedAttended, SnapshotAttended, EvictAttended, RemovalAttended,
     SweepEndsAttended DEF Next
-----------------------------------------------------------------------------
(* The theorems.                                                           *)

\* The inductive invariant.
IInv == Ready /\ (\A k \in Key : KeyOf(k)) /\ Balanced /\ Attended

LEMMA InitIInv == Init => IInv
<1> SUFFICES ASSUME Init PROVE IInv
  OBVIOUS
<1> USE StoreAssumption DEF Init
<1>1. Balanced
  <2>1. size \in [Key -> Nat] /\ IsFiniteSet(Key) /\ {} \in SUBSET Key /\ \A k \in Key \ {} : size[k] = 0
    OBVIOUS
  <2>2. SumOver(size, Key) = SumOver(size, {})
    <3> HIDE DEF Init
    <3> QED
      BY <2>1, SumOfPart
  <2> QED
    BY <2>2, SumOfNone DEF Balanced
<1>2. Types
  BY DEF Types, TypeOK, Places
<1>3. \A a \in Actor : PlaceOf(a)
  BY DEF PlaceOf
<1>4. \A k \in Key : NamesOf(k)
  BY DEF NamesOf
<1>5. \A k \in Key : KeyOf(k)
  BY DEF KeyOf, Works, Removes, Clear, Whole, Vouched, Key
<1>6. Attended
  BY DEF Attended
<1> QED
  BY <1>1, <1>2, <1>3, <1>4, <1>5, <1>6 DEF IInv, Ready

LEMMA NextIInv == IInv /\ [Next]_vars => IInv'
<1> SUFFICES ASSUME IInv, [Next]_vars PROVE IInv'
  OBVIOUS
<1>1. Ready /\ Balanced /\ Attended
  BY DEF IInv
<1>2. TypesBut'
  BY <1>1, NextTypes
<1>3. Balanced' /\ total' \in Nat
  BY <1>1, <1>2, NextBalanced
<1>4. Types'
  BY <1>2, <1>3 DEF Types, TypesBut, TypeOK
<1>5. \A a \in Actor : PlaceOf(a)'
  BY <1>1, NextPlace
<1>6. \A k \in Key : NamesOf(k)'
  BY <1>1, NextNames
<1>7. \A k \in Key : KeyOf(k)'
  BY <1>1, NextKey DEF IInv
<1>8. Attended'
  BY <1>1, NextAttended
<1> QED
  BY <1>3, <1>4, <1>5, <1>6, <1>7, <1>8 DEF IInv, Ready

LEMMA SpecIInv == Spec => []IInv
  BY InitIInv, NextIInv, PTL DEF Spec

\* A key nobody works on has no worker.
LEMMA QuietIdle == ASSUME NEW k, Quiet(k) PROVE \A a \in Actor : ~Works(a, k)
  BY DEF Quiet, Works, Clear

\* Every variable keeps its type: the count of bytes is never negative, whatever
\* is promoted, grown, dropped or scanned.
THEOREM TypeCorrect == Spec => []TypeOK
<1>1. IInv => TypeOK
  BY DEF IInv, Ready, Types
<1> QED
  BY SpecIInv, <1>1, PTL

\* Index and disk vouch for each other, at any moment a crash may choose and
\* once everybody is done with a key (promote's two renames, WriteFile,
\* dropIndexed, the scan).
THEOREM DiskIsVouchedForHolds == Spec => []DiskIsVouchedFor
<1>1. ASSUME IInv PROVE DiskIsVouchedFor
  <2>1. TypeOK /\ \A k \in Key : KeyOf(k)
    BY <1>1 DEF IInv, Ready, Types
  <2>2. MetaVouches
    BY <2>1 DEF MetaVouches, KeyOf, Vouched, Key
  <2>3. IndexMatchesDisk
    BY <2>1, QuietIdle DEF IndexMatchesDisk, KeyOf, Whole
  <2> QED
    BY <2>1, <2>2, <2>3 DEF DiskIsVouchedFor
<1> QED
  BY SpecIInv, <1>1, PTL

\* totalBytes is what the index adds up to, and a variant left alone is counted
\* at what its files weigh (promote, WriteFile, dropIndexed, the scan).
THEOREM BooksBalanceHolds == Spec => []BooksBalance
<1>1. ASSUME IInv PROVE BooksBalance
  <2>1. Types /\ IsFiniteSet(Key) /\ \A k \in Key : NamesOf(k) /\ KeyOf(k)
    BY <1>1, StoreAssumption DEF IInv, Ready
  <2>2. total = MapThenSumSet(LAMBDA k : size[k], index)
    <3>1. size \in [Key -> Nat] /\ index \in SUBSET Key /\ \A k \in Key \ index : size[k] = 0
      BY <2>1 DEF Types, TypeOK, NamesOf
    <3>2. SumOver(size, Key) = SumOver(size, index)
      BY <2>1, <3>1, SumOfPart
    <3> QED
      BY <1>1, <3>2 DEF IInv, Balanced, SumOver
  <2>3. ASSUME NEW k \in (VariantKey \cap index) \ (torn \cup leaked), Quiet(k)
        PROVE  size[k] = Cardinality(disk[k] \cap {"init", "seg"}) + (IF k \in booted THEN 1 ELSE 0)
    <3>1. k \in Key /\ Whole(k)
      BY <2>1, <2>3, QuietIdle DEF KeyOf, Key
    <3>2. size[k] = Weighs(k)
      BY <2>3, <3>1 DEF Whole
    <3> DEFINE D == disk[k] \cap {"init", "seg"}
    <3>3. /\ D \subseteq {"meta", "init", "seg"} /\ "meta" \notin D
          /\ ("init" \in D) = ("init" \in disk[k]) /\ ("seg" \in D) = ("seg" \in disk[k])
      OBVIOUS
    <3> HIDE DEF D
    <3>4. Cardinality(D) = Bit("meta" \in D) + Bit("init" \in D) + Bit("seg" \in D)
      BY <3>3, CardOfFiles
    <3>5. Cardinality(D) = Bit("init" \in disk[k]) + Bit("seg" \in disk[k])
      BY <3>3, <3>4 DEF Bit
    <3>6. size[k] = Cardinality(D) + Bit(k \in booted)
      BY <3>2, <3>5 DEF Weighs
    <3> QED
      BY <3>6 DEF D, Bit
  <2> QED
    BY <2>2, <2>3 DEF BooksBalance
<1> QED
  BY SpecIInv, <1>1, PTL

\* The store is over its budget only while a sweep is due or under way, or
\* after one that had to spare what was pinned, or since a boot found it so (the
\* over test under the lock of every addition; gc).
THEOREM OverrunIsAttendedHolds == Spec => []OverrunIsAttended
<1>1. IInv => OverrunIsAttended
  BY DEF IInv, Attended, Attends, Sweeping, OverrunIsAttended
<1> QED
  BY SpecIInv, <1>1, PTL

-----------------------------------------------------------------------------
(* The upload spool: the index against the files.                          *)

\* What is on disk, and what was answered, at each place of an operation.
UploadPlaceOf(u) ==
    /\ (up /\ phase[u] = "item") <=> u \in items
    /\ ~up => phase[u] \in {"none", "over"}
    /\ phase[u] \in {"none", "copy"} => u \notin payload /\ u \notin sidecar
    /\ phase[u] = "none" => u \notin tmp
    /\ u \in tmp => u \notin payload /\ u \notin sidecar
    /\ phase[u] = "sidecar" => u \in payload /\ u \notin sidecar /\ u \notin tmp
    /\ phase[u] \in {"register", "payload", "item"} => u \in payload /\ u \in sidecar /\ u \notin tmp
    /\ phase[u] = "pair" => u \in sidecar /\ u \notin tmp /\ (u \in payload => u \in stuck)
    /\ up /\ phase[u] = "over" /\ u \notin stuck => u \notin payload /\ u \notin sidecar /\ u \notin tmp

ToldOf(u) ==
    /\ phase[u] \notin {"item", "over"} => told[u] = "none"
    /\ told[u] = "accepted" /\ u \notin unread => u \in payload /\ u \in sidecar /\ (up => phase[u] = "item")
    /\ told[u] = "gone" /\ u \notin stuck =>
         u \notin payload /\ u \notin sidecar /\ phase[u] = "over"

UploadPlace == \A u \in Upload : UploadPlaceOf(u)

Told == \A u \in Upload : ToldOf(u)

UploadsInv == UploadsTypeOK /\ UploadPlace /\ Told

LEMMA InitUploads == UploadsInit => UploadsInv
  BY UploadsAssumption DEF UploadsInit, UploadsInv, UploadsTypeOK, UploadPlace, Told, UploadPlaceOf, ToldOf, Phases

LEMMA NextUploadsTypeOK == ASSUME UploadsTypeOK, [UploadsNext]_uploadsVars PROVE UploadsTypeOK'
<1> USE DEF UploadsTypeOK, Phases
<1>1. ASSUME NEW u \in Upload, Put(u) PROVE UploadsTypeOK'
  BY <1>1 DEF Put
<1>2. ASSUME NEW u \in Upload, Spool(u) PROVE UploadsTypeOK'
  BY <1>2, UploadsAssumption DEF Spool, Fits, spoolFiles
<1>3. ASSUME NEW u \in Upload, NEW ok \in BOOLEAN, SpoolFails(u, ok) PROVE UploadsTypeOK'
  BY <1>3 DEF SpoolFails
<1>4. ASSUME NEW u \in Upload, PublishPayload(u) PROVE UploadsTypeOK'
  BY <1>4 DEF PublishPayload
<1>5. ASSUME NEW u \in Upload, WriteSidecar(u) PROVE UploadsTypeOK'
  BY <1>5 DEF WriteSidecar
<1>6. ASSUME NEW u \in Upload, NEW ok \in BOOLEAN, SidecarFails(u, ok) PROVE UploadsTypeOK'
  BY <1>6 DEF SidecarFails, Unpublish
<1>7. ASSUME NEW u \in Upload, RegisterUpload(u) PROVE UploadsTypeOK'
  BY <1>7 DEF RegisterUpload, spoolFiles
<1>8. ASSUME NEW u \in Upload, Refuse(u) PROVE UploadsTypeOK'
  BY <1>8 DEF Refuse, spoolFiles
<1>9. ASSUME NEW U \in SUBSET Upload, Unlist(U) PROVE UploadsTypeOK'
  BY <1>9 DEF Unlist, spoolFiles
<1>10. ASSUME NEW u \in Upload, NEW ok \in BOOLEAN, RemovePayload(u, ok) PROVE UploadsTypeOK'
  BY <1>10 DEF RemovePayload, Remove
<1>11. ASSUME NEW u \in Upload, NEW ok \in BOOLEAN, RemoveSidecar(u, ok) PROVE UploadsTypeOK'
  BY <1>11 DEF RemoveSidecar
<1>12. ASSUME Crash PROVE UploadsTypeOK'
  <2>1. phase' \in [Upload -> Phases]
    BY <1>12 DEF Crash
  <2>2. UNCHANGED <<tmp, payload, sidecar, bytes, told, stuck, unread>> /\ items' = {}
    BY <1>12 DEF Crash, spoolFiles
  <2>3. up' \in BOOLEAN
    BY <1>12 DEF Crash
  <2>4. reboots' \in Nat
    BY <1>12 DEF Crash
  <2> QED
    BY <2>1, <2>2, <2>3, <2>4
<1>13. ASSUME NEW bad \in SUBSET (payload \cap sidecar), NEW t \in SUBSET tmp,
              NEW p \in SUBSET (payload \ Adopted(bad)), NEW s \in SUBSET (sidecar \ Adopted(bad)),
              Scan(bad, t, p, s)
       PROVE  UploadsTypeOK'
  BY <1>13 DEF Scan, Adopted
<1>14. ASSUME UNCHANGED uploadsVars PROVE UploadsTypeOK'
  BY <1>14 DEF uploadsVars, spoolFiles
<1> QED
  BY <1>1, <1>2, <1>3, <1>4, <1>5, <1>6, <1>7, <1>8, <1>9, <1>10, <1>11, <1>12, <1>13, <1>14 DEF UploadsNext

LEMMA NextUploadPlace == ASSUME UploadsInv, [UploadsNext]_uploadsVars PROVE UploadPlace'
<1> SUFFICES ASSUME NEW w \in Upload PROVE UploadPlaceOf(w)'
  BY DEF UploadPlace
<1>a. UploadPlaceOf(w) /\ UploadsTypeOK
  BY DEF UploadsInv, UploadPlace
<1> USE <1>a DEF UploadPlaceOf, UploadsTypeOK
<1>1. ASSUME NEW u \in Upload, Put(u) PROVE UploadPlaceOf(w)'
  BY <1>1 DEF Put
<1>2. ASSUME NEW u \in Upload, Spool(u) PROVE UploadPlaceOf(w)'
  BY <1>2 DEF Spool, spoolFiles
<1>3. ASSUME NEW u \in Upload, NEW ok \in BOOLEAN, SpoolFails(u, ok) PROVE UploadPlaceOf(w)'
  BY <1>3 DEF SpoolFails
<1>4. ASSUME NEW u \in Upload, PublishPayload(u) PROVE UploadPlaceOf(w)'
  BY <1>4 DEF PublishPayload
<1>5. ASSUME NEW u \in Upload, WriteSidecar(u) PROVE UploadPlaceOf(w)'
  BY <1>5 DEF WriteSidecar
<1>6. ASSUME NEW u \in Upload, NEW ok \in BOOLEAN, SidecarFails(u, ok) PROVE UploadPlaceOf(w)'
  BY <1>6 DEF SidecarFails, Unpublish
<1>7. ASSUME NEW u \in Upload, RegisterUpload(u) PROVE UploadPlaceOf(w)'
  BY <1>7 DEF RegisterUpload, spoolFiles
<1>8. ASSUME NEW u \in Upload, Refuse(u) PROVE UploadPlaceOf(w)'
  BY <1>8 DEF Refuse, spoolFiles
<1>9. ASSUME NEW U \in SUBSET Upload, Unlist(U) PROVE UploadPlaceOf(w)'
  <2>1. /\ up /\ up' = up /\ UNCHANGED <<tmp, payload, sidecar, stuck>>
        /\ items' = items \ U /\ U \subseteq items
        /\ phase'[w] = IF w \in U THEN "payload" ELSE phase[w]
    BY <1>9 DEF Unlist, spoolFiles
  <2>2. CASE w \in U
    BY <2>1, <2>2
  <2>3. CASE w \notin U
    BY <2>1, <2>3
  <2> QED
    BY <2>2, <2>3
<1>10. ASSUME NEW u \in Upload, NEW ok \in BOOLEAN, RemovePayload(u, ok) PROVE UploadPlaceOf(w)'
  BY <1>10 DEF RemovePayload, Remove
<1>11. ASSUME NEW u \in Upload, NEW ok \in BOOLEAN, RemoveSidecar(u, ok) PROVE UploadPlaceOf(w)'
  BY <1>11 DEF RemoveSidecar
<1>12. ASSUME Crash PROVE UploadPlaceOf(w)'
  BY <1>12 DEF Crash, spoolFiles
<1>13. ASSUME NEW bad \in SUBSET (payload \cap sidecar), NEW t \in SUBSET tmp,
              NEW p \in SUBSET (payload \ Adopted(bad)), NEW s \in SUBSET (sidecar \ Adopted(bad)),
              Scan(bad, t, p, s)
       PROVE  UploadPlaceOf(w)'
  BY <1>13 DEF Scan, Adopted
<1>14. ASSUME UNCHANGED uploadsVars PROVE UploadPlaceOf(w)'
  BY <1>14 DEF uploadsVars, spoolFiles
<1> QED
  BY <1>1, <1>2, <1>3, <1>4, <1>5, <1>6, <1>7, <1>8, <1>9, <1>10, <1>11, <1>12, <1>13, <1>14 DEF UploadsNext

LEMMA NextTold == ASSUME UploadsInv, [UploadsNext]_uploadsVars PROVE Told'
<1> SUFFICES ASSUME NEW w \in Upload PROVE ToldOf(w)'
  BY DEF Told
<1>a. UploadPlaceOf(w) /\ ToldOf(w) /\ UploadsTypeOK
  BY DEF UploadsInv, UploadPlace, Told
<1> USE <1>a DEF UploadPlaceOf, ToldOf, UploadsTypeOK
<1>1. ASSUME NEW u \in Upload, Put(u) PROVE ToldOf(w)'
  BY <1>1 DEF Put
<1>2. ASSUME NEW u \in Upload, Spool(u) PROVE ToldOf(w)'
  BY <1>2 DEF Spool, spoolFiles
<1>3. ASSUME NEW u \in Upload, NEW ok \in BOOLEAN, SpoolFails(u, ok) PROVE ToldOf(w)'
  BY <1>3 DEF SpoolFails
<1>4. ASSUME NEW u \in Upload, PublishPayload(u) PROVE ToldOf(w)'
  BY <1>4 DEF PublishPayload
<1>5. ASSUME NEW u \in Upload, WriteSidecar(u) PROVE ToldOf(w)'
  BY <1>5 DEF WriteSidecar
<1>6. ASSUME NEW u \in Upload, NEW ok \in BOOLEAN, SidecarFails(u, ok) PROVE ToldOf(w)'
  BY <1>6 DEF SidecarFails, Unpublish
<1>7. ASSUME NEW u \in Upload, RegisterUpload(u) PROVE ToldOf(w)'
  BY <1>7 DEF RegisterUpload, spoolFiles
<1>8. ASSUME NEW u \in Upload, Refuse(u) PROVE ToldOf(w)'
  BY <1>8 DEF Refuse, spoolFiles
<1>9. ASSUME NEW U \in SUBSET Upload, Unlist(U) PROVE ToldOf(w)'
  BY <1>9 DEF Unlist, spoolFiles
<1>10. ASSUME NEW u \in Upload, NEW ok \in BOOLEAN, RemovePayload(u, ok) PROVE ToldOf(w)'
  BY <1>10 DEF RemovePayload, Remove
<1>11. ASSUME NEW u \in Upload, NEW ok \in BOOLEAN, RemoveSidecar(u, ok) PROVE ToldOf(w)'
  BY <1>11 DEF RemoveSidecar
<1>12. ASSUME Crash PROVE ToldOf(w)'
  BY <1>12 DEF Crash, spoolFiles
<1>13. ASSUME NEW bad \in SUBSET (payload \cap sidecar), NEW t \in SUBSET tmp,
              NEW p \in SUBSET (payload \ Adopted(bad)), NEW s \in SUBSET (sidecar \ Adopted(bad)),
              Scan(bad, t, p, s)
       PROVE  ToldOf(w)'
  BY <1>13 DEF Scan, Adopted
<1>14. ASSUME UNCHANGED uploadsVars PROVE ToldOf(w)'
  BY <1>14 DEF uploadsVars, spoolFiles
<1> QED
  BY <1>1, <1>2, <1>3, <1>4, <1>5, <1>6, <1>7, <1>8, <1>9, <1>10, <1>11, <1>12, <1>13, <1>14 DEF UploadsNext

LEMMA SpecUploads == UploadsSpec => []UploadsInv
<1>1. UploadsInv /\ [UploadsNext]_uploadsVars => UploadsInv'
  BY NextUploadsTypeOK, NextUploadPlace, NextTold DEF UploadsInv
<1> QED
  BY InitUploads, <1>1, PTL DEF UploadsSpec

\* Every variable of the spool keeps its type.
THEOREM UploadsTypeCorrect == UploadsSpec => []UploadsTypeOK
<1>1. UploadsInv => UploadsTypeOK
  BY DEF UploadsInv
<1> QED
  BY SpecUploads, <1>1, PTL

\* What is listed has its payload and its sidecar (internal/uploads: Put
\* publishes before it registers, Delete and sweep unlist before they remove).
THEOREM ListedIsWholeHolds == UploadsSpec => []ListedIsWhole
<1>1. UploadsInv => ListedIsWhole
  BY DEF UploadsInv, UploadsTypeOK, UploadPlace, UploadPlaceOf, ListedIsWhole
<1> QED
  BY SpecUploads, <1>1, PTL

\* No file of a running spool is without an owner (the error paths of Put, the
\* removals, the boot scan).
THEOREM NoDebrisHolds == UploadsSpec => []NoDebris
<1>1. UploadsInv => NoDebris
  BY DEF UploadsInv, UploadsTypeOK, Phases, UploadPlace, UploadPlaceOf, NoDebris
<1> QED
  BY SpecUploads, <1>1, PTL

\* An accepted upload outlives every crash, unless a boot cannot read it (the two
\* renames come before the answer).
THEOREM AcceptedSurvivesHolds == UploadsSpec => []AcceptedSurvives
<1>1. UploadsInv => AcceptedSurvives
  BY DEF UploadsInv, UploadsTypeOK, UploadPlace, UploadPlaceOf, Told, ToldOf, AcceptedSurvives
<1> QED
  BY SpecUploads, <1>1, PTL

\* An upload reported gone, its removals done, is never seen again (the answer
\* comes after the removal).
THEOREM GoneStaysGoneHolds == UploadsSpec => []GoneStaysGone
<1>1. UploadsInv => GoneStaysGone
  BY DEF UploadsInv, UploadsTypeOK, UploadPlace, UploadPlaceOf, Told, ToldOf, GoneStaysGone
<1> QED
  BY SpecUploads, <1>1, PTL

\* The two together: nothing listed is ever a half, nothing accepted that a boot
\* can read is ever lost (Put, scan).
THEOREM WholeUploadsHolds == UploadsSpec => []WholeUploads
<1>1. ListedIsWhole /\ AcceptedSurvives => WholeUploads
  BY DEF WholeUploads
<1> QED
  BY <1>1, ListedIsWholeHolds, AcceptedSurvivesHolds, PTL

\* The two together: no file outlives its upload, no upload its removal (Put,
\* Delete, removeFiles, scan).
THEOREM NothingEscapesHolds == UploadsSpec => []NothingEscapes
<1>1. NoDebris /\ GoneStaysGone => NothingEscapes
  BY DEF NothingEscapes
<1> QED
  BY <1>1, NoDebrisHolds, GoneStaysGoneHolds, PTL

-----------------------------------------------------------------------------
(* The upload spool: its byte count.                                       *)

LEMMA BytesOfIsSum == ASSUME NEW U PROVE BytesOf(U) = SumOver(bytes, U)
  BY DEF BytesOf, SumOver

LEMMA BytesOfNext == BytesOf(items)' = SumOver(bytes', items')
  BY DEF BytesOf, SumOver, MapThenSumSet, MapThenFoldSet

LEMMA InitUploadsBooks == UploadsInit => UploadsBalance
  BY BytesOfIsSum, SumOfNone DEF UploadsInit, UploadsBalance

\* What the sum of the listed uploads is made of.
LEMMA ItemsSum ==
    ASSUME UploadsTypeOK, NEW U \in SUBSET Upload
    PROVE  IsFiniteSet(U) /\ bytes \in [Upload -> Nat] /\ BytesOf(U) \in Nat
<1>1. IsFiniteSet(U)
  BY UploadsAssumption, FS_Subset
<1>2. bytes \in [Upload -> Nat]
  BY UploadsAssumption DEF UploadsTypeOK
<1> QED
  BY <1>1, <1>2, SumType, BytesOfIsSum

\* Neither the list nor a count changes.
LEMMA UploadsBooksStay ==
    ASSUME UploadsBalance, UNCHANGED <<items, totalBytes, bytes>>
    PROVE  UploadsBalance' /\ totalBytes' = totalBytes
  BY BytesOfIsSum, BytesOfNext DEF UploadsBalance

\* An upload still being copied is not listed, so its bytes are in no sum.
LEMMA SpoolKeepsBooks ==
    ASSUME UploadsInv, UploadsBalance, NEW u \in Upload, Spool(u), UploadsTypeOK'
    PROVE  UploadsBalance' /\ totalBytes' = totalBytes
<1>1. items' = items /\ totalBytes' = totalBytes /\ bytes' = [bytes EXCEPT ![u] = @ + 1]
  BY DEF Spool
<1>2. u \notin items /\ items \in SUBSET Upload
  BY DEF UploadsInv, UploadsTypeOK, UploadPlace, UploadPlaceOf, Spool
<1>3. IsFiniteSet(items) /\ bytes \in [Upload -> Nat] /\ bytes' \in [Upload -> Nat]
  BY <1>2, ItemsSum, UploadsAssumption DEF UploadsInv, UploadsTypeOK
<1>4. \A x \in items : bytes[x] = bytes'[x]
  BY <1>1, <1>2, <1>3
<1>5. SumOver(bytes, items) = SumOver(bytes', items)
  BY <1>2, <1>3, <1>4, SumSame
<1>6. BytesOf(items)' = SumOver(bytes', items')
  BY BytesOfNext
<1> QED
  BY <1>1, <1>5, <1>6, BytesOfIsSum DEF UploadsBalance

LEMMA RegisterKeepsBooks ==
    ASSUME UploadsInv, UploadsBalance, NEW u \in Upload, RegisterUpload(u)
    PROVE  UploadsBalance' /\ totalBytes' <= MaxTotal
<1>1. /\ items' = items \cup {u} /\ totalBytes' = totalBytes + bytes[u] /\ bytes' = bytes
      /\ ~(totalBytes + bytes[u] > MaxTotal)
  BY DEF RegisterUpload, SpoolFull
<1>2. u \in Upload \ items /\ items \in SUBSET Upload
  BY DEF UploadsInv, UploadsTypeOK, UploadPlace, UploadPlaceOf, RegisterUpload
<1>3. IsFiniteSet(items) /\ bytes \in [Upload -> Nat] /\ BytesOf(items) \in Nat
  BY <1>2, ItemsSum DEF UploadsInv
<1>4. SumOver(bytes, items \cup {u}) = SumOver(bytes, items) + bytes[u]
  BY <1>2, <1>3, SumAdd
<1>5. BytesOf(items)' = SumOver(bytes', items')
  BY BytesOfNext
<1>6. UploadsBalance'
  BY <1>1, <1>4, <1>5, BytesOfIsSum DEF UploadsBalance
<1>7. bytes[u] \in Nat /\ totalBytes \in Nat
  BY <1>2, <1>3 DEF UploadsBalance
<1>8. totalBytes' <= MaxTotal
  BY <1>1, <1>7, UploadsAssumption
<1> QED
  BY <1>6, <1>8

LEMMA UnlistKeepsBooks ==
    ASSUME UploadsInv, UploadsBalance, NEW U \in SUBSET Upload, Unlist(U)
    PROVE  UploadsBalance' /\ totalBytes' \in Nat /\ totalBytes' <= totalBytes
<1>1. items' = items \ U /\ totalBytes' = totalBytes - BytesOf(U) /\ bytes' = bytes /\ U \in SUBSET items
  BY DEF Unlist, Unlisted
<1>2. items \in SUBSET Upload /\ UploadsTypeOK
  BY DEF UploadsInv, UploadsTypeOK
<1>3. /\ IsFiniteSet(items) /\ bytes \in [Upload -> Nat]
      /\ BytesOf(items) \in Nat /\ BytesOf(U) \in Nat /\ BytesOf(items \ U) \in Nat
  <2>1. items \ U \in SUBSET Upload
    BY <1>2
  <2> QED
    BY <1>2, <2>1, ItemsSum
<1>4. SumOver(bytes, items) = SumOver(bytes, U) + SumOver(bytes, items \ U)
  BY <1>1, <1>2, <1>3, SumDiff
<1>5. BytesOf(items)' = SumOver(bytes', items')
  BY BytesOfNext
<1>6. totalBytes = BytesOf(U) + BytesOf(items \ U)
  BY <1>4, BytesOfIsSum DEF UploadsBalance
<1>7. totalBytes' = BytesOf(items \ U) /\ totalBytes' \in Nat /\ totalBytes' <= totalBytes
  BY <1>1, <1>3, <1>6
<1> QED
  BY <1>1, <1>5, <1>7, BytesOfIsSum DEF UploadsBalance

LEMMA CrashKeepsBooks == ASSUME Crash PROVE UploadsBalance' /\ totalBytes' = 0
<1>1. items' = {} /\ totalBytes' = 0
  BY DEF Crash
<1>2. BytesOf(items)' = SumOver(bytes', items')
  BY BytesOfNext
<1> QED
  BY <1>1, <1>2, SumOfNone DEF UploadsBalance

LEMMA ScanKeepsBooks ==
    ASSUME NEW bad, NEW t, NEW p, NEW s, Scan(bad, t, p, s)
    PROVE  UploadsBalance' /\ ~up
<1>1. items' = Adopted(bad) /\ totalBytes' = BytesOf(Adopted(bad)) /\ bytes' = bytes /\ ~up
  BY DEF Scan
<1>2. BytesOf(items)' = SumOver(bytes', items')
  BY BytesOfNext
<1> QED
  BY <1>1, <1>2, BytesOfIsSum DEF UploadsBalance

LEMMA NextUploadsBooks ==
    ASSUME UploadsInv, UploadsBalance, [UploadsNext]_uploadsVars, UploadsTypeOK'
    PROVE  UploadsBalance' /\ (up /\ totalBytes' > totalBytes => totalBytes' <= MaxTotal)
<1> DEFINE Counted == UploadsBalance' /\ (up /\ totalBytes' > totalBytes => totalBytes' <= MaxTotal)
<1>a. totalBytes \in Nat /\ MaxTotal \in Nat
  BY ItemsSum, UploadsAssumption DEF UploadsInv, UploadsTypeOK, UploadsBalance
<1>b. ASSUME UNCHANGED <<items, totalBytes, bytes>> PROVE Counted
  BY <1>a, <1>b, UploadsBooksStay
<1>1. ASSUME NEW u \in Upload, Spool(u) PROVE Counted
  BY <1>a, <1>1, SpoolKeepsBooks
<1>2. ASSUME NEW u \in Upload, RegisterUpload(u) PROVE Counted
  BY <1>2, RegisterKeepsBooks
<1>3. ASSUME NEW U \in SUBSET Upload, Unlist(U) PROVE Counted
  <2>1. UploadsBalance' /\ totalBytes' \in Nat /\ totalBytes' <= totalBytes
    BY <1>3, UnlistKeepsBooks
  <2> QED
    BY <1>a, <2>1
<1>4. ASSUME Crash PROVE Counted
  BY <1>a, <1>4, CrashKeepsBooks
<1>5. ASSUME NEW bad, NEW t, NEW p, NEW s, Scan(bad, t, p, s) PROVE Counted
  BY <1>5, ScanKeepsBooks
<1>6. ASSUME NEW u \in Upload,
             Put(u) \/ PublishPayload(u) \/ WriteSidecar(u) \/ Refuse(u)
      PROVE  Counted
  BY <1>6, <1>b DEF Put, PublishPayload, WriteSidecar, Refuse
<1>7. ASSUME NEW u \in Upload, NEW ok \in BOOLEAN,
             SpoolFails(u, ok) \/ SidecarFails(u, ok) \/ RemovePayload(u, ok) \/ RemoveSidecar(u, ok)
      PROVE  Counted
  BY <1>7, <1>b DEF SpoolFails, SidecarFails, RemovePayload, RemoveSidecar
<1>8. ASSUME UNCHANGED uploadsVars PROVE Counted
  BY <1>8, <1>b DEF uploadsVars
<1> HIDE DEF Counted
<1>9. Counted
  BY <1>1, <1>2, <1>3, <1>4, <1>5, <1>6, <1>7, <1>8 DEF UploadsNext
<1> QED
  BY <1>9 DEF Counted

\* totalBytes is always the sum of the listed uploads, and no step of a running
\* store takes it over the cap, for any uploads, sizes, caps and crashes
\* (register and unlist, each under the lock; the boot scan).
THEOREM SpoolIsCountedHolds == UploadsSpec => SpoolIsCounted
<1>1. UploadsSpec => []UploadsBalance
  <2>1. UploadsInv /\ UploadsInv' /\ UploadsBalance /\ [UploadsNext]_uploadsVars => UploadsBalance'
    BY NextUploadsBooks DEF UploadsInv
  <2> QED
    BY InitUploadsBooks, SpecUploads, <2>1, PTL DEF UploadsSpec
<1>2. UploadsInv /\ UploadsInv' /\ UploadsBalance /\ [UploadsNext]_uploadsVars
        => [UploadsBalance' /\ (up /\ totalBytes' > totalBytes => totalBytes' <= MaxTotal)]_uploadsVars
  BY NextUploadsBooks DEF UploadsInv
<1> QED
  BY SpecUploads, <1>1, <1>2, PTL DEF UploadsSpec, SpoolIsCounted
=============================================================================
