----------------------------- MODULE CacheStore -----------------------------
(***************************************************************************)
(* The cache store (internal/cache/store.go, hls.go): the index and the    *)
(* byte count under the store's lock, against the directories that Begin,  *)
(* promote, HLS, WriteFile, the eviction and the boot scan change outside  *)
(* it.                                                                     *)
(*                                                                         *)
(* A file is its name: "out" and "meta" of a progressive entry, "meta",    *)
(* "init" and "seg" of a variant, the temp file of the actor writing an    *)
(* out, and "stray" for the temp files a failure left, which nobody writes *)
(* any more.  An out holds OutBytes, every other file one byte.  The order *)
(* of last access is left open: a sweep may take its victims in any order. *)
(* The removal of a directory lists it and then unlinks name by name.      *)
(*                                                                         *)
(* Every operation on a file may fail, as its error return allows.  Not    *)
(* modelled is a directory that is empty and whose removal fails: it holds *)
(* nothing, and the next MkdirAll takes it as it is.                       *)
(***************************************************************************)
EXTENDS Integers, FiniteSets, FiniteSetsExt

CONSTANTS
    FileKey,    \* the keys of progressive entries
    VariantKey, \* the keys of HLS variants
    Actor,      \* goroutines: pipelines, requests, workers, the janitor
    None,
    OutBytes,   \* the size of a progressive entry
    MaxBytes,   \* the budget
    Ages,       \* is maxAge set: may a sweep take an entry for its age?
    Bounds      \* bounds: each a set of keys and variant files a behaviour may use,
                \* how often it crashes, and how many failures change more than
                \* the failing operation (a file left behind, an entry given up)

Key == FileKey \cup VariantKey

ASSUME StoreAssumption ==
    /\ IsFiniteSet(Key) /\ FileKey \cap VariantKey = {} /\ None \notin Actor \cup Key
    /\ Actor \cap {"out", "meta", "init", "seg", "stray"} = {}
    /\ OutBytes \in Nat /\ MaxBytes \in Nat /\ Ages \in BOOLEAN
    /\ \A b \in Bounds :
        b.used \subseteq Key \cup {"init", "seg"} /\ b.crashes \in Nat /\ b.faults \in Nat

VARIABLES
    index,    \* the keys of s.index
    size,     \* each key's indexed size, 0 without an entry
    total,    \* s.totalBytes
    writing,  \* s.writing: the actor registered for each key, or None
    pinned,   \* s.pinned: the actors that pin each key
    dirs,     \* the keys with a directory
    disk,     \* the files in each key's directory
    pc,       \* where each actor is
    key,      \* the key it works on
    name,     \* the variant file it writes
    prev,     \* the previous size it read
    todo,     \* the victims its sweep has left: pairs of a key and its size
    left,     \* its sweep's count of bytes
    victim,   \* the key it removes
    listed,   \* the files of the removal it has left
    booted,   \* variants the scan counted with their meta.json
    over,     \* why the store may be over its budget unattended: the scan found
              \* it so, or a sweep had to spare what was pinned
    torn,     \* keys somebody wrote to while somebody else removed or wrote the
              \* same, or whose removal failed: a history variable
    leaked,   \* keys with files that a failure left and nothing vouches for: a
              \* history variable
    used,     \* the bound chosen: the keys and variant files, and how many
    crashes,  \* crashes and
    faults    \* failures are left

mem   == <<index, size, total, writing, pinned>>
files == <<dirs, disk>>
write == <<key, name, prev>>
sweep == <<todo, left, victim, listed>>
past  == <<booted, over, torn, leaked>>
spent == <<used, crashes, faults>>
vars  == <<mem, files, pc, write, sweep, past, spent>>

Init ==
    /\ index = {} /\ total = 0
    /\ size = [k \in Key |-> 0]
    /\ writing = [k \in Key |-> None]
    /\ pinned = [k \in Key |-> {}]
    /\ dirs = {}
    /\ disk = [k \in Key |-> {}]
    /\ pc = [a \in Actor |-> "idle"]
    /\ key = [a \in Actor |-> None] /\ victim = [a \in Actor |-> None]
    /\ name = [a \in Actor |-> "init"]
    /\ prev = [a \in Actor |-> 0] /\ left = [a \in Actor |-> 0]
    /\ todo = [a \in Actor |-> {}] /\ listed = [a \in Actor |-> {}]
    /\ booted = {} /\ over = FALSE /\ torn = {} /\ leaked = {}
    /\ \E b \in Bounds : used = b.used /\ crashes = b.crashes /\ faults = b.faults

\* The names in a directory.
Name == {"out", "meta", "init", "seg", "stray"} \cup Actor

Goes(a, s) == pc' = [pc EXCEPT ![a] = s]

\* The actor is done: nothing of its work is left.
Done(a) ==
    /\ Goes(a, "idle")
    /\ key' = [key EXCEPT ![a] = None]
    /\ name' = [name EXCEPT ![a] = "init"]
    /\ prev' = [prev EXCEPT ![a] = 0]

Removes(a, k) == pc[a] \in {"list", "unlink"} /\ victim[a] = k

\* Where an actor with a key has no work of its own under way in its directory.
Clear == {"idle", "create", "recreate", "open", "born"}

\* Somebody else is in the middle of removing k, or of writing it.
Contended(a, k) ==
    \E b \in Actor \ {a} : Removes(b, k) \/ (key[b] = k /\ pc[b] \notin Clear)

\* A step of a that changes k's files or books, remembered when it is contended.
Touches(a, k) == torn' = IF Contended(a, k) THEN torn \cup {k} ELSE torn

Unregister(a) == writing' = [k \in Key |-> IF writing[k] = a THEN None ELSE writing[k]]

\* What a failure leaves behind: nothing, or a temp file, of a write that stopped
\* halfway or of a removal that failed.
Debris == IF faults > 0 THEN SUBSET {"stray"} ELSE {{}}

Spends(f) == faults' = IF f = {} THEN faults ELSE faults - 1

\* Of k's directory rest is left, and f beside it.
Leaves(k, rest, f) ==
    /\ disk' = [disk EXCEPT ![k] = rest \cup f]
    /\ leaked' = IF f = {} THEN leaked ELSE leaked \cup {k}
    /\ Spends(f)

\* os.Remove of a directory: only an empty one goes.
Rmdir(k, left_) == dirs' = IF left_ = {} THEN dirs \ {k} ELSE dirs

-----------------------------------------------------------------------------
(* Progressive entries: Begin, and Complete's promote.                     *)

\* Nothing is cached or in flight under k.  MkdirAll; if it fails nothing happens.
Begin(a, k) ==
    /\ pc[a] = "idle" /\ k \in FileKey /\ k \notin index /\ writing[k] = None
    /\ dirs' = dirs \cup {k}
    /\ key' = [key EXCEPT ![a] = k]
    /\ Goes(a, "create")
    /\ UNCHANGED <<mem, disk, name, prev, sweep, past, spent>>

\* The directory is gone again: once more MkdirAll.
Remake(a) ==
    /\ pc[a] = "create" /\ key[a] \notin dirs
    /\ dirs' = dirs \cup {key[a]}
    /\ Goes(a, "recreate")
    /\ UNCHANGED <<mem, disk, write, sweep, past, spent>>

\* The temp file, and the registration under the lock: what may happen in between
\* may as well happen after.
Create(a) ==
    LET k == key[a] IN
    /\ pc[a] \in {"create", "recreate"} /\ k \in dirs /\ writing[k] = None
    /\ writing' = [writing EXCEPT ![k] = a]
    /\ disk' = [disk EXCEPT ![k] = @ \cup {a}]
    /\ Touches(a, k)
    /\ Goes(a, "write")
    /\ UNCHANGED <<index, size, total, pinned, dirs, write, sweep, booted, over, leaked, spent>>

CreateFails(a) ==
    /\ pc[a] \in {"create", "recreate"}
    /\ Rmdir(key[a], disk[key[a]])
    /\ Done(a)
    /\ UNCHANGED <<mem, disk, sweep, past, spent>>

\* Somebody else registered first: the temp file just created goes again.
DuplicateBegin(a, f) ==
    LET k == key[a] IN
    /\ pc[a] \in {"create", "recreate"} /\ k \in dirs /\ writing[k] # None
    /\ Leaves(k, disk[k], f)
    /\ IF f = {} THEN UNCHANGED torn ELSE Touches(a, k)
    /\ Done(a)
    /\ UNCHANGED <<mem, dirs, sweep, booted, over, used, crashes>>

\* The stream fails, degrades or is abandoned, or promote cannot rename its temp
\* file: dropAborted.
Abort(a, f) ==
    LET k == key[a] IN
    /\ pc[a] = "write" /\ (a \in disk[k] \/ f = {})
    /\ Unregister(a)
    /\ Leaves(k, disk[k] \ {a}, f)
    /\ Rmdir(k, (disk[k] \ {a}) \cup f)
    /\ Done(a)
    /\ UNCHANGED <<index, size, total, pinned, sweep, booted, over, torn, used, crashes>>

Published_MetaFirst(a) == (disk[key[a]] \ {a}) \cup {"meta"}

Published(a) == (disk[key[a]] \ {a}) \cup {"out"}

\* promote's first rename.
Publish(a) ==
    LET k == key[a] IN
    /\ pc[a] = "write" /\ a \in disk[k]
    /\ disk' = [disk EXCEPT ![k] = Published(a)]
    /\ Touches(a, k)
    /\ Goes(a, "meta")
    /\ UNCHANGED <<mem, dirs, write, sweep, booted, over, leaked, spent>>

\* ... and its second, of meta.json.
Vouch(a) ==
    LET k == key[a] IN
    /\ pc[a] = "meta" /\ k \in dirs
    /\ disk' = [disk EXCEPT ![k] = @ \cup {"meta"}]
    /\ Touches(a, k)
    /\ Goes(a, "index")
    /\ UNCHANGED <<mem, dirs, write, sweep, booted, over, leaked, spent>>

\* The second one, or the writing of its temp file, fails: the entry is dropped,
\* but its out has left the temp name that dropAborted removes, and the temp file
\* of meta.json may stay.
VouchFails(a, f) ==
    LET k == key[a] IN
    /\ pc[a] = "meta" /\ (k \in dirs \/ f = {})
    /\ Unregister(a)
    /\ disk' = [disk EXCEPT ![k] = @ \cup f]
    /\ Rmdir(k, disk[k] \cup f)
    /\ leaked' = leaked \cup {k}
    /\ Spends(f)
    /\ Done(a)
    /\ UNCHANGED <<index, size, total, pinned, sweep, booted, over, torn, used, crashes>>

\* The last reader of an entry that is being promoted leaves, and the idle
\* timer abandons it: its key is free for a successor.
AbandonLate(a) ==
    /\ pc[a] \in {"meta", "index"} /\ writing[key[a]] = a
    /\ Unregister(a)
    /\ UNCHANGED <<index, size, total, pinned, files, pc, write, sweep, past, spent>>

OverBudget_Before(t) == total > MaxBytes

OverBudget(t) == t > MaxBytes

\* promote's index update, under the lock.
Index(a) ==
    LET k == key[a]
        t == total - size[k] + OutBytes IN
    /\ pc[a] = "index"
    /\ index' = index \cup {k}
    /\ size' = [size EXCEPT ![k] = OutBytes]
    /\ total' = t
    /\ Touches(a, k)
    /\ Goes(a, IF OverBudget(t) THEN "over" ELSE "finish")
    /\ UNCHANGED <<writing, pinned, files, write, sweep, booted, over, leaked, spent>>

Finish(a) ==
    /\ pc[a] = "finish"
    /\ Unregister(a)
    /\ Done(a)
    /\ UNCHANGED <<index, size, total, pinned, files, sweep, past, spent>>

-----------------------------------------------------------------------------
(* Lookup.                                                                 *)

Lookup(a, k) ==
    /\ pc[a] = "idle" /\ k \in FileKey \cap index
    /\ key' = [key EXCEPT ![a] = k]
    /\ Goes(a, "open")
    /\ UNCHANGED <<mem, files, name, prev, sweep, past, spent>>

\* A hit.
OpenOut(a) ==
    /\ pc[a] = "open" /\ "out" \in disk[key[a]]
    /\ Done(a)
    /\ UNCHANGED <<mem, files, sweep, past, spent>>

\* The entry evaporated, or cannot be opened, and is dropped.
OpenFails(a) ==
    /\ pc[a] = "open"
    /\ "out" \notin disk[key[a]] \/ faults > 0
    /\ faults' = IF "out" \notin disk[key[a]] THEN faults ELSE faults - 1
    /\ victim' = [victim EXCEPT ![a] = key[a]]
    /\ key' = [key EXCEPT ![a] = None]
    /\ Goes(a, "drop")
    /\ UNCHANGED <<mem, files, name, prev, todo, left, listed, past, used, crashes>>

-----------------------------------------------------------------------------
(* HLS variants.                                                           *)

\* HLS: a known variant; or its directory.  If MkdirAll fails nothing happens.
Birth(a, k) ==
    /\ pc[a] = "idle" /\ k \in VariantKey
    /\ key' = [key EXCEPT ![a] = k]
    /\ IF k \in index
       THEN Goes(a, "born") /\ UNCHANGED <<dirs, torn>>
       ELSE Goes(a, "describe") /\ dirs' = dirs \cup {k} /\ Touches(a, k)
    /\ UNCHANGED <<mem, disk, name, prev, sweep, booted, over, leaked, spent>>

\* Its meta.json ...
Describe(a) ==
    LET k == key[a] IN
    /\ pc[a] = "describe" /\ k \in dirs
    /\ disk' = [disk EXCEPT ![k] = @ \cup {"meta"}]
    /\ Touches(a, k)
    /\ Goes(a, "register")
    /\ UNCHANGED <<mem, dirs, write, sweep, booted, over, leaked, spent>>

\* ... which fails without the directory, for want of space or for any other
\* reason.  Nothing is cleared up: the directory stays, and its temp file may.
DescribeFails(a, f) ==
    LET k == key[a] IN
    /\ pc[a] = "describe" /\ (k \in dirs \/ f = {})
    /\ disk' = [disk EXCEPT ![k] = @ \cup f]
    /\ leaked' = leaked \cup {k}
    /\ Spends(f)
    /\ Done(a)
    /\ UNCHANGED <<mem, dirs, sweep, booted, over, torn, used, crashes>>

\* An entry of size 0, unless somebody was faster.
Register(a) ==
    LET k == key[a] IN
    /\ pc[a] = "register"
    /\ index' = index \cup {k}
    /\ Touches(a, k)
    /\ booted' = IF k \in index THEN booted ELSE booted \ {k}
    /\ Goes(a, "born")
    /\ UNCHANGED <<size, total, writing, pinned, files, write, sweep, over, leaked, spent>>

\* The request starts a worker, which pins the variant.
Pin(a) ==
    /\ pc[a] = "born" /\ a \notin pinned[key[a]]
    /\ pinned' = [pinned EXCEPT ![key[a]] = @ \cup {a}]
    /\ UNCHANGED <<index, size, total, writing, files, pc, write, sweep, past, spent>>

\* It is served from disk, or the worker exits.
Leave(a) ==
    /\ pc[a] = "born"
    /\ pinned' = [k \in Key |-> pinned[k] \ {a}]
    /\ Done(a)
    /\ UNCHANGED <<index, size, total, writing, files, sweep, past, spent>>

\* WriteFile, of the init segment by a request or a worker and of a segment by a
\* worker: the size of what it replaces first ...
Stat(a, f) ==
    /\ pc[a] = "born" /\ (f = "seg" => a \in pinned[key[a]])
    /\ name' = [name EXCEPT ![a] = f]
    /\ prev' = [prev EXCEPT ![a] = IF f \in disk[key[a]] THEN 1 ELSE 0]
    /\ Touches(a, key[a])
    /\ Goes(a, "rename")
    /\ UNCHANGED <<mem, files, key, sweep, booted, over, leaked, spent>>

\* ... then the rename ...
Rename(a) ==
    LET k == key[a] IN
    /\ pc[a] = "rename" /\ k \in dirs
    /\ disk' = [disk EXCEPT ![k] = @ \cup {name[a]}]
    /\ Touches(a, k)
    /\ Goes(a, "fold")
    /\ UNCHANGED <<mem, dirs, write, sweep, booted, over, leaked, spent>>

\* ... which fails without its directory, or for want of space, and may leave its
\* temp file ...
RenameFails(a, f) ==
    /\ pc[a] = "rename" /\ (key[a] \in dirs \/ f = {})
    /\ disk' = [disk EXCEPT ![key[a]] = @ \cup f]
    /\ pinned' = [k \in Key |-> pinned[k] \ {a}]
    /\ Spends(f)
    /\ Done(a)
    /\ UNCHANGED <<index, size, total, writing, dirs, sweep, past, used, crashes>>

Grown_Whole(a) == 1

Grown(a) == 1 - prev[a]

\* ... and the difference, under the lock.
Fold(a) ==
    LET k == key[a]
        n == IF k \in index THEN Grown(a) ELSE 0 IN
    /\ pc[a] = "fold"
    /\ size' = [size EXCEPT ![k] = @ + n]
    /\ total' = total + n
    /\ Touches(a, k)
    /\ Goes(a, IF OverBudget(total + n) THEN "over" ELSE "born")
    /\ prev' = [prev EXCEPT ![a] = 0]
    /\ name' = [name EXCEPT ![a] = "init"]
    /\ UNCHANGED <<index, writing, pinned, files, key, sweep, booted, over, leaked, spent>>

-----------------------------------------------------------------------------
(* gc and dropIndexed.                                                     *)

\* The janitor's turn, or GC on request.  Left out is the sweep that finds the
\* store within its budget and takes nothing.
Collect(a) ==
    /\ pc[a] = "idle" /\ index # {} /\ (total > MaxBytes \/ Ages)
    /\ Goes(a, "over")
    /\ UNCHANGED <<mem, files, write, sweep, past, spent>>

\* The snapshot: every entry that is not pinned.
Snapshot(a) ==
    /\ pc[a] = "over"
    /\ todo' = [todo EXCEPT ![a] = {<<k, size[k]>> : k \in {x \in index : pinned[x] = {}}}]
    /\ left' = [left EXCEPT ![a] = total]
    /\ over' = FALSE
    /\ Goes(a, "sweep")
    /\ UNCHANGED <<mem, files, write, victim, listed, booted, torn, leaked, spent>>

\* The next victim, for the budget as the sweep counts it or for its age.
Evict(a, v) ==
    /\ pc[a] = "sweep" /\ v \in todo[a]
    /\ OverBudget(left[a]) \/ Ages
    /\ todo' = [todo EXCEPT ![a] = @ \ {v}]
    /\ left' = [left EXCEPT ![a] = @ - v[2]]
    /\ victim' = [victim EXCEPT ![a] = v[1]]
    /\ Goes(a, "drop")
    /\ UNCHANGED <<mem, files, write, listed, past, spent>>

\* What an entry counts for; nothing if somebody dropped it already.
Weight(k) == size[k]

\* dropIndexed's part under the lock.
Drop(a) ==
    LET k == victim[a] IN
    /\ pc[a] = "drop"
    /\ index' = index \ {k}
    /\ total' = total - Weight(k)
    /\ size' = [size EXCEPT ![k] = 0]
    /\ booted' = booted \ {k}
    /\ Touches(a, k)
    /\ Goes(a, IF k \in index THEN "list" ELSE "sweep")
    /\ victim' = [victim EXCEPT ![a] = IF k \in index THEN k ELSE None]
    /\ UNCHANGED <<writing, pinned, files, write, todo, left, listed, over, leaked, spent>>

\* RemoveAll: the names, each of them, and the directory.
List(a) ==
    /\ pc[a] = "list"
    /\ listed' = [listed EXCEPT ![a] = disk[victim[a]]]
    /\ Touches(a, victim[a])
    /\ Goes(a, "unlink")
    /\ UNCHANGED <<mem, files, write, todo, left, victim, booted, over, leaked, spent>>

Unlink(a, f) ==
    LET k == victim[a] IN
    /\ pc[a] = "unlink" /\ f \in listed[a]
    /\ disk' = [disk EXCEPT ![k] = @ \ {f}]
    /\ listed' = [listed EXCEPT ![a] = @ \ {f}]
    /\ Touches(a, k)
    /\ UNCHANGED <<mem, dirs, pc, write, todo, left, victim, booted, over, leaked, spent>>

RemoveEnds(a) ==
    LET k == victim[a] IN
    /\ pc[a] = "unlink" /\ listed[a] = {}
    /\ Rmdir(k, disk[k])
    /\ victim' = [victim EXCEPT ![a] = None]
    /\ torn' = IF Contended(a, k) \/ disk[k] # {} \/ k \in index THEN torn ELSE torn \ {k}
    /\ leaked' = IF disk[k] = {} THEN leaked \ {k} ELSE leaked
    /\ Goes(a, "sweep")
    /\ UNCHANGED <<mem, disk, write, todo, left, listed, booted, over, spent>>

\* RemoveAll gives up, and its error goes nowhere: what it has not unlinked stays.
RemoveFails(a) ==
    /\ pc[a] \in {"list", "unlink"} /\ faults > 0
    /\ faults' = faults - 1
    /\ victim' = [victim EXCEPT ![a] = None]
    /\ listed' = [listed EXCEPT ![a] = {}]
    /\ torn' = torn \cup {victim[a]}
    /\ Goes(a, "sweep")
    /\ UNCHANGED <<mem, files, write, todo, left, booted, over, leaked, used, crashes>>

\* Within the budget, or nothing left to take: back to what called for it.
SweepEnds(a) ==
    /\ pc[a] = "sweep" /\ (todo[a] = {} \/ ~OverBudget(left[a]))
    /\ over' = (over \/ (left[a] > MaxBytes /\ total > MaxBytes))
    /\ todo' = [todo EXCEPT ![a] = {}]
    /\ left' = [left EXCEPT ![a] = 0]
    /\ victim' = [victim EXCEPT ![a] = None]
    /\ Goes(a, IF key[a] \in VariantKey THEN "born" ELSE "finish")
    /\ UNCHANGED <<mem, files, write, listed, booted, torn, leaked, spent>>

-----------------------------------------------------------------------------
(* A crash, and Open's scan.                                               *)

\* The published files of a directory, and the temp files in it: whoever wrote
\* them is gone.
Kept(k) == disk[k] \ (Actor \cup {"stray"})

Temps(k) == IF disk[k] = Kept(k) THEN {} ELSE {"stray"}

\* The keys the scan may list: those with a meta.json.
Scanned == {k \in dirs : "meta" \in disk[k]}

\* The files the scan removes, when it lists the keys of good: their temp files,
\* and all that is in another directory.
Swept(good) ==
    {p \in dirs \X Name : p[2] \in Temps(p[1]) \cup (IF p[1] \in good THEN {} ELSE Kept(p[1]))}

\* What is left of k's directory, when missed could not be removed.
Remains(k, good, missed) ==
    (IF k \in good THEN Kept(k) ELSE {}) \cup {f \in Name : <<k, f>> \in missed}

\* A progressive entry has the size its meta.json says, a variant that of all
\* its files.
ScannedSize(k, left_) == IF k \in FileKey THEN OutBytes ELSE Cardinality(left_)

\* The scan lists the keys of good: a meta.json it cannot read makes an abandoned
\* partial of its directory, and removals may fail.
CrashAndOpen(good, missed) ==
    LET after == [k \in Key |-> Remains(k, good, missed)]
        bytes == [k \in Key |-> IF k \in good THEN ScannedSize(k, after[k]) ELSE 0]
        t     == MapThenSumSet(LAMBDA k : bytes[k], good)
        bad   == {k \in Key : \E f \in Name : <<k, f>> \in missed} IN
    /\ crashes > 0 /\ (faults > 0 \/ (good = Scanned /\ missed = {}))
    /\ crashes' = crashes - 1
    /\ faults' = IF good = Scanned /\ missed = {} THEN faults ELSE faults - 1
    /\ UNCHANGED used
    /\ index' = good
    /\ size' = bytes
    /\ total' = t
    /\ writing' = [k \in Key |-> None]
    /\ pinned' = [k \in Key |-> {}]
    /\ dirs' = good \cup bad
    /\ disk' = after
    /\ pc' = [a \in Actor |-> "idle"]
    /\ key' = [a \in Actor |-> None] /\ victim' = [a \in Actor |-> None]
    /\ name' = [a \in Actor |-> "init"]
    /\ prev' = [a \in Actor |-> 0] /\ left' = [a \in Actor |-> 0]
    /\ todo' = [a \in Actor |-> {}] /\ listed' = [a \in Actor |-> {}]
    /\ booted' = good \cap VariantKey
    /\ over' = (t > MaxBytes)
    /\ torn' = bad \cup {k \in good : k \in torn \/ \E a \in Actor : Removes(a, k)}
    /\ leaked' = {}

-----------------------------------------------------------------------------
Next ==
    \/ \E a \in Actor :
        \/ \E k \in Key \cap used : Begin(a, k) \/ Lookup(a, k) \/ Birth(a, k)
        \/ Remake(a) \/ Create(a) \/ CreateFails(a)
        \/ Publish(a) \/ Vouch(a) \/ AbandonLate(a) \/ Index(a) \/ Finish(a)
        \/ OpenOut(a) \/ OpenFails(a)
        \/ Describe(a) \/ Register(a) \/ Pin(a) \/ Leave(a) \/ Rename(a) \/ Fold(a)
        \/ \E f \in {"init", "seg"} \cap used : Stat(a, f)
        \/ \E f \in Debris :
            DuplicateBegin(a, f) \/ Abort(a, f) \/ VouchFails(a, f) \/ DescribeFails(a, f) \/ RenameFails(a, f)
        \/ Collect(a) \/ Snapshot(a) \/ Drop(a) \/ List(a)
        \/ RemoveEnds(a) \/ RemoveFails(a) \/ SweepEnds(a)
        \/ \E v \in todo[a] : Evict(a, v)
        \/ \E f \in listed[a] : Unlink(a, f)
    \/ \E good \in SUBSET Scanned : \E missed \in SUBSET Swept(good) : CrashAndOpen(good, missed)

Spec == Init /\ [][Next]_vars

-----------------------------------------------------------------------------
Places == {"idle", "create", "recreate", "write", "meta", "index", "finish", "open",
           "describe", "register", "born", "rename", "fold", "over", "sweep", "drop", "list", "unlink"}

TypeOK ==
    /\ index \subseteq Key /\ size \in [Key -> Nat] /\ total \in Nat
    /\ writing \in [Key -> Actor \cup {None}]
    /\ pinned \in [Key -> SUBSET Actor]
    /\ dirs \subseteq Key /\ disk \in [Key -> SUBSET Name]
    /\ pc \in [Actor -> Places]
    /\ key \in [Actor -> Key \cup {None}] /\ victim \in [Actor -> Key \cup {None}]
    /\ prev \in [Actor -> 0 .. 1] /\ left \in [Actor -> Int]
    /\ booted \subseteq VariantKey /\ torn \subseteq Key /\ leaked \subseteq Key

\* Nobody works on k.
Quiet(k) == \A a \in Actor : key[a] # k /\ ~Removes(a, k)

\* totalBytes is what the index adds up to, through promotion over an old
\* entry, growth, eviction and the scan; and a variant nobody works on is
\* counted at what its files weigh (with its meta.json if the scan counted it),
\* whatever writes failed on the way.  Exempt are a variant whose writers
\* overlapped one another or a removal (WriteFile reads the previous size before
\* its rename), one a removal failed on, and one born into a directory that a
\* failed birth had left.
BooksBalance ==
    /\ total = MapThenSumSet(LAMBDA k : size[k], index)
    /\ \A k \in (VariantKey \cap index) \ (torn \cup leaked) : Quiet(k) =>
        size[k] = Cardinality(disk[k] \cap {"init", "seg"}) + (IF k \in booted THEN 1 ELSE 0)

\* A meta.json vouches for its out, at every instant and so for any crash: it
\* is there without it only while the directory is being removed, or after a
\* removal that was interrupted, failed or ran into a writer (promote renames
\* the out first).
MetaVouches ==
    \A k \in FileKey \ torn : "meta" \in disk[k] =>
        "out" \in disk[k] \/ \E a \in Actor : Removes(a, k)

\* What is indexed is on disk, and what is on disk is indexed: nobody at work on
\* a key, its entry has its files, and a key without an entry no file at all.
\* A failure may leave files behind (promote between its renames, HLS at its
\* meta.json, a temp file whose removal failed), but never a meta.json: the
\* next boot takes them for an abandoned partial.  Exempt are the keys of torn:
\* writers and removals met on them, or their removal failed (dropIndexed,
\* dropAborted, HLS, the scan).
IndexMatchesDisk ==
    \A k \in Key \ torn : Quiet(k) =>
        IF k \in index
        THEN "meta" \in disk[k] /\ (k \in FileKey => "out" \in disk[k])
        ELSE disk[k] = {} \/ (k \in leaked /\ "meta" \notin disk[k])

\* The store is over its budget only while a sweep is due or under way, or
\* after one that had to spare what was pinned, or since a boot found it so:
\* concurrent promotions, writes and sweeps never leave an overrun nobody
\* attends to (the over test under the lock of every addition).
OverrunIsAttended ==
    total > MaxBytes => over \/ \E a \in Actor : pc[a] \in {"over", "sweep", "drop", "list", "unlink"}

\* Index and disk vouch for each other, at any moment a crash may choose and
\* once everybody is done with a key (promote, WriteFile, dropIndexed, scan).
DiskIsVouchedFor == TypeOK /\ MetaVouches /\ IndexMatchesDisk
=============================================================================
