--------------------------- MODULE TimelineStore ---------------------------
(***************************************************************************)
(* The timeline store (internal/timeline/store.go): Put, Members, Touch,   *)
(* the expiry sweep GC, the least-recently-used cap, a crash, and Open.    *)
(*                                                                         *)
(* A timeline is its digest, and a document on disk the expiry it carries: *)
(* members and bytes are a function of the digest.  Every expiry and the   *)
(* clock are small integers; of the use stamps only their order matters.   *)
(* A Put is one step, as it is under the lock; Members, Touch and GC touch *)
(* the disk outside it.                                                    *)
(***************************************************************************)
EXTENDS Naturals, FiniteSets

CONSTANTS
    Digest,    \* the timelines
    NoDigest,
    Client,    \* the requests in progress
    MaxEntries,
    MaxTime,   \* bound: the clock, and the latest expiry
    MaxCrash,  \* bound: crashes
    MaxFault   \* bound: failures that set the index and the disk at odds

ASSUME TimelineAssumption ==
    /\ IsFiniteSet(Digest) /\ NoDigest \notin Digest
    /\ MaxEntries \in Nat \ {0} /\ MaxTime \in Nat \ {0} /\ MaxCrash \in Nat /\ MaxFault \in Nat

VARIABLES
    now,       \* the clock
    up,        \* the process runs
    expires,   \* each indexed timeline's expiry, 0 for one not in s.entries
    older,     \* the pairs of indexed timelines the first of which was used
               \* before the second (entry.used)
    file,      \* the expiry each document on disk carries, 0 for no document
    pc,        \* each client: "idle", "load", "drop", "reload", "extend"
    on,        \* the timeline it is about
    exp,       \* the expiry it extends to
    sweep,     \* the timelines GC has unlisted and not removed
    minted,    \* the latest expiry a Put answered for, since the timeline was
               \* last taken by one of the four below (a history variable)
    last,      \* the timeline used last since boot (a history variable)
    evicted,   \* timelines the cap took since they were last stored
    raced,     \* timelines stored while a removal of them was under way
    unread,    \* timelines a request could not load though their document is there
    lost,      \* timelines a boot could not load, and dropped
    boot,      \* Open listed more than the cap, and no Put converged since
    crashes, faults

index == <<expires, older>>
asks  == <<pc, on, exp>>
past  == <<minted, last, evicted, raced, unread, lost>>
spent == <<crashes, faults>>
vars  == <<now, up, index, file, asks, sweep, past, boot, spent>>

Time == 1 .. MaxTime

Indexed == {d \in Digest : expires[d] # 0}

Init ==
    /\ now = 0 /\ up = TRUE /\ boot = FALSE /\ crashes = 0 /\ faults = 0
    /\ expires = [d \in Digest |-> 0] /\ file = [d \in Digest |-> 0]
    /\ older = {}
    /\ pc = [c \in Client |-> "idle"]
    /\ on = [c \in Client |-> NoDigest] /\ exp = [c \in Client |-> 0]
    /\ sweep = {}
    /\ minted = [d \in Digest |-> 0]
    /\ last = NoDigest /\ evicted = {} /\ raced = {} /\ unread = {} /\ lost = {}

\* A step that fails if p, as far as the bound allows.
Fails(p) == faults' = (IF p THEN faults + 1 ELSE faults) /\ faults' <= MaxFault

\* The order s without the timelines of D.
Without(s, D) == {p \in s : p[1] \notin D /\ p[2] \notin D}

Marked_NotMoved(s, U, d) == IF d \in U THEN s ELSE s \cup (U \X {d})

\* markLocked: d becomes the most recently used of the indexed U.
Marked(s, U, d) == Without(s, {d}) \cup ((U \ {d}) \X {d})

\* s orders U: no two stamps are equal.
IsOrder(s, U) ==
    /\ s \subseteq U \X U
    /\ \A x \in U : <<x, x>> \notin s
    /\ \A x, y \in U : x # y => <<x, y>> \in s \/ <<y, x>> \in s
    /\ \A x, y, z \in U : <<x, y>> \in s /\ <<y, z>> \in s => <<x, z>> \in s

-----------------------------------------------------------------------------
(* Put.                                                                    *)

\* How many the eviction loop takes before a new entry goes in.
Excess == IF Cardinality(Indexed) >= MaxEntries THEN Cardinality(Indexed) - MaxEntries + 1 ELSE 0

Before(d) == {x \in Indexed : <<x, d>> \in older}

\* evictOldestLocked, that many times.
Victims == {d \in Indexed : Cardinality(Before(d)) < Excess}

\* Held already, and outliving the URL.
Held(d, e) == expires[d] # 0 /\ e <= expires[d]

\* Somebody is about to remove d, or to unlist it.
UnderRemoval(d) == d \in sweep \/ \E c \in Client : pc[c] = "drop" /\ on[c] = d

\* A Put promises more than the ones before it, or it is the first since the
\* timeline was taken.
Mint(d, e) ==
    /\ minted' = [minted EXCEPT ![d] =
                    IF e > @ \/ d \in evicted \cup raced \cup unread \cup lost THEN e ELSE @]
    /\ last' = d

\* d is on disk again.
Stored(d) ==
    /\ raced' = IF UnderRemoval(d) THEN raced \cup {d} ELSE raced \ {d}
    /\ unread' = unread \ {d}
    /\ lost' = lost \ {d}

\* Nothing to write.
PutHeld(d, e) ==
    /\ Held(d, e)
    /\ older' = Marked(older, Indexed, d)
    /\ Mint(d, e)
    /\ UNCHANGED <<expires, file, evicted, raced, unread, lost, boot, faults>>

Rewritten_Not(d, e) == file

\* writeLocked over the document.
Rewritten(d, e) == [file EXCEPT ![d] = e]

\* An entry is known: its document is rewritten to live longer.
PutExtends(d, e) ==
    /\ expires[d] # 0 /\ ~Held(d, e)
    /\ file' = Rewritten(d, e)
    /\ expires' = [expires EXCEPT ![d] = e]
    /\ older' = Marked(older, Indexed, d)
    /\ Mint(d, e)
    /\ Stored(d)
    /\ UNCHANGED <<evicted, boot, faults>>

\* A new entry: written first, and then room is made for it.  A removal may
\* fail (left is what stays on disk).
PutNew(d, e, left) ==
    /\ expires[d] = 0 /\ left \subseteq Victims
    /\ file' = [x \in Digest |->
                    IF x = d THEN e ELSE IF x \in Victims \ left THEN 0 ELSE file[x]]
    /\ expires' = [x \in Digest |->
                    IF x = d THEN e ELSE IF x \in Victims THEN 0 ELSE expires[x]]
    /\ older' = Marked(Without(older, Victims), Indexed \ Victims, d)
    /\ Mint(d, e)
    /\ evicted' = (evicted \cup Victims) \ {d}
    /\ Stored(d)
    /\ Fails(left # {})
    /\ boot' = FALSE

PutStep(d, e) == PutHeld(d, e) \/ PutExtends(d, e) \/ \E left \in SUBSET Victims : PutNew(d, e, left)

Put(d, e) ==
    /\ up /\ e > now
    /\ PutStep(d, e)
    /\ UNCHANGED <<now, up, asks, sweep, crashes>>

-----------------------------------------------------------------------------
(* Members and Touch.                                                      *)

Becomes(c, s) == pc' = [pc EXCEPT ![c] = s]

Finishes(c) ==
    /\ Becomes(c, "idle")
    /\ on' = [on EXCEPT ![c] = NoDigest]
    /\ exp' = [exp EXCEPT ![c] = 0]

\* Members: an unknown digest is the re-mint answer, and nothing changes.
Members(c, d) ==
    /\ up /\ pc[c] = "idle" /\ expires[d] # 0
    /\ older' = Marked(older, Indexed, d)
    /\ last' = d
    /\ Becomes(c, "load")
    /\ on' = [on EXCEPT ![c] = d]
    /\ UNCHANGED <<now, up, expires, file, exp, sweep, minted, evicted, raced, unread, lost, boot, spent>>

Load(c) ==
    /\ pc[c] = "load" /\ file[on[c]] # 0
    /\ Finishes(c)
    /\ UNCHANGED <<now, up, index, file, sweep, past, boot, spent>>

\* There is no document, or it cannot be opened, read, decoded or verified.
LoadFails(c) ==
    LET d == on[c] IN
    /\ pc[c] = "load"
    /\ unread' = IF file[d] # 0 THEN unread \cup {d} ELSE unread
    /\ Becomes(c, "drop")
    /\ Fails(file[d] # 0)
    /\ UNCHANGED <<now, up, index, file, on, exp, sweep, minted, last, evicted, raced, lost, boot, crashes>>

\* The index says it is held and the disk disagrees: whatever entry is there now
\* goes, the one of a Put since the load too.
Drop(c) ==
    LET d == on[c] IN
    /\ pc[c] = "drop"
    /\ expires' = [expires EXCEPT ![d] = 0]
    /\ older' = Without(older, {d})
    /\ Finishes(c)
    /\ UNCHANGED <<now, up, file, sweep, past, boot, spent>>

\* Touch: a use, and an extension when the URL outlives what is stored.
Touch(c, d, e) ==
    /\ up /\ pc[c] = "idle" /\ expires[d] # 0 /\ e > now
    /\ older' = Marked(older, Indexed, d)
    /\ last' = d
    /\ IF e > expires[d]
       THEN /\ Becomes(c, "reload")
            /\ on' = [on EXCEPT ![c] = d] /\ exp' = [exp EXCEPT ![c] = e]
       ELSE UNCHANGED asks
    /\ UNCHANGED <<now, up, expires, file, sweep, minted, evicted, raced, unread, lost, boot, spent>>

\* The document is read back outside the lock.
Reload(c) ==
    /\ pc[c] = "reload" /\ file[on[c]] # 0
    /\ Becomes(c, "extend")
    /\ UNCHANGED <<now, up, index, file, on, exp, sweep, past, boot, spent>>

Extend(c) ==
    /\ pc[c] = "extend"
    /\ PutStep(on[c], exp[c])
    /\ Finishes(c)
    /\ UNCHANGED <<now, up, sweep, crashes>>

\* That, or the write of the extension, fails: the request goes on.
ExtendFails(c) ==
    /\ pc[c] \in {"reload", "extend"}
    /\ Finishes(c)
    /\ UNCHANGED <<now, up, index, file, sweep, past, boot, spent>>

-----------------------------------------------------------------------------
(* GC, time, crash and Open.                                               *)

Dead == {d \in Indexed : expires[d] <= now}

\* Under the lock the dead leave the index ...
Sweep ==
    /\ up /\ sweep = {} /\ Dead # {}
    /\ sweep' = Dead
    /\ expires' = [d \in Digest |-> IF d \in Dead THEN 0 ELSE expires[d]]
    /\ older' = Without(older, Dead)
    /\ UNCHANGED <<now, up, file, asks, past, boot, spent>>

\* ... and after it their files the disk, unless a removal fails.
Unlink(d, ok) ==
    /\ d \in sweep
    /\ file' = [file EXCEPT ![d] = IF ok THEN 0 ELSE @]
    /\ sweep' = sweep \ {d}
    /\ Fails(~ok)
    /\ UNCHANGED <<now, up, index, asks, past, boot, crashes>>

Tick ==
    /\ now < MaxTime
    /\ now' = now + 1
    /\ UNCHANGED <<up, index, file, asks, sweep, past, boot, spent>>

Crash ==
    /\ up /\ crashes < MaxCrash
    /\ up' = FALSE /\ crashes' = crashes + 1
    /\ expires' = [d \in Digest |-> 0] /\ older' = {}
    /\ pc' = [c \in Client |-> "idle"]
    /\ on' = [c \in Client |-> NoDigest] /\ exp' = [c \in Client |-> 0]
    /\ sweep' = {}
    /\ last' = NoDigest /\ boot' = FALSE
    /\ UNCHANGED <<now, file, minted, evicted, raced, unread, lost, faults>>

Documents == {d \in Digest : file[d] # 0}

\* What the scan lists, when it cannot load those of bad: every other document
\* that has not expired.
Loaded(bad) == {d \in Digest \ bad : file[d] > now}

\* Open stamps them in the directory's order and removes the others, of which
\* those of left stay, but enforces no cap.
Open(bad, left) ==
    LET U == Loaded(bad) IN
    /\ ~up
    /\ \E s \in SUBSET (U \X U) : IsOrder(s, U) /\ older' = s
    /\ up' = TRUE
    /\ expires' = [d \in Digest |-> IF d \in U THEN file[d] ELSE 0]
    /\ file' = [d \in Digest |-> IF d \in U \cup left THEN file[d] ELSE 0]
    /\ boot' = (Cardinality(U) > MaxEntries)
    /\ unread' = unread \ U
    /\ lost' = lost \cup bad
    /\ Fails(bad \cup left # {})
    /\ UNCHANGED <<now, asks, sweep, minted, last, evicted, raced, crashes>>

-----------------------------------------------------------------------------
Next ==
    \/ \E d \in Digest, e \in Time : Put(d, e)
    \/ \E c \in Client :
        \/ Load(c) \/ LoadFails(c) \/ Drop(c) \/ Reload(c) \/ Extend(c) \/ ExtendFails(c)
        \/ \E d \in Digest : Members(c, d) \/ \E e \in Time : Touch(c, d, e)
    \/ Sweep \/ \E d \in Digest, ok \in BOOLEAN : Unlink(d, ok)
    \/ Tick \/ Crash
    \/ \E bad \in SUBSET Documents : \E left \in SUBSET (Documents \ Loaded(bad)) : Open(bad, left)

Spec == Init /\ [][Next]_vars

-----------------------------------------------------------------------------
TypeOK ==
    /\ now \in 0 .. MaxTime /\ up \in BOOLEAN /\ boot \in BOOLEAN
    /\ crashes \in 0 .. MaxCrash /\ faults \in 0 .. MaxFault
    /\ expires \in [Digest -> 0 .. MaxTime] /\ file \in [Digest -> 0 .. MaxTime]
    /\ pc \in [Client -> {"idle", "load", "drop", "reload", "extend"}]
    /\ on \in [Client -> Digest \cup {NoDigest}] /\ exp \in [Client -> 0 .. MaxTime]
    /\ minted \in [Digest -> 0 .. MaxTime]
    /\ sweep \subseteq Digest /\ raced \subseteq Digest /\ unread \subseteq Digest /\ lost \subseteq Digest

\* No signed URL that still verifies outlives its timeline: what a Put answered
\* for is on disk until it expires, through extension, sweep, crash and boot,
\* and listed while the process runs.  Four things may still take it: the cap;
\* a removal that was under way when the timeline was stored again (GC removes
\* files after it has let go of the lock; Members unlists after a failed load);
\* a boot that cannot load the document, and removes it; and, from the index
\* alone, a request that cannot: until the next boot, or the next Put, which
\* then answers for its own URL only.
UrlOutlived ==
    \A d \in Digest \ (evicted \cup raced \cup lost) :
        minted[d] > now => /\ file[d] >= minted[d]
                           /\ up /\ d \notin unread => expires[d] >= minted[d]

\* The document on disk carries the expiry the index goes by, so a restart
\* neither shortens nor lengthens a timeline's life (writeLocked with every
\* change of an entry's expiry; the same exception).
DiskMatchesIndex ==
    \A d \in Indexed \ raced : file[d] = expires[d]

\* The order of use is one of the indexed timelines (markLocked, and every
\* removal of an entry).
OrderMatchesIndex == IsOrder(older, Indexed)

\* The store is over its cap only between a boot that found it so and the first
\* Put of a new timeline (the eviction loop).
CapConverges == Cardinality(Indexed) > MaxEntries => boot

\* A timeline outlives its URLs and its document says when it ends (Put, Touch,
\* GC, Open).
TimelinesOutlive == TypeOK /\ UrlOutlived /\ DiskMatchesIndex

\* Every step leaves the order of use that of the index and the store within
\* its cap, but for what a boot found, and the cap never takes the timeline that
\* was used last: a session that keeps fetching keeps its timeline, however many
\* are stored or how full the boot found the store (markLocked on every use,
\* reads included; eviction in the order of use; a cap of at least two).
CapIsFair ==
    [][/\ OrderMatchesIndex' /\ CapConverges'
       /\ (MaxEntries > 1 /\ last \in evicted' => last \in evicted)]_vars
=============================================================================
