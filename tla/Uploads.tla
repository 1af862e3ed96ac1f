------------------------------ MODULE Uploads ------------------------------
(***************************************************************************)
(* The upload spool (internal/uploads/uploads.go): Put with its two        *)
(* renames and its two checks of the aggregate cap, Delete, the TTL        *)
(* sweep, a crash at any point, and the boot scan.                         *)
(*                                                                         *)
(* An upload is named by its fresh id, and its bytes are counted.  A temp  *)
(* file is what a Put in progress holds; a crash leaves it to the scan.    *)
(* Left out is the temp file of the sidecar, which the scan removes like   *)
(* the payload's.  Renames and removals are atomic, and any may fail.  No  *)
(* name is one of the cache store's, so that one module can reason about   *)
(* both stores.                                                            *)
(***************************************************************************)
EXTENDS Integers, FiniteSets, FiniteSetsExt

CONSTANTS
    Upload,     \* upload ids
    MaxUpload,  \* the cap of one upload
    MaxTotal,   \* the cap of the spool
    MaxReboot   \* bound: crashes

ASSUME UploadsAssumption ==
    /\ IsFiniteSet(Upload)
    /\ MaxUpload \in Nat /\ MaxTotal \in Nat /\ MaxReboot \in Nat

VARIABLES
    up,         \* the process runs
    items,      \* s.items
    totalBytes, \* s.totalBytes
    tmp,        \* <id>.tmp on disk
    payload,    \* <id> on disk
    sidecar,    \* <id>.json on disk
    bytes,      \* the bytes copied to each upload's file
    phase,      \* where the operation on each upload is: "none", "copy",
                \* "sidecar", "register", "item" (no operation), "payload" and
                \* "pair" (removing the one, then the other), "over"
    told,       \* what the last operation on it answered: "none", "accepted",
                \* "gone" (refused, failed, deleted or expired)
    stuck,      \* uploads a removal of which failed (a history variable)
    unread,     \* whole pairs a boot could not read, and gave up (a history
                \* variable)
    reboots

spoolFiles == <<tmp, payload, sidecar>>
uploadsVars == <<up, items, totalBytes, spoolFiles, bytes, phase, told, stuck, unread, reboots>>

UploadsInit ==
    /\ up = TRUE /\ totalBytes = 0 /\ reboots = 0
    /\ items = {} /\ tmp = {} /\ payload = {} /\ sidecar = {} /\ stuck = {} /\ unread = {}
    /\ bytes = [u \in Upload |-> 0]
    /\ phase = [u \in Upload |-> "none"]
    /\ told = [u \in Upload |-> "none"]

-----------------------------------------------------------------------------
(* Put.                                                                    *)

Put(u) ==
    /\ up /\ phase[u] = "none"
    /\ tmp' = tmp \cup {u}
    /\ phase' = [phase EXCEPT ![u] = "copy"]
    /\ UNCHANGED <<up, items, totalBytes, payload, sidecar, bytes, told, stuck, unread, reboots>>

\* spool's checks of one more byte: its own cap, and the spool's as it is now.
Fits(u) == bytes[u] + 1 <= MaxUpload /\ totalBytes + bytes[u] + 1 <= MaxTotal

Spool(u) ==
    /\ up /\ phase[u] = "copy" /\ Fits(u)
    /\ bytes' = [bytes EXCEPT ![u] = @ + 1]
    /\ UNCHANGED <<up, items, totalBytes, spoolFiles, phase, told, stuck, unread, reboots>>

\* Too large, or the body, the disk or the first rename fails: the temp file
\* goes, if it will, and the request is refused.
SpoolFails(u, ok) ==
    /\ up /\ phase[u] = "copy"
    /\ tmp' = IF ok THEN tmp \ {u} ELSE tmp
    /\ stuck' = IF ok THEN stuck ELSE stuck \cup {u}
    /\ phase' = [phase EXCEPT ![u] = "over"]
    /\ told' = [told EXCEPT ![u] = "gone"]
    /\ UNCHANGED <<up, items, totalBytes, payload, sidecar, bytes, unread, reboots>>

\* The body has ended: synced, closed, renamed to its final name.
PublishPayload(u) ==
    /\ up /\ phase[u] = "copy"
    /\ tmp' = tmp \ {u}
    /\ payload' = payload \cup {u}
    /\ phase' = [phase EXCEPT ![u] = "sidecar"]
    /\ UNCHANGED <<up, items, totalBytes, sidecar, bytes, told, stuck, unread, reboots>>

WriteSidecar(u) ==
    /\ up /\ phase[u] = "sidecar"
    /\ sidecar' = sidecar \cup {u}
    /\ phase' = [phase EXCEPT ![u] = "register"]
    /\ UNCHANGED <<up, items, totalBytes, tmp, payload, bytes, told, stuck, unread, reboots>>

Unpublish_Kept(u) == payload

Unpublish(u) == payload \ {u}

\* The sidecar cannot be written: the payload goes, if it will.
SidecarFails(u, ok) ==
    /\ up /\ phase[u] = "sidecar"
    /\ payload' = IF ok THEN Unpublish(u) ELSE payload
    /\ stuck' = IF ok THEN stuck ELSE stuck \cup {u}
    /\ phase' = [phase EXCEPT ![u] = "over"]
    /\ told' = [told EXCEPT ![u] = "gone"]
    /\ UNCHANGED <<up, items, totalBytes, tmp, sidecar, bytes, unread, reboots>>

SpoolFull_Unchecked(u) == FALSE

\* The authoritative gate, under the lock that guards totalBytes.
SpoolFull(u) == totalBytes + bytes[u] > MaxTotal

RegisterUpload(u) ==
    /\ up /\ phase[u] = "register" /\ ~SpoolFull(u)
    /\ items' = items \cup {u}
    /\ totalBytes' = totalBytes + bytes[u]
    /\ phase' = [phase EXCEPT ![u] = "item"]
    /\ told' = [told EXCEPT ![u] = "accepted"]
    /\ UNCHANGED <<up, spoolFiles, bytes, stuck, unread, reboots>>

Refuse(u) ==
    /\ up /\ phase[u] = "register" /\ SpoolFull(u)
    /\ phase' = [phase EXCEPT ![u] = "payload"]
    /\ UNCHANGED <<up, items, totalBytes, spoolFiles, bytes, told, stuck, unread, reboots>>

-----------------------------------------------------------------------------
(* Delete, the TTL sweep and the removal of a pair.                        *)

BytesOf(U) == MapThenSumSet(LAMBDA u : bytes[u], U)

Unlisted(U) == totalBytes - BytesOf(U)

\* Under the lock, the uploads of U leave the index: the one a Delete names, or
\* every one a sweep finds too old.
Unlist(U) ==
    /\ up /\ U # {} /\ U \subseteq items
    /\ items' = items \ U
    /\ totalBytes' = Unlisted(U)
    /\ phase' = [u \in Upload |-> IF u \in U THEN "payload" ELSE phase[u]]
    /\ told' = [u \in Upload |-> IF u \in U THEN "none" ELSE told[u]]
    /\ UNCHANGED <<up, spoolFiles, bytes, stuck, unread, reboots>>

Remove(u) == payload \ {u}

\* The payload is the first to go, then its sidecar; either may fail.
RemovePayload(u, ok) ==
    /\ up /\ phase[u] = "payload"
    /\ payload' = IF ok THEN Remove(u) ELSE payload
    /\ stuck' = IF ok THEN stuck ELSE stuck \cup {u}
    /\ phase' = [phase EXCEPT ![u] = "pair"]
    /\ UNCHANGED <<up, items, totalBytes, tmp, sidecar, bytes, told, unread, reboots>>

RemoveSidecar(u, ok) ==
    /\ up /\ phase[u] = "pair"
    /\ sidecar' = IF ok THEN sidecar \ {u} ELSE sidecar
    /\ stuck' = IF ok THEN stuck ELSE stuck \cup {u}
    /\ phase' = [phase EXCEPT ![u] = "over"]
    /\ told' = [told EXCEPT ![u] = "gone"]
    /\ UNCHANGED <<up, items, totalBytes, tmp, payload, bytes, unread, reboots>>

-----------------------------------------------------------------------------
(* A crash, and the scan at the next boot.                                 *)

\* The memory goes, and every operation with it, unanswered if not answered.
Crash ==
    /\ up /\ reboots < MaxReboot
    /\ up' = FALSE /\ reboots' = reboots + 1
    /\ items' = {} /\ totalBytes' = 0
    /\ phase' = [u \in Upload |-> IF phase[u] = "none" THEN "none" ELSE "over"]
    /\ UNCHANGED <<spoolFiles, bytes, told, stuck, unread>>

Adopted_AnyPayload(bad) == payload \ bad

\* A complete pair is an upload, unless its payload cannot be stat'ed or its
\* sidecar read; every other file is debris.
Adopted(bad) == (payload \cap sidecar) \ bad

\* Of the debris t, p and s stay: their removals fail.
Scan(bad, t, p, s) ==
    /\ ~up
    /\ up' = TRUE
    /\ items' = Adopted(bad)
    /\ totalBytes' = BytesOf(Adopted(bad))
    /\ tmp' = t
    /\ payload' = Adopted(bad) \cup p
    /\ sidecar' = (sidecar \cap Adopted(bad)) \cup s
    /\ phase' = [u \in Upload |-> IF u \in Adopted(bad) THEN "item" ELSE phase[u]]
    /\ stuck' = stuck \cup t \cup p \cup s
    /\ unread' = unread \cup bad
    /\ UNCHANGED <<bytes, told, reboots>>

-----------------------------------------------------------------------------
UploadsNext ==
    \/ \E u \in Upload :
        \/ Put(u) \/ Spool(u) \/ PublishPayload(u) \/ WriteSidecar(u)
        \/ RegisterUpload(u) \/ Refuse(u)
        \/ (\E ok \in BOOLEAN : SpoolFails(u, ok) \/ SidecarFails(u, ok) \/ RemovePayload(u, ok) \/ RemoveSidecar(u, ok))
    \/ \E U \in SUBSET Upload : Unlist(U)
    \/ Crash
    \/ \E bad \in SUBSET (payload \cap sidecar), t \in SUBSET tmp :
        \E p \in SUBSET (payload \ Adopted(bad)), s \in SUBSET (sidecar \ Adopted(bad)) : Scan(bad, t, p, s)

UploadsSpec == UploadsInit /\ [][UploadsNext]_uploadsVars

-----------------------------------------------------------------------------
Phases == {"none", "copy", "sidecar", "register", "item", "payload", "pair", "over"}

UploadsTypeOK ==
    /\ up \in BOOLEAN /\ reboots \in Nat
    /\ items \subseteq Upload /\ stuck \subseteq Upload /\ unread \subseteq Upload
    /\ tmp \subseteq Upload /\ payload \subseteq Upload /\ sidecar \subseteq Upload
    /\ bytes \in [Upload -> 0 .. MaxUpload]
    /\ phase \in [Upload -> Phases]
    /\ told \in [Upload -> {"none", "accepted", "gone"}]

\* What is listed is on disk: an upload in the index has its payload and its
\* sidecar, whatever Put, Delete, sweep or crash is under way (the files are
\* published before the entry and removed after it).
ListedIsWhole == \A u \in items : u \in payload /\ u \in sidecar

\* totalBytes is the sum of the listed uploads, before and after a restart
\* (Register, Unlist, Scan).
UploadsBalance == totalBytes = BytesOf(items)

\* No file escapes: while the process runs, a file on disk is a listed upload's,
\* an operation's in progress, or one a removal failed on (the error paths of
\* Put and the order of removeFiles; the scan after a crash).
NoDebris ==
    up => \A u \in tmp \cup payload \cup sidecar :
              u \in items \cup stuck \/ phase[u] \in Phases \ {"none", "item", "over"}

\* An accepted upload stays until it is removed: a crash right after the answer
\* loses neither half of it, and a running store lists it.  A boot that cannot
\* read one gives it up.
AcceptedSurvives ==
    \A u \in Upload \ unread : told[u] = "accepted" =>
        u \in payload \cap sidecar /\ (up => u \in items)

\* What was refused or removed, with every removal done, never comes back: no
\* crash and no scan resurrects an upload whose client was told it is gone
\* (the answer follows the removal, and the payload is removed).
GoneStaysGone ==
    \A u \in Upload \ stuck : told[u] = "gone" => u \notin items \cup payload \cup sidecar

\* A listed upload is whole and an accepted one stays, over every crash (Put's
\* order of renames, entry and answer; scan).
WholeUploads == ListedIsWhole /\ AcceptedSurvives

\* No file outlives its upload and no upload its removal (Put's error paths,
\* Delete, removeFiles, scan).
NothingEscapes == NoDebris /\ GoneStaysGone

\* Every step leaves the spool's byte count that of what it lists, and only a
\* boot may find it over its cap: no step of a running store, in whatever order
\* concurrent Puts copied past each other, takes it there (the gate and the
\* count under the lock of every register and unlist).
SpoolIsCounted == [][UploadsBalance' /\ (up /\ totalBytes' > totalBytes => totalBytes' <= MaxTotal)]_uploadsVars
=============================================================================
