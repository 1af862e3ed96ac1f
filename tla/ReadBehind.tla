----------------------------- MODULE ReadBehind -----------------------------
(***************************************************************************)
(* What the transcode cache promises the readers of a stream, whatever     *)
(* carries the bytes (a growing temp file, a ring, or one after the        *)
(* other): the stream grows and then ends once; a reader that attached     *)
(* takes it in order from the first byte, is told of the end only when it  *)
(* has taken every byte, and can only lose the rest by being closed or by  *)
(* a disk error of its own.                                                *)
(***************************************************************************)
EXTENDS Integers

CONSTANT Reader

VARIABLES
    avail,   \* bytes published so far
    ending,  \* "open", "complete" or "failed"
    cur,     \* bytes each reader has taken, -1 before it attaches
    told     \* how each reader's stream ended, "none" while it has not

abstractVars == <<avail, ending, cur, told>>

Start ==
    /\ avail = 0
    /\ ending = "open"
    /\ cur = [r \in Reader |-> -1]
    /\ told = [r \in Reader |-> "none"]

\* Bytes may arrive together with the end: the last write of a failing run.
Grow ==
    /\ ending = "open"
    /\ avail' \in Nat /\ avail' >= avail
    /\ ending' \in {"open", "complete", "failed"}
    /\ UNCHANGED <<cur, told>>

Attach(r) ==
    /\ cur[r] = -1
    /\ cur' = [cur EXCEPT ![r] = 0]
    /\ UNCHANGED <<avail, ending, told>>

Take(r) ==
    /\ cur[r] >= 0 /\ told[r] = "none"
    /\ \E n \in (cur[r] + 1)..avail : cur' = [cur EXCEPT ![r] = n]
    /\ UNCHANGED <<avail, ending, told>>

Finish(r) ==
    /\ cur[r] >= 0 /\ told[r] = "none"
    /\ \E how \in {"eof", "err", "ioerr", "closed"} :
          /\ told' = [told EXCEPT ![r] = how]
          /\ how = "eof" => ending = "complete" /\ cur[r] = avail
          /\ how = "err" => ending = "failed" /\ cur[r] = avail
    /\ UNCHANGED <<avail, ending, cur>>

Step == Grow \/ \E r \in Reader : Attach(r) \/ Take(r) \/ Finish(r)

ReadBehindSpec == Start /\ [][Step]_abstractVars
=============================================================================
