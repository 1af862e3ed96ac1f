------------------------------ MODULE JobRunner ------------------------------
(***************************************************************************)
(* The asynchronous job runner (internal/jobs): the store with its index   *)
(* in memory and one job.json per job on disk, the worker pool with its    *)
(* one-token wakeup channel, cancellation, the retry of jobs whose source  *)
(* is away, the fan-out to subscribers, shutdown, crash and restart.       *)
(*                                                                         *)
(* An action is what one goroutine does under store.mu or Runner.mu, or    *)
(* between two of those.  What a job computes is left out: a run writes    *)
(* its output and ends well, badly, or finding its source away.            *)
(***************************************************************************)
EXTENDS Integers, Sequences, FiniteSets

CONSTANTS
    Jobs,        \* bound: jobs created, numbered in the order of their ids
    Worker,      \* the worker goroutines (Config.Slots)
    NoWorker,    \* no cancel func is registered
    Sub,         \* subscribers, one subscription each
    ChanCap,     \* capacity of a subscriber's channel
    MaxWaits,    \* bound: how often a job finds its source away
    MaxRestarts  \* bound: restarts of the daemon

ASSUME JobsAssumption ==
    /\ Jobs \in Nat /\ MaxWaits \in Nat /\ MaxRestarts \in Nat
    /\ ChanCap \in Nat /\ ChanCap >= 2
    /\ NoWorker \notin Worker

Job      == 1 .. Jobs
NoJob    == 0

JobState == {"none", "queued", "running", "done", "failed"}
\* A boot does not tell a queued record from a running one.
Saved    == {"none", "live", "done", "failed"}
SavedAs(st) == IF st \in {"queued", "running"} THEN "live" ELSE st

Snapshot == {"queued", "running", "done", "failed", "canceled"}
Terminal == {"done", "failed", "canceled"}

VARIABLES
    \* the store
    job,        \* state in the index, "none" before creation and after removal
    disk,       \* what job.json says, "none" without the directory
    output,     \* the job's directory holds output files
    waits,      \* waits[j].count
    hold,       \* the wait (its number) that holds j back from claims, 0 for none
    \* the runner
    token,      \* the wake channel holds its token
    kicks,      \* creations whose kick is still to come
    timers,     \* pending retry timers <<j, wait number>>
    cancels,    \* whose cancel func is registered for the job
    canceled,   \* workers whose run's context is cancelled
    closing,    \* Runner.Close was called
    restarts,
    \* each worker
    wpc, wjob, wres,
    wwait,      \* the number of the wait its job began
    \* each job's Delete
    dpc,
    \* each subscriber
    spc, sjob, chan, closed, last

storeVars  == <<job, disk, output, waits, hold>>
runnerVars == <<token, kicks, timers, cancels, canceled, closing, restarts>>
workerVars == <<wpc, wjob, wres, wwait>>
subVars    == <<spc, sjob, chan, closed, last>>
vars == <<storeVars, runnerVars, workerVars, dpc, subVars>>

Init ==
    /\ job = [j \in Job |-> "none"]
    /\ disk = [j \in Job |-> "none"]
    /\ output = [j \in Job |-> FALSE]
    /\ waits = [j \in Job |-> 0]
    /\ hold = [j \in Job |-> 0]
    /\ token = FALSE /\ kicks = {} /\ timers = {}
    /\ cancels = [j \in Job |-> NoWorker]
    /\ canceled = {} /\ closing = FALSE /\ restarts = 0
    /\ wpc = [w \in Worker |-> "claim"]
    /\ wjob = [w \in Worker |-> NoJob]
    /\ wres = [w \in Worker |-> "none"]
    /\ wwait = [w \in Worker |-> 0]
    /\ dpc = [j \in Job |-> "uncreated"]
    /\ spc = [s \in Sub |-> "idle"]
    /\ sjob = [s \in Sub |-> NoJob]
    /\ chan = [s \in Sub |-> <<>>]
    /\ closed = [s \in Sub |-> FALSE]
    /\ last = [s \in Sub |-> "none"]

-----------------------------------------------------------------------------
(* Shared steps.                                                           *)

Goto(w, where) == wpc' = [wpc EXCEPT ![w] = where]

\* persistLocked for state st: a failed write is logged and forgotten.
Persist(j, st) ==
    \/ disk' = [disk EXCEPT ![j] = SavedAs(st)]
    \/ disk' = disk

\* kick: one token, dropped when there is one already.
Kick == token' = TRUE

Push_DropsNewest(ch, x) == IF Len(ch) < ChanCap THEN Append(ch, x) ELSE ch

\* A send that makes room by dropping the oldest snapshot.
Push(ch, x) == Append(IF Len(ch) < ChanCap THEN ch ELSE Tail(ch), x)

\* os.RemoveAll of what a run left in the job's directory.
Sweep(j) == output' = [output EXCEPT ![j] = FALSE]

Listening(j) == {s \in Sub : spc[s] = "listening" /\ sjob[s] = j}

\* notify(_, false): a snapshot to every subscriber of the job ...
Notify(j, x) ==
    /\ chan' = [s \in Sub |-> IF s \in Listening(j) THEN Push(chan[s], x) ELSE chan[s]]
    /\ UNCHANGED <<spc, closed, sjob, last>>

\* ... and notify(_, true), which also closes and forgets them.
NotifyTerminal(j, x) ==
    LET to == Listening(j) IN
    /\ chan' = [s \in Sub |-> IF s \in to THEN Push(chan[s], x) ELSE chan[s]]
    /\ closed' = [s \in Sub |-> closed[s] \/ s \in to]
    /\ spc' = [s \in Sub |-> IF s \in to THEN "done" ELSE spc[s]]
    /\ UNCHANGED <<sjob, last>>

-----------------------------------------------------------------------------
(* The API: Create, Delete, Subscribe, Close.                              *)

\* create persists the queued job and indexes it; ids grow ...
Create(j) ==
    /\ dpc[j] = "uncreated" /\ (j > 1 => dpc[j - 1] # "uncreated")
    /\ ~closing
    /\ dpc' = [dpc EXCEPT ![j] = "idle"]
    /\ job' = [job EXCEPT ![j] = "queued"]
    /\ disk' = [disk EXCEPT ![j] = SavedAs("queued")]
    /\ kicks' = kicks \cup {j}
    /\ UNCHANGED <<output, waits, hold, token, timers, cancels, canceled, closing, restarts,
                   workerVars, subVars>>

\* ... and Create's kick follows.
CreateKick(j) ==
    /\ j \in kicks
    /\ kicks' = kicks \ {j}
    /\ Kick
    /\ UNCHANGED <<storeVars, timers, cancels, canceled, closing, restarts, workerVars, dpc, subVars>>

\* Delete removes the record, in memory and on disk, first.  A file the run
\* creates behind RemoveAll's scan stays ...
DeleteRemove(j) ==
    /\ dpc[j] = "idle" /\ job[j] # "none"
    /\ dpc' = [dpc EXCEPT ![j] = "removed"]
    /\ job' = [job EXCEPT ![j] = "none"]
    /\ disk' = [disk EXCEPT ![j] = "none"]
    /\ \/ Sweep(j)
       \/ /\ \E w \in Worker : wjob[w] = j /\ wpc[w] = "run"
          /\ output' = [output EXCEPT ![j] = TRUE]
    /\ waits' = [waits EXCEPT ![j] = 0]
    /\ hold' = [hold EXCEPT ![j] = 0]
    /\ UNCHANGED <<runnerVars, workerVars, subVars>>

\* ... then cancels the run registered for it ...
DeleteCancel(j) ==
    /\ dpc[j] = "removed"
    /\ dpc' = [dpc EXCEPT ![j] = "canceled"]
    /\ canceled' = canceled \cup ({cancels[j]} \ {NoWorker})
    /\ UNCHANGED <<storeVars, token, kicks, timers, cancels, closing, restarts, workerVars, subVars>>

\* ... then tells the subscribers.
DeleteNotify(j) ==
    /\ dpc[j] = "canceled"
    /\ dpc' = [dpc EXCEPT ![j] = "deleted"]
    /\ NotifyTerminal(j, "canceled")
    /\ UNCHANGED <<storeVars, runnerVars, workerVars>>

\* Subscribe's snapshot, sent at once; a terminal one closes the channel ...
Subscribe(s, j) ==
    /\ spc[s] = "idle" /\ job[j] # "none"
    /\ sjob' = [sjob EXCEPT ![s] = j]
    /\ chan' = [chan EXCEPT ![s] = <<job[j]>>]
    /\ closed' = [closed EXCEPT ![s] = job[j] \in Terminal]
    /\ spc' = [spc EXCEPT ![s] = IF job[j] \in Terminal THEN "done" ELSE "joining"]
    /\ UNCHANGED <<storeVars, runnerVars, workerVars, dpc, last>>

Finished_Unchecked(j) == FALSE

\* Subscribe's second look, under the lock notify takes.
Finished(j) == job[j] = "none" \/ job[j] \in Terminal

\* ... and otherwise registers it, unless the job ended meanwhile.
Join(s) ==
    LET j == sjob[s] IN
    /\ spc[s] = "joining"
    /\ IF Finished(j)
       THEN /\ chan' = [chan EXCEPT ![s] = IF job[j] = "none" THEN @ ELSE Append(@, job[j])]
            /\ closed' = [closed EXCEPT ![s] = TRUE]
            /\ spc' = [spc EXCEPT ![s] = "done"]
       ELSE /\ spc' = [spc EXCEPT ![s] = "listening"]
            /\ UNCHANGED <<chan, closed>>
    /\ UNCHANGED <<storeVars, runnerVars, workerVars, dpc, sjob, last>>

\* The consumer takes the next snapshot.
Receive(s) ==
    /\ chan[s] # <<>>
    /\ last' = [last EXCEPT ![s] = Head(chan[s])]
    /\ chan' = [chan EXCEPT ![s] = Tail(@)]
    /\ UNCHANGED <<storeVars, runnerVars, workerVars, dpc, spc, sjob, closed>>

\* The consumer leaves: Subscribe's cancel func.
Unsubscribe(s) ==
    /\ spc[s] = "listening"
    /\ spc' = [spc EXCEPT ![s] = "left"]
    /\ closed' = [closed EXCEPT ![s] = TRUE]
    /\ UNCHANGED <<storeVars, runnerVars, workerVars, dpc, sjob, chan, last>>

\* Runner.Close cancels every run.
Close ==
    /\ ~closing /\ restarts < MaxRestarts
    /\ closing' = TRUE
    /\ UNCHANGED <<storeVars, token, kicks, timers, cancels, canceled, restarts, workerVars, dpc, subVars>>

-----------------------------------------------------------------------------
(* The worker loop.                                                        *)

Claimable_Running(j) == job[j] \in {"queued", "running"} /\ hold[j] = 0

\* claimNext's candidates: queued and not held back.
Claimable(j) == job[j] = "queued" /\ hold[j] = 0

\* claimNext found the oldest of them ...
Claim(w) ==
    /\ wpc[w] = "claim"
    /\ \E j \in Job :
        /\ Claimable(j) /\ \A i \in Job : Claimable(i) => j <= i
        /\ job' = [job EXCEPT ![j] = "running"]
        /\ Persist(j, "running")
        /\ wjob' = [wjob EXCEPT ![w] = j]
    /\ Goto(w, "claimed")
    /\ UNCHANGED <<output, waits, hold, runnerVars, wres, wwait, dpc, subVars>>

\* ... or nothing: the worker goes to wait for the token.
ClaimNothing(w) ==
    /\ wpc[w] = "claim" /\ \A j \in Job : ~Claimable(j)
    /\ Goto(w, "parked")
    /\ UNCHANGED <<storeVars, runnerVars, wjob, wres, wwait, dpc, subVars>>

Unpark(w) ==
    /\ wpc[w] = "parked" /\ token
    /\ token' = FALSE
    /\ Goto(w, "claim")
    /\ UNCHANGED <<storeVars, kicks, timers, cancels, canceled, closing, restarts, wjob, wres, wwait,
                   dpc, subVars>>

Stop(w) ==
    /\ wpc[w] = "parked" /\ closing
    /\ Goto(w, "stopped")
    /\ UNCHANGED <<storeVars, runnerVars, wjob, wres, wwait, dpc, subVars>>

Propagate_Lost == token' = token

\* The claimer passes the wakeup on.
Propagate == Kick

\* Propagate the wakeup, announce the claim.
Announce(w) ==
    /\ wpc[w] = "claimed"
    /\ Propagate
    /\ Notify(wjob[w], "running")
    /\ Goto(w, "starting")
    /\ UNCHANGED <<storeVars, kicks, timers, cancels, canceled, closing, restarts, wjob, wres, wwait, dpc>>

\* run registers its cancel func.
Register(w) ==
    /\ wpc[w] = "starting"
    /\ cancels' = [cancels EXCEPT ![wjob[w]] = w]
    /\ Goto(w, "run")
    /\ UNCHANGED <<storeVars, token, kicks, timers, canceled, closing, restarts, wjob, wres, wwait, dpc, subVars>>

\* A progress report: the job as it is, if it is still there.
Progress(w) ==
    LET j == wjob[w] IN
    /\ wpc[w] = "run" /\ job[j] # "none" /\ Listening(j) # {}
    /\ Notify(j, job[j])
    /\ UNCHANGED <<storeVars, runnerVars, workerVars, dpc>>

\* The run writes into the job's directory, which Delete may have removed.
WriteOutput(w) ==
    LET j == wjob[w] IN
    /\ wpc[w] = "run" /\ disk[j] # "none" /\ ~output[j]
    /\ output' = [output EXCEPT ![j] = TRUE]
    /\ UNCHANGED <<job, disk, waits, hold, runnerVars, workerVars, dpc, subVars>>

\* The run ends.  An error during shutdown leaves the record running; a
\* source that is away requeues the job; anything else settles it.
RunEnds(w, res) ==
    LET j == wjob[w] IN
    /\ wpc[w] = "run"
    /\ \/ res = "done" /\ (output[j] \/ job[j] = "none")
       \/ res = "failed"
       \/ res = "away" /\ waits[j] < MaxWaits
    /\ wres' = [wres EXCEPT ![w] = res]
    /\ Goto(w, CASE res # "done" /\ closing -> "cleanup"
                 [] res = "away" /\ ~closing -> "retry"
                 [] OTHER -> "settle")
    /\ UNCHANGED <<storeVars, runnerVars, wjob, wwait, dpc, subVars>>

SweepDeleted_Skipped(j) == output' = output

\* The second sweep, for what the run created behind Delete's RemoveAll.
SweepDeleted(j) == Sweep(j)

\* The terminal update; of a job deleted mid-run only the debris is swept.
Settle(w) ==
    LET j == wjob[w] IN
    /\ wpc[w] = "settle"
    /\ IF job[j] = "none"
       THEN /\ SweepDeleted(j)
            /\ Goto(w, "cleanup")
            /\ UNCHANGED <<job, disk, waits, hold>>
       ELSE /\ job' = [job EXCEPT ![j] = wres[w]]
            /\ Persist(j, wres[w])
            /\ waits' = [waits EXCEPT ![j] = 0]
            /\ hold' = [hold EXCEPT ![j] = 0]
            /\ Goto(w, "tell")
            /\ UNCHANGED output
    /\ UNCHANGED <<runnerVars, wjob, wres, wwait, dpc, subVars>>

Tell(w) ==
    /\ wpc[w] = "tell"
    /\ NotifyTerminal(wjob[w], wres[w])
    /\ Goto(w, "cleanup")
    /\ UNCHANGED <<storeVars, runnerVars, wjob, wres, wwait, dpc>>

ResetForRequeue_Kept(j) == output' = output

\* resetForRequeue removes all but job.json.
ResetForRequeue(j) == Sweep(j)

\* retry: back to the queue from zero, held back until its timer is due.
Requeue(w) ==
    LET j == wjob[w] IN
    /\ wpc[w] = "retry"
    /\ IF job[j] = "none"
       THEN /\ Sweep(j)
            /\ Goto(w, "cleanup")
            /\ UNCHANGED <<job, disk, waits, hold, wwait>>
       ELSE /\ ResetForRequeue(j)
            /\ job' = [job EXCEPT ![j] = "queued"]
            /\ Persist(j, "queued")
            /\ waits' = [waits EXCEPT ![j] = @ + 1]
            /\ hold' = [hold EXCEPT ![j] = waits[j] + 1]
            /\ wwait' = [wwait EXCEPT ![w] = waits[j] + 1]
            /\ Goto(w, "tellwait")
    /\ UNCHANGED <<runnerVars, wjob, wres, dpc, subVars>>

RetryTimer_None(j, k) == timers' = timers

\* time.AfterFunc(delay, kick).
RetryTimer(j, k) == timers' = timers \cup {<<j, k>>}

TellWaiting(w) ==
    LET j == wjob[w] IN
    /\ wpc[w] = "tellwait"
    /\ Notify(j, "queued")
    /\ RetryTimer(j, wwait[w])
    /\ Goto(w, "cleanup")
    /\ UNCHANGED <<storeVars, token, kicks, cancels, canceled, closing, restarts, wjob, wres, wwait, dpc>>

\* run's deferred cleanup: cancel the context, drop the registration.
Cleanup(w) ==
    /\ wpc[w] = "cleanup"
    /\ cancels' = [cancels EXCEPT ![wjob[w]] = NoWorker]
    /\ canceled' = canceled \ {w}
    /\ wjob' = [wjob EXCEPT ![w] = NoJob]
    /\ wres' = [wres EXCEPT ![w] = "none"]
    /\ wwait' = [wwait EXCEPT ![w] = 0]
    /\ Goto(w, "claim")
    /\ UNCHANGED <<storeVars, token, kicks, timers, closing, restarts, dpc, subVars>>

-----------------------------------------------------------------------------
(* Time, and the daemon's end.                                             *)

\* The moment a waiting job may run again passes ...
HoldExpires(j) ==
    /\ hold[j] # 0
    /\ hold' = [hold EXCEPT ![j] = 0]
    /\ UNCHANGED <<job, disk, output, waits, runnerVars, workerVars, dpc, subVars>>

\* ... and the timer set for it fires, no earlier.
TimerKick(t) ==
    /\ t \in timers /\ hold[t[1]] # t[2]
    /\ timers' = timers \ {t}
    /\ Kick
    /\ UNCHANGED <<storeVars, kicks, cancels, canceled, closing, restarts, workerVars, dpc, subVars>>

Reloaded_FromZero(j) == IF disk[j] = "none" THEN "none" ELSE "queued"

\* openStore: terminal jobs as they are, the rest from zero.
Reloaded(j) == IF disk[j] = "live" THEN "queued" ELSE disk[j]

\* What openStore leaves in place: only a terminal job's files.
KeptOutput(j) == output[j] /\ Reloaded(j) \in {"done", "failed"}

\* The process dies (at any point, or after Close once the workers stopped)
\* and the next one loads what is on disk.  Incomplete jobs lose their output;
\* a directory without a job.json is quarantined under another name.
Restart ==
    /\ restarts < MaxRestarts /\ restarts' = restarts + 1
    /\ job' = [j \in Job |-> Reloaded(j)]
    /\ disk' = disk
    /\ output' = [j \in Job |-> KeptOutput(j)]
    /\ waits' = [j \in Job |-> 0] /\ hold' = [j \in Job |-> 0]
    /\ token' = FALSE /\ kicks' = {} /\ timers' = {}
    /\ cancels' = [j \in Job |-> NoWorker] /\ canceled' = {} /\ closing' = FALSE
    /\ wpc' = [w \in Worker |-> "claim"]
    /\ wjob' = [w \in Worker |-> NoJob]
    /\ wres' = [w \in Worker |-> "none"]
    /\ wwait' = [w \in Worker |-> 0]
    /\ dpc' = [j \in Job |-> IF dpc[j] \in {"removed", "canceled"} THEN "deleted" ELSE dpc[j]]
    /\ spc' = [s \in Sub |-> IF spc[s] = "idle" THEN "idle" ELSE "gone"]
    /\ sjob' = [s \in Sub |-> NoJob]
    /\ chan' = [s \in Sub |-> <<>>]
    /\ closed' = [s \in Sub |-> FALSE]
    /\ last' = [s \in Sub |-> "none"]

WorkerStep(w) ==
    \/ Claim(w) \/ ClaimNothing(w) \/ Unpark(w) \/ Stop(w) \/ Announce(w) \/ Register(w)
    \/ WriteOutput(w)
    \/ \E res \in {"done", "failed", "away"} : RunEnds(w, res)
    \/ Settle(w) \/ Tell(w) \/ Requeue(w) \/ TellWaiting(w) \/ Cleanup(w)

\* A step of time or of an API call already under way.
Inevitable ==
    \/ \E j \in Job : CreateKick(j) \/ DeleteCancel(j) \/ DeleteNotify(j) \/ HoldExpires(j)
    \/ \E t \in timers : TimerKick(t)
    \/ \E s \in Sub : Join(s)

\* Nothing is left to do but wait for callers.
Idle ==
    /\ \A w \in Worker : wpc[w] = "stopped" \/ (wpc[w] = "parked" /\ ~closing)
    /\ ~token /\ kicks = {} /\ timers = {}
    /\ UNCHANGED vars

Next ==
    \/ \E j \in Job : Create(j) \/ DeleteRemove(j)
    \/ \E s \in Sub : Receive(s) \/ Unsubscribe(s) \/ \E j \in Job : Subscribe(s, j)
    \/ \E w \in Worker : WorkerStep(w) \/ Progress(w)
    \/ Inevitable
    \/ Close
    \/ Restart
    \/ Idle

Spec == Init /\ [][Next]_vars

(***************************************************************************)
(* Fairness.  Workers run; what an API call began it ends; holds expire    *)
(* and timers fire.  Nothing obliges anyone to create, delete, subscribe,  *)
(* close or crash.                                                         *)
(***************************************************************************)
FairSpec ==
    /\ Spec
    /\ \A w \in Worker : WF_vars(WorkerStep(w))
    /\ \A j \in Job : /\ WF_vars(CreateKick(j)) /\ WF_vars(DeleteCancel(j))
                      /\ WF_vars(DeleteNotify(j)) /\ WF_vars(HoldExpires(j))
    /\ \A t \in Job \X (1 .. MaxWaits) : WF_vars(TimerKick(t))
    /\ \A s \in Sub : WF_vars(Join(s))

-----------------------------------------------------------------------------
WorkerPC == {"claim", "parked", "stopped", "claimed", "starting", "run", "settle", "tell",
             "retry", "tellwait", "cleanup"}

TypeStore ==
    /\ job \in [Job -> JobState] /\ disk \in [Job -> Saved]
    /\ output \in [Job -> BOOLEAN]
    /\ waits \in [Job -> 0 .. MaxWaits] /\ hold \in [Job -> 0 .. MaxWaits]
    /\ dpc \in [Job -> {"uncreated", "idle", "removed", "canceled", "deleted"}]

TypeRunner ==
    /\ token \in BOOLEAN /\ kicks \subseteq Job
    /\ timers \subseteq Job \X (1 .. MaxWaits)
    /\ cancels \in [Job -> Worker \cup {NoWorker}]
    /\ canceled \subseteq Worker /\ closing \in BOOLEAN /\ restarts \in 0 .. MaxRestarts

TypeWorkers ==
    /\ wpc \in [Worker -> WorkerPC] /\ wjob \in [Worker -> Job \cup {NoJob}]
    /\ wres \in [Worker -> {"none", "done", "failed", "away"}]
    /\ wwait \in [Worker -> 0 .. MaxWaits]

TypeSubs ==
    /\ spc \in [Sub -> {"idle", "joining", "listening", "done", "left", "gone"}]
    /\ sjob \in [Sub -> Job \cup {NoJob}]
    /\ chan \in [Sub -> Seq(Snapshot)] /\ \A s \in Sub : Len(chan[s]) <= ChanCap
    /\ closed \in [Sub -> BOOLEAN] /\ last \in [Sub -> Snapshot \cup {"none"}]

\* Types; in particular no subscriber's channel ever holds more than its
\* capacity (notify drops the oldest snapshot before it sends).
TypeOK == TypeStore /\ TypeRunner /\ TypeWorkers /\ TypeSubs

Executing(w, j) == wjob[w] = j /\ wpc[w] \in {"claimed", "starting", "run", "settle", "retry"}

\* A job is executed by at most one worker, and only a running record is
\* (claimNext, requeue, restart): no job's output has two writers.
OneRunner ==
    \A j \in Job : \A v, w \in Worker :
        Executing(v, j) /\ Executing(w, j) => v = w

\* No worker sleeps while a job could run, unless a wakeup is on its way: the
\* token, a creation's kick, a due retry timer, or a worker about to claim
\* (and pass the wakeup on), to pass it on, or to set its timer (kick,
\* worker's propagation, retry).
NoLostWakeup ==
    (\E w \in Worker : wpc[w] = "parked") /\ (\E j \in Job : Claimable(j))
        => \/ token \/ kicks # {} \/ \E t \in timers : hold[t[1]] # t[2]
           \/ \E w \in Worker : wpc[w] \in {"claim", "claimed", "tellwait"}

\* A subscriber still listening to a job that ended will be told: the worker
\* that settled it, or the Delete that removed it, has yet to notify
\* (Subscribe's re-check, notify).
ListenersWillHear ==
    \A s \in Sub : spc[s] = "listening" /\ job[sjob[s]] \in {"none", "done", "failed"} =>
        \/ dpc[sjob[s]] \in {"removed", "canceled"}
        \/ \E w \in Worker : wpc[w] = "tell" /\ wjob[w] = sjob[s]

\* The runner closes a channel only behind a terminal snapshot, which no
\* overflow dropped, or behind a delete (notify's drop-oldest, Subscribe).
ClosedBehindTerminal ==
    \A s \in Sub : spc[s] = "done" =>
        \/ (IF chan[s] = <<>> THEN last[s] ELSE chan[s][Len(chan[s])]) \in Terminal
        \/ job[sjob[s]] = "none"

\* A queued job is run from zero: nothing of an earlier attempt is in its
\* directory, and a done job's output is there, over any crash and any failed
\* write of job.json (resetForRequeue, Settle's order).
RerunsFromZero ==
    \A j \in Job : (job[j] = "queued" => ~output[j]) /\ (job[j] = "done" => output[j])

\* What a run wrote into the directory of a job deleted under it does not
\* outlive the run, unless the daemon is stopping (run's second sweep).
NoDebrisOfDeleted ==
    \A j \in Job : job[j] = "none" /\ output[j] =>
        closing \/ \E w \in Worker : Executing(w, j)

\* A terminal job never runs again, unless its terminal write failed and the
\* daemon restarted (restart contract).
TerminalIsFinal ==
    [][\A j \in Job : job[j] \in {"done", "failed"} /\ disk[j] = job[j]
          => job'[j] \in {job[j], "none"}]_vars

\* Every job comes to an end: done, failed or deleted (worker wakeups, the
\* retry's timer, restart's requeue) unless the daemon was closed for good.
EveryJobEnds ==
    \A j \in Job : job[j] = "queued" ~> (job[j] \in {"none", "done", "failed"} \/ closing)

\* Every subscriber of a job is released (notify, Subscribe's re-check).
EverySubscriberReleased ==
    \A s \in Sub : spc[s] \in {"joining", "listening"}
        ~> (spc[s] \in {"done", "left", "gone"} \/ closing)

\* Every job ends and every subscriber of one is released, unless the daemon
\* closes (kick, retry's timer, notify).
EverybodyEnds == EveryJobEnds /\ EverySubscriberReleased
=============================================================================
