--------------------------- MODULE JobRunnerProofs ---------------------------
(***************************************************************************)
(* Proofs about JobRunner, for any number of jobs, workers, subscribers,   *)
(* waits and restarts, and any channel capacity from two up.               *)
(***************************************************************************)
EXTENDS JobRunner, TLAPS, SequenceTheorems

\* A worker has a job exactly while it is not looking for one.
Busy ==
    \A w \in Worker : wjob[w] = NoJob <=> wpc[w] \in {"claim", "parked", "stopped"}

\* What a worker carries from the end of a run to its record.
Results ==
    \A w \in Worker :
        /\ wpc[w] \in {"settle", "tell"} => wres[w] \in {"done", "failed"}
        /\ wpc[w] = "settle" /\ wres[w] = "done" =>
             output[wjob[w]] \/ job[wjob[w]] = "none"
        /\ wpc[w] = "tellwait" => wwait[w] \in 1 .. MaxWaits
        /\ wpc[w] = "retry" =>
             waits[wjob[w]] + 1 <= MaxWaits \/ job[wjob[w]] = "none"

\* A job not yet created has no trace anywhere.
Fresh ==
    \A j \in Job : dpc[j] = "uncreated" =>
        /\ job[j] = "none" /\ disk[j] = "none" /\ ~output[j]
        /\ \A w \in Worker : ~Executing(w, j)

\* Only a running record is executed, or one deleted under its worker.
Claimed ==
    \A w \in Worker, j \in Job : Executing(w, j) => job[j] \in {"running", "none"}

\* What job.json says is behind the index, never ahead of it.
OnDisk ==
    \A j \in Job : /\ job[j] = "none" => disk[j] = "none"
                   /\ disk[j] \in {"done", "failed"} => job[j] = disk[j]

\* A subscriber that is about to register has at most its first snapshot
\* pending, and every subscriber's job was created.
Joining ==
    \A s \in Sub :
        /\ spc[s] = "joining" => Len(chan[s]) <= 1
        /\ spc[s] \in {"joining", "listening", "done"} =>
             sjob[s] \in Job /\ dpc[sjob[s]] # "uncreated"

\* The inductive invariant.
IInv ==
    /\ TypeOK
    /\ Busy /\ Results /\ Fresh /\ Claimed /\ OneRunner /\ OnDisk
    /\ RerunsFromZero /\ NoDebrisOfDeleted
    /\ Joining /\ ListenersWillHear /\ ClosedBehindTerminal

-----------------------------------------------------------------------------
\* NoJob is no job's number.
LEMMA NoJobIsNoJob == NoJob \notin Job
  BY DEF Job, NoJob

\* A push keeps the channel within its capacity, and what it pushed is last.
LEMMA PushProperty ==
  ASSUME NEW ch \in Seq(Snapshot), Len(ch) <= ChanCap, NEW x \in Snapshot
  PROVE  /\ Push(ch, x) \in Seq(Snapshot) /\ Len(Push(ch, x)) <= ChanCap
         /\ Len(Push(ch, x)) > 0 /\ Push(ch, x) # <<>>
         /\ Push(ch, x)[Len(Push(ch, x))] = x
<1> DEFINE kept == IF Len(ch) < ChanCap THEN ch ELSE Tail(ch)
<1>1. kept \in Seq(Snapshot) /\ Len(kept) + 1 <= ChanCap
  BY JobsAssumption
<1> HIDE DEF kept
<1>2. Push(ch, x) = Append(kept, x)
  BY DEF Push, kept
<1> QED
  BY <1>1, <1>2, JobsAssumption

\* What Append adds is last, and Tail keeps the last.
LEMMA AppendLast ==
  ASSUME NEW ch \in Seq(Snapshot), NEW x \in Snapshot
  PROVE  Append(ch, x) # <<>> /\ Append(ch, x)[Len(Append(ch, x))] = x
<1>1. Len(Append(ch, x)) = Len(ch) + 1 /\ Append(ch, x)[Len(ch) + 1] = x
  OBVIOUS
<1> QED
  BY <1>1

LEMMA TailLast ==
  ASSUME NEW ch \in Seq(Snapshot), ch # <<>>
  PROVE  IF Tail(ch) = <<>> THEN Head(ch) = ch[Len(ch)]
         ELSE Tail(ch)[Len(Tail(ch))] = ch[Len(ch)]
<1>1. /\ Len(ch) \in Nat \ {0} /\ Tail(ch) \in Seq(Snapshot) /\ Len(Tail(ch)) = Len(ch) - 1
      /\ \A i \in 1 .. Len(Tail(ch)) : Tail(ch)[i] = ch[i + 1]
  BY HeadTailProperties, EmptySeq
<1>2. Head(ch) = ch[1]
  OBVIOUS
<1>3. CASE Tail(ch) = <<>>
  <2>1. Len(<<>>) = 0
    OBVIOUS
  <2>2. Len(Tail(ch)) = 0
    BY <1>3, <2>1, Zenon
  <2> DEFINE n == Len(ch)
             m == Len(Tail(ch))
  <2>3. n \in Nat /\ m = n - 1 /\ m = 0
    BY <1>1, <2>2
  <2> HIDE DEF n, m
  <2>4. n = 1
    BY <2>3
  <2> QED
    BY <1>2, <1>3, <2>4 DEF n
<1>4. CASE Tail(ch) # <<>>
  <2>1. Len(Tail(ch)) \in Nat \ {0}
    BY <1>1, <1>4, EmptySeq
  <2>2. Tail(ch)[Len(Tail(ch))] = ch[Len(Tail(ch)) + 1] /\ Len(Tail(ch)) + 1 = Len(ch)
    BY <1>1, <2>1
  <2> QED
    BY <1>4, <2>2
<1> QED
  BY <1>3, <1>4

\* A notification keeps the subscribers' types ...
LEMMA NotifyTypes ==
  ASSUME TypeSubs, NEW j, NEW x \in Snapshot, Notify(j, x)
  PROVE  TypeSubs'
<1>1. \A s \in Sub : Push(chan[s], x) \in Seq(Snapshot) /\ Len(Push(chan[s], x)) <= ChanCap
  BY PushProperty DEF TypeSubs
<1> QED
  BY <1>1 DEF Notify, TypeSubs

\* ... and so does a terminal one, which leaves its snapshot last.
LEMMA NotifyTerminalProperty ==
  ASSUME TypeSubs, NEW j, NEW x \in Snapshot, NotifyTerminal(j, x)
  PROVE  /\ TypeSubs'
         /\ \A s \in Sub : \/ spc'[s] = spc[s] /\ chan'[s] = chan[s] /\ s \notin Listening(j)
                           \/ /\ spc[s] = "listening" /\ sjob[s] = j
                              /\ spc'[s] = "done" /\ chan'[s] # <<>>
                              /\ chan'[s][Len(chan'[s])] = x
<1>1. \A s \in Sub : /\ Push(chan[s], x) \in Seq(Snapshot) /\ Len(Push(chan[s], x)) <= ChanCap
                     /\ Push(chan[s], x) # <<>> /\ Push(chan[s], x)[Len(Push(chan[s], x))] = x
  BY PushProperty DEF TypeSubs
<1>2. TypeSubs'
  BY <1>1 DEF NotifyTerminal, TypeSubs
<1>3. \A s \in Sub : s \in Listening(j) => spc[s] = "listening" /\ sjob[s] = j
  BY DEF Listening
<1> QED
  BY <1>1, <1>2, <1>3 DEF NotifyTerminal, TypeSubs

\* A step that leaves jobs and subscribers alone and takes no worker away from
\* its notification keeps the promise to the listeners.
LEMMA TellersStay ==
  ASSUME ListenersWillHear, UNCHANGED <<job, dpc, spc, sjob, wjob>>,
         \A v \in Worker : wpc[v] = "tell" => wpc'[v] = "tell"
  PROVE  ListenersWillHear'
  BY DEF ListenersWillHear

\* A worker past its claim has a job, ...
LEMMA HasJob ==
  ASSUME TypeWorkers, Busy, NEW w \in Worker, wpc[w] \notin {"claim", "parked", "stopped"}
  PROVE  wjob[w] \in Job
  BY DEF TypeWorkers, Busy

\* ... and until it has recorded the end, is the only one to run it.
LEMMA AtWork ==
  ASSUME TypeWorkers, Busy, Claimed, OneRunner, NEW w \in Worker,
         wpc[w] \in {"claimed", "starting", "run", "settle", "retry"}
  PROVE  /\ wjob[w] \in Job /\ job[wjob[w]] \in {"running", "none"}
         /\ \A v \in Worker : Executing(v, wjob[w]) <=> v = w
<1>1. wjob[w] \in Job /\ Executing(w, wjob[w])
  BY HasJob DEF Executing
<1> QED
  BY <1>1 DEF Claimed, OneRunner


\* Every step keeps the types.
LEMMA TypeInductive == IInv /\ [Next]_vars => TypeOK'
<1> SUFFICES ASSUME IInv, [Next]_vars PROVE TypeOK'
  OBVIOUS
<1>a. TypeStore /\ TypeRunner /\ TypeWorkers /\ TypeSubs
  BY DEF IInv, TypeOK
<1>b. Busy /\ Results /\ Fresh /\ Claimed /\ OneRunner /\ Joining
  BY DEF IInv
<1> USE JobsAssumption DEF TypeOK
<1>1. ASSUME NEW j \in Job, Create(j)
      PROVE  TypeOK'
  <2>1. TypeStore'
    BY <1>a, <1>1 DEF Create, TypeStore, JobState, Saved, SavedAs
  <2>2. TypeRunner'
    BY <1>a, <1>1 DEF Create, TypeRunner
  <2>3. TypeWorkers' /\ TypeSubs'
    BY <1>a, <1>1 DEF Create, workerVars, subVars, TypeWorkers, TypeSubs
  <2> QED
    BY <2>1, <2>2, <2>3
<1>2. ASSUME NEW j \in Job, CreateKick(j)
      PROVE  TypeOK'
  <2>1. TypeRunner'
    BY <1>a, <1>2 DEF CreateKick, Kick, TypeRunner
  <2>2. TypeStore' /\ TypeWorkers' /\ TypeSubs'
    BY <1>a, <1>2
       DEF CreateKick, storeVars, workerVars, subVars, TypeStore, TypeWorkers, TypeSubs
  <2> QED
    BY <2>1, <2>2
<1>3. ASSUME NEW j \in Job, DeleteRemove(j)
      PROVE  TypeOK'
  <2>1. TypeStore'
    <3>1. 0 \in 0 .. MaxWaits
      OBVIOUS
    <3>2. output' \in [Job -> BOOLEAN]
      BY <1>a, <1>3, Zenon DEF DeleteRemove, Sweep, TypeStore
    <3> QED
      BY <1>a, <1>3, <3>1, <3>2 DEF DeleteRemove, TypeStore, JobState, Saved
  <2>2. TypeRunner' /\ TypeWorkers' /\ TypeSubs'
    BY <1>a, <1>3
       DEF DeleteRemove, runnerVars, workerVars, subVars, TypeRunner, TypeWorkers, TypeSubs
  <2> QED
    BY <2>1, <2>2
<1>4. ASSUME NEW j \in Job, DeleteCancel(j)
      PROVE  TypeOK'
  <2>1. TypeStore'
    BY <1>a, <1>4 DEF DeleteCancel, storeVars, TypeStore
  <2>2. TypeRunner'
    BY <1>a, <1>4 DEF DeleteCancel, TypeRunner
  <2>3. TypeWorkers' /\ TypeSubs'
    BY <1>a, <1>4 DEF DeleteCancel, workerVars, subVars, TypeWorkers, TypeSubs
  <2> QED
    BY <2>1, <2>2, <2>3
<1>5. ASSUME NEW j \in Job, DeleteNotify(j)
      PROVE  TypeOK'
  <2>1. TypeStore'
    BY <1>a, <1>5 DEF DeleteNotify, storeVars, TypeStore
  <2>2. TypeSubs'
    BY <1>a, <1>5, NotifyTerminalProperty DEF DeleteNotify, Snapshot
  <2>3. TypeRunner' /\ TypeWorkers'
    BY <1>a, <1>5 DEF DeleteNotify, runnerVars, workerVars, TypeRunner, TypeWorkers
  <2> QED
    BY <2>1, <2>2, <2>3
<1>6. ASSUME NEW s \in Sub, NEW j \in Job, Subscribe(s, j)
      PROVE  TypeOK'
  <2>1. TypeSubs'
    <3>1. job[j] \in Snapshot
      BY <1>a, <1>6 DEF Subscribe, TypeStore, JobState, Snapshot
    <3>2. <<job[j]>> \in Seq(Snapshot) /\ Len(<<job[j]>>) = 1
      BY <3>1
    <3>3. chan' \in [Sub -> Seq(Snapshot)] /\ \A q \in Sub : Len(chan'[q]) <= ChanCap
      BY <1>a, <1>6, <3>2 DEF Subscribe, TypeSubs
    <3>4. closed' \in [Sub -> BOOLEAN]
      <4>1. (job[j] \in Terminal) \in BOOLEAN
        OBVIOUS
      <4> QED
        BY <1>a, <1>6, <4>1 DEF Subscribe, TypeSubs
    <3>5. spc' \in [Sub -> {"idle", "joining", "listening", "done", "left", "gone"}]
      BY <1>a, <1>6 DEF Subscribe, TypeSubs
    <3> QED
      BY <1>a, <1>6, <3>3, <3>4, <3>5 DEF Subscribe, TypeSubs
  <2>2. TypeStore' /\ TypeRunner' /\ TypeWorkers'
    BY <1>a, <1>6
       DEF Subscribe, storeVars, runnerVars, workerVars, TypeStore, TypeRunner, TypeWorkers
  <2> QED
    BY <2>1, <2>2
<1>7. ASSUME NEW s \in Sub, Join(s)
      PROVE  TypeOK'
  <2>1. TypeSubs'
    <3>1. sjob[s] \in Job /\ Len(chan[s]) <= 1
      BY <1>b, <1>7 DEF Join, Joining
    <3>2. Finished(sjob[s]) /\ job[sjob[s]] # "none" => job[sjob[s]] \in Snapshot
      BY DEF Finished, Terminal, Snapshot
    <3>3. chan' \in [Sub -> Seq(Snapshot)] /\ \A q \in Sub : Len(chan'[q]) <= ChanCap
      <4>1. ASSUME NEW x \in Snapshot
            PROVE  Append(chan[s], x) \in Seq(Snapshot) /\ Len(Append(chan[s], x)) <= ChanCap
        BY <1>a, <3>1 DEF TypeSubs
      <4>2. CASE chan' = chan
        BY <1>a, <4>2 DEF TypeSubs
      <4>3. CASE chan' = [chan EXCEPT ![s] = Append(@, job[sjob[s]])]
                 /\ job[sjob[s]] \in Snapshot
        BY <1>a, <4>1, <4>3 DEF TypeSubs
      <4> QED
        BY <1>a, <1>7, <3>2, <4>2, <4>3 DEF Join, TypeSubs
    <3>4. closed' \in [Sub -> BOOLEAN]
      BY <1>a, <1>7, Zenon DEF Join, TypeSubs
    <3>5. spc' \in [Sub -> {"idle", "joining", "listening", "done", "left", "gone"}]
      BY <1>a, <1>7 DEF Join, TypeSubs
    <3> QED
      BY <1>a, <1>7, <3>3, <3>4, <3>5 DEF Join, TypeSubs
  <2>2. TypeStore' /\ TypeRunner' /\ TypeWorkers'
    BY <1>a, <1>7
       DEF Join, storeVars, runnerVars, workerVars, TypeStore, TypeRunner, TypeWorkers
  <2> QED
    BY <2>1, <2>2
<1>8. ASSUME NEW s \in Sub, Receive(s)
      PROVE  TypeOK'
  <2>1. TypeSubs'
    BY <1>a, <1>8 DEF Receive, TypeSubs
  <2>2. TypeStore' /\ TypeRunner' /\ TypeWorkers'
    BY <1>a, <1>8
       DEF Receive, storeVars, runnerVars, workerVars, TypeStore, TypeRunner, TypeWorkers
  <2> QED
    BY <2>1, <2>2
<1>9. ASSUME NEW s \in Sub, Unsubscribe(s)
      PROVE  TypeOK'
  <2>1. TypeSubs'
    BY <1>a, <1>9 DEF Unsubscribe, TypeSubs
  <2>2. TypeStore' /\ TypeRunner' /\ TypeWorkers'
    BY <1>a, <1>9
       DEF Unsubscribe, storeVars, runnerVars, workerVars, TypeStore, TypeRunner,
           TypeWorkers
  <2> QED
    BY <2>1, <2>2
<1>10. ASSUME Close
      PROVE  TypeOK'
  <2>1. TypeRunner'
    BY <1>a, <1>10 DEF Close, TypeRunner
  <2>2. TypeStore' /\ TypeWorkers' /\ TypeSubs'
    BY <1>a, <1>10
       DEF Close, storeVars, workerVars, subVars, TypeStore, TypeWorkers, TypeSubs
  <2> QED
    BY <2>1, <2>2
<1>11. ASSUME NEW w \in Worker, Claim(w)
      PROVE  TypeOK'
  <2>1. TypeStore'
    BY <1>a, <1>11 DEF Claim, Persist, TypeStore, JobState, Saved, SavedAs
  <2>2. TypeWorkers'
    BY <1>a, <1>11 DEF Claim, Goto, TypeWorkers, WorkerPC
  <2>3. TypeRunner' /\ TypeSubs'
    BY <1>a, <1>11 DEF Claim, runnerVars, subVars, TypeRunner, TypeSubs
  <2> QED
    BY <2>1, <2>2, <2>3
<1>12. ASSUME NEW w \in Worker, ClaimNothing(w)
      PROVE  TypeOK'
  <2>1. TypeWorkers'
    BY <1>a, <1>12 DEF ClaimNothing, Goto, TypeWorkers, WorkerPC
  <2>2. TypeStore' /\ TypeRunner' /\ TypeSubs'
    BY <1>a, <1>12
       DEF ClaimNothing, storeVars, runnerVars, subVars, TypeStore, TypeRunner, TypeSubs
  <2> QED
    BY <2>1, <2>2
<1>13. ASSUME NEW w \in Worker, Unpark(w)
      PROVE  TypeOK'
  <2>1. TypeRunner'
    BY <1>a, <1>13 DEF Unpark, TypeRunner
  <2>2. TypeWorkers'
    BY <1>a, <1>13 DEF Unpark, Goto, TypeWorkers, WorkerPC
  <2>3. TypeStore' /\ TypeSubs'
    BY <1>a, <1>13 DEF Unpark, storeVars, subVars, TypeStore, TypeSubs
  <2> QED
    BY <2>1, <2>2, <2>3
<1>14. ASSUME NEW w \in Worker, Stop(w)
      PROVE  TypeOK'
  <2>1. TypeWorkers'
    BY <1>a, <1>14 DEF Stop, Goto, TypeWorkers, WorkerPC
  <2>2. TypeStore' /\ TypeRunner' /\ TypeSubs'
    BY <1>a, <1>14 DEF Stop, storeVars, runnerVars, subVars, TypeStore, TypeRunner, TypeSubs
  <2> QED
    BY <2>1, <2>2
<1>15. ASSUME NEW w \in Worker, Announce(w)
      PROVE  TypeOK'
  <2>1. TypeRunner'
    BY <1>a, <1>15 DEF Announce, Propagate, Kick, TypeRunner
  <2>2. TypeWorkers'
    BY <1>a, <1>15 DEF Announce, Goto, TypeWorkers, WorkerPC
  <2>3. TypeSubs'
    BY <1>a, <1>15, NotifyTypes DEF Announce, Snapshot
  <2>4. TypeStore'
    BY <1>a, <1>15 DEF Announce, storeVars, TypeStore
  <2> QED
    BY <2>1, <2>2, <2>3, <2>4
<1>16. ASSUME NEW w \in Worker, Register(w)
      PROVE  TypeOK'
  <2>1. TypeRunner'
    BY <1>a, <1>16 DEF Register, TypeRunner
  <2>2. TypeWorkers'
    BY <1>a, <1>16 DEF Register, Goto, TypeWorkers, WorkerPC
  <2>3. TypeStore' /\ TypeSubs'
    BY <1>a, <1>16 DEF Register, storeVars, subVars, TypeStore, TypeSubs
  <2> QED
    BY <2>1, <2>2, <2>3
<1>17. ASSUME NEW w \in Worker, Progress(w)
      PROVE  TypeOK'
  <2>1. TypeSubs'
    <3>1. wjob[w] \in Job
      BY <1>a, <1>b, <1>17, HasJob DEF Progress
    <3>2. job[wjob[w]] \in Snapshot
      BY <1>a, <1>17, <3>1 DEF Progress, TypeStore, JobState, Snapshot
    <3> QED
      BY <1>a, <1>17, <3>2, NotifyTypes DEF Progress
  <2>2. TypeStore' /\ TypeRunner' /\ TypeWorkers'
    BY <1>a, <1>17
       DEF Progress, storeVars, runnerVars, workerVars, TypeStore, TypeRunner, TypeWorkers
  <2> QED
    BY <2>1, <2>2
<1>18. ASSUME NEW w \in Worker, WriteOutput(w)
      PROVE  TypeOK'
  <2>1. TypeStore'
    BY <1>a, <1>18 DEF WriteOutput, TypeStore
  <2>2. TypeRunner' /\ TypeWorkers' /\ TypeSubs'
    BY <1>a, <1>18
       DEF WriteOutput, runnerVars, workerVars, subVars, TypeRunner, TypeWorkers, TypeSubs
  <2> QED
    BY <2>1, <2>2
<1>19. ASSUME NEW w \in Worker, NEW res \in {"done", "failed", "away"}, RunEnds(w, res)
      PROVE  TypeOK'
  <2>1. TypeWorkers'
    BY <1>a, <1>19 DEF RunEnds, Goto, TypeWorkers, WorkerPC
  <2>2. TypeStore' /\ TypeRunner' /\ TypeSubs'
    BY <1>a, <1>19
       DEF RunEnds, storeVars, runnerVars, subVars, TypeStore, TypeRunner, TypeSubs
  <2> QED
    BY <2>1, <2>2
<1>20. ASSUME NEW w \in Worker, Settle(w)
      PROVE  TypeOK'
  <2>1. TypeStore'
    <3>1. 0 \in 0 .. MaxWaits /\ wres[w] \in {"done", "failed"}
      BY <1>b, <1>20 DEF Settle, Results
    <3>2. output' \in [Job -> BOOLEAN]
      BY <1>a, <1>20, Zenon DEF Settle, SweepDeleted, Sweep, TypeStore
    <3> QED
      BY <1>a, <1>20, <3>1, <3>2
         DEF Settle, Persist, SavedAs, TypeStore, JobState, Saved
  <2>2. TypeWorkers'
    BY <1>a, <1>20 DEF Settle, Goto, TypeWorkers, WorkerPC
  <2>3. TypeRunner' /\ TypeSubs'
    BY <1>a, <1>20 DEF Settle, runnerVars, subVars, TypeRunner, TypeSubs
  <2> QED
    BY <2>1, <2>2, <2>3
<1>21. ASSUME NEW w \in Worker, Tell(w)
      PROVE  TypeOK'
  <2>1. TypeWorkers'
    BY <1>a, <1>21 DEF Tell, Goto, TypeWorkers, WorkerPC
  <2>2. TypeSubs'
    <3>1. wres[w] \in Snapshot
      BY <1>b, <1>21 DEF Tell, Results, Snapshot
    <3> QED
      BY <1>a, <1>21, <3>1, NotifyTerminalProperty DEF Tell
  <2>3. TypeStore' /\ TypeRunner'
    BY <1>a, <1>21 DEF Tell, storeVars, runnerVars, TypeStore, TypeRunner
  <2> QED
    BY <2>1, <2>2, <2>3
<1>22. ASSUME NEW w \in Worker, Requeue(w)
      PROVE  TypeOK'
  <2>0. wjob[w] \in Job
    BY <1>a, <1>b, <1>22, HasJob DEF Requeue
  <2>1. TypeStore'
    <3>1. job[wjob[w]] # "none" => waits[wjob[w]] + 1 \in 0 .. MaxWaits
      BY <1>a, <1>b, <1>22, <2>0 DEF Requeue, Results, TypeStore
    <3>2. output' \in [Job -> BOOLEAN]
      BY <1>a, <1>22, Zenon DEF Requeue, ResetForRequeue, Sweep, TypeStore
    <3> QED
      BY <1>a, <1>22, <2>0, <3>1, <3>2
         DEF Requeue, Persist, SavedAs, TypeStore, JobState, Saved
  <2>2. TypeWorkers'
    <3>1. job[wjob[w]] # "none" => waits[wjob[w]] + 1 \in 0 .. MaxWaits
      BY <1>a, <1>b, <1>22, <2>0 DEF Requeue, Results, TypeStore
    <3> QED
      BY <1>a, <1>22, <2>0, <3>1 DEF Requeue, Goto, TypeWorkers, WorkerPC
  <2>3. TypeRunner' /\ TypeSubs'
    BY <1>a, <1>22 DEF Requeue, runnerVars, subVars, TypeRunner, TypeSubs
  <2> QED
    BY <2>1, <2>2, <2>3
<1>23. ASSUME NEW w \in Worker, TellWaiting(w)
      PROVE  TypeOK'
  <2>0. wjob[w] \in Job
    BY <1>a, <1>b, <1>23, HasJob DEF TellWaiting
  <2>1. TypeRunner'
    <3>1. <<wjob[w], wwait[w]>> \in Job \X (1 .. MaxWaits)
      BY <1>b, <1>23, <2>0 DEF TellWaiting, Results
    <3> QED
      BY <1>a, <1>23, <3>1 DEF TellWaiting, RetryTimer, TypeRunner
  <2>2. TypeWorkers'
    BY <1>a, <1>23 DEF TellWaiting, Goto, TypeWorkers, WorkerPC
  <2>3. TypeSubs'
    BY <1>a, <1>23, NotifyTypes DEF TellWaiting, Snapshot
  <2>4. TypeStore'
    BY <1>a, <1>23 DEF TellWaiting, storeVars, TypeStore
  <2> QED
    BY <2>1, <2>2, <2>3, <2>4
<1>24. ASSUME NEW w \in Worker, Cleanup(w)
      PROVE  TypeOK'
  <2>1. TypeRunner'
    BY <1>a, <1>24 DEF Cleanup, TypeRunner
  <2>2. TypeWorkers'
    BY <1>a, <1>24 DEF Cleanup, Goto, TypeWorkers, WorkerPC
  <2>3. TypeStore' /\ TypeSubs'
    BY <1>a, <1>24 DEF Cleanup, storeVars, subVars, TypeStore, TypeSubs
  <2> QED
    BY <2>1, <2>2, <2>3
<1>25. ASSUME NEW j \in Job, HoldExpires(j)
      PROVE  TypeOK'
  <2>1. TypeStore'
    BY <1>a, <1>25 DEF HoldExpires, TypeStore
  <2>2. TypeRunner' /\ TypeWorkers' /\ TypeSubs'
    BY <1>a, <1>25
       DEF HoldExpires, runnerVars, workerVars, subVars, TypeRunner, TypeWorkers, TypeSubs
  <2> QED
    BY <2>1, <2>2
<1>26. ASSUME NEW t \in timers, TimerKick(t)
      PROVE  TypeOK'
  <2>1. TypeRunner'
    BY <1>a, <1>26 DEF TimerKick, Kick, TypeRunner
  <2>2. TypeStore' /\ TypeWorkers' /\ TypeSubs'
    BY <1>a, <1>26
       DEF TimerKick, storeVars, workerVars, subVars, TypeStore, TypeWorkers, TypeSubs
  <2> QED
    BY <2>1, <2>2
<1>27. ASSUME Restart
      PROVE  TypeOK'
  <2>1. TypeStore'
    BY <1>a, <1>27 DEF Restart, Reloaded, KeptOutput, TypeStore, JobState, Saved
  <2>2. TypeRunner'
    <3>1. restarts' \in 0 .. MaxRestarts
      BY <1>a, <1>27 DEF Restart, TypeRunner
    <3>2. token' \in BOOLEAN /\ closing' \in BOOLEAN /\ kicks' = {} /\ timers' = {}
          /\ canceled' = {} /\ cancels' \in [Job -> Worker \cup {NoWorker}]
      BY <1>27 DEF Restart
    <3> QED
      BY <3>1, <3>2 DEF TypeRunner
  <2>3. TypeWorkers'
    BY <1>27 DEF Restart, TypeWorkers, WorkerPC
  <2>4. TypeSubs'
    BY <1>27 DEF Restart, TypeSubs
  <2> QED
    BY <2>1, <2>2, <2>3, <2>4
<1>28. CASE UNCHANGED vars
  BY <1>a, <1>28
     DEF vars, storeVars, runnerVars, workerVars, subVars, TypeStore, TypeRunner,
         TypeWorkers, TypeSubs
<1> QED
  BY <1>1, <1>2, <1>3, <1>4, <1>5, <1>6, <1>7, <1>8, <1>9, <1>10, <1>11, <1>12, <1>13,
     <1>14, <1>15, <1>16, <1>17, <1>18, <1>19, <1>20, <1>21, <1>22, <1>23, <1>24, <1>25,
     <1>26, <1>27, <1>28 DEF Next, WorkerStep, Inevitable, Idle

\* Every step keeps the rest of the invariant, part by part.
LEMMA StepInductive == IInv /\ [Next]_vars => IInv'
<1> SUFFICES ASSUME IInv, [Next]_vars PROVE IInv'
  OBVIOUS
<1> DEFINE Rest == /\ Busy /\ Results /\ Fresh /\ Claimed /\ OneRunner /\ OnDisk
                   /\ RerunsFromZero /\ NoDebrisOfDeleted
                   /\ Joining /\ ListenersWillHear /\ ClosedBehindTerminal
<1>a. TypeStore /\ TypeRunner /\ TypeWorkers /\ TypeSubs
  BY DEF IInv, TypeOK
<1>b. Rest
  BY DEF IInv
<1> USE JobsAssumption, NoJobIsNoJob DEF TypeStore, TypeWorkers
<1>1. ASSUME NEW j \in Job, Create(j)
      PROVE  Rest'
  <2>1. Results'
    BY <1>b, <1>1 DEF Create, workerVars, Results, Fresh, Executing
  <2>2. Fresh'
    BY <1>a, <1>b, <1>1 DEF Create, workerVars, Fresh, Executing
  <2>3. Claimed'
    BY <1>b, <1>1 DEF Create, workerVars, Claimed, Executing, Fresh
  <2>4. OnDisk'
    BY <1>a, <1>b, <1>1 DEF Create, OnDisk, SavedAs
  <2>5. RerunsFromZero'
    BY <1>b, <1>1 DEF Create, RerunsFromZero, Fresh
  <2>6. NoDebrisOfDeleted'
    BY <1>b, <1>1 DEF Create, workerVars, NoDebrisOfDeleted, Executing
  <2>7. Joining'
    BY <1>b, <1>1 DEF Create, subVars, Joining
  <2>8. ListenersWillHear'
    BY <1>b, <1>1 DEF Create, workerVars, subVars, ListenersWillHear
  <2>9. ClosedBehindTerminal'
    BY <1>b, <1>1 DEF Create, subVars, ClosedBehindTerminal, Joining
  <2>10. Busy' /\ OneRunner'
    BY <1>b, <1>1 DEF Create, workerVars, Busy, OneRunner, Executing
  <2> QED
    BY <2>1, <2>2, <2>3, <2>4, <2>5, <2>6, <2>7, <2>8, <2>9, <2>10
<1>2. ASSUME NEW j \in Job, CreateKick(j)
      PROVE  Rest'
  <2>1. Busy' /\ Results' /\ Fresh' /\ Claimed' /\ OneRunner' /\ OnDisk'
    BY <1>b, <1>2
       DEF CreateKick, storeVars, workerVars, Busy, Results, Fresh, Claimed, OneRunner,
           OnDisk, Executing
  <2>2. RerunsFromZero' /\ NoDebrisOfDeleted' /\ Joining' /\ ListenersWillHear' /\
        ClosedBehindTerminal'
    BY <1>b, <1>2
       DEF CreateKick, storeVars, workerVars, subVars, RerunsFromZero, NoDebrisOfDeleted,
           Joining, ListenersWillHear, ClosedBehindTerminal, Executing
  <2> QED
    BY <2>1, <2>2
<1>3. ASSUME NEW j \in Job, DeleteRemove(j)
      PROVE  Rest'
  <2>1. Results'
    <3>1. /\ \A i \in Job : i # j => /\ job'[i] = job[i] /\ output'[i] = output[i]
                                     /\ waits'[i] = waits[i]
          /\ job'[j] = "none"
      BY <1>a, <1>3 DEF DeleteRemove, Sweep
    <3>2. \A v \in Worker : wpc[v] \in {"settle", "retry"} => wjob[v] \in Job
      BY <1>a, <1>b, HasJob
    <3> QED
      BY <1>b, <1>3, <3>1, <3>2 DEF DeleteRemove, workerVars, Results
  <2>2. Fresh'
    BY <1>a, <1>b, <1>3 DEF DeleteRemove, Sweep, workerVars, Fresh, Executing
  <2>3. Claimed'
    BY <1>b, <1>3 DEF DeleteRemove, workerVars, Claimed, Executing
  <2>4. OnDisk'
    BY <1>a, <1>b, <1>3 DEF DeleteRemove, OnDisk
  <2>5. RerunsFromZero'
    BY <1>a, <1>b, <1>3 DEF DeleteRemove, Sweep, RerunsFromZero
  <2>6. NoDebrisOfDeleted'
    BY <1>a, <1>b, <1>3
       DEF DeleteRemove, Sweep, runnerVars, workerVars, NoDebrisOfDeleted, Executing
  <2>7. Joining'
    BY <1>b, <1>3 DEF DeleteRemove, subVars, Joining
  <2>8. ListenersWillHear'
    BY <1>a, <1>b, <1>3 DEF DeleteRemove, workerVars, subVars, ListenersWillHear
  <2>9. ClosedBehindTerminal'
    BY <1>b, <1>3 DEF DeleteRemove, subVars, ClosedBehindTerminal
  <2>10. Busy' /\ OneRunner'
    BY <1>b, <1>3 DEF DeleteRemove, workerVars, Busy, OneRunner, Executing
  <2> QED
    BY <2>1, <2>2, <2>3, <2>4, <2>5, <2>6, <2>7, <2>8, <2>9, <2>10
<1>4. ASSUME NEW j \in Job, DeleteCancel(j)
      PROVE  Rest'
  <2>1. Fresh'
    BY <1>b, <1>4 DEF DeleteCancel, storeVars, workerVars, Fresh, Executing
  <2>2. Joining'
    BY <1>b, <1>4 DEF DeleteCancel, subVars, Joining
  <2>3. ListenersWillHear'
    BY <1>b, <1>4 DEF DeleteCancel, storeVars, workerVars, subVars, ListenersWillHear
  <2>4. Busy' /\ Results' /\ Claimed' /\ OneRunner' /\ OnDisk' /\ RerunsFromZero' /\
        NoDebrisOfDeleted' /\ ClosedBehindTerminal'
    BY <1>b, <1>4
       DEF DeleteCancel, storeVars, workerVars, subVars, Busy, Results, Claimed, OneRunner,
           OnDisk, RerunsFromZero, NoDebrisOfDeleted, ClosedBehindTerminal, Executing
  <2> QED
    BY <2>1, <2>2, <2>3, <2>4
<1>5. ASSUME NEW j \in Job, DeleteNotify(j)
      PROVE  Rest'
  <2>1. Fresh'
    BY <1>b, <1>5 DEF DeleteNotify, storeVars, workerVars, Fresh, Executing
  <2>2. Joining'
    BY <1>b, <1>5 DEF DeleteNotify, NotifyTerminal, Listening, Joining
  <2>3. ListenersWillHear'
    BY <1>b, <1>5
       DEF DeleteNotify, NotifyTerminal, Listening, storeVars, workerVars, ListenersWillHear
  <2>4. ClosedBehindTerminal'
    <3>0. "canceled" \in Snapshot
      BY DEF Snapshot
    <3>1. \A q \in Sub : \/ spc'[q] = spc[q] /\ chan'[q] = chan[q] /\ q \notin Listening(j)
                         \/ /\ spc[q] = "listening" /\ sjob[q] = j
                            /\ spc'[q] = "done" /\ chan'[q] # <<>>
                            /\ chan'[q][Len(chan'[q])] = "canceled"
      BY <1>a, <1>5, <3>0, NotifyTerminalProperty DEF DeleteNotify
    <3> QED
      BY <1>b, <1>5, <3>1
         DEF DeleteNotify, NotifyTerminal, storeVars, ClosedBehindTerminal, Terminal
  <2>5. Busy' /\ Results' /\ Claimed' /\ OneRunner' /\ OnDisk' /\ RerunsFromZero' /\
        NoDebrisOfDeleted'
    BY <1>b, <1>5
       DEF DeleteNotify, storeVars, runnerVars, workerVars, Busy, Results, Claimed,
           OneRunner, OnDisk, RerunsFromZero, NoDebrisOfDeleted, Executing
  <2> QED
    BY <2>1, <2>2, <2>3, <2>4, <2>5
<1>6. ASSUME NEW s \in Sub, NEW j \in Job, Subscribe(s, j)
      PROVE  Rest'
  <2>1. Joining'
    <3>1. ASSUME NEW q \in Sub, q # s
          PROVE  spc'[q] = spc[q] /\ chan'[q] = chan[q] /\ sjob'[q] = sjob[q]
      BY <1>a, <1>6, <3>1 DEF Subscribe, TypeSubs
    <3>2. Len(chan'[s]) = 1 /\ sjob'[s] = j /\ dpc[j] # "uncreated"
      BY <1>a, <1>b, <1>6 DEF Subscribe, TypeSubs, Fresh
    <3>3. dpc' = dpc
      BY <1>6 DEF Subscribe
    <3>4. ASSUME NEW q \in Sub
          PROVE  /\ spc'[q] = "joining" => Len(chan'[q]) <= 1
                 /\ spc'[q] \in {"joining", "listening", "done"} =>
                      sjob'[q] \in Job /\ dpc'[sjob'[q]] # "uncreated"
      <4>1. CASE q = s
        <5>1. Len(chan'[q]) = 1
          BY <3>2, <4>1, Zenon
        <5>2. sjob'[q] \in Job /\ dpc'[sjob'[q]] # "uncreated"
          BY <3>2, <3>3, <4>1
        <5>3. \A n : n = 1 => n <= 1
          OBVIOUS
        <5> QED
          BY <5>1, <5>2, <5>3, Zenon
      <4>2. CASE q # s
        BY <1>b, <3>1, <3>3, <4>2 DEF Joining
      <4> QED
        BY <4>1, <4>2
    <3> QED
      BY <3>4 DEF Joining
  <2>2. ListenersWillHear'
    BY <1>b, <1>6 DEF Subscribe, storeVars, workerVars, ListenersWillHear
  <2>3. ClosedBehindTerminal'
    <3>1. ASSUME NEW q \in Sub, q # s
          PROVE  spc'[q] = spc[q] /\ chan'[q] = chan[q] /\ last'[q] = last[q] /\ sjob'[q] = sjob[q]
      BY <1>a, <1>6, <3>1 DEF Subscribe, TypeSubs
    <3>2. spc'[s] = "done" => chan'[s] # <<>> /\ chan'[s][Len(chan'[s])] \in Terminal
      BY <1>a, <1>6 DEF Subscribe, TypeSubs
    <3> QED
      BY <1>b, <1>6, <3>1, <3>2 DEF Subscribe, storeVars, ClosedBehindTerminal
  <2>4. Busy' /\ Results' /\ Fresh' /\ Claimed' /\ OneRunner' /\ OnDisk' /\ RerunsFromZero' /\
        NoDebrisOfDeleted'
    BY <1>b, <1>6
       DEF Subscribe, storeVars, runnerVars, workerVars, Busy, Results, Fresh, Claimed,
           OneRunner, OnDisk, RerunsFromZero, NoDebrisOfDeleted, Executing
  <2> QED
    BY <2>1, <2>2, <2>3, <2>4
<1>7. ASSUME NEW s \in Sub, Join(s)
      PROVE  Rest'
  <2>1. Joining'
    <3>1. ASSUME NEW q \in Sub, q # s
          PROVE  spc'[q] = spc[q] /\ chan'[q] = chan[q]
      BY <1>a, <1>7, <3>1 DEF Join, TypeSubs
    <3>2. spc'[s] \in {"done", "listening"} /\ spc[s] = "joining"
      BY <1>a, <1>7 DEF Join, TypeSubs
    <3> QED
      BY <1>b, <1>7, <3>1, <3>2 DEF Join, Joining
  <2>2. ListenersWillHear'
    <3>1. ASSUME NEW q \in Sub, q # s
          PROVE  spc'[q] = spc[q] /\ chan'[q] = chan[q]
      BY <1>a, <1>7, <3>1 DEF Join, TypeSubs
    <3>2. spc'[s] = "listening" => job[sjob[s]] \notin {"none", "done", "failed"}
      BY <1>a, <1>7 DEF Join, TypeSubs, Finished, Terminal
    <3> QED
      BY <1>b, <1>7, <3>1, <3>2 DEF Join, storeVars, workerVars, ListenersWillHear
  <2>3. ClosedBehindTerminal'
    <3>1. ASSUME NEW q \in Sub, q # s
          PROVE  spc'[q] = spc[q] /\ chan'[q] = chan[q]
      BY <1>a, <1>7, <3>1 DEF Join, TypeSubs
    <3>2. sjob[s] \in Job /\ chan[s] \in Seq(Snapshot)
      BY <1>a, <1>b, <1>7 DEF Join, Joining, TypeSubs
    <3>3. ASSUME NEW x \in Snapshot
          PROVE  /\ Append(chan[s], x) # <<>>
                 /\ Append(chan[s], x)[Len(Append(chan[s], x))] = x
      BY <3>2, AppendLast
    <3>4. job[sjob[s]] \in Terminal => job[sjob[s]] \in Snapshot
      BY DEF Terminal, Snapshot
    <3>5. spc'[s] = "done" =>
            \/ job[sjob[s]] = "none"
            \/ job[sjob[s]] \in Terminal /\ chan'[s] = Append(chan[s], job[sjob[s]])
      BY <1>a, <1>7 DEF Join, TypeSubs, Finished, Terminal
    <3> QED
      BY <1>b, <1>7, <3>1, <3>3, <3>4, <3>5 DEF Join, storeVars, ClosedBehindTerminal
  <2>4. Busy' /\ Results' /\ Fresh' /\ Claimed' /\ OneRunner' /\ OnDisk' /\ RerunsFromZero' /\
        NoDebrisOfDeleted'
    BY <1>b, <1>7
       DEF Join, storeVars, runnerVars, workerVars, Busy, Results, Fresh, Claimed,
           OneRunner, OnDisk, RerunsFromZero, NoDebrisOfDeleted, Executing
  <2> QED
    BY <2>1, <2>2, <2>3, <2>4
<1>8. ASSUME NEW s \in Sub, Receive(s)
      PROVE  Rest'
  <2>1. Joining'
    BY <1>b, <1>8 DEF Receive, Joining
  <2>2. ClosedBehindTerminal'
    <3>1. ASSUME NEW q \in Sub, q # s
          PROVE  chan'[q] = chan[q] /\ last'[q] = last[q]
      BY <1>a, <1>8, <3>1 DEF Receive, TypeSubs
    <3>2. chan[s] \in Seq(Snapshot) /\ chan[s] # <<>> /\ chan'[s] = Tail(chan[s])
          /\ last'[s] = Head(chan[s])
      BY <1>a, <1>8 DEF Receive, TypeSubs
    <3>3. IF chan'[s] = <<>> THEN last'[s] = chan[s][Len(chan[s])]
          ELSE chan'[s][Len(chan'[s])] = chan[s][Len(chan[s])]
      BY <3>2, TailLast
    <3> QED
      BY <1>b, <1>8, <3>1, <3>2, <3>3 DEF Receive, storeVars, ClosedBehindTerminal
  <2>3. Busy' /\ Results' /\ Fresh' /\ Claimed' /\ OneRunner' /\ OnDisk'
    BY <1>b, <1>8
       DEF Receive, storeVars, workerVars, Busy, Results, Fresh, Claimed, OneRunner, OnDisk,
           Executing
  <2>4. RerunsFromZero' /\ NoDebrisOfDeleted' /\ ListenersWillHear'
    BY <1>b, <1>8
       DEF Receive, storeVars, runnerVars, workerVars, RerunsFromZero, NoDebrisOfDeleted,
           ListenersWillHear, Executing
  <2> QED
    BY <2>1, <2>2, <2>3, <2>4
<1>9. ASSUME NEW s \in Sub, Unsubscribe(s)
      PROVE  Rest'
  <2>1. Joining'
    BY <1>b, <1>9 DEF Unsubscribe, Joining
  <2>2. ListenersWillHear'
    BY <1>b, <1>9 DEF Unsubscribe, storeVars, workerVars, ListenersWillHear
  <2>3. ClosedBehindTerminal'
    BY <1>b, <1>9 DEF Unsubscribe, storeVars, ClosedBehindTerminal
  <2>4. Busy' /\ Results' /\ Fresh' /\ Claimed' /\ OneRunner' /\ OnDisk' /\ RerunsFromZero' /\
        NoDebrisOfDeleted'
    BY <1>b, <1>9
       DEF Unsubscribe, storeVars, runnerVars, workerVars, Busy, Results, Fresh, Claimed,
           OneRunner, OnDisk, RerunsFromZero, NoDebrisOfDeleted, Executing
  <2> QED
    BY <2>1, <2>2, <2>3, <2>4
<1>10. ASSUME Close
      PROVE  Rest'
  <2>1. NoDebrisOfDeleted'
    BY <1>10 DEF Close, NoDebrisOfDeleted
  <2>2. Busy' /\ Results' /\ Fresh' /\ Claimed' /\ OneRunner' /\ OnDisk'
    BY <1>b, <1>10
       DEF Close, storeVars, workerVars, Busy, Results, Fresh, Claimed, OneRunner, OnDisk,
           Executing
  <2>3. RerunsFromZero' /\ Joining' /\ ListenersWillHear' /\ ClosedBehindTerminal'
    BY <1>b, <1>10
       DEF Close, storeVars, workerVars, subVars, RerunsFromZero, Joining,
           ListenersWillHear, ClosedBehindTerminal
  <2> QED
    BY <2>1, <2>2, <2>3
<1>11. ASSUME NEW w \in Worker, Claim(w)
      PROVE  Rest'
  <2>e. PICK k \in Job :
           /\ job[k] = "queued" /\ job' = [job EXCEPT ![k] = "running"]
           /\ disk' \in {disk, [disk EXCEPT ![k] = "live"]}
           /\ wjob' = [wjob EXCEPT ![w] = k]
    BY <1>11 DEF Claim, Claimable, Persist, SavedAs
  <2>f. /\ UNCHANGED <<output, waits, wres, wwait, closing, dpc, spc, sjob, chan, last>>
        /\ wpc[w] = "claim" /\ wpc' = [wpc EXCEPT ![w] = "claimed"]
    BY <1>11 DEF Claim, Goto, runnerVars, subVars
  <2>g. \A v \in Worker, j \in Job : Executing(v, j)' <=> Executing(v, j) \/ (v = w /\ j = k)
    BY <1>a, <2>e, <2>f DEF Executing
  <2>h. \A v \in Worker : ~Executing(v, k)
    BY <1>b, <2>e DEF Claimed
  <2>1. Busy'
    BY <1>a, <1>b, <2>e, <2>f DEF Busy
  <2>2. Results'
    BY <1>b, <2>e, <2>f DEF Results
  <2>3. Fresh'
    BY <1>a, <1>b, <2>e, <2>f, <2>g DEF Fresh
  <2>4. Claimed'
    BY <1>a, <1>b, <2>e, <2>g DEF Claimed
  <2>5. OneRunner'
    BY <1>b, <2>g, <2>h DEF OneRunner
  <2>6. OnDisk'
    BY <1>a, <1>b, <2>e DEF OnDisk
  <2>7. RerunsFromZero'
    BY <1>b, <2>e, <2>f DEF RerunsFromZero
  <2>8. NoDebrisOfDeleted'
    BY <1>b, <2>e, <2>f, <2>g DEF NoDebrisOfDeleted
  <2>9. ListenersWillHear'
    <3>1. \A v \in Worker : wpc[v] = "tell" => wpc'[v] = "tell" /\ wjob'[v] = wjob[v]
      BY <1>a, <2>e, <2>f
    <3>2. \A i \in Job : job'[i] \in {"none", "done", "failed"} => job'[i] = job[i]
      BY <1>a, <2>e
    <3>3. \A q \in Sub : spc[q] = "listening" => sjob[q] \in Job
      BY <1>b DEF Joining
    <3> QED
      BY <1>b, <2>f, <3>1, <3>2, <3>3 DEF ListenersWillHear
  <2>10. ClosedBehindTerminal'
    BY <1>b, <2>e, <2>f DEF ClosedBehindTerminal
  <2>11. Joining'
    BY <1>b, <1>11 DEF Claim, subVars, Joining
  <2> QED
    BY <2>1, <2>2, <2>3, <2>4, <2>5, <2>6, <2>7, <2>8, <2>9, <2>10, <2>11
<1>12. ASSUME NEW w \in Worker, ClaimNothing(w)
      PROVE  Rest'
  <2>1. Busy'
    BY <1>b, <1>12 DEF ClaimNothing, Goto, Busy
  <2>2. Results'
    BY <1>b, <1>12 DEF ClaimNothing, Goto, storeVars, Results
  <2>3. Fresh'
    BY <1>b, <1>12 DEF ClaimNothing, Goto, storeVars, Fresh, Executing
  <2>4. Claimed'
    BY <1>b, <1>12 DEF ClaimNothing, Goto, storeVars, Claimed, Executing
  <2>5. OneRunner'
    BY <1>b, <1>12 DEF ClaimNothing, Goto, OneRunner, Executing
  <2>6. NoDebrisOfDeleted'
    BY <1>b, <1>12
       DEF ClaimNothing, Goto, storeVars, runnerVars, NoDebrisOfDeleted, Executing
  <2>7. ListenersWillHear'
    <3>1. /\ UNCHANGED <<job, dpc, spc, sjob, wjob>>
          /\ \A v \in Worker : wpc[v] = "tell" => wpc'[v] = "tell"
      BY <1>a, <1>12 DEF ClaimNothing, Goto, storeVars, subVars
    <3> QED
      BY <1>b, <3>1, TellersStay
  <2>8. OnDisk' /\ RerunsFromZero' /\ Joining' /\ ClosedBehindTerminal'
    BY <1>b, <1>12
       DEF ClaimNothing, storeVars, subVars, OnDisk, RerunsFromZero, Joining,
           ClosedBehindTerminal
  <2> QED
    BY <2>1, <2>2, <2>3, <2>4, <2>5, <2>6, <2>7, <2>8
<1>13. ASSUME NEW w \in Worker, Unpark(w)
      PROVE  Rest'
  <2>1. Busy'
    BY <1>b, <1>13 DEF Unpark, Goto, Busy
  <2>2. Results'
    BY <1>b, <1>13 DEF Unpark, Goto, storeVars, Results
  <2>3. Fresh'
    BY <1>b, <1>13 DEF Unpark, Goto, storeVars, Fresh, Executing
  <2>4. Claimed'
    BY <1>b, <1>13 DEF Unpark, Goto, storeVars, Claimed, Executing
  <2>5. OneRunner'
    BY <1>b, <1>13 DEF Unpark, Goto, OneRunner, Executing
  <2>6. NoDebrisOfDeleted'
    BY <1>b, <1>13 DEF Unpark, Goto, storeVars, NoDebrisOfDeleted, Executing
  <2>7. ListenersWillHear'
    <3>1. /\ UNCHANGED <<job, dpc, spc, sjob, wjob>>
          /\ \A v \in Worker : wpc[v] = "tell" => wpc'[v] = "tell"
      BY <1>a, <1>13 DEF Unpark, Goto, storeVars, subVars
    <3> QED
      BY <1>b, <3>1, TellersStay
  <2>8. OnDisk' /\ RerunsFromZero' /\ Joining' /\ ClosedBehindTerminal'
    BY <1>b, <1>13
       DEF Unpark, storeVars, subVars, OnDisk, RerunsFromZero, Joining, ClosedBehindTerminal
  <2> QED
    BY <2>1, <2>2, <2>3, <2>4, <2>5, <2>6, <2>7, <2>8
<1>14. ASSUME NEW w \in Worker, Stop(w)
      PROVE  Rest'
  <2>1. Busy'
    BY <1>b, <1>14 DEF Stop, Goto, Busy
  <2>2. Results'
    BY <1>b, <1>14 DEF Stop, Goto, storeVars, Results
  <2>3. Fresh'
    BY <1>b, <1>14 DEF Stop, Goto, storeVars, Fresh, Executing
  <2>4. Claimed'
    BY <1>b, <1>14 DEF Stop, Goto, storeVars, Claimed, Executing
  <2>5. OneRunner'
    BY <1>b, <1>14 DEF Stop, Goto, OneRunner, Executing
  <2>6. NoDebrisOfDeleted'
    BY <1>14 DEF Stop, runnerVars, NoDebrisOfDeleted
  <2>7. ListenersWillHear'
    <3>1. /\ UNCHANGED <<job, dpc, spc, sjob, wjob>>
          /\ \A v \in Worker : wpc[v] = "tell" => wpc'[v] = "tell"
      BY <1>a, <1>14 DEF Stop, Goto, storeVars, subVars
    <3> QED
      BY <1>b, <3>1, TellersStay
  <2>8. OnDisk' /\ RerunsFromZero' /\ Joining' /\ ClosedBehindTerminal'
    BY <1>b, <1>14
       DEF Stop, storeVars, subVars, OnDisk, RerunsFromZero, Joining, ClosedBehindTerminal
  <2> QED
    BY <2>1, <2>2, <2>3, <2>4, <2>5, <2>6, <2>7, <2>8
<1>15. ASSUME NEW w \in Worker, Announce(w)
      PROVE  Rest'
  <2>1. Busy'
    BY <1>b, <1>15 DEF Announce, Goto, Busy
  <2>2. Results'
    BY <1>b, <1>15 DEF Announce, Goto, storeVars, Results
  <2>3. Fresh'
    BY <1>b, <1>15 DEF Announce, Goto, storeVars, Fresh, Executing
  <2>4. Claimed'
    BY <1>b, <1>15 DEF Announce, Goto, storeVars, Claimed, Executing
  <2>5. OneRunner'
    BY <1>b, <1>15 DEF Announce, Goto, OneRunner, Executing
  <2>6. NoDebrisOfDeleted'
    BY <1>b, <1>15 DEF Announce, Goto, storeVars, NoDebrisOfDeleted, Executing
  <2>7. Joining'
    BY <1>b, <1>15 DEF Announce, Notify, Listening, Joining
  <2>8. ListenersWillHear'
    <3>1. /\ UNCHANGED <<job, dpc, spc, sjob, wjob>>
          /\ \A v \in Worker : wpc[v] = "tell" => wpc'[v] = "tell"
      BY <1>a, <1>15 DEF Announce, Goto, storeVars, Notify
    <3> QED
      BY <1>b, <3>1, TellersStay
  <2>9. ClosedBehindTerminal'
    BY <1>b, <1>15 DEF Announce, Notify, Listening, storeVars, ClosedBehindTerminal
  <2>10. OnDisk' /\ RerunsFromZero'
    BY <1>b, <1>15 DEF Announce, storeVars, OnDisk, RerunsFromZero
  <2> QED
    BY <2>1, <2>2, <2>3, <2>4, <2>5, <2>6, <2>7, <2>8, <2>9, <2>10
<1>16. ASSUME NEW w \in Worker, Register(w)
      PROVE  Rest'
  <2>1. Busy'
    BY <1>b, <1>16 DEF Register, Goto, Busy
  <2>2. Results'
    BY <1>b, <1>16 DEF Register, Goto, storeVars, Results
  <2>3. Fresh'
    BY <1>b, <1>16 DEF Register, Goto, storeVars, Fresh, Executing
  <2>4. Claimed'
    BY <1>b, <1>16 DEF Register, Goto, storeVars, Claimed, Executing
  <2>5. OneRunner'
    BY <1>b, <1>16 DEF Register, Goto, OneRunner, Executing
  <2>6. NoDebrisOfDeleted'
    BY <1>b, <1>16 DEF Register, Goto, storeVars, NoDebrisOfDeleted, Executing
  <2>7. ListenersWillHear'
    <3>1. /\ UNCHANGED <<job, dpc, spc, sjob, wjob>>
          /\ \A v \in Worker : wpc[v] = "tell" => wpc'[v] = "tell"
      BY <1>a, <1>16 DEF Register, Goto, storeVars, subVars
    <3> QED
      BY <1>b, <3>1, TellersStay
  <2>8. OnDisk' /\ RerunsFromZero' /\ Joining' /\ ClosedBehindTerminal'
    BY <1>b, <1>16
       DEF Register, storeVars, subVars, OnDisk, RerunsFromZero, Joining,
           ClosedBehindTerminal
  <2> QED
    BY <2>1, <2>2, <2>3, <2>4, <2>5, <2>6, <2>7, <2>8
<1>17. ASSUME NEW w \in Worker, Progress(w)
      PROVE  Rest'
  <2>1. Joining'
    BY <1>b, <1>17 DEF Progress, Notify, Listening, Joining
  <2>2. ClosedBehindTerminal'
    BY <1>b, <1>17 DEF Progress, Notify, Listening, storeVars, ClosedBehindTerminal
  <2>3. Busy' /\ Results' /\ Fresh' /\ Claimed' /\ OneRunner' /\ OnDisk'
    BY <1>b, <1>17
       DEF Progress, storeVars, workerVars, Busy, Results, Fresh, Claimed, OneRunner,
           OnDisk, Executing
  <2>4. RerunsFromZero' /\ NoDebrisOfDeleted' /\ ListenersWillHear'
    BY <1>b, <1>17
       DEF Progress, Notify, storeVars, runnerVars, workerVars, RerunsFromZero,
           NoDebrisOfDeleted, ListenersWillHear, Executing
  <2> QED
    BY <2>1, <2>2, <2>3, <2>4
<1>18. ASSUME NEW w \in Worker, WriteOutput(w)
      PROVE  Rest'
  <2>1. Results'
    BY <1>b, <1>18 DEF WriteOutput, workerVars, Results
  <2>2. Fresh'
    BY <1>b, <1>18 DEF WriteOutput, workerVars, Fresh, Executing
  <2>3. RerunsFromZero'
    BY <1>b, <1>18 DEF WriteOutput, RerunsFromZero, Claimed, Executing
  <2>4. NoDebrisOfDeleted'
    BY <1>b, <1>18 DEF WriteOutput, runnerVars, workerVars, NoDebrisOfDeleted, Executing
  <2>5. Busy' /\ Claimed' /\ OneRunner' /\ OnDisk' /\ Joining' /\ ListenersWillHear' /\
        ClosedBehindTerminal'
    BY <1>b, <1>18
       DEF WriteOutput, workerVars, subVars, Busy, Claimed, OneRunner, OnDisk, Joining,
           ListenersWillHear, ClosedBehindTerminal, Executing
  <2> QED
    BY <2>1, <2>2, <2>3, <2>4, <2>5
<1>19. ASSUME NEW w \in Worker, NEW res \in {"done", "failed", "away"}, RunEnds(w, res)
      PROVE  Rest'
  <2>0. wjob[w] \in Job /\ job[wjob[w]] \in {"running", "none"}
        /\ \A v \in Worker : Executing(v, wjob[w]) <=> v = w
    BY <1>a, <1>b, <1>19, AtWork DEF RunEnds
  <2>1. Busy'
    BY <1>b, <1>19 DEF RunEnds, Goto, Busy
  <2>2. Results'
    BY <1>a, <1>b, <1>19, <2>0 DEF RunEnds, Goto, storeVars, Results
  <2>3. Fresh'
    BY <1>b, <1>19 DEF RunEnds, Goto, storeVars, Fresh, Executing
  <2>4. Claimed'
    BY <1>b, <1>19 DEF RunEnds, Goto, storeVars, Claimed, Executing
  <2>5. OneRunner'
    BY <1>b, <1>19 DEF RunEnds, Goto, OneRunner, Executing
  <2>6. NoDebrisOfDeleted'
    BY <1>b, <1>19 DEF RunEnds, Goto, storeVars, runnerVars, NoDebrisOfDeleted, Executing
  <2>7. ListenersWillHear'
    <3>1. /\ UNCHANGED <<job, dpc, spc, sjob, wjob>>
          /\ \A v \in Worker : wpc[v] = "tell" => wpc'[v] = "tell"
      BY <1>a, <1>19 DEF RunEnds, Goto, storeVars, subVars
    <3> QED
      BY <1>b, <3>1, TellersStay
  <2>8. OnDisk' /\ RerunsFromZero' /\ Joining' /\ ClosedBehindTerminal'
    BY <1>b, <1>19
       DEF RunEnds, storeVars, subVars, OnDisk, RerunsFromZero, Joining,
           ClosedBehindTerminal
  <2> QED
    BY <2>1, <2>2, <2>3, <2>4, <2>5, <2>6, <2>7, <2>8
<1>20. ASSUME NEW w \in Worker, Settle(w)
      PROVE  Rest'
  <2>0. wjob[w] \in Job /\ job[wjob[w]] \in {"running", "none"}
        /\ \A v \in Worker : Executing(v, wjob[w]) <=> v = w
    BY <1>a, <1>b, <1>20, AtWork DEF Settle
  <2>g. wpc[w] = "settle"
    BY <1>20 DEF Settle
  <2>e. /\ UNCHANGED <<wjob, wres, closing, dpc, spc, sjob, chan, last>>
        /\ \A v \in Worker : v # w => wpc'[v] = wpc[v] /\ wwait'[v] = wwait[v]
        /\ \A j \in Job : j # wjob[w] => /\ job'[j] = job[j] /\ disk'[j] = disk[j]
                                        /\ output'[j] = output[j] /\ waits'[j] = waits[j]
        /\ job[wjob[w]] = "none" =>
             /\ job'[wjob[w]] = "none" /\ disk'[wjob[w]] = disk[wjob[w]]
             /\ ~output'[wjob[w]] /\ wpc'[w] = "cleanup"
        /\ job[wjob[w]] # "none" =>
             /\ job'[wjob[w]] = wres[w] /\ wres[w] \in {"done", "failed"}
             /\ disk'[wjob[w]] \in {disk[wjob[w]], wres[w]}
             /\ output'[wjob[w]] = output[wjob[w]] /\ waits'[wjob[w]] = 0 /\ wpc'[w] = "tell"
    BY <1>a, <1>b, <1>20, <2>0
       DEF Settle, SweepDeleted, Sweep, Persist, Goto, SavedAs, Results, subVars, runnerVars
  <2>f. \A v \in Worker, j \in Job : Executing(v, j)' <=> Executing(v, j) /\ v # w
    BY <1>a, <1>20, <2>e DEF Settle, Executing, Goto
  <2>h. \A v \in Worker, j \in Job : j # wjob[w] => (Executing(v, j)' <=> Executing(v, j))
    BY <2>f DEF Executing
  <2>i. \A v \in Worker : wpc[v] = "tell" => wpc'[v] = "tell"
    BY <2>e, <2>g
  <2>1. Busy'
    BY <1>b, <2>g, <2>e DEF Busy
  <2>2. Results'
    BY <1>a, <1>b, <2>e DEF Results, Busy
  <2>3. Fresh'
    BY <1>b, <2>e, <2>f DEF Fresh
  <2>4. Claimed'
    BY <1>b, <2>0, <2>e, <2>f DEF Claimed
  <2>5. OneRunner'
    BY <1>b, <2>f DEF OneRunner
  <2>6. OnDisk'
    BY <1>b, <2>0, <2>e DEF OnDisk
  <2>7. RerunsFromZero'
    BY <1>b, <2>g, <2>e DEF RerunsFromZero, Results
  <2>8. NoDebrisOfDeleted'
    BY <1>b, <2>e, <2>h DEF NoDebrisOfDeleted
  <2>9. ListenersWillHear'
    BY <1>b, <2>e, <2>i DEF ListenersWillHear, Joining
  <2>10. ClosedBehindTerminal'
    BY <1>b, <2>e DEF ClosedBehindTerminal, Joining
  <2>11. Joining'
    BY <1>b, <1>20 DEF Settle, subVars, Joining
  <2> QED
    BY <2>1, <2>2, <2>3, <2>4, <2>5, <2>6, <2>7, <2>8, <2>9, <2>10, <2>11
<1>21. ASSUME NEW w \in Worker, Tell(w)
      PROVE  Rest'
  <2>1. Busy'
    BY <1>b, <1>21 DEF Tell, Goto, Busy
  <2>2. Results'
    BY <1>b, <1>21 DEF Tell, Goto, storeVars, Results
  <2>3. Fresh'
    BY <1>b, <1>21 DEF Tell, Goto, storeVars, Fresh, Executing
  <2>4. Claimed'
    BY <1>b, <1>21 DEF Tell, Goto, storeVars, Claimed, Executing
  <2>5. OneRunner'
    BY <1>b, <1>21 DEF Tell, Goto, OneRunner, Executing
  <2>6. NoDebrisOfDeleted'
    BY <1>b, <1>21 DEF Tell, Goto, storeVars, runnerVars, NoDebrisOfDeleted, Executing
  <2>7. Joining'
    BY <1>b, <1>21 DEF Tell, NotifyTerminal, Listening, Joining
  <2>8. ListenersWillHear'
    <3>0. wres[w] \in Snapshot
      BY <1>b, <1>21 DEF Tell, Snapshot, Results
    <3>1. \A q \in Sub : \/ spc'[q] = spc[q] /\ chan'[q] = chan[q] /\ q \notin Listening(wjob[w])
                         \/ /\ spc[q] = "listening" /\ sjob[q] = wjob[w]
                            /\ spc'[q] = "done" /\ chan'[q] # <<>>
                            /\ chan'[q][Len(chan'[q])] = wres[w]
      BY <1>a, <1>21, <3>0, NotifyTerminalProperty DEF Tell
    <3>2. \A q \in Sub : spc'[q] = "listening" => spc[q] = "listening" /\ sjob[q] # wjob[w]
      BY <3>1 DEF Listening
    <3>3. /\ UNCHANGED <<job, dpc, sjob, wjob>>
          /\ \A v \in Worker : wpc[v] = "tell" /\ wjob[v] # wjob[w] => wpc'[v] = "tell"
      BY <1>a, <1>21 DEF Tell, NotifyTerminal, Goto, storeVars
    <3> QED
      BY <1>b, <3>2, <3>3 DEF ListenersWillHear
  <2>9. ClosedBehindTerminal'
    <3>0. wres[w] \in Snapshot
      BY <1>b, <1>21 DEF Tell, Snapshot, Results
    <3>1. \A q \in Sub : \/ spc'[q] = spc[q] /\ chan'[q] = chan[q] /\ q \notin Listening(wjob[w])
                         \/ /\ spc[q] = "listening" /\ sjob[q] = wjob[w]
                            /\ spc'[q] = "done" /\ chan'[q] # <<>>
                            /\ chan'[q][Len(chan'[q])] = wres[w]
      BY <1>a, <1>21, <3>0, NotifyTerminalProperty DEF Tell
    <3>2. wres[w] \in Terminal
      BY <1>b, <1>21 DEF Tell, Results, Terminal
    <3> QED
      BY <1>b, <1>21, <3>1, <3>2 DEF Tell, NotifyTerminal, storeVars, ClosedBehindTerminal
  <2>10. OnDisk' /\ RerunsFromZero'
    BY <1>b, <1>21 DEF Tell, storeVars, OnDisk, RerunsFromZero
  <2> QED
    BY <2>1, <2>2, <2>3, <2>4, <2>5, <2>6, <2>7, <2>8, <2>9, <2>10
<1>22. ASSUME NEW w \in Worker, Requeue(w)
      PROVE  Rest'
  <2>0. wjob[w] \in Job /\ job[wjob[w]] \in {"running", "none"}
        /\ \A v \in Worker : Executing(v, wjob[w]) <=> v = w
    BY <1>a, <1>b, <1>22, AtWork DEF Requeue
  <2>g. wpc[w] = "retry"
    BY <1>22 DEF Requeue
  <2>e. /\ UNCHANGED <<wjob, wres, closing, dpc, spc, sjob, chan, last>>
        /\ \A v \in Worker : v # w => wpc'[v] = wpc[v] /\ wwait'[v] = wwait[v]
        /\ \A j \in Job : j # wjob[w] => /\ job'[j] = job[j] /\ disk'[j] = disk[j]
                                        /\ output'[j] = output[j] /\ waits'[j] = waits[j]
        /\ job[wjob[w]] = "none" =>
             /\ job'[wjob[w]] = "none" /\ disk'[wjob[w]] = disk[wjob[w]]
             /\ ~output'[wjob[w]] /\ wpc'[w] = "cleanup"
        /\ job[wjob[w]] # "none" =>
             /\ job'[wjob[w]] = "queued" /\ disk'[wjob[w]] \in {disk[wjob[w]], "live"}
             /\ ~output'[wjob[w]] /\ waits'[wjob[w]] = waits[wjob[w]] + 1
             /\ wwait'[w] = waits[wjob[w]] + 1 /\ wpc'[w] = "tellwait"
    BY <1>a, <1>22, <2>0
       DEF Requeue, ResetForRequeue, Sweep, Persist, Goto, SavedAs, subVars, runnerVars
  <2>f. \A v \in Worker, j \in Job : Executing(v, j)' <=> Executing(v, j) /\ v # w
    BY <1>a, <1>22, <2>e DEF Requeue, Executing, Goto
  <2>h. \A v \in Worker, j \in Job : j # wjob[w] => (Executing(v, j)' <=> Executing(v, j))
    BY <2>f DEF Executing
  <2>i. \A v \in Worker : wpc[v] = "tell" => wpc'[v] = "tell"
    BY <2>e, <2>g
  <2>1. Busy'
    BY <1>b, <2>g, <2>e DEF Busy
  <2>2. Results'
    BY <1>a, <1>b, <2>0, <2>g, <2>e DEF Results, Executing, Busy
  <2>3. Fresh'
    BY <1>b, <2>e, <2>f DEF Fresh
  <2>4. Claimed'
    BY <1>b, <2>0, <2>e, <2>f DEF Claimed
  <2>5. OneRunner'
    BY <1>b, <2>f DEF OneRunner
  <2>6. OnDisk'
    BY <1>b, <2>0, <2>e DEF OnDisk
  <2>7. RerunsFromZero'
    BY <1>b, <2>e DEF RerunsFromZero
  <2>8. NoDebrisOfDeleted'
    BY <1>b, <2>e, <2>h DEF NoDebrisOfDeleted
  <2>9. ListenersWillHear'
    BY <1>b, <2>e, <2>i DEF ListenersWillHear, Joining
  <2>10. ClosedBehindTerminal'
    BY <1>b, <2>e DEF ClosedBehindTerminal, Joining
  <2>11. Joining'
    BY <1>b, <1>22 DEF Requeue, subVars, Joining
  <2> QED
    BY <2>1, <2>2, <2>3, <2>4, <2>5, <2>6, <2>7, <2>8, <2>9, <2>10, <2>11
<1>23. ASSUME NEW w \in Worker, TellWaiting(w)
      PROVE  Rest'
  <2>1. Busy'
    BY <1>b, <1>23 DEF TellWaiting, Goto, Busy
  <2>2. Results'
    BY <1>b, <1>23 DEF TellWaiting, Goto, storeVars, Results
  <2>3. Fresh'
    BY <1>b, <1>23 DEF TellWaiting, Goto, storeVars, Fresh, Executing
  <2>4. Claimed'
    BY <1>b, <1>23 DEF TellWaiting, Goto, storeVars, Claimed, Executing
  <2>5. OneRunner'
    BY <1>b, <1>23 DEF TellWaiting, Goto, OneRunner, Executing
  <2>6. NoDebrisOfDeleted'
    BY <1>b, <1>23 DEF TellWaiting, Goto, storeVars, NoDebrisOfDeleted, Executing
  <2>7. Joining'
    BY <1>b, <1>23 DEF TellWaiting, Notify, Listening, Joining
  <2>8. ListenersWillHear'
    <3>1. /\ UNCHANGED <<job, dpc, spc, sjob, wjob>>
          /\ \A v \in Worker : wpc[v] = "tell" => wpc'[v] = "tell"
      BY <1>a, <1>23 DEF TellWaiting, Goto, storeVars, Notify
    <3> QED
      BY <1>b, <3>1, TellersStay
  <2>9. ClosedBehindTerminal'
    BY <1>b, <1>23 DEF TellWaiting, Notify, Listening, storeVars, ClosedBehindTerminal
  <2>10. OnDisk' /\ RerunsFromZero'
    BY <1>b, <1>23 DEF TellWaiting, storeVars, OnDisk, RerunsFromZero
  <2> QED
    BY <2>1, <2>2, <2>3, <2>4, <2>5, <2>6, <2>7, <2>8, <2>9, <2>10
<1>24. ASSUME NEW w \in Worker, Cleanup(w)
      PROVE  Rest'
  <2>1. Busy'
    BY <1>a, <1>b, <1>24 DEF Cleanup, Goto, Busy
  <2>2. Results'
    BY <1>b, <1>24 DEF Cleanup, Goto, storeVars, Results
  <2>3. Fresh'
    BY <1>b, <1>24 DEF Cleanup, Goto, storeVars, Fresh, Executing
  <2>4. Claimed'
    BY <1>b, <1>24 DEF Cleanup, Goto, storeVars, Claimed, Executing
  <2>5. OneRunner'
    BY <1>b, <1>24 DEF Cleanup, Goto, OneRunner, Executing
  <2>6. NoDebrisOfDeleted'
    BY <1>b, <1>24 DEF Cleanup, Goto, storeVars, NoDebrisOfDeleted, Executing
  <2>7. ListenersWillHear'
    BY <1>b, <1>24 DEF Cleanup, Goto, storeVars, subVars, ListenersWillHear
  <2>8. OnDisk' /\ RerunsFromZero' /\ Joining' /\ ClosedBehindTerminal'
    BY <1>b, <1>24
       DEF Cleanup, storeVars, subVars, OnDisk, RerunsFromZero, Joining,
           ClosedBehindTerminal
  <2> QED
    BY <2>1, <2>2, <2>3, <2>4, <2>5, <2>6, <2>7, <2>8
<1>25. ASSUME NEW j \in Job, HoldExpires(j)
      PROVE  Rest'
  <2>1. Busy' /\ Results' /\ Fresh' /\ Claimed' /\ OneRunner' /\ OnDisk'
    BY <1>b, <1>25
       DEF HoldExpires, workerVars, Busy, Results, Fresh, Claimed, OneRunner, OnDisk,
           Executing
  <2>2. RerunsFromZero' /\ NoDebrisOfDeleted' /\ Joining' /\ ListenersWillHear' /\
        ClosedBehindTerminal'
    BY <1>b, <1>25
       DEF HoldExpires, runnerVars, workerVars, subVars, RerunsFromZero, NoDebrisOfDeleted,
           Joining, ListenersWillHear, ClosedBehindTerminal, Executing
  <2> QED
    BY <2>1, <2>2
<1>26. ASSUME NEW t \in timers, TimerKick(t)
      PROVE  Rest'
  <2>1. Busy' /\ Results' /\ Fresh' /\ Claimed' /\ OneRunner' /\ OnDisk'
    BY <1>b, <1>26
       DEF TimerKick, storeVars, workerVars, Busy, Results, Fresh, Claimed, OneRunner,
           OnDisk, Executing
  <2>2. RerunsFromZero' /\ NoDebrisOfDeleted' /\ Joining' /\ ListenersWillHear' /\
        ClosedBehindTerminal'
    BY <1>b, <1>26
       DEF TimerKick, storeVars, workerVars, subVars, RerunsFromZero, NoDebrisOfDeleted,
           Joining, ListenersWillHear, ClosedBehindTerminal, Executing
  <2> QED
    BY <2>1, <2>2
<1>27. ASSUME Restart
      PROVE  Rest'
  <2>1. Busy'
    BY <1>27 DEF Restart, Busy
  <2>2. Results'
    BY <1>27 DEF Restart, Results
  <2>3. Fresh'
    BY <1>b, <1>27 DEF Restart, Reloaded, KeptOutput, Fresh, Executing
  <2>4. Claimed'
    BY <1>27 DEF Restart, Claimed, Executing
  <2>5. OneRunner'
    BY <1>27 DEF Restart, OneRunner, Executing
  <2>6. OnDisk'
    BY <1>27 DEF Restart, Reloaded, OnDisk
  <2>7. RerunsFromZero'
    <3>1. ASSUME NEW i \in Job
          PROVE  (job'[i] = "queued" => ~output'[i]) /\ (job'[i] = "done" => output'[i])
      BY <1>a, <1>b, <1>27 DEF Restart, Reloaded, KeptOutput, Saved, OnDisk, RerunsFromZero
    <3> QED
      BY <3>1 DEF RerunsFromZero
  <2>8. NoDebrisOfDeleted'
    BY <1>27 DEF Restart, KeptOutput, NoDebrisOfDeleted
  <2>9. Joining'
    BY <1>27 DEF Restart, Joining
  <2>10. ListenersWillHear'
    BY <1>27 DEF Restart, ListenersWillHear
  <2>11. ClosedBehindTerminal'
    BY <1>27 DEF Restart, ClosedBehindTerminal
  <2> QED
    BY <2>1, <2>2, <2>3, <2>4, <2>5, <2>6, <2>7, <2>8, <2>9, <2>10, <2>11
<1>28. ASSUME UNCHANGED vars PROVE Rest'
  BY <1>b, <1>28
     DEF vars, storeVars, runnerVars, workerVars, subVars, Executing, Busy, Results, Fresh,
         Claimed, OneRunner, OnDisk, RerunsFromZero, NoDebrisOfDeleted, Joining,
         ListenersWillHear, ClosedBehindTerminal
<1> QED
  BY TypeInductive, <1>1, <1>2, <1>3, <1>4, <1>5, <1>6, <1>7, <1>8, <1>9, <1>10, <1>11,
     <1>12, <1>13, <1>14, <1>15, <1>16, <1>17, <1>18, <1>19, <1>20, <1>21, <1>22, <1>23,
     <1>24, <1>25, <1>26, <1>27, <1>28 DEF IInv, Next, WorkerStep, Inevitable, Idle

\* The inductive invariant holds throughout.
THEOREM RunnerInvariant == Spec => []IInv
<1>1. ASSUME Init PROVE IInv
  <2> USE <1>1, JobsAssumption, NoJobIsNoJob DEF Init
  <2>1. TypeStore
    BY DEF TypeStore, JobState, Saved
  <2>2. TypeRunner
    <3>1. 0 \in 0 .. MaxRestarts
      OBVIOUS
    <3>2. token \in BOOLEAN /\ closing \in BOOLEAN
          /\ cancels \in [Job -> Worker \cup {NoWorker}]
      BY Zenon
    <3> QED
      BY <3>1, <3>2 DEF TypeRunner
  <2>3. TypeWorkers
    BY DEF TypeWorkers, WorkerPC
  <2>4. TypeSubs
    BY DEF TypeSubs
  <2>5. Busy /\ Results /\ Fresh /\ Claimed /\ OneRunner /\ OnDisk
    BY DEF Busy, Results, Fresh, Claimed, OneRunner, OnDisk, Executing
  <2>6. RerunsFromZero /\ NoDebrisOfDeleted
    BY DEF RerunsFromZero, NoDebrisOfDeleted
  <2>7. Joining /\ ListenersWillHear /\ ClosedBehindTerminal
    BY DEF Joining, ListenersWillHear, ClosedBehindTerminal
  <2> QED
    BY <2>1, <2>2, <2>3, <2>4, <2>5, <2>6, <2>7 DEF IInv, TypeOK
<1> QED
  BY <1>1, StepInductive, PTL DEF Spec

\* Every variable keeps its type, and no subscriber's channel outgrows its
\* capacity.
THEOREM RunnerTypes == Spec => []TypeOK
<1>1. IInv => TypeOK
  BY DEF IInv
<1> QED
  BY <1>1, RunnerInvariant, PTL

\* No two workers execute one job, whatever claims, retries, deletes and
\* restarts cross.
THEOREM OneRunnerHolds == Spec => []OneRunner
<1>1. IInv => OneRunner
  BY DEF IInv
<1> QED
  BY <1>1, RunnerInvariant, PTL

\* A queued job finds nothing of an earlier attempt, and a done job's output is
\* there, over crashes and failed writes of job.json.
THEOREM RerunsFromZeroHolds == Spec => []RerunsFromZero
<1>1. IInv => RerunsFromZero
  BY DEF IInv
<1> QED
  BY <1>1, RunnerInvariant, PTL

\* The output of a job deleted under its run does not outlive the run, unless
\* the daemon is stopping.
THEOREM NoDebrisHolds == Spec => []NoDebrisOfDeleted
<1>1. IInv => NoDebrisOfDeleted
  BY DEF IInv
<1> QED
  BY <1>1, RunnerInvariant, PTL

\* Whoever still listens to a job that ended is about to be told.
THEOREM ListenersHear == Spec => []ListenersWillHear
<1>1. IInv => ListenersWillHear
  BY DEF IInv
<1> QED
  BY <1>1, RunnerInvariant, PTL

\* The runner closes a channel behind the terminal snapshot, or a deletion.
THEOREM ClosedBehindTerminalHolds == Spec => []ClosedBehindTerminal
<1>1. IInv => ClosedBehindTerminal
  BY DEF IInv
<1> QED
  BY <1>1, RunnerInvariant, PTL

\* A recorded end is final: no step makes a done or failed job anything but
\* removed, unless its terminal write had failed.
THEOREM TerminalIsFinalHolds == Spec => TerminalIsFinal
<1> DEFINE Final(j) == job[j] \in {"done", "failed"} /\ disk[j] = job[j]
                         => job'[j] \in {job[j], "none"}
<1>1. ASSUME IInv, [Next]_vars PROVE \A i \in Job : Final(i)
  <2>a. TypeStore /\ TypeWorkers /\ Busy /\ Claimed /\ OneRunner /\ Fresh
    BY <1>1 DEF IInv, TypeOK
  <2>1. ASSUME NEW j \in Job, Create(j) PROVE \A i \in Job : Final(i)
    BY <2>a, <2>1 DEF Create, Fresh, TypeStore
  <2>2. ASSUME NEW j \in Job, DeleteRemove(j) PROVE \A i \in Job : Final(i)
    BY <2>a, <2>2 DEF DeleteRemove, TypeStore
  <2>3. ASSUME NEW w \in Worker, Claim(w) PROVE \A i \in Job : Final(i)
    BY <2>a, <2>3 DEF Claim, Claimable, TypeStore
  <2>4. ASSUME NEW w \in Worker, Settle(w) PROVE \A i \in Job : Final(i)
    <3>1. wjob[w] \in Job /\ job[wjob[w]] \in {"running", "none"}
      BY <2>a, <2>4, AtWork DEF Settle
    <3> QED
      BY <2>a, <2>4, <3>1 DEF Settle, TypeStore
  <2>5. ASSUME NEW w \in Worker, Requeue(w) PROVE \A i \in Job : Final(i)
    <3>1. wjob[w] \in Job /\ job[wjob[w]] \in {"running", "none"}
      BY <2>a, <2>5, AtWork DEF Requeue
    <3> QED
      BY <2>a, <2>5, <3>1 DEF Requeue, TypeStore
  <2>6. ASSUME Restart PROVE \A i \in Job : Final(i)
    BY <2>6 DEF Restart, Reloaded
  <2>7. ASSUME job' = job PROVE \A i \in Job : Final(i)
    BY <2>7
  <2>8. \/ \E j \in Job : Create(j) \/ DeleteRemove(j)
        \/ \E w \in Worker : Claim(w) \/ Settle(w) \/ Requeue(w)
        \/ Restart
        \/ job' = job
    BY <1>1
       DEF Next, WorkerStep, Inevitable, Idle, vars, storeVars, Receive, Unsubscribe,
           Subscribe, Join, Close, ClaimNothing, Unpark, Stop, Announce, Register, Progress,
           WriteOutput, RunEnds, Tell, TellWaiting, Cleanup, HoldExpires, TimerKick,
           CreateKick, DeleteCancel, DeleteNotify
  <2> QED
    BY <2>1, <2>2, <2>3, <2>4, <2>5, <2>6, <2>7, <2>8
<1>2. IInv /\ [Next]_vars =>
        [\A j \in Job : job[j] \in {"done", "failed"} /\ disk[j] = job[j]
          => job'[j] \in {job[j], "none"}]_vars
  BY <1>1
<1> QED
  BY <1>2, RunnerInvariant, PTL DEF Spec, TerminalIsFinal
-----------------------------------------------------------------------------
\* Who holds a queued job back is about to set its timer, or has set it: no
\* hold expires unnoticed.
Held ==
    \A j \in Job : hold[j] # 0 =>
        \/ <<j, hold[j]>> \in timers
        \/ \E w \in Worker : wpc[w] = "tellwait" /\ wjob[w] = j /\ wwait[w] = hold[j]

\* A timer, set or about to be, is of a job that was created and of a wait it
\* has begun, so no later wait makes it look early again.
Past ==
    /\ \A t \in timers :
          /\ dpc[t[1]] # "uncreated"
          /\ job[t[1]] \in {"queued", "running"} => t[2] <= waits[t[1]]
    /\ \A w \in Worker : wpc[w] = "tellwait" =>
          /\ dpc[wjob[w]] # "uncreated"
          /\ job[wjob[w]] \in {"queued", "running"} => wwait[w] <= waits[wjob[w]]

\* The wakeups that are on their way.  A worker about to set a timer counts
\* only when that timer will be due.
Due == \E t \in timers : hold[t[1]] # t[2]
Waking(w) == wpc[w] \in {"claim", "claimed"} \/ (wpc[w] = "tellwait" /\ hold[wjob[w]] # wwait[w])
Wakeup == token \/ kicks # {} \/ Due \/ \E w \in Worker : Waking(w)

Awake == (\E w \in Worker : wpc[w] = "parked") /\ (\E j \in Job : Claimable(j)) => Wakeup

WakeInv == Held /\ Past /\ Awake

LEMMA WakeInductive == IInv /\ WakeInv /\ [Next]_vars => WakeInv'
<1> SUFFICES ASSUME IInv, WakeInv, [Next]_vars PROVE WakeInv'
  OBVIOUS
<1>a. /\ TypeStore /\ TypeRunner /\ TypeWorkers /\ Busy /\ Results /\ Fresh /\ Claimed /\ OneRunner
      /\ Held /\ Past /\ Awake
  BY DEF IInv, TypeOK, WakeInv
<1>b. /\ \A t \in timers : t[1] \in Job /\ t[2] \in Nat /\ t[2] # 0 /\ t = <<t[1], t[2]>>
      /\ hold \in [Job -> Nat] /\ waits \in [Job -> Nat] /\ wwait \in [Worker -> Nat]
      /\ job \in [Job -> JobState] /\ wpc \in [Worker -> WorkerPC]
      /\ \A w \in Worker : wpc[w] = "tellwait" => wjob[w] \in Job /\ wwait[w] # 0
  BY <1>a, JobsAssumption, HasJob DEF TypeStore, TypeRunner, TypeWorkers, Results
<1> USE DEF WakeInv
\* A kick is a wakeup.
<1>c. ASSUME token' = TRUE PROVE Awake'
  BY <1>c DEF Awake, Wakeup
\* Steps that leave everything the invariant speaks of alone.
<1>d. ASSUME UNCHANGED <<job, hold, waits, token, kicks, timers, dpc, wpc, wjob, wwait>>
      PROVE WakeInv'
  BY <1>a, <1>d DEF Held, Past, Awake, Wakeup, Due, Waking, Claimable
<1>1. ASSUME NEW j \in Job, Create(j) PROVE WakeInv'
  <2>1. Held'
    BY <1>a, <1>b, <1>1 DEF Create, Held, workerVars
  <2>2. Past'
    BY <1>a, <1>b, <1>1 DEF Create, Past, workerVars, TypeStore
  <2>3. Awake'
    BY <1>1 DEF Create, Awake, Wakeup
  <2> QED
    BY <2>1, <2>2, <2>3
<1>2. ASSUME NEW j \in Job, DeleteRemove(j) PROVE WakeInv'
  <2>1. /\ job' = [job EXCEPT ![j] = "none"] /\ hold' = [hold EXCEPT ![j] = 0]
        /\ waits' = [waits EXCEPT ![j] = 0] /\ dpc' = [dpc EXCEPT ![j] = "removed"]
        /\ UNCHANGED <<token, kicks, timers, wpc, wjob, wwait>>
    BY <1>2 DEF DeleteRemove, runnerVars, workerVars
  <2>2. Held'
    BY <1>a, <1>b, <2>1 DEF Held
  <2>3. Past'
    BY <1>a, <1>b, <2>1 DEF Past, TypeStore
  <2>4. Awake'
    BY <1>a, <1>b, <2>1 DEF Awake, Wakeup, Due, Waking, Claimable
  <2> QED
    BY <2>2, <2>3, <2>4
<1>3. ASSUME NEW w \in Worker, Claim(w) PROVE WakeInv'
  <2>1. PICK j \in Job : /\ Claimable(j) /\ job' = [job EXCEPT ![j] = "running"]
                         /\ wjob' = [wjob EXCEPT ![w] = j]
    BY <1>3 DEF Claim
  <2>2. /\ wpc[w] = "claim" /\ wpc' = [wpc EXCEPT ![w] = "claimed"]
        /\ UNCHANGED <<hold, waits, token, kicks, timers, dpc, wwait>>
    BY <1>3 DEF Claim, Goto, runnerVars
  <2>3. Held'
    BY <1>a, <1>b, <2>1, <2>2 DEF Held, TypeWorkers
  <2>4. Past'
    BY <1>a, <1>b, <2>1, <2>2 DEF Past, Claimable, TypeWorkers
  <2>5. Awake'
    BY <1>b, <2>2 DEF Awake, Wakeup, Waking
  <2> QED
    BY <2>3, <2>4, <2>5
<1>4. ASSUME NEW w \in Worker, ClaimNothing(w) PROVE WakeInv'
  <2>1. /\ wpc[w] = "claim" /\ wpc' = [wpc EXCEPT ![w] = "parked"]
        /\ UNCHANGED <<job, hold, waits, token, kicks, timers, dpc, wjob, wwait>>
        /\ \A j \in Job : ~Claimable(j)
    BY <1>4 DEF ClaimNothing, Goto, storeVars, runnerVars
  <2>2. Held' /\ Past'
    BY <1>a, <1>b, <2>1 DEF Held, Past
  <2>3. Awake'
    BY <2>1 DEF Awake, Claimable
  <2> QED
    BY <2>2, <2>3
<1>5. ASSUME NEW w \in Worker, Unpark(w) PROVE WakeInv'
  <2>1. /\ wpc[w] = "parked" /\ wpc' = [wpc EXCEPT ![w] = "claim"]
        /\ UNCHANGED <<job, hold, waits, kicks, timers, dpc, wjob, wwait>>
    BY <1>5 DEF Unpark, Goto, storeVars
  <2>2. Held' /\ Past'
    BY <1>a, <1>b, <2>1 DEF Held, Past
  <2>3. Awake'
    BY <1>b, <2>1 DEF Awake, Wakeup, Waking
  <2> QED
    BY <2>2, <2>3
\* A step of a worker that is neither about to wake somebody nor to set a
\* timer, and leaves the jobs alone.
<1>e. ASSUME NEW w \in Worker, wpc[w] \notin {"claim", "claimed", "tellwait"},
             NEW x \in WorkerPC \ {"parked", "tellwait"}, wpc' = [wpc EXCEPT ![w] = x],
             UNCHANGED <<job, hold, waits, token, kicks, timers, dpc, wjob, wwait>>
      PROVE  WakeInv'
  <2>1. Held' /\ Past'
    BY <1>a, <1>b, <1>e DEF Held, Past
  <2>2. Awake'
    BY <1>a, <1>b, <1>e DEF Awake, Wakeup, Due, Waking, Claimable
  <2> QED
    BY <2>1, <2>2
<1>6. ASSUME NEW w \in Worker, Stop(w) \/ Register(w) \/ Tell(w) PROVE WakeInv'
  BY <1>e, <1>6 DEF Stop, Register, Tell, Goto, storeVars, runnerVars, WorkerPC
<1>7. ASSUME NEW w \in Worker, Announce(w) PROVE WakeInv'
  <2>1. /\ wpc[w] = "claimed" /\ wpc' = [wpc EXCEPT ![w] = "starting"] /\ token' = TRUE
        /\ UNCHANGED <<job, hold, waits, kicks, timers, dpc, wjob, wwait>>
    BY <1>7 DEF Announce, Propagate, Kick, Goto, storeVars
  <2>2. Held' /\ Past'
    BY <1>a, <1>b, <2>1 DEF Held, Past
  <2> QED
    BY <1>c, <2>1, <2>2
<1>8. ASSUME NEW w \in Worker, NEW res \in {"done", "failed", "away"}, RunEnds(w, res) PROVE WakeInv'
  <2>1. \E x \in {"cleanup", "retry", "settle"} : wpc' = [wpc EXCEPT ![w] = x]
    BY <1>8 DEF RunEnds, Goto
  <2> QED
    BY <1>e, <1>8, <2>1 DEF RunEnds, storeVars, runnerVars, WorkerPC
<1>9. ASSUME NEW w \in Worker, Settle(w) PROVE WakeInv'
  <2> DEFINE j == wjob[w]
  <2>0. wpc[w] = "settle" /\ j \in Job /\ UNCHANGED <<token, kicks, timers, dpc, wjob, wwait>>
    BY <1>a, <1>9, HasJob DEF Settle, runnerVars
  <2>1. CASE job[j] = "none"
    BY <1>e, <1>9, <2>0, <2>1 DEF Settle, Goto, WorkerPC
  <2>2. CASE job[j] # "none"
    <3>1. /\ job' = [job EXCEPT ![j] = wres[w]] /\ wres[w] \in {"done", "failed"}
          /\ waits' = [waits EXCEPT ![j] = 0] /\ hold' = [hold EXCEPT ![j] = 0]
          /\ wpc' = [wpc EXCEPT ![w] = "tell"]
      BY <1>a, <1>9, <2>2 DEF Settle, Goto, Results
    <3> HIDE DEF j
    <3>2. Held'
      BY <1>a, <1>b, <2>0, <3>1 DEF Held
    <3>3. Past'
      BY <1>a, <1>b, <2>0, <3>1 DEF Past, TypeStore
    <3>4. Awake'
      BY <1>a, <1>b, <2>0, <3>1 DEF Awake, Wakeup, Due, Waking, Claimable
    <3> QED
      BY <3>2, <3>3, <3>4
  <2> QED
    BY <2>1, <2>2
<1>10. ASSUME NEW w \in Worker, Requeue(w) PROVE WakeInv'
  <2> DEFINE j == wjob[w]
             k == waits[j] + 1
  <2>0. wpc[w] = "retry" /\ j \in Job /\ job[j] \in {"running", "none"}
        /\ UNCHANGED <<token, kicks, timers, dpc, wjob>>
    BY <1>a, <1>10, AtWork DEF Requeue, runnerVars
  <2>1. CASE job[j] = "none"
    BY <1>e, <1>10, <2>0, <2>1 DEF Requeue, Goto, WorkerPC
  <2>2. CASE job[j] = "running"
    <3>1. /\ job' = [job EXCEPT ![j] = "queued"]
          /\ waits' = [waits EXCEPT ![j] = k] /\ hold' = [hold EXCEPT ![j] = k]
          /\ wwait' = [wwait EXCEPT ![w] = k]
          /\ wpc' = [wpc EXCEPT ![w] = "tellwait"]
      BY <1>10, <2>2 DEF Requeue, Goto
    <3>2. k \in Nat /\ k # 0 /\ waits[j] < k /\ dpc[j] # "uncreated"
      BY <1>a, <1>b, <2>0, <2>2 DEF Fresh
    <3>3. wjob[w] = j
      OBVIOUS
    <3> HIDE DEF j, k
    <3>4. Held'
      BY <1>a, <1>b, <2>0, <3>1, <3>2, <3>3 DEF Held
    <3>5. Past'
      <4>1. ASSUME NEW t \in timers PROVE job'[t[1]] \in {"queued", "running"} => t[2] <= waits'[t[1]]
        BY <1>a, <1>b, <2>0, <2>2, <3>1, <3>2, <4>1 DEF Past
      <4>2. ASSUME NEW v \in Worker, wpc'[v] = "tellwait"
            PROVE  /\ dpc'[wjob'[v]] # "uncreated"
                   /\ job'[wjob'[v]] \in {"queued", "running"} => wwait'[v] <= waits'[wjob'[v]]
        <5>1. CASE v = w
          BY <1>b, <2>0, <3>1, <3>2, <3>3, <5>1
        <5>2. CASE v # w
          BY <1>a, <1>b, <2>0, <2>2, <3>1, <3>2, <4>2, <5>2 DEF Past
        <5> QED
          BY <5>1, <5>2
      <4> QED
        BY <1>a, <2>0, <4>1, <4>2 DEF Past
    <3>6. Awake'
      <4> SUFFICES ASSUME NEW i \in Job, Claimable(i)', NEW v \in Worker, wpc'[v] = "parked" PROVE Wakeup'
        BY DEF Awake
      <4>1. Claimable(i) /\ wpc[v] = "parked"
        BY <1>b, <2>0, <3>1, <3>2 DEF Claimable
      <4>2. Wakeup
        BY <1>a, <4>1 DEF Awake
      <4>3. Due => Due'
        <5> SUFFICES ASSUME NEW t \in timers, hold[t[1]] # t[2] PROVE hold'[t[1]] # t[2]
          BY <2>0 DEF Due
        <5> QED
          BY <1>a, <1>b, <2>0, <2>2, <3>1, <3>2 DEF Past
      <4>4. ASSUME NEW u \in Worker, Waking(u) PROVE Waking(u)'
        <5>1. u # w
          BY <2>0, <4>4 DEF Waking
        <5> QED
          BY <1>a, <1>b, <2>0, <2>2, <3>1, <3>2, <4>4, <5>1 DEF Waking, Past
      <4> QED
        BY <2>0, <4>2, <4>3, <4>4 DEF Wakeup
    <3> QED
      BY <3>4, <3>5, <3>6
  <2> QED
    BY <2>0, <2>1, <2>2
<1>11. ASSUME NEW w \in Worker, TellWaiting(w) PROVE WakeInv'
  <2> DEFINE t == <<wjob[w], wwait[w]>>
  <2>1. /\ wpc[w] = "tellwait" /\ wpc' = [wpc EXCEPT ![w] = "cleanup"]
        /\ timers' = timers \cup {t}
        /\ UNCHANGED <<job, hold, waits, token, kicks, dpc, wjob, wwait>>
    BY <1>11 DEF TellWaiting, RetryTimer, Goto, storeVars
  <2>2. t[1] = wjob[w] /\ t[2] = wwait[w]
    OBVIOUS
  <2>3. Held'
    <3> SUFFICES ASSUME NEW j \in Job, hold[j] # 0
                 PROVE  \/ <<j, hold[j]>> \in timers'
                        \/ \E v \in Worker : wpc'[v] = "tellwait" /\ wjob[v] = j /\ wwait[v] = hold[j]
      BY <2>1 DEF Held
    <3>1. CASE wjob[w] = j /\ wwait[w] = hold[j]
      BY <2>1, <3>1
    <3>2. CASE ~(wjob[w] = j /\ wwait[w] = hold[j])
      BY <1>a, <1>b, <2>1, <3>2 DEF Held
    <3> QED
      BY <3>1, <3>2
  <2> HIDE DEF t
  <2>4. Past'
    BY <1>a, <1>b, <2>1, <2>2 DEF Past
  <2>5. Awake'
    BY <1>a, <1>b, <2>1, <2>2 DEF Awake, Wakeup, Due, Waking, Claimable
  <2> QED
    BY <2>3, <2>4, <2>5
<1>12. ASSUME NEW w \in Worker, Cleanup(w) PROVE WakeInv'
  <2>1. /\ wpc[w] = "cleanup" /\ wpc' = [wpc EXCEPT ![w] = "claim"]
        /\ wjob' = [wjob EXCEPT ![w] = NoJob] /\ wwait' = [wwait EXCEPT ![w] = 0]
        /\ UNCHANGED <<job, hold, waits, token, kicks, timers, dpc>>
    BY <1>12 DEF Cleanup, Goto, storeVars
  <2>2. Held' /\ Past'
    BY <1>a, <1>b, <2>1 DEF Held, Past, TypeWorkers
  <2>3. Awake'
    BY <1>b, <2>1 DEF Awake, Wakeup, Waking
  <2> QED
    BY <2>2, <2>3
<1>13. ASSUME NEW j \in Job, HoldExpires(j) PROVE WakeInv'
  <2>1. /\ hold[j] # 0 /\ hold' = [hold EXCEPT ![j] = 0]
        /\ UNCHANGED <<job, waits, token, kicks, timers, dpc, wpc, wjob, wwait>>
    BY <1>13 DEF HoldExpires, runnerVars, workerVars
  <2>2. Held' /\ Past'
    BY <1>a, <1>b, <2>1 DEF Held, Past
  <2>3. Wakeup'
    <3>1. CASE <<j, hold[j]>> \in timers
      BY <1>b, <2>1, <3>1 DEF Wakeup, Due
    <3>2. CASE \E w \in Worker : wpc[w] = "tellwait" /\ wjob[w] = j /\ wwait[w] = hold[j]
      BY <1>b, <2>1, <3>2 DEF Wakeup, Waking
    <3> QED
      BY <1>a, <2>1, <3>1, <3>2 DEF Held
  <2> QED
    BY <2>2, <2>3 DEF Awake
<1>14. ASSUME NEW s \in timers, TimerKick(s) PROVE WakeInv'
  <2>1. /\ hold[s[1]] # s[2] /\ timers' = timers \ {s} /\ token' = TRUE
        /\ UNCHANGED <<job, hold, waits, kicks, dpc, wpc, wjob, wwait>>
    BY <1>14 DEF TimerKick, Kick, storeVars, workerVars
  <2>2. Held'
    <3> SUFFICES ASSUME NEW j \in Job, hold[j] # 0, <<j, hold[j]>> \in timers
                 PROVE  <<j, hold[j]>> # s
      BY <1>a, <2>1 DEF Held
    <3> QED
      BY <2>1
  <2>3. Past'
    BY <1>a, <1>b, <2>1 DEF Past
  <2> QED
    BY <1>c, <2>1, <2>2, <2>3
<1>15. ASSUME NEW j \in Job, CreateKick(j) PROVE WakeInv'
  <2>1. token' = TRUE /\ UNCHANGED <<job, hold, waits, timers, dpc, wpc, wjob, wwait>>
    BY <1>15 DEF CreateKick, Kick, storeVars, workerVars
  <2>2. Held' /\ Past'
    BY <1>a, <2>1 DEF Held, Past
  <2> QED
    BY <1>c, <2>1, <2>2
<1>16. ASSUME Restart PROVE WakeInv'
  <2>1. /\ hold' = [j \in Job |-> 0] /\ timers' = {} /\ wpc' = [w \in Worker |-> "claim"]
    BY <1>16 DEF Restart
  <2> QED
    BY <2>1 DEF Held, Past, Awake
<1>17. ASSUME NEW j \in Job, DeleteCancel(j) \/ DeleteNotify(j) PROVE WakeInv'
  <2>1. /\ UNCHANGED <<job, hold, waits, token, kicks, timers, wpc, wjob, wwait>>
        /\ \E x \in {"canceled", "deleted"} : dpc' = [dpc EXCEPT ![j] = x]
    BY <1>17 DEF DeleteCancel, DeleteNotify, storeVars, runnerVars, workerVars
  <2>2. Held' /\ Awake'
    BY <1>a, <2>1 DEF Held, Awake, Wakeup, Due, Waking, Claimable
  <2>3. Past'
    BY <1>a, <1>b, <2>1 DEF Past, TypeStore
  <2> QED
    BY <2>2, <2>3
<1>18. \/ UNCHANGED <<job, hold, waits, token, kicks, timers, dpc, wpc, wjob, wwait>>
       \/ \E j \in Job : \/ Create(j) \/ DeleteRemove(j) \/ CreateKick(j) \/ DeleteCancel(j)
                         \/ DeleteNotify(j) \/ HoldExpires(j)
       \/ \E w \in Worker :
             \/ Claim(w) \/ ClaimNothing(w) \/ Unpark(w) \/ Stop(w) \/ Announce(w) \/ Register(w)
             \/ (\E res \in {"done", "failed", "away"} : RunEnds(w, res))
             \/ Settle(w) \/ Tell(w) \/ Requeue(w) \/ TellWaiting(w) \/ Cleanup(w)
       \/ \E t \in timers : TimerKick(t)
       \/ Restart
  BY DEF Next, WorkerStep, Inevitable, Idle, vars, storeVars, runnerVars, workerVars, Receive,
         Unsubscribe, Subscribe, Join, Close, Progress, WriteOutput
<1> QED
  BY <1>d, <1>1, <1>2, <1>3, <1>4, <1>5, <1>6, <1>7, <1>8, <1>9, <1>10, <1>11, <1>12, <1>13,
     <1>14, <1>15, <1>16, <1>17, <1>18

\* No worker sleeps while a job could run, unless a wakeup is on its way,
\* whatever creations, claims, retries, deletes, timers and restarts cross
\* (kick, the worker loop's propagation, retry).
THEOREM NoLostWakeupHolds == Spec => []NoLostWakeup
<1>1. Init => WakeInv
  BY DEF Init, WakeInv, Held, Past, Awake
<1>2. WakeInv => NoLostWakeup
  BY DEF WakeInv, Awake, Wakeup, Due, Waking, NoLostWakeup
<1> QED
  BY <1>1, <1>2, WakeInductive, RunnerInvariant, PTL DEF Spec
=============================================================================
