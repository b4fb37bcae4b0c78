------------------------------ MODULE RunQueue ------------------------------
(***************************************************************************)
(* Workers carrying analysis runs through the leased queue: processNext,   *)
(* dispatchOpenRuns and the operations that create or requeue a run.       *)
(*                                                                         *)
(* A run row holds its status, how many stages have been committed, and    *)
(* the token of the worker that last marked it running.  A worker claims a *)
(* job, reads the run, marks it, executes one stage on its own copy and    *)
(* writes the copy back in a checkpoint fenced by both tokens.  Between    *)
(* any two of these statements the host may be frozen past its lease, die, *)
(* or lose its database connection.                                        *)
(***************************************************************************)
EXTENDS JobQueue

CONSTANTS
    Workers,         \* concurrent processNext invocations, over all hosts
    AnalyzeJob,      \* run -> the job id `analyze:<run>`
    ExtraJobs,       \* ids `retry:<run>:<uuid>` and `audio-trust:<run>:<uuid>`
    OtherJobs,       \* ids of the other kinds (settle, push-renew, batch-poll...)
    AutomaticRuns,   \* input.automaticMonitoring
    LastStage,       \* stages of a run; LastStage is `complete`
    MaxRequeues,     \* bound: operator requeues in one behaviour
    MaxFaults        \* bound: crashes and database errors in one behaviour

ASSUME RunAssumption ==
    /\ AnalyzeJob \in [Runs -> Jobs]
    /\ \A r, s \in Runs : AnalyzeJob[r] = AnalyzeJob[s] => r = s
    /\ ExtraJobs \subseteq Jobs /\ OtherJobs \subseteq Jobs
    /\ \A r \in Runs : AnalyzeJob[r] \notin ExtraJobs \cup OtherJobs
    /\ AutomaticRuns \subseteq Runs
    /\ LastStage \in Nat \ {0}
    /\ MaxRequeues \in Nat /\ MaxFaults \in Nat

VARIABLES run, worker, seen, monitoring, requeues, faults

vars == <<job, run, worker, seen, monitoring, requeues, faults>>

Open      == {"queued", "running"}
RunStatus == {"absent", "queued", "running", "completed", "failed", "needs_review"}
Run       == [status : RunStatus, stage : 0..LastStage, token : Tokens \cup {None}]

\* Where a worker is between two statements of processNext.
Step == {"idle", "claimed", "closing", "parking", "parked", "marking", "working"}

Worker == [pc    : Step,
           job   : Jobs \cup {None},
           token : Tokens \cup {None},
           stage : 0..LastStage]       \* of its copy of the run

IdleWorker == [pc |-> "idle", job |-> None, token |-> None, stage |-> 0]

Init ==
    /\ QueueInit
    /\ run = [r \in Runs |-> [status |-> "absent", stage |-> 0, token |-> None]]
    /\ worker = [w \in Workers |-> IdleWorker]
    /\ seen = {}
    /\ monitoring = TRUE
    /\ requeues = 0
    /\ faults = 0

-----------------------------------------------------------------------------
(* What a worker's statements read.                                        *)

RunOf(w) == job[worker[w].job].run

\* Mutant: the job's fence forgets the token.
HoldsLiveJob(w) == Live(worker[w].job)

HoldsJob(w) == Owns(worker[w].job, worker[w].token)

\* Mutant: the run's fence forgets the token.
HoldsRunningRun(w) == run[RunOf(w)].status = "running"

HoldsRun(w) == run[RunOf(w)].token = worker[w].token

\* Both fences of the checkpoint transaction would let this worker through.
CanCommit(w) == worker[w].pc = "working" /\ HoldsJob(w) /\ HoldsRun(w)

\* A token no row and no running worker carries.
Unused(t) == /\ FreshToken(t)
             /\ \A r \in Runs : run[r].token # t
             /\ \A w \in Workers : worker[w].token # t

-----------------------------------------------------------------------------
(* processNext, statement by statement.                                    *)

Go(w, pc) == worker' = [worker EXCEPT ![w].pc = pc]

Leave(w) == worker' = [worker EXCEPT ![w] = IdleWorker]

\* A fenced update whose row count the caller does not act on.
TryFinish(w, status, delay) ==
    \/ Finish(worker[w].job, worker[w].token, status, delay)
    \/ ~HoldsJob(w) /\ UNCHANGED job

StartJob(w) ==
    /\ worker[w].pc = "idle"
    /\ \E j \in Jobs, t \in Tokens :
         /\ Unused(t)
         /\ Claim(j, t)
         /\ worker' = [worker EXCEPT ![w] = [pc |-> "claimed", job |-> j,
                                             token |-> t, stage |-> 0]]
    /\ UNCHANGED <<run, seen, monitoring, requeues, faults>>

\* A job of another kind: its handler succeeds, reports work still pending
\* (the job waits and comes back), or throws.
HandleJob(w) ==
    /\ worker[w].pc = "claimed" /\ RunOf(w) = None
    /\ \/ TryFinish(w, "completed", 0)
       \/ TryFinish(w, "queued", MaxDelay)
       \/ TryFinish(w, "failed", 0)
    /\ Leave(w)
    /\ UNCHANGED <<run, seen, monitoring, requeues, faults>>

\* get(runId), and the branch the worker takes on what it read.
ReadRun(w) ==
    /\ worker[w].pc = "claimed" /\ RunOf(w) # None
    /\ LET r == RunOf(w) IN
         worker' = [worker EXCEPT
                      ![w].stage = run[r].stage,
                      ![w].pc = IF r \in AutomaticRuns /\ ~monitoring THEN "parking"
                                ELSE IF run[r].status \in Finished THEN "closing"
                                ELSE "marking"]
    /\ UNCHANGED <<job, run, seen, monitoring, requeues, faults>>

CloseFinished(w) ==
    /\ worker[w].pc = "closing"
    /\ TryFinish(w, "completed", 0)
    /\ Leave(w)
    /\ UNCHANGED <<run, seen, monitoring, requeues, faults>>

\* Monitoring is off: the run is put back by id alone, then the job.
ParkRun(w) ==
    /\ worker[w].pc = "parking"
    /\ run' = [run EXCEPT ![RunOf(w)].status = "queued", ![RunOf(w)].token = None]
    /\ Go(w, "parked")
    /\ UNCHANGED <<job, seen, monitoring, requeues, faults>>

ReturnParked(w) ==
    /\ worker[w].pc = "parked"
    /\ TryFinish(w, "queued", MaxDelay)
    /\ Leave(w)
    /\ UNCHANGED <<run, seen, monitoring, requeues, faults>>

\* UPDATE yi_runs SET status='running',lease_token=... WHERE id=...
MarkRunning(w) ==
    /\ worker[w].pc = "marking"
    /\ run' = [run EXCEPT ![RunOf(w)].status = "running",
                          ![RunOf(w)].token  = worker[w].token]
    /\ Go(w, "working")
    /\ UNCHANGED <<job, seen, monitoring, requeues, faults>>

\* The 60 s timer.  Once a stage executes, the run row must still be this
\* worker's as well, or the whole renewal rolls back.
RenewLease(w) ==
    /\ worker[w].pc # "idle"
    /\ worker[w].pc = "working" => HoldsRun(w) /\ run[RunOf(w)].status = "running"
    /\ Renew(worker[w].job, worker[w].token)
    /\ UNCHANGED <<run, worker, seen, monitoring, requeues, faults>>

\* Mutant: the stage `complete` runs like the others.
OutcomesPastEnd(s) == {[status |-> "completed", stage |-> s + 1, delay |-> 0]}

\* How one executed stage can leave the worker's copy of a run at stage s.
\* The stage `complete` has no code: executing it throws.
Outcomes(s) ==
    IF s = LastStage
      THEN {[status |-> "failed", stage |-> s, delay |-> 0]}
      ELSE {[status |-> IF s + 1 = LastStage THEN "completed" ELSE "queued",
             stage |-> s + 1, delay |-> 0],
            [status |-> "failed", stage |-> s, delay |-> 0],
            [status |-> "needs_review", stage |-> s, delay |-> 0]}

\* The source is not ready, or the database was briefly unreachable.
Pending(s) == {[status |-> "queued", stage |-> s, delay |-> MaxDelay]}

\* Mutant: the checkpoint does not look at the job it is about to finish.
CommitUnowned(w, o) ==
    /\ worker[w].pc = "working" /\ HoldsRun(w)
    /\ run' = [run EXCEPT ![RunOf(w)].status = o.status, ![RunOf(w)].stage = o.stage]
    /\ TryFinish(w, IF o.status = "needs_review" THEN "completed" ELSE o.status, o.delay)
    /\ Leave(w)
    /\ UNCHANGED <<seen, monitoring, requeues, faults>>

\* The checkpoint transaction: both rows, or neither.
Commit(w, o) ==
    /\ CanCommit(w)
    /\ run' = [run EXCEPT ![RunOf(w)].status = o.status, ![RunOf(w)].stage = o.stage]
    /\ Finish(worker[w].job, worker[w].token,
              CASE o.status = "queued" -> "queued"
                [] o.status = "failed" -> "failed"
                [] OTHER -> "completed",
              o.delay)
    /\ Leave(w)
    /\ UNCHANGED <<seen, monitoring, requeues, faults>>

Checkpoint(w) == \E o \in Outcomes(worker[w].stage) : Commit(w, o)
Postpone(w)   == worker[w].stage < LastStage
                 /\ \E o \in Pending(worker[w].stage) : Commit(w, o)

\* `Stale worker lease.` rolls the checkpoint back; failJob is tried.
Abandon(w) ==
    /\ worker[w].pc = "working" /\ ~CanCommit(w)
    /\ TryFinish(w, "failed", 0)
    /\ Leave(w)
    /\ UNCHANGED <<run, seen, monitoring, requeues, faults>>

Error(w) ==
    /\ worker[w].pc # "idle" /\ faults < MaxFaults
    /\ TryFinish(w, "failed", 0)
    /\ Leave(w)
    /\ faults' = faults + 1
    /\ UNCHANGED <<run, seen, monitoring, requeues>>

Crash(w) ==
    /\ worker[w].pc # "idle" /\ faults < MaxFaults
    /\ Leave(w)
    /\ faults' = faults + 1
    /\ UNCHANGED <<job, run, seen, monitoring, requeues>>

-----------------------------------------------------------------------------
(* dispatchOpenRuns: one query for the open runs, then one statement each. *)

DispatchRead ==
    /\ seen' = seen \cup {r \in Runs : run[r].status \in Open}
    /\ UNCHANGED <<job, run, worker, monitoring, requeues, faults>>

\* Mutant: a job that exists is taken for a job that will run.
DispatchNew(r) ==
    /\ r \in seen
    /\ \/ Enqueue(AnalyzeJob[r], r)
       \/ job[AnalyzeJob[r]].status # "absent" /\ UNCHANGED job
    /\ seen' = seen \ {r}
    /\ UNCHANGED <<run, worker, monitoring, requeues, faults>>

\* Mutant: whatever state the job is in, it is put back.
DispatchOver(r) ==
    /\ r \in seen
    /\ \/ Enqueue(AnalyzeJob[r], r)
       \/ /\ job[AnalyzeJob[r]].status # "absent"
          /\ job' = [job EXCEPT ![AnalyzeJob[r]].status = "queued",
                                ![AnalyzeJob[r]].token = None,
                                ![AnalyzeJob[r]].lease = 0]
    /\ seen' = seen \ {r}
    /\ UNCHANGED <<run, worker, monitoring, requeues, faults>>

DispatchOne(r) ==
    /\ r \in seen
    /\ \/ Enqueue(AnalyzeJob[r], r)
       \/ Reopen(AnalyzeJob[r])
       \/ job[AnalyzeJob[r]].status \in Open /\ UNCHANGED job
    /\ seen' = seen \ {r}
    /\ UNCHANGED <<run, worker, monitoring, requeues, faults>>

-----------------------------------------------------------------------------
(* The web process.                                                        *)

CreateRun(r) ==
    /\ run[r].status = "absent"
    /\ run' = [run EXCEPT ![r].status = "queued"]
    /\ Enqueue(AnalyzeJob[r], r)
    /\ UNCHANGED <<worker, seen, monitoring, requeues, faults>>

EnqueueOther(j) ==
    /\ j \in OtherJobs
    /\ Enqueue(j, None)
    /\ UNCHANGED <<run, worker, seen, monitoring, requeues, faults>>

Requeue(r, stage) ==
    /\ requeues < MaxRequeues
    /\ run' = [run EXCEPT ![r] = [status |-> "queued", stage |-> stage, token |-> None]]
    /\ requeues' = requeues + 1
    /\ UNCHANGED <<worker, seen, monitoring, faults>>

JobsOf(r) == {j \in Jobs : job[j].run = r}

\* A failed run, or an open one that nothing is working on or will work on.
Retryable(r) ==
    \/ run[r].status = "failed"
    \/ /\ run[r].status \in Open
       /\ \A j \in JobsOf(r) : job[j].status \in Finished

RetryRun(r) ==
    /\ Retryable(r)
    /\ Requeue(r, run[r].stage)
    /\ \E j \in ExtraJobs : Enqueue(j, r)

\* A completed run goes back for its audio evidence, a run stopped at its
\* source to the start of it.
RequestAudioTrust(r) ==
    /\ \/ run[r].status = "completed" /\ Requeue(r, LastStage - 1)
       \/ /\ run[r].status \in {"needs_review", "failed"} /\ run[r].stage = 0
          /\ Requeue(r, 0)
    /\ \E j \in ExtraJobs : Enqueue(j, r)

\* continueAfterAuditFailure leaves the job to dispatchOpenRuns.
ContinueAfterAuditFailure(r) ==
    /\ run[r].status = "failed"
    /\ Requeue(r, run[r].stage)
    /\ UNCHANGED job

ToggleMonitoring ==
    /\ AutomaticRuns # {}
    /\ monitoring' = ~monitoring
    /\ UNCHANGED <<job, run, worker, seen, requeues, faults>>

TimePasses == Tick /\ UNCHANGED <<run, worker, seen, monitoring, requeues, faults>>

-----------------------------------------------------------------------------
WorkerStep(w) ==
    \/ StartJob(w) \/ HandleJob(w) \/ ReadRun(w) \/ CloseFinished(w)
    \/ ParkRun(w) \/ ReturnParked(w) \/ MarkRunning(w) \/ RenewLease(w)
    \/ Checkpoint(w) \/ Postpone(w) \/ Abandon(w) \/ Error(w) \/ Crash(w)

UserStep(r) == CreateRun(r) \/ RetryRun(r) \/ RequestAudioTrust(r)
               \/ ContinueAfterAuditFailure(r)

Next ==
    \/ \E w \in Workers : WorkerStep(w)
    \/ \E r \in Runs : UserStep(r) \/ DispatchOne(r)
    \/ \E j \in Jobs : EnqueueOther(j)
    \/ DispatchRead
    \/ ToggleMonitoring
    \/ TimePasses

Spec == Init /\ [][Next]_vars

(* Time passes, the sweeper or the cron route calls dispatchOpenRuns again *)
(* and again, and a statement that can run does.  The timer renews the ten *)
(* minute lease every minute, so a host is not frozen past its lease at    *)
(* the same statement every time, and a stage does not answer `not yet`    *)
(* for ever.                                                               *)
ReadInTime(w) == worker[w].pc = "claimed" /\ HoldsJob(w) /\ ReadRun(w)
MarkInTime(w) == worker[w].pc = "marking" /\ HoldsJob(w) /\ MarkRunning(w)

\* Aged jobs are claimed oldest first; ages past AgedAfter are not told apart
\* here, so that no job is passed over for ever is said of each job.
StartOn(w, j) == StartJob(w) /\ worker'[w].job = j

Fairness ==
    /\ WF_vars(TimePasses) /\ WF_vars(DispatchRead)
    /\ \A r \in Runs : SF_vars(DispatchOne(r))
    /\ \A w \in Workers :
         /\ \A j \in Jobs : SF_vars(StartOn(w, j))
         /\ WF_vars(HandleJob(w) \/ ReadRun(w) \/ CloseFinished(w) \/ ParkRun(w)
                      \/ ReturnParked(w) \/ MarkRunning(w) \/ Abandon(w))
         /\ SF_vars(ReadInTime(w)) /\ SF_vars(MarkInTime(w)) /\ SF_vars(Checkpoint(w))

FairSpec == Spec /\ Fairness

-----------------------------------------------------------------------------
(* Properties.                                                             *)

\* Every variable has its type.
RunTypeOK ==
    /\ QueueTypeOK
    /\ run \in [Runs -> Run]
    /\ worker \in [Workers -> Worker]
    /\ seen \subseteq Runs
    /\ monitoring \in BOOLEAN
    /\ requeues \in 0..MaxRequeues /\ faults \in 0..MaxFaults

\* However leases expire, jobs are reopened and hosts freeze, two workers
\* never both stand where the checkpoint of one run would accept them: the
\* pair of fences of processNext admits one writer.
SoleCommitter ==
    \A v, w \in Workers :
      v # w /\ CanCommit(v) /\ CanCommit(w) => RunOf(v) # RunOf(w)

\* The run never had a job but `analyze:<run>` (job rows are never deleted).
OwnJobOnly(r) == JobsOf(r) \subseteq {AnalyzeJob[r]}

\* While a run has only its own job, the worker a checkpoint would accept
\* executed the stage that the row is at now: its whole-row write (save)
\* overwrites no stage someone else committed.
NoLostUpdate ==
    \A w \in Workers :
      CanCommit(w) /\ OwnJobOnly(RunOf(w)) =>
                      /\ worker[w].stage = run[RunOf(w)].stage
                      /\ run[RunOf(w)].status = "running"

\* A stale worker is fenced: a completed run leaves that status only when an
\* operator requeues it, never by the write of a worker that lost its lease.
CompletedStays ==
    [][\A r \in Runs : run[r].status = "completed" /\ run'[r].status # "completed"
                          => requeues' = requeues + 1]_vars

\* Every stage of a run is committed once, in order, as long as no operator
\* gave it a second job (StageProgress).
Progress == INSTANCE StageProgress WITH
              stage <- [r \in Runs |-> IF OwnJobOnly(r) THEN run[r].stage ELSE LastStage + 1]
StagesInOrder == Progress!ProgressSpec

\* An open run comes to rest, whatever crash, freeze or database error hits
\* its worker and even when its job was failed under it: dispatchOpenRuns
\* puts the job of an open run back.  Runs of automatic monitoring are parked
\* while it is off, so it must stay on from some point.
RunsComeToRest ==
    (<>[]monitoring) =>
      \A r \in Runs : run[r].status \in Open ~> run[r].status \notin Open
=============================================================================
