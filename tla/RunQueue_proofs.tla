--------------------------- MODULE RunQueue_proofs ---------------------------
(***************************************************************************)
(* What the leased queue guarantees for every number of jobs, tokens,      *)
(* capacity and lease length, and what it guarantees about runs for every  *)
(* number of workers, runs and stages: the rows are well formed, the       *)
(* workers' statements are operations of the queue, one worker at most can *)
(* commit to a run, it commits the stage the run is at, and so the stages  *)
(* of a run are committed in order, each once.                             *)
(***************************************************************************)
EXTENDS RunQueue, FiniteSetTheorems, TLAPS

-----------------------------------------------------------------------------
(* Facts about the row types.                                              *)

\* The run_after values the operations write are in range.
LEMMA DueRange ==
    /\ 0 \in Due
    /\ \A d \in 0..MaxDelay : d \in Due
    /\ \A n \in Due : Earlier(n) \in Due
BY QueueAssumption DEF QueueAssumption, Due, Earlier

\* An absent row is well formed.
LEMMA NoJobType == NoJob \in Job
BY QueueAssumption, DueRange DEF QueueAssumption, NoJob, Job, JobStatus

-----------------------------------------------------------------------------
(* Type correctness.                                                       *)

\* Each operation of the queue keeps the rows well formed.
LEMMA TypeStep == QueueTypeOK /\ [QueueNext]_job => QueueTypeOK'
<1> SUFFICES ASSUME QueueTypeOK, [QueueNext]_job PROVE QueueTypeOK'
  OBVIOUS
<1> USE DEF QueueTypeOK
<1>1. ASSUME NEW j \in Jobs, EnqueueAny(j) PROVE QueueTypeOK'
  <2>1. PICK r \in Runs \cup {None} : Enqueue(j, r)
    BY <1>1 DEF EnqueueAny
  <2>2. [NoJob EXCEPT !.status = "queued", !.run = r] \in Job
    BY NoJobType DEF Job, JobStatus
  <2> QED  BY <2>1, <2>2 DEF Enqueue
<1>2. ASSUME NEW j \in Jobs, ClaimAny(j) PROVE QueueTypeOK'
  <2>1. PICK t \in Tokens : Claim(j, t)
    BY <1>2 DEF ClaimAny
  <2>2. LeaseTerm \in 0..LeaseTerm
    BY QueueAssumption DEF QueueAssumption
  <2> QED  BY <2>1, <2>2 DEF Claim, Job, JobStatus
<1>3. ASSUME NEW j \in Jobs, RenewAny(j) PROVE QueueTypeOK'
  <2>1. PICK t \in Tokens : Renew(j, t)
    BY <1>3 DEF RenewAny
  <2>2. LeaseTerm \in 0..LeaseTerm
    BY QueueAssumption DEF QueueAssumption
  <2> QED  BY <2>1, <2>2 DEF Renew, Job
<1>4. ASSUME NEW j \in Jobs, FinishAny(j) PROVE QueueTypeOK'
  <2>1. PICK t \in Tokens, s \in JobStatus, d \in Due : Finish(j, t, s, d)
    BY <1>4, DueRange DEF FinishAny, JobStatus, Finished
  <2>2. 0 \in 0..LeaseTerm
    BY QueueAssumption DEF QueueAssumption
  <2> QED  BY <2>1, <2>2 DEF Finish, Job
<1>5. ASSUME NEW j \in Jobs, Reopen(j) PROVE QueueTypeOK'
  <2>1. 0 \in 0..LeaseTerm
    BY QueueAssumption DEF QueueAssumption
  <2> QED  BY <1>5, <2>1, DueRange DEF Reopen, Job, JobStatus
<1>6. CASE Tick
  <2>1. \A n \in 0..LeaseTerm : (IF n > 0 THEN n - 1 ELSE 0) \in 0..LeaseTerm
    BY QueueAssumption DEF QueueAssumption
  <2> QED  BY <1>6, <2>1, DueRange DEF Tick, Job
<1>7. CASE UNCHANGED job
  BY <1>7
<1> QED  BY <1>1, <1>2, <1>3, <1>4, <1>5, <1>6, <1>7 DEF QueueNext

\* Every row of the jobs table is always well formed.
THEOREM QueueTypeCorrect == QueueSpec => []QueueTypeOK
<1>1. QueueInit => QueueTypeOK
  BY NoJobType DEF QueueInit, QueueTypeOK
<1> QED  BY <1>1, TypeStep, PTL DEF QueueSpec

-----------------------------------------------------------------------------
(* The fence: a token names one running row.                               *)

\* Each operation keeps tokens on distinct running rows: a claim writes one
\* that no row carries, and leaving `running` clears it.
LEMMA TokenStep ==
    QueueTypeOK /\ TokenNamesOneJob /\ [QueueNext]_job => TokenNamesOneJob'
<1> SUFFICES ASSUME QueueTypeOK, TokenNamesOneJob, [QueueNext]_job
             PROVE  TokenNamesOneJob'
  OBVIOUS
<1> USE QueueAssumption DEF QueueAssumption, QueueTypeOK, TokenNamesOneJob, Job
<1>1. ASSUME NEW j \in Jobs, EnqueueAny(j) PROVE TokenNamesOneJob'
  BY <1>1 DEF EnqueueAny, Enqueue, NoJob
<1>2. ASSUME NEW j \in Jobs, ClaimAny(j) PROVE TokenNamesOneJob'
  BY <1>2 DEF ClaimAny, Claim, FreshToken
<1>3. ASSUME NEW j \in Jobs, RenewAny(j) PROVE TokenNamesOneJob'
  BY <1>3 DEF RenewAny, Renew
<1>4. ASSUME NEW j \in Jobs, FinishAny(j) PROVE TokenNamesOneJob'
  <2>1. PICK t \in Tokens, s \in {"completed", "failed", "queued"}, d \in 0..MaxDelay :
          Finish(j, t, s, d)
    BY <1>4 DEF FinishAny, Finished
  <2> QED  BY <2>1 DEF Finish
<1>5. ASSUME NEW j \in Jobs, Reopen(j) PROVE TokenNamesOneJob'
  BY <1>5 DEF Reopen, Finished
<1>6. CASE Tick
  <2>1. \A j \in Jobs : job'[j].status = job[j].status /\ job'[j].token = job[j].token
    BY <1>6 DEF Tick
  <2> QED  BY <2>1
<1>7. CASE UNCHANGED job
  BY <1>7
<1> QED  BY <1>1, <1>2, <1>3, <1>4, <1>5, <1>6, <1>7 DEF QueueNext

\* Whoever finds its token on an unexpired running row holds that job, and
\* nobody else does.
THEOREM TokensFence == QueueSpec => []TokenNamesOneJob
<1>1. QueueInit => TokenNamesOneJob
  BY QueueAssumption DEF QueueInit, NoJob, TokenNamesOneJob
<1> QED  BY <1>1, TokenStep, QueueTypeCorrect, PTL DEF QueueSpec

-----------------------------------------------------------------------------
(* Admission: the capacity and the background share.                       *)

\* Only a claim makes a job live, and nothing changes the run of a live job.
LEMMA LiveStep ==
    ASSUME QueueTypeOK, [QueueNext]_job
    PROVE  \/ LiveJobs' \subseteq LiveJobs /\ LiveBackground' \subseteq LiveBackground
           \/ \E j \in Jobs, t \in Tokens :
                /\ Claim(j, t)
                /\ LiveJobs' \subseteq LiveJobs \cup {j}
                /\ LiveBackground' \subseteq
                     LiveBackground \cup (IF Background(j) THEN {j} ELSE {})
<1> USE QueueAssumption
    DEF QueueAssumption, QueueTypeOK, Job, LiveBackground, LiveJobs, Live, Background
<1> DEFINE Shrinks == LiveJobs' \subseteq LiveJobs /\ LiveBackground' \subseteq LiveBackground
<1>1. ASSUME NEW j \in Jobs, EnqueueAny(j) PROVE Shrinks
  BY <1>1 DEF EnqueueAny, Enqueue, NoJob
<1>2. ASSUME NEW j \in Jobs, NEW t \in Tokens, Claim(j, t)
      PROVE  /\ LiveJobs' \subseteq LiveJobs \cup {j}
             /\ LiveBackground' \subseteq
                  LiveBackground \cup (IF Background(j) THEN {j} ELSE {})
  BY <1>2 DEF Claim
<1>3. ASSUME NEW j \in Jobs, RenewAny(j) PROVE Shrinks
  BY <1>3 DEF RenewAny, Renew, Owns
<1>4. ASSUME NEW j \in Jobs, FinishAny(j) PROVE Shrinks
  <2>1. PICK t \in Tokens, s \in {"completed", "failed", "queued"}, d \in 0..MaxDelay :
          Finish(j, t, s, d)
    BY <1>4 DEF FinishAny, Finished
  <2> QED  BY <2>1 DEF Finish
<1>5. ASSUME NEW j \in Jobs, Reopen(j) PROVE Shrinks
  BY <1>5 DEF Reopen, Finished
<1>6. ASSUME Tick PROVE Shrinks
  <2>1. \A j \in Jobs :
          /\ job'[j].status = job[j].status /\ job'[j].run = job[j].run
          /\ job'[j].lease = IF job[j].lease > 0 THEN job[j].lease - 1 ELSE 0
    BY <1>6 DEF Tick
  <2>2. \A j \in Jobs : job'[j].lease > 0 => job[j].lease > 0
    BY <2>1
  <2> QED  BY <2>1, <2>2
<1>7. ASSUME UNCHANGED job PROVE Shrinks
  BY <1>7
<1> HIDE DEF LiveBackground, LiveJobs, Live, Background, QueueTypeOK
<1> QED  BY <1>1, <1>2, <1>3, <1>4, <1>5, <1>6, <1>7 DEF QueueNext, ClaimAny

\* Growing a finite set by one element that there was room for.
LEMMA RoomForOne ==
    ASSUME NEW S, NEW x, NEW T \in SUBSET (S \cup {x}), NEW n \in Nat,
           IsFiniteSet(S), Cardinality(S) < n
    PROVE  Cardinality(T) <= n
<1>1. IsFiniteSet(S \cup {x}) /\ Cardinality(S \cup {x}) <= Cardinality(S) + 1
  <2>1. Cardinality(S) \in Nat
    BY FS_CardinalityType
  <2>2. /\ IsFiniteSet(S \cup {x})
        /\ Cardinality(S \cup {x}) = IF x \in S THEN Cardinality(S) ELSE Cardinality(S) + 1
    BY FS_AddElement, Zenon
  <2> QED  BY <2>1, <2>2
<1>2. IsFiniteSet(T) /\ Cardinality(T) <= Cardinality(S \cup {x})
  BY <1>1, FS_Subset
<1>3. Cardinality(S) \in Nat /\ Cardinality(S \cup {x}) \in Nat /\ Cardinality(T) \in Nat
  BY <1>1, <1>2, FS_CardinalityType
<1> QED  BY <1>1, <1>2, <1>3

\* The live jobs are finitely many.
LEMMA LiveFinite ==
    /\ IsFiniteSet(LiveJobs) /\ IsFiniteSet(LiveBackground)
    /\ Cardinality(LiveJobs) \in Nat /\ Cardinality(LiveBackground) \in Nat
<1>1. IsFiniteSet(Jobs)
  BY QueueAssumption DEF QueueAssumption
<1>2. LiveJobs \in SUBSET Jobs /\ LiveBackground \in SUBSET Jobs
  BY DEF LiveJobs, LiveBackground
<1>3. IsFiniteSet(LiveJobs) /\ IsFiniteSet(LiveBackground)
  BY <1>1, <1>2, FS_Subset
<1> QED  BY <1>3, FS_CardinalityType

\* No interleaving of claims, expiries, renewals and late finishes leaves
\* more unexpired leases than processing.parallelVideos.
THEOREM CapacityHolds == QueueSpec => []CapacityRespected
<1>1. QueueInit => CapacityRespected
  <2> SUFFICES ASSUME QueueInit PROVE CapacityRespected
    OBVIOUS
  <2>1. LiveJobs = {}
    BY DEF QueueInit, NoJob, LiveJobs, Live
  <2> QED  BY <2>1, FS_EmptySet, QueueAssumption DEF CapacityRespected, QueueAssumption
<1>2. QueueTypeOK /\ CapacityRespected /\ [QueueNext]_job => CapacityRespected'
  <2> SUFFICES ASSUME QueueTypeOK, CapacityRespected, [QueueNext]_job
               PROVE  CapacityRespected'
    OBVIOUS
  <2>1. Capacity \in Nat
    BY QueueAssumption DEF QueueAssumption
  <2>2. CASE LiveJobs' \subseteq LiveJobs
    <3>1. IsFiniteSet(LiveJobs') /\ Cardinality(LiveJobs') <= Cardinality(LiveJobs)
      BY <2>2, LiveFinite, FS_Subset
    <3>2. Cardinality(LiveJobs') \in Nat
      BY <3>1, FS_CardinalityType
    <3> QED  BY <2>1, <3>1, <3>2, LiveFinite DEF CapacityRespected
  <2>3. ASSUME NEW j \in Jobs, NEW t \in Tokens, Claim(j, t),
               LiveJobs' \subseteq LiveJobs \cup {j}
        PROVE  CapacityRespected'
    <3>1. Cardinality(LiveJobs) < Capacity
      BY <2>3 DEF Claim
    <3>2. Cardinality(LiveJobs') <= Capacity
      BY <2>1, <2>3, <3>1, LiveFinite, RoomForOne
    <3> QED  BY <3>2 DEF CapacityRespected
  <2> QED  BY <2>2, <2>3, LiveStep
<1> QED  BY <1>1, <1>2, QueueTypeCorrect, PTL DEF QueueSpec

\* Nor do channel and batch jobs ever hold more leases than their share,
\* which leaves the rest of the capacity to the other classes.
THEOREM BackgroundHolds == QueueSpec => []BackgroundRespected
<1>1. QueueInit => BackgroundRespected
  <2> SUFFICES ASSUME QueueInit PROVE BackgroundRespected
    OBVIOUS
  <2>1. LiveBackground = {}
    BY DEF QueueInit, NoJob, LiveBackground, LiveJobs, Live
  <2> QED  BY <2>1, FS_EmptySet, QueueAssumption DEF BackgroundRespected, QueueAssumption
<1>2. QueueTypeOK /\ BackgroundRespected /\ [QueueNext]_job => BackgroundRespected'
  <2> SUFFICES ASSUME QueueTypeOK, BackgroundRespected, [QueueNext]_job
               PROVE  BackgroundRespected'
    OBVIOUS
  <2>1. BackgroundLimit \in Nat
    BY QueueAssumption DEF QueueAssumption
  <2>2. CASE LiveBackground' \subseteq LiveBackground
    <3>1. /\ IsFiniteSet(LiveBackground')
          /\ Cardinality(LiveBackground') <= Cardinality(LiveBackground)
      BY <2>2, LiveFinite, FS_Subset
    <3>2. Cardinality(LiveBackground') \in Nat
      BY <3>1, FS_CardinalityType
    <3> QED  BY <2>1, <3>1, <3>2, LiveFinite DEF BackgroundRespected
  <2>3. ASSUME NEW j \in Jobs, NEW t \in Tokens, Claim(j, t), Background(j),
               LiveBackground' \subseteq LiveBackground \cup {j}
        PROVE  BackgroundRespected'
    <3>1. Cardinality(LiveBackground) < BackgroundLimit
      BY <2>3 DEF Claim, Candidates
    <3>2. Cardinality(LiveBackground') <= BackgroundLimit
      BY <2>1, <2>3, <3>1, LiveFinite, RoomForOne
    <3> QED  BY <3>2 DEF BackgroundRespected
  <2> QED  BY <2>2, <2>3, LiveStep
<1> QED  BY <1>1, <1>2, QueueTypeCorrect, PTL DEF QueueSpec

-----------------------------------------------------------------------------
(* The inductive invariant: well formed rows, tokens on one row each, and  *)
(* tokens in the hands of one worker each.                                 *)

WorkersApart ==
    /\ \A w \in Workers : worker[w].pc # "idle" => /\ worker[w].job \in Jobs
                                                   /\ worker[w].token \in Tokens
    /\ \A v, w \in Workers : /\ worker[v].pc # "idle" /\ worker[w].pc # "idle"
                             /\ worker[v].token = worker[w].token
                             => v = w

Ownership == RunTypeOK /\ TokenNamesOneJob /\ WorkersApart

\* No real id is the null value.
LEMMA NullIsApart == None \notin Tokens /\ None \notin Runs /\ None \notin Jobs
BY QueueAssumption DEF QueueAssumption

\* An operation of the queue that grants no lease, or none.
ClaimsNothing == \/ \E j \in Jobs : EnqueueAny(j) \/ RenewAny(j) \/ FinishAny(j) \/ Reopen(j)
                 \/ Tick
                 \/ UNCHANGED job

\* A fenced update that may find its fence gone is a queue step or nothing.
LEMMA TryFinishStep ==
    ASSUME Ownership, NEW w \in Workers, worker[w].pc # "idle",
           NEW status \in {"completed", "failed", "queued"}, NEW delay \in 0..MaxDelay,
           status = "queued" \/ delay = 0,
           TryFinish(w, status, delay)
    PROVE  ClaimsNothing
<1>1. CASE Finish(worker[w].job, worker[w].token, status, delay)
  <2>1. worker[w].job \in Jobs /\ worker[w].token \in Tokens
    BY DEF Ownership, WorkersApart
  <2>2. FinishAny(worker[w].job)
    BY <1>1, <2>1 DEF FinishAny, Finished
  <2> QED  BY <2>1, <2>2 DEF ClaimsNothing
<1>2. CASE UNCHANGED job
  BY <1>2 DEF ClaimsNothing
<1> QED  BY <1>1, <1>2 DEF TryFinish

\* Delays the handlers ask for.
LEMMA Delays == 0 \in 0..MaxDelay /\ MaxDelay \in 0..MaxDelay
BY QueueAssumption DEF QueueAssumption

\* What one executed stage can write is in range.
LEMMA OutcomeType ==
    ASSUME NEW s \in 0..LastStage,
           NEW o, \/ o \in Outcomes(s)
                  \/ s < LastStage /\ o \in Pending(s)
    PROVE  /\ o.status \in {"completed", "queued", "failed", "needs_review"}
           /\ o.stage \in 0..LastStage
           /\ o.delay \in 0..MaxDelay
           /\ o.status = "queued" \/ o.delay = 0
<1> USE RunAssumption, Delays DEF RunAssumption
<1>1. CASE s = LastStage
  BY <1>1 DEF Outcomes
<1>2. CASE s # LastStage
  BY <1>2 DEF Outcomes, Pending
<1> QED  BY <1>1, <1>2

-----------------------------------------------------------------------------
(* Every statement of a worker, the dispatcher or a user that touches the  *)
(* jobs table is an operation of the leased queue.                         *)

\* Only a worker that starts a job claims one: every other step of the whole
\* system is another operation of the queue, or none.
LEMMA ClaimlessStep ==
    Ownership /\ [Next]_vars /\ ~(\E w \in Workers : StartJob(w)) => ClaimsNothing
<1> SUFFICES ASSUME Ownership, [Next]_vars, ~(\E w \in Workers : StartJob(w))
             PROVE  ClaimsNothing
  OBVIOUS
<1> USE Delays
<1>1. ASSUME NEW w \in Workers, WorkerStep(w) PROVE ClaimsNothing
  <2>2. CASE HandleJob(w)
    BY <2>2, TryFinishStep DEF HandleJob
  <2>3. CASE CloseFinished(w)
    BY <2>3, TryFinishStep DEF CloseFinished
  <2>4. CASE ReturnParked(w)
    BY <2>4, TryFinishStep DEF ReturnParked
  <2>5. CASE RenewLease(w)
    <3>1. worker[w].job \in Jobs /\ worker[w].token \in Tokens
      BY <2>5 DEF RenewLease, Ownership, WorkersApart
    <3> QED  BY <2>5, <3>1 DEF RenewLease, ClaimsNothing, RenewAny
  <2>6. ASSUME Checkpoint(w) \/ Postpone(w) PROVE ClaimsNothing
    <3>1. worker[w].stage \in 0..LastStage
      BY DEF Ownership, RunTypeOK, Worker
    <3>2. PICK o : /\ Commit(w, o)
                   /\ \/ o \in Outcomes(worker[w].stage)
                      \/ worker[w].stage < LastStage /\ o \in Pending(worker[w].stage)
      BY <2>6 DEF Checkpoint, Postpone
    <3>3. /\ o.status \in {"completed", "queued", "failed", "needs_review"}
          /\ o.delay \in 0..MaxDelay
          /\ o.status = "queued" \/ o.delay = 0
      BY <3>1, <3>2, OutcomeType
    <3> DEFINE status == CASE o.status = "queued" -> "queued"
                           [] o.status = "failed" -> "failed"
                           [] OTHER -> "completed"
    <3>4. Finish(worker[w].job, worker[w].token, status, o.delay) /\ worker[w].pc # "idle"
      BY <3>2 DEF Commit, CanCommit
    <3>5. /\ status \in {"completed", "failed", "queued"}
          /\ status = "queued" \/ o.delay = 0
      BY <3>3
    <3> HIDE DEF status
    <3> QED  BY <3>3, <3>4, <3>5, TryFinishStep DEF TryFinish
  <2>7. CASE Abandon(w)
    BY <2>7, TryFinishStep DEF Abandon
  <2>8. CASE Error(w)
    BY <2>8, TryFinishStep DEF Error
  <2>9. CASE ReadRun(w) \/ ParkRun(w) \/ MarkRunning(w) \/ Crash(w)
    BY <2>9 DEF ReadRun, ParkRun, MarkRunning, Crash, ClaimsNothing
  <2> QED  BY <1>1, <2>2, <2>3, <2>4, <2>5, <2>6, <2>7, <2>8, <2>9 DEF WorkerStep
<1>2. ASSUME NEW r \in Runs, UserStep(r) \/ DispatchOne(r) PROVE ClaimsNothing
  <2>1. AnalyzeJob[r] \in Jobs /\ ExtraJobs \subseteq Jobs
    BY RunAssumption DEF RunAssumption
  <2>2. \A j \in Jobs : Enqueue(j, r) \/ Reopen(j) => ClaimsNothing
    BY DEF ClaimsNothing, EnqueueAny
  <2> QED  BY <1>2, <2>1, <2>2 DEF UserStep, DispatchOne, CreateRun, RetryRun,
                                   RequestAudioTrust, ContinueAfterAuditFailure,
                                   ClaimsNothing
<1>3. ASSUME NEW j \in Jobs, EnqueueOther(j) PROVE ClaimsNothing
  BY <1>3 DEF EnqueueOther, ClaimsNothing, EnqueueAny
<1>4. CASE DispatchRead \/ ToggleMonitoring \/ UNCHANGED vars
  BY <1>4 DEF DispatchRead, ToggleMonitoring, vars, ClaimsNothing
<1>5. CASE TimePasses
  BY <1>5 DEF TimePasses, ClaimsNothing
<1> QED  BY <1>1, <1>2, <1>3, <1>4, <1>5 DEF Next

\* One step of the whole system is one step of the queue, or none.
LEMMA QueueStep == Ownership /\ [Next]_vars => [QueueNext]_job
<1> SUFFICES ASSUME Ownership, [Next]_vars PROVE [QueueNext]_job
  OBVIOUS
<1>1. CASE \E w \in Workers : StartJob(w)
  <2>1. PICK j \in Jobs, t \in Tokens : Unused(t) /\ Claim(j, t)
    BY <1>1 DEF StartJob
  <2> QED  BY <2>1 DEF QueueNext, ClaimAny, Unused
<1>2. CASE ClaimsNothing
  BY <1>2 DEF ClaimsNothing, QueueNext
<1> QED  BY <1>1, <1>2, ClaimlessStep

-----------------------------------------------------------------------------
(* Tokens stay in the hands of one worker each.                            *)

\* A claim hands out a token that no worker carries; every other statement
\* keeps the worker's job and token or drops both.
LEMMA WorkersStep == Ownership /\ [Next]_vars => WorkersApart'
<1> SUFFICES ASSUME Ownership, [Next]_vars PROVE WorkersApart'
  OBVIOUS
<1> USE DEF Ownership, WorkersApart, RunTypeOK, Worker
<1> DEFINE Keeps == \A w \in Workers :
                      worker'[w].pc # "idle" =>
                        /\ worker[w].pc # "idle"
                        /\ worker'[w].job = worker[w].job
                        /\ worker'[w].token = worker[w].token
<1>1. Keeps => WorkersApart'
  OBVIOUS
<1>2. ASSUME NEW w \in Workers, worker[w].pc # "idle",
             \/ Leave(w)
             \/ \E pc \in Step : Go(w, pc)
             \/ \E s \in 0..LastStage, pc \in Step :
                  worker' = [worker EXCEPT ![w].stage = s, ![w].pc = pc]
      PROVE  Keeps
  <2>1. CASE Leave(w)
    BY <1>2, <2>1 DEF Leave, IdleWorker
  <2>2. ASSUME NEW pc \in Step, Go(w, pc) PROVE Keeps
    <3>1. worker'[w] = [worker[w] EXCEPT !.pc = pc]
      BY <2>2 DEF Go
    <3>2. worker'[w].job = worker[w].job /\ worker'[w].token = worker[w].token
      BY <3>1
    <3>3. \A v \in Workers \ {w} : worker'[v] = worker[v]
      BY <2>2 DEF Go
    <3> QED  BY <1>2, <3>2, <3>3
  <2>3. ASSUME NEW s \in 0..LastStage, NEW pc \in Step,
               worker' = [worker EXCEPT ![w].stage = s, ![w].pc = pc]
        PROVE  Keeps
    <3>1. worker'[w] = [worker[w] EXCEPT !.stage = s, !.pc = pc]
      BY <2>3
    <3>2. worker'[w].job = worker[w].job /\ worker'[w].token = worker[w].token
      BY <3>1
    <3>3. \A v \in Workers \ {w} : worker'[v] = worker[v]
      BY <2>3
    <3> QED  BY <1>2, <3>2, <3>3
  <2> QED  BY <1>2, <2>1, <2>2, <2>3
<1>3. UNCHANGED worker => Keeps
  OBVIOUS
<1>4. ASSUME NEW w \in Workers, StartJob(w) PROVE WorkersApart'
  <2>1. PICK j \in Jobs, t \in Tokens :
          /\ Unused(t)
          /\ worker' = [worker EXCEPT ![w] = [pc |-> "claimed", job |-> j,
                                              token |-> t, stage |-> 0]]
    BY <1>4 DEF StartJob
  <2>2. \A v \in Workers : worker[v].token # t
    BY <2>1 DEF Unused
  <2>3. worker'[w].job = j /\ worker'[w].token = t
    BY <2>1
  <2>4. \A v \in Workers \ {w} : worker'[v] = worker[v]
    BY <2>1
  <2> QED  BY <2>2, <2>3, <2>4
<1> HIDE DEF Keeps, WorkersApart
<1>5. ASSUME NEW w \in Workers, ReadRun(w) PROVE Keeps
  <2>1. worker[w].pc # "idle"
    BY <1>5 DEF ReadRun
  <2>2. RunOf(w) \in Runs
    BY <1>5 DEF ReadRun, RunOf, WorkersApart, QueueTypeOK, Job
  <2>3. run[RunOf(w)].stage \in 0..LastStage
    BY <2>2 DEF Run
  <2>4. \E pc \in Step : worker' = [worker EXCEPT ![w].stage = run[RunOf(w)].stage,
                                                ![w].pc = pc]
    BY <1>5 DEF ReadRun, Step
  <2> QED  BY <2>1, <2>3, <2>4, <1>2
<1>6. ASSUME NEW w \in Workers, WorkerStep(w), ~StartJob(w), ~ReadRun(w) PROVE Keeps
  <2>1. worker[w].pc # "idle" /\ (Leave(w) \/ (\E pc \in Step : Go(w, pc)) \/ UNCHANGED worker)
    BY <1>6 DEF WorkerStep, HandleJob, CloseFinished, ParkRun, ReturnParked, MarkRunning,
                RenewLease, Checkpoint, Postpone, Commit, CanCommit, Abandon, Error, Crash, Step
  <2> QED  BY <2>1, <1>2, <1>3
<1>7. ASSUME ~\E w \in Workers : WorkerStep(w) PROVE UNCHANGED worker
  BY <1>7 DEF Next, vars, UserStep, DispatchOne, CreateRun, RetryRun, RequestAudioTrust,
              ContinueAfterAuditFailure, Requeue, EnqueueOther, DispatchRead,
              ToggleMonitoring, TimePasses
<1> QED  BY <1>1, <1>3, <1>4, <1>5, <1>6, <1>7

-----------------------------------------------------------------------------
(* Type correctness.                                                       *)

\* A step keeps the run rows well formed.
LEMMA RunStep == Ownership /\ [Next]_vars => run' \in [Runs -> Run]
<1> SUFFICES ASSUME Ownership, [Next]_vars PROVE run' \in [Runs -> Run]
  OBVIOUS
<1> USE RunAssumption DEF RunAssumption, Ownership, RunTypeOK, Run, RunStatus
<1>1. ASSUME NEW r, NEW row \in Run, run' = [run EXCEPT ![r] = row]
      PROVE  run' \in [Runs -> Run]
  BY <1>1
<1>2. ASSUME NEW w \in Workers, ParkRun(w) PROVE run' \in [Runs -> Run]
  <2>1. \A row \in Run : [row EXCEPT !.status = "queued", !.token = None] \in Run
    OBVIOUS
  <2>2. run' = [run EXCEPT ![RunOf(w)].status = "queued", ![RunOf(w)].token = None]
    BY <1>2 DEF ParkRun
  <2> DEFINE v == RunOf(w)
  <2> HIDE DEF v
  <2>3. \A r \in Runs : run'[r] = IF r = v
                                THEN [run[r] EXCEPT !.status = "queued", !.token = None]
                                ELSE run[r]
    BY <2>2 DEF v
  <2>4. \A r \in Runs : run'[r] \in Run
    BY <2>1, <2>3
  <2> QED  BY <2>2, <2>4
<1>3. ASSUME NEW w \in Workers, MarkRunning(w) PROVE run' \in [Runs -> Run]
  <2>1. worker[w].token \in Tokens
    BY <1>3 DEF MarkRunning, WorkersApart
  <2> QED  BY <1>3, <2>1 DEF MarkRunning
<1>4. ASSUME NEW w \in Workers, Checkpoint(w) \/ Postpone(w) PROVE run' \in [Runs -> Run]
  <2>1. worker[w].stage \in 0..LastStage
    BY DEF Worker
  <2>2. PICK o : /\ Commit(w, o)
                 /\ \/ o \in Outcomes(worker[w].stage)
                    \/ worker[w].stage < LastStage /\ o \in Pending(worker[w].stage)
    BY <1>4 DEF Checkpoint, Postpone
  <2>3. /\ o.status \in {"completed", "queued", "failed", "needs_review"}
        /\ o.stage \in 0..LastStage
    BY <2>1, <2>2, OutcomeType
  <2>4. run' = [run EXCEPT ![RunOf(w)].status = o.status, ![RunOf(w)].stage = o.stage]
    BY <2>2 DEF Commit
  <2>5. \A row \in Run : [row EXCEPT !.status = o.status, !.stage = o.stage] \in Run
    BY <2>3
  <2> DEFINE v == RunOf(w)
  <2> HIDE DEF v
  <2>6. \A r \in Runs : run'[r] = IF r = v
                                THEN [run[r] EXCEPT !.status = o.status, !.stage = o.stage]
                                ELSE run[r]
    BY <2>4 DEF v
  <2>7. \A r \in Runs : run'[r] \in Run
    BY <2>5, <2>6
  <2> QED  BY <2>4, <2>7
<1>5. ASSUME NEW r \in Runs, NEW stage \in 0..LastStage, Requeue(r, stage)
      PROVE  run' \in [Runs -> Run]
  <2>1. [status |-> "queued", stage |-> stage, token |-> None] \in Run
    OBVIOUS
  <2> QED  BY <1>1, <1>5, <2>1 DEF Requeue
<1>6. ASSUME NEW r \in Runs, UserStep(r) PROVE run' \in [Runs -> Run]
  <2>1. run[r].stage \in 0..LastStage /\ 0 \in 0..LastStage /\ LastStage - 1 \in 0..LastStage
    OBVIOUS
  <2>2. CASE CreateRun(r)
    BY <2>2 DEF CreateRun
  <2> QED  BY <1>5, <1>6, <2>1, <2>2
           DEF UserStep, RetryRun, RequestAudioTrust, ContinueAfterAuditFailure
<1>7. ASSUME ~(\E w \in Workers : \/ ParkRun(w) \/ MarkRunning(w)
                                  \/ Checkpoint(w) \/ Postpone(w)),
             ~(\E r \in Runs : UserStep(r))
      PROVE  UNCHANGED run
  BY <1>7 DEF Next, WorkerStep, vars, StartJob, HandleJob, ReadRun, CloseFinished,
              ReturnParked, RenewLease, Abandon, Error, Crash, DispatchOne, DispatchRead,
              EnqueueOther, ToggleMonitoring, TimePasses
<1> QED  BY <1>2, <1>3, <1>4, <1>6, <1>7

\* A step keeps the workers' records well formed.
LEMMA WorkerTypeStep == Ownership /\ [Next]_vars => worker' \in [Workers -> Worker]
<1> SUFFICES ASSUME Ownership, [Next]_vars PROVE worker' \in [Workers -> Worker]
  OBVIOUS
<1> USE DEF Ownership, RunTypeOK, Worker, Step
<1>1. ASSUME NEW w \in Workers, StartJob(w) PROVE worker' \in [Workers -> Worker]
  <2>1. 0 \in 0..LastStage
    BY RunAssumption DEF RunAssumption
  <2> QED  BY <1>1, <2>1 DEF StartJob
<1>2. ASSUME NEW w \in Workers, ReadRun(w) PROVE worker' \in [Workers -> Worker]
  <2>1. RunOf(w) \in Runs
    BY <1>2 DEF ReadRun, RunOf, WorkersApart, QueueTypeOK, Job
  <2>2. run[RunOf(w)].stage \in 0..LastStage
    BY <2>1 DEF Run
  <2> QED  BY <1>2, <2>2 DEF ReadRun
<1>3. ASSUME NEW w \in Workers, Leave(w) PROVE worker' \in [Workers -> Worker]
  <2>1. 0 \in 0..LastStage
    BY RunAssumption DEF RunAssumption
  <2> QED  BY <1>3, <2>1 DEF Leave, IdleWorker
<1>4. ASSUME NEW w \in Workers, NEW pc \in Step, Go(w, pc)
      PROVE  worker' \in [Workers -> Worker]
  BY <1>4 DEF Go
<1>5. ASSUME NEW w \in Workers, WorkerStep(w), ~StartJob(w), ~ReadRun(w)
      PROVE  Leave(w) \/ (\E pc \in Step : Go(w, pc)) \/ UNCHANGED worker
  BY <1>5 DEF WorkerStep, HandleJob, CloseFinished, ParkRun, ReturnParked, MarkRunning,
              RenewLease, Checkpoint, Postpone, Commit, Abandon, Error, Crash
<1>6. ASSUME ~\E w \in Workers : WorkerStep(w) PROVE UNCHANGED worker
  BY <1>6 DEF Next, vars, UserStep, DispatchOne, CreateRun, RetryRun, RequestAudioTrust,
              ContinueAfterAuditFailure, Requeue, EnqueueOther, DispatchRead,
              ToggleMonitoring, TimePasses
<1> QED  BY <1>1, <1>2, <1>3, <1>4, <1>5, <1>6

\* The counters and the dispatcher's list stay in range.
LEMMA RestStep ==
    Ownership /\ [Next]_vars => /\ seen' \subseteq Runs
                                /\ monitoring' \in BOOLEAN
                                /\ requeues' \in 0..MaxRequeues
                                /\ faults' \in 0..MaxFaults
<1> SUFFICES ASSUME Ownership, [Next]_vars
             PROVE  /\ seen' \subseteq Runs
                    /\ monitoring' \in BOOLEAN
                    /\ requeues' \in 0..MaxRequeues
                    /\ faults' \in 0..MaxFaults
  OBVIOUS
<1> USE RunAssumption DEF RunAssumption, Ownership, RunTypeOK
<1>1. seen' \subseteq Runs /\ monitoring' \in BOOLEAN
  BY DEF Next, WorkerStep, vars, StartJob, HandleJob, ReadRun, CloseFinished, ParkRun,
         ReturnParked, MarkRunning, RenewLease, Checkpoint, Postpone, Commit, Abandon,
         Error, Crash, UserStep, CreateRun, RetryRun, RequestAudioTrust,
         ContinueAfterAuditFailure, Requeue, DispatchOne, DispatchRead, EnqueueOther,
         ToggleMonitoring, TimePasses
<1>2. \/ requeues' = requeues
      \/ requeues < MaxRequeues /\ requeues' = requeues + 1
  BY DEF Next, WorkerStep, vars, StartJob, HandleJob, ReadRun, CloseFinished, ParkRun,
         ReturnParked, MarkRunning, RenewLease, Checkpoint, Postpone, Commit, Abandon,
         Error, Crash, UserStep, CreateRun, RetryRun, RequestAudioTrust,
         ContinueAfterAuditFailure, Requeue, DispatchOne, DispatchRead, EnqueueOther,
         ToggleMonitoring, TimePasses
<1>3. \/ faults' = faults
      \/ faults < MaxFaults /\ faults' = faults + 1
  BY DEF Next, WorkerStep, vars, StartJob, HandleJob, ReadRun, CloseFinished, ParkRun,
         ReturnParked, MarkRunning, RenewLease, Checkpoint, Postpone, Commit, Abandon,
         Error, Crash, UserStep, CreateRun, RetryRun, RequestAudioTrust,
         ContinueAfterAuditFailure, Requeue, DispatchOne, DispatchRead, EnqueueOther,
         ToggleMonitoring, TimePasses
<1> QED  BY <1>1, <1>2, <1>3

\* Every step keeps the invariant.
LEMMA OwnershipStep == Ownership /\ [Next]_vars => Ownership'
BY QueueStep, TypeStep, TokenStep, WorkersStep, RunStep, WorkerTypeStep, RestStep
   DEF Ownership, RunTypeOK

\* The invariant holds of every reachable state.
THEOREM OwnershipHolds == Spec => []Ownership
<1>1. Init => Ownership
  <2> SUFFICES ASSUME Init PROVE Ownership
    OBVIOUS
  <2>1. QueueTypeOK /\ TokenNamesOneJob
    BY NoJobType, NullIsApart DEF Init, QueueInit, QueueTypeOK, TokenNamesOneJob, NoJob
  <2>2. worker \in [Workers -> Worker] /\ WorkersApart
    BY RunAssumption DEF RunAssumption, Init, IdleWorker, Worker, Step, WorkersApart
  <2>3. run \in [Runs -> Run]
    BY RunAssumption DEF RunAssumption, Init, Run, RunStatus
  <2> QED  BY <2>1, <2>2, <2>3, RunAssumption
           DEF RunAssumption, Init, Ownership, RunTypeOK
<1> QED  BY <1>1, OwnershipStep, PTL DEF Spec

\* Every variable has its type in every reachable state.
THEOREM RunTypeCorrect == Spec => []RunTypeOK
<1>1. Ownership => RunTypeOK
  BY DEF Ownership
<1> QED  BY <1>1, OwnershipHolds, PTL

-----------------------------------------------------------------------------
(* The system is a queue, and the queue's guarantees are the system's.     *)

\* Workers, dispatcher, sweeper and web process together behave as the
\* leased queue: no statement of theirs bypasses its operations.
THEOREM RunsUseTheQueue == Spec => QueueSpec
<1>1. Init => QueueInit
  BY DEF Init
<1> QED  BY <1>1, QueueStep, OwnershipHolds, PTL DEF Spec, QueueSpec

\* So the admission limits hold of the whole system.
THEOREM AdmissionHolds == Spec => [](CapacityRespected /\ BackgroundRespected)
BY RunsUseTheQueue, CapacityHolds, BackgroundHolds, PTL

-----------------------------------------------------------------------------
(* One writer.                                                             *)

\* The job's fence and the run's fence together admit one worker to the
\* checkpoint of a run, even when two jobs of that run are live.
THEOREM OneCommitter == Spec => []SoleCommitter
<1>1. Ownership => SoleCommitter
  <2> SUFFICES ASSUME Ownership, NEW v \in Workers, NEW w \in Workers, v # w,
                      CanCommit(v), CanCommit(w), RunOf(v) = RunOf(w)
               PROVE  FALSE
    BY DEF SoleCommitter
  <2>1. worker[v].token = worker[w].token
    BY DEF CanCommit, HoldsRun
  <2>2. worker[v].pc # "idle" /\ worker[w].pc # "idle"
    BY DEF CanCommit
  <2> QED  BY <2>1, <2>2 DEF Ownership, WorkersApart
<1> QED  BY <1>1, OwnershipHolds, PTL

-----------------------------------------------------------------------------
(* No stage is lost.  The invariant says of each worker what it may still  *)
(* rely on: its row stays, the run it marked is running as long as it bears *)
(* its token, and while it owns the only job of the run, its copy is at the *)
(* stage the run is at.                                                    *)

\* A row that was never written names no run.
AbsentRows == \A j \in Jobs : job[j].status = "absent" => job[j].run = None

\* Where a worker stands that has read its run.
HasRead == {"closing", "parking", "parked", "marking", "working"}

InStep(w) ==
    worker[w].pc # "idle" =>
      /\ job[worker[w].job].status # "absent"
      /\ worker[w].pc \in HasRead => RunOf(w) \in Runs
      /\ worker[w].pc = "working" /\ HoldsRun(w) => run[RunOf(w)].status = "running"
      /\ worker[w].pc \in {"marking", "working"} /\ HoldsJob(w) /\ OwnJobOnly(RunOf(w)) =>
           worker[w].stage = run[RunOf(w)].stage

AllInStep == Ownership /\ AbsentRows /\ \A w \in Workers : InStep(w)

\* Rows are never deleted, and a row keeps its run.
LEMMA RowsLast ==
    ASSUME QueueTypeOK, AbsentRows, [QueueNext]_job
    PROVE  /\ AbsentRows'
           /\ \A j \in Jobs : job[j].status # "absent" =>
                job'[j].status # "absent" /\ job'[j].run = job[j].run
           /\ \A r \in Runs : JobsOf(r) \subseteq JobsOf(r)'
<1> DEFINE Lasts == \A j \in Jobs : /\ job'[j].status = "absent" => job'[j].run = None
                                    /\ job[j].status # "absent" =>
                                         job'[j].status # "absent" /\ job'[j].run = job[j].run
<1>1. ASSUME NEW j \in Jobs, NEW row, job' = [job EXCEPT ![j] = row], row.status # "absent",
             job[j].status = "absent" \/ row.run = job[j].run
      PROVE  Lasts
  BY <1>1 DEF QueueTypeOK, AbsentRows
<1>2. ASSUME NEW j \in Jobs,
             EnqueueAny(j) \/ ClaimAny(j) \/ RenewAny(j) \/ FinishAny(j) \/ Reopen(j)
      PROVE  Lasts
  <2> DEFINE Row(row) == /\ job' = [job EXCEPT ![j] = row] /\ row.status # "absent"
                         /\ job[j].status = "absent" \/ row.run = job[j].run
  <2>1. job[j] \in Job
    BY DEF QueueTypeOK
  <2>2. ASSUME NEW r, Enqueue(j, r) PROVE \E row : Row(row)
    <3>1. Row([NoJob EXCEPT !.status = "queued", !.run = r])
      BY <2>2 DEF Enqueue, NoJob
    <3> QED BY <3>1
  <2>3. ASSUME NEW t, Claim(j, t) PROVE \E row : Row(row)
    <3>1. Row([job[j] EXCEPT !.status = "running", !.token = t, !.lease = LeaseTerm])
      BY <2>1, <2>3 DEF Claim, Job
    <3> QED BY <3>1
  <2>4. ASSUME NEW t, Renew(j, t) PROVE \E row : Row(row)
    <3>1. Row([job[j] EXCEPT !.lease = LeaseTerm])
      BY <2>1, <2>4 DEF Renew, Owns, Live, Job
    <3> QED BY <3>1
  <2>5. ASSUME NEW t, NEW status \in {"completed", "failed", "queued"}, NEW d,
               Finish(j, t, status, d)
        PROVE  \E row : Row(row)
    <3>1. Row([job[j] EXCEPT !.status = status, !.token = None, !.lease = 0, !.due = d])
      BY <2>1, <2>5 DEF Finish, Job
    <3> QED BY <3>1
  <2>6. ASSUME Reopen(j) PROVE \E row : Row(row)
    <3>1. Row([job[j] EXCEPT !.status = "queued", !.token = None, !.lease = 0, !.due = 0])
      BY <2>1, <2>6 DEF Reopen, Job
    <3> QED BY <3>1
  <2>7. \E row : Row(row)
    BY <1>2, <2>2, <2>3, <2>4, <2>5, <2>6 DEF EnqueueAny, ClaimAny, RenewAny, FinishAny, Finished
  <2> QED BY <1>1, <2>7
<1>3. ASSUME Tick PROVE Lasts
  BY <1>3 DEF Tick, QueueTypeOK, Job, AbsentRows
<1>4. ASSUME UNCHANGED job PROVE Lasts
  BY <1>4 DEF AbsentRows
<1>5. Lasts
  BY <1>2, <1>3, <1>4 DEF QueueNext
<1>6. \A r \in Runs : JobsOf(r) \subseteq JobsOf(r)'
  BY <1>5, NullIsApart DEF JobsOf, AbsentRows
<1> QED BY <1>5, <1>6 DEF AbsentRows

\* Without a claim nobody comes to own a row.
LEMMA OnlyClaimsGrant ==
    ASSUME QueueTypeOK, ClaimsNothing, NEW j \in Jobs, NEW t \in Tokens, Owns(j, t)'
    PROVE  Owns(j, t)
<1> USE DEF QueueTypeOK, Job
<1>1. job \in [Jobs -> Job] /\ t # None /\ LeaseTerm \in Nat
  BY NullIsApart, QueueAssumption DEF QueueAssumption
<1>2. job'[j].status = "running" /\ job'[j].lease > 0 /\ job'[j].token = t
  BY DEF Owns, Live
<1>3. ASSUME NEW k \in Jobs, EnqueueAny(k) PROVE Owns(j, t)
  <2>1. PICK r : job' = [job EXCEPT ![k] = [NoJob EXCEPT !.status = "queued", !.run = r]]
    BY <1>3 DEF EnqueueAny, Enqueue
  <2>2. k # j
    BY <1>1, <1>2, <2>1 DEF NoJob
  <2> QED BY <1>1, <1>2, <2>1, <2>2 DEF Owns, Live
<1>4. ASSUME NEW k \in Jobs, RenewAny(k) PROVE Owns(j, t)
  <2>1. PICK u \in Tokens : Owns(k, u) /\ job' = [job EXCEPT ![k].lease = LeaseTerm]
    BY <1>4 DEF RenewAny, Renew
  <2> QED BY <1>1, <1>2, <2>1 DEF Owns, Live
<1>5. ASSUME NEW k \in Jobs, FinishAny(k) PROVE Owns(j, t)
  <2>1. PICK u, status, d : Finish(k, u, status, d)
    BY <1>5 DEF FinishAny
  <2> QED BY <1>1, <1>2, <2>1 DEF Finish, Owns, Live
<1>6. ASSUME NEW k \in Jobs, Reopen(k) PROVE Owns(j, t)
  BY <1>1, <1>2, <1>6 DEF Reopen, Owns, Live
<1>7. ASSUME Tick PROVE Owns(j, t)
  <2>1. job'[j].token = job[j].token /\ job'[j].status = job[j].status
        /\ job'[j].lease = IF job[j].lease > 0 THEN job[j].lease - 1 ELSE 0
    BY <1>1, <1>7 DEF Tick
  <2> QED BY <1>1, <1>2, <2>1 DEF Owns, Live
<1>8. ASSUME UNCHANGED job PROVE Owns(j, t)
  BY <1>2, <1>8 DEF Owns, Live
<1> QED BY <1>3, <1>4, <1>5, <1>6, <1>7, <1>8 DEF ClaimsNothing

\* What one step of the system does to the rows.
LEMMA StepOfRows ==
    ASSUME AllInStep, [Next]_vars
    PROVE  /\ Ownership' /\ AbsentRows'
           /\ \A j \in Jobs : job[j].status # "absent" =>
                job'[j].status # "absent" /\ job'[j].run = job[j].run
           /\ \A r \in Runs : OwnJobOnly(r)' => OwnJobOnly(r)
<1>1. Ownership' /\ [QueueNext]_job /\ QueueTypeOK
  BY OwnershipStep, QueueStep DEF AllInStep, Ownership, RunTypeOK
<1>2. \A r \in Runs : JobsOf(r) \subseteq JobsOf(r)'
  BY <1>1, RowsLast DEF AllInStep
<1>3. \A r \in Runs : OwnJobOnly(r)' => OwnJobOnly(r)
  BY <1>2 DEF OwnJobOnly
<1> QED BY <1>1, <1>3, RowsLast DEF AllInStep

\* A worker that does not move comes to own no row.
LEMMA StandingOwnsNoMore ==
    ASSUME AllInStep, [Next]_vars, NEW w \in Workers, worker[w].pc # "idle",
           worker'[w] = worker[w], HoldsJob(w)'
    PROVE  HoldsJob(w)
<1>1. PICK j \in Jobs, t \in Tokens : j = worker[w].job /\ t = worker[w].token
  BY DEF AllInStep, Ownership, WorkersApart
<1>2. Owns(j, t)' /\ (Owns(j, t) => HoldsJob(w))
  BY <1>1 DEF HoldsJob
<1>3. CASE ClaimsNothing
  BY <1>2, <1>3, OnlyClaimsGrant DEF AllInStep, Ownership, RunTypeOK
<1>4. CASE \E v \in Workers : StartJob(v)
  <2>1. PICK k \in Jobs, u \in Tokens :
          u # t /\ job' = [job EXCEPT ![k] = [@ EXCEPT !.status = "running", !.token = u,
                                                       !.lease = LeaseTerm]]
    BY <1>1, <1>4 DEF StartJob, Unused, Claim
  <2>2. job \in [Jobs -> Job]
    BY DEF AllInStep, Ownership, RunTypeOK, QueueTypeOK
  <2>3. k # j
    BY <1>2, <2>1, <2>2 DEF Owns, Job
  <2> QED BY <1>2, <2>1, <2>2, <2>3 DEF Owns, Live
<1> QED BY <1>3, <1>4, ClaimlessStep DEF AllInStep

\* Two workers on the only job of a run do not both own it.
LEMMA OneOwner ==
    ASSUME AllInStep, NEW v \in Workers, NEW w \in Workers, v # w,
           worker[v].pc # "idle", worker[w].pc # "idle",
           RunOf(v) = RunOf(w), OwnJobOnly(RunOf(w)), HoldsJob(v)
    PROVE  ~HoldsJob(w)
<1>1. worker[v].job \in Jobs /\ worker[w].job \in Jobs /\ worker[v].token # worker[w].token
  BY DEF AllInStep, Ownership, WorkersApart
<1>2. worker[v].job = worker[w].job
  BY <1>1 DEF RunOf, OwnJobOnly, JobsOf
<1> QED BY <1>1, <1>2 DEF HoldsJob, Owns

\* A worker that does not move stays in step if whoever writes its run takes the
\* run from it, and changes the stage only when this worker's fence is gone.
LEMMA StandingKeeps ==
    ASSUME AllInStep, [Next]_vars, NEW w \in Workers, worker'[w] = worker[w],
           NEW r, r = RunOf(w),
           worker[w].pc # "idle" /\ r \in Runs =>
             \/ run'[r] = run[r]
             \/ /\ worker[w].pc = "working" => run'[r].token # worker[w].token
                /\ run'[r].stage = run[r].stage \/ ~HoldsJob(w) \/ ~OwnJobOnly(r)'
    PROVE  InStep(w)'
<1> SUFFICES ASSUME worker[w].pc # "idle" PROVE InStep(w)'
  BY DEF InStep
<1>1. /\ worker[w].job \in Jobs /\ job[worker[w].job].status # "absent"
      /\ worker[w].pc \in HasRead => r \in Runs
      /\ worker[w].pc = "working" /\ run[r].token = worker[w].token => run[r].status = "running"
      /\ worker[w].pc \in {"marking", "working"} /\ HoldsJob(w) /\ OwnJobOnly(r) =>
           worker[w].stage = run[r].stage
  BY DEF AllInStep, Ownership, WorkersApart, InStep, HoldsRun
<1>2. job'[worker[w].job].status # "absent" /\ job'[worker[w].job].run = r
  BY <1>1, StepOfRows DEF RunOf
<1>3. r \in Runs => (OwnJobOnly(r)' => OwnJobOnly(r))
  BY StepOfRows
<1>4. HoldsJob(w)' => HoldsJob(w)
  BY StandingOwnsNoMore
<1>5. RunOf(w)' = r
  BY <1>2 DEF RunOf
<1>6. OwnJobOnly(RunOf(w))' = OwnJobOnly(r)'
  BY <1>5 DEF OwnJobOnly, JobsOf
<1>7. worker[w].pc \in {"marking", "working"} => worker[w].pc \in HasRead
  BY DEF HasRead
<1>8. worker[w].pc = "working" /\ HoldsRun(w)' => run'[r].status = "running"
  BY <1>1, <1>5, <1>7 DEF HoldsRun
<1>9. worker[w].pc \in {"marking", "working"} /\ HoldsJob(w)' /\ OwnJobOnly(r)' =>
        worker[w].stage = run'[r].stage
  BY <1>1, <1>3, <1>4, <1>7
<1> QED BY <1>1, <1>2, <1>5, <1>6, <1>8, <1>9 DEF InStep

\* Giving a run an extra job ends its having one only.
LEMMA ExtraJobShows ==
    ASSUME QueueTypeOK, NEW r \in Runs, NEW j \in ExtraJobs, Enqueue(j, r)
    PROVE  ~OwnJobOnly(r)'
<1>1. j \in Jobs /\ j # AnalyzeJob[r]
  BY RunAssumption DEF RunAssumption
<1>2. job'[j].run = r
  BY <1>1 DEF Enqueue, NoJob, QueueTypeOK
<1> QED BY <1>1, <1>2 DEF OwnJobOnly, JobsOf

\* The web process and the dispatcher keep every worker in step.
LEMMA UsersKeepStep ==
    ASSUME AllInStep, [Next]_vars, UNCHANGED worker, NEW w \in Workers,
           UNCHANGED run \/ \E r \in Runs : UserStep(r)
    PROVE  InStep(w)'
<1>1. CASE UNCHANGED run
  BY <1>1, StandingKeeps
<1>2. ASSUME NEW r \in Runs, UserStep(r) PROVE InStep(w)'
  <2>1. PICK q : q = RunOf(w)
    OBVIOUS
  <2>2. \A p \in Runs \ {r} : run'[p] = run[p]
    BY <1>2 DEF UserStep, CreateRun, RetryRun, RequestAudioTrust, ContinueAfterAuditFailure,
                Requeue, AllInStep, Ownership, RunTypeOK
  <2>3. CASE q # r
    BY <2>1, <2>2, <2>3, StandingKeeps
  <2>4. CASE q = r
    <3> SUFFICES ASSUME worker[w].pc # "idle"
                 PROVE  /\ worker[w].pc = "working" => run'[r].token # worker[w].token
                        /\ run'[r].stage = run[r].stage \/ ~OwnJobOnly(r)'
      BY <2>1, <2>4, StandingKeeps
    <3>1. run \in [Runs -> Run] /\ worker[w].token # None
      BY NullIsApart DEF AllInStep, Ownership, RunTypeOK, WorkersApart
    <3>2. CASE CreateRun(r)
      <4>1. run'[r].token = run[r].token /\ run'[r].stage = run[r].stage
            /\ run[r].status = "absent"
        BY <3>1, <3>2 DEF CreateRun, Run
      <4>2. worker[w].pc = "working" => run[r].token # worker[w].token
        BY <2>1, <2>4, <4>1 DEF AllInStep, InStep, HoldsRun
      <4> QED BY <4>1, <4>2
    <3>3. ASSUME NEW stage, Requeue(r, stage), stage = run[r].stage \/ ~OwnJobOnly(r)'
          PROVE  /\ run'[r].token # worker[w].token
                 /\ run'[r].stage = run[r].stage \/ ~OwnJobOnly(r)'
      BY <3>1, <3>3 DEF Requeue
    <3>4. CASE RetryRun(r)
      BY <3>3, <3>4 DEF RetryRun
    <3>5. CASE RequestAudioTrust(r)
      <4>1. ~OwnJobOnly(r)'
        BY <3>5, ExtraJobShows DEF RequestAudioTrust, AllInStep, Ownership, RunTypeOK
      <4> QED BY <3>3, <3>5, <4>1 DEF RequestAudioTrust
    <3>6. CASE ContinueAfterAuditFailure(r)
      BY <3>3, <3>6 DEF ContinueAfterAuditFailure
    <3> QED BY <1>2, <3>2, <3>4, <3>5, <3>6 DEF UserStep
  <2> QED BY <2>3, <2>4
<1> QED BY <1>1, <1>2

\* Commits to other runs leave a worker in step, and a commit to its own run comes
\* from whoever holds that run: never from a second owner of its only job.
LEMMA CommitKeepsStep ==
    ASSUME AllInStep, [Next]_vars, NEW v \in Workers, NEW w \in Workers, w # v,
           NEW o, Commit(v, o)
    PROVE  InStep(w)'
<1>1. /\ worker'[w] = worker[w] /\ run \in [Runs -> Run]
      /\ worker[v].pc = "working" /\ HoldsJob(v) /\ HoldsRun(v)
  BY DEF Commit, CanCommit, Leave, AllInStep, Ownership, RunTypeOK
<1>2. PICK p, q : p = RunOf(v) /\ q = RunOf(w)
  OBVIOUS
<1>3. run' = [run EXCEPT ![p].status = o.status, ![p].stage = o.stage]
  BY <1>2 DEF Commit
<1>4. CASE q # p
  <2>1. q \in Runs => run'[q] = run[q]
    BY <1>1, <1>3, <1>4
  <2> QED BY <1>1, <1>2, <2>1, StandingKeeps
<1>5. CASE q = p
  <2> SUFFICES ASSUME worker[w].pc # "idle", p \in Runs
               PROVE  /\ run'[p].token # worker[w].token
                      /\ ~HoldsJob(w) \/ ~OwnJobOnly(p)'
    BY <1>1, <1>2, <1>5, StandingKeeps
  <2>1. run'[p].token = run[p].token /\ run[p].token = worker[v].token
    BY <1>1, <1>2, <1>3 DEF HoldsRun, Run
  <2>2. worker[v].token # worker[w].token
    BY <1>1 DEF AllInStep, Ownership, WorkersApart
  <2>3. OwnJobOnly(p)' => OwnJobOnly(p)
    BY StepOfRows
  <2> QED BY <1>1, <1>2, <1>5, <2>1, <2>2, <2>3, OneOwner
<1> QED BY <1>4, <1>5

\* A worker that marks or parks its run takes it from whoever held it.
LEMMA TakingKeepsStep ==
    ASSUME AllInStep, [Next]_vars, NEW v \in Workers, NEW w \in Workers, w # v,
           MarkRunning(v) \/ ParkRun(v)
    PROVE  InStep(w)'
<1>1. worker'[w] = worker[w] /\ run \in [Runs -> Run] /\ worker[v].pc # "idle"
  BY DEF MarkRunning, ParkRun, Go, AllInStep, Ownership, RunTypeOK
<1>2. PICK p, q : p = RunOf(v) /\ q = RunOf(w)
  OBVIOUS
<1>3. PICK status \in RunStatus, t \in {None, worker[v].token} :
        run' = [run EXCEPT ![p].status = status, ![p].token = t]
  BY <1>2 DEF MarkRunning, ParkRun, RunStatus
<1>4. q \in Runs /\ q # p => run'[q] = run[q]
  BY <1>1, <1>3
<1>5. q \in Runs /\ q = p => run'[q].token = t /\ run'[q].stage = run[q].stage
  BY <1>1, <1>3 DEF Run
<1>6. worker[w].pc # "idle" => t # worker[w].token
  BY <1>1, NullIsApart DEF AllInStep, Ownership, WorkersApart
<1> QED BY <1>1, <1>2, <1>4, <1>5, <1>6, StandingKeeps

\* A worker that moves is in step where it comes to stand.
LEMMA MoverInStep ==
    ASSUME AllInStep, [Next]_vars, NEW v \in Workers, WorkerStep(v), ~RenewLease(v)
    PROVE  InStep(v)'
<1>1. /\ worker \in [Workers -> Worker] /\ run \in [Runs -> Run] /\ QueueTypeOK
      /\ worker[v].pc # "idle" =>
           worker[v].job \in Jobs /\ job[worker[v].job].status # "absent"
      /\ InStep(v)
  BY DEF AllInStep, Ownership, RunTypeOK, WorkersApart, InStep
<1>2. CASE Leave(v)
  BY <1>1, <1>2 DEF Leave, IdleWorker, InStep
<1>3. CASE StartJob(v)
  <2>1. PICK j \in Jobs, t \in Tokens :
          /\ Claim(j, t)
          /\ worker' = [worker EXCEPT ![v] = [pc |-> "claimed", job |-> j,
                                              token |-> t, stage |-> 0]]
    BY <1>3 DEF StartJob
  <2>2. job'[j].status = "running"
    BY <1>1, <2>1 DEF Claim, QueueTypeOK, Job
  <2>3. worker'[v].job = j /\ worker'[v].pc = "claimed"
    BY <1>1, <2>1
  <2> QED BY <2>2, <2>3 DEF InStep, HasRead
<1>4. CASE ReadRun(v)
  <2>1. PICK r : r = RunOf(v)
    OBVIOUS
  <2>2. r \in Runs
    BY <1>1, <1>4, <2>1 DEF ReadRun, RunOf, QueueTypeOK, Job
  <2>3. PICK pc \in Step \ {"idle", "working"} :
          worker' = [worker EXCEPT ![v].stage = run[r].stage, ![v].pc = pc]
    BY <1>4, <2>1 DEF ReadRun, Step
  <2>4. UNCHANGED <<job, run>> /\ worker[v].pc # "idle"
    BY <1>4 DEF ReadRun
  <2>5. worker'[v].job = worker[v].job /\ worker'[v].stage = run[r].stage /\ worker'[v].pc = pc
    BY <1>1, <2>3 DEF Worker
  <2>6. RunOf(v)' = r
    BY <2>1, <2>4, <2>5 DEF RunOf
  <2> QED BY <1>1, <2>2, <2>4, <2>5, <2>6 DEF InStep
<1>5. CASE MarkRunning(v) \/ ParkRun(v)
  <2>1. PICK r : r = RunOf(v)
    OBVIOUS
  <2>2. r \in Runs /\ worker[v].pc # "idle" /\ UNCHANGED job
    BY <1>1, <1>5, <2>1 DEF MarkRunning, ParkRun, InStep, HasRead
  <2>3. CASE ParkRun(v)
    <3>1. worker'[v].job = worker[v].job /\ worker'[v].pc = "parked"
      BY <1>1, <2>3 DEF ParkRun, Go, Worker
    <3> QED BY <1>1, <2>1, <2>2, <3>1 DEF InStep, RunOf
  <2>4. CASE MarkRunning(v)
    <3>1. /\ worker'[v].job = worker[v].job /\ worker'[v].pc = "working"
          /\ worker'[v].token = worker[v].token /\ worker'[v].stage = worker[v].stage
          /\ worker[v].pc = "marking"
      BY <1>1, <2>4 DEF MarkRunning, Go, Worker
    <3>2. run'[r].status = "running" /\ run'[r].stage = run[r].stage
      BY <1>1, <2>1, <2>2, <2>4 DEF MarkRunning, Run
    <3>3. /\ RunOf(v)' = r
          /\ HoldsJob(v)' => HoldsJob(v)
          /\ OwnJobOnly(RunOf(v))' => OwnJobOnly(r)
      BY <2>1, <2>2, <3>1 DEF RunOf, HoldsJob, Owns, Live, OwnJobOnly, JobsOf
    <3>4. HoldsJob(v) /\ OwnJobOnly(r) => worker[v].stage = run[r].stage
      BY <1>1, <2>1, <3>1 DEF InStep
    <3> QED BY <1>1, <2>2, <3>1, <3>2, <3>3, <3>4 DEF InStep
  <2> QED BY <1>5, <2>3, <2>4
<1> QED BY <1>2, <1>3, <1>4, <1>5
        DEF WorkerStep, HandleJob, CloseFinished, ReturnParked, Checkpoint, Postpone, Commit,
            Abandon, Error, Crash

\* Every step keeps every worker in step.
LEMMA InStepStep == AllInStep /\ [Next]_vars => AllInStep'
<1> SUFFICES ASSUME AllInStep, [Next]_vars, NEW w \in Workers PROVE InStep(w)'
  BY StepOfRows DEF AllInStep
<1>1. ASSUME NEW v \in Workers, WorkerStep(v) PROVE InStep(w)'
  <2>1. CASE RenewLease(v)
    BY <2>1, UsersKeepStep DEF RenewLease
  <2>2. CASE v = w /\ ~RenewLease(v)
    BY <1>1, <2>2, MoverInStep
  <2>3. CASE v # w /\ (Checkpoint(v) \/ Postpone(v))
    BY <2>3, CommitKeepsStep DEF Checkpoint, Postpone
  <2>4. CASE v # w /\ (MarkRunning(v) \/ ParkRun(v))
    BY <2>4, TakingKeepsStep
  <2>5. CASE v # w /\ \/ StartJob(v) \/ HandleJob(v) \/ ReadRun(v) \/ CloseFinished(v)
                      \/ ReturnParked(v) \/ Abandon(v) \/ Error(v) \/ Crash(v)
    <3>1. UNCHANGED run /\ worker'[w] = worker[w]
      BY <2>5 DEF StartJob, HandleJob, ReadRun, CloseFinished, ReturnParked, Abandon, Error,
                  Crash, Leave, AllInStep, Ownership, RunTypeOK
    <3> QED BY <3>1, StandingKeeps
  <2> QED BY <1>1, <2>1, <2>2, <2>3, <2>4, <2>5 DEF WorkerStep
<1>2. ASSUME NEW r \in Runs, UserStep(r) PROVE InStep(w)'
  <2>1. UNCHANGED worker
    BY <1>2 DEF UserStep, CreateRun, RetryRun, RequestAudioTrust, ContinueAfterAuditFailure, Requeue
  <2> QED BY <1>2, <2>1, UsersKeepStep
<1>3. CASE \/ \E r \in Runs : DispatchOne(r)
           \/ \E j \in Jobs : EnqueueOther(j)
           \/ DispatchRead \/ ToggleMonitoring \/ TimePasses \/ UNCHANGED vars
  <2>1. UNCHANGED <<run, worker>>
    BY <1>3 DEF DispatchOne, EnqueueOther, DispatchRead, ToggleMonitoring, TimePasses, vars
  <2> QED BY <2>1, UsersKeepStep
<1> QED BY <1>1, <1>2, <1>3 DEF Next

\* So every worker is in step from the start on.
LEMMA InStepHolds == Spec => []AllInStep
<1>1. Init /\ Ownership => AllInStep
  BY DEF Init, QueueInit, NoJob, IdleWorker, AllInStep, AbsentRows, InStep
<1> QED BY <1>1, InStepStep, OwnershipHolds, PTL DEF Spec

\* While a run has only its own job, the worker that may commit to it executed
\* the stage the run is at: no stage that someone else committed is overwritten.
THEOREM NoUpdateLost == Spec => []NoLostUpdate
<1>1. AllInStep => NoLostUpdate
  BY DEF AllInStep, InStep, NoLostUpdate, CanCommit
<1> QED BY <1>1, InStepHolds, PTL

-----------------------------------------------------------------------------
(* The stages of a run, one after the other.                               *)

\* The stage that the queue answers for.
Told(r) == IF OwnJobOnly(r) THEN run[r].stage ELSE LastStage + 1

\* One step gives a job to one run at most.
LEMMA OneRunGetsJob ==
    ASSUME QueueTypeOK, AbsentRows, [QueueNext]_job
    PROVE  \E q : \A r \in Runs : r # q => JobsOf(r)' = JobsOf(r)
<1> DEFINE Same == \A r \in Runs : JobsOf(r)' = JobsOf(r)
<1>1. job \in [Jobs -> Job]
  BY DEF QueueTypeOK
<1>2. ASSUME \A j \in Jobs : job'[j].run = job[j].run PROVE Same
  BY <1>2 DEF JobsOf
<1>3. ASSUME NEW j \in Jobs, EnqueueAny(j)
      PROVE  \E q : \A r \in Runs : r # q => JobsOf(r)' = JobsOf(r)
  <2>1. PICK q : Enqueue(j, q)
    BY <1>3 DEF EnqueueAny
  <2>2. job'[j].run = q /\ job[j].run = None /\ \A k \in Jobs \ {j} : job'[k] = job[k]
    BY <1>1, <2>1 DEF Enqueue, NoJob, AbsentRows
  <2>3. \A r \in Runs : r # q => JobsOf(r)' = JobsOf(r)
    BY <2>2, NullIsApart DEF JobsOf
  <2> QED BY <2>3
<1>4. ASSUME NEW j \in Jobs, ClaimAny(j) PROVE Same
  BY <1>1, <1>2, <1>4 DEF ClaimAny, Claim, Job
<1>5. ASSUME NEW j \in Jobs, RenewAny(j) PROVE Same
  BY <1>1, <1>2, <1>5 DEF RenewAny, Renew, Job
<1>6. ASSUME NEW j \in Jobs, NEW t, NEW status, NEW d, Finish(j, t, status, d) PROVE Same
  BY <1>1, <1>2, <1>6 DEF Finish, Job
<1>7. ASSUME NEW j \in Jobs, FinishAny(j) PROVE Same
  BY <1>6, <1>7 DEF FinishAny
<1>8. ASSUME NEW j \in Jobs, Reopen(j) PROVE Same
  BY <1>1, <1>2, <1>8 DEF Reopen, Job
<1>9. ASSUME Tick \/ UNCHANGED job PROVE Same
  BY <1>1, <1>2, <1>9 DEF Tick, Job
<1> QED BY <1>3, <1>4, <1>5, <1>7, <1>8, <1>9 DEF QueueNext

\* What is told of one run after a step, all else staying as it was.
TellsOf(q) ==
    /\ \A r \in Runs : r # q => Told(r)' = Told(r)
    /\ q \in Runs => \/ Told(q)' = Told(q)
                     \/ Told(q)' = LastStage + 1
                     \/ Told(q) < LastStage /\ Told(q)' = Told(q) + 1

\* A commit by the worker that owns the run's only job takes the run from the
\* stage it is at to the next, or leaves it there.
LEMMA CommitTells ==
    ASSUME AllInStep, [Next]_vars, NEW v \in Workers, Checkpoint(v) \/ Postpone(v)
    PROVE  \E q : TellsOf(q)
<1>1. /\ run \in [Runs -> Run] /\ worker[v].stage \in 0..LastStage /\ job \in [Jobs -> Job]
  BY DEF AllInStep, Ownership, RunTypeOK, Worker, QueueTypeOK
<1>2. PICK o : /\ Commit(v, o)
               /\ \/ o \in Outcomes(worker[v].stage)
                  \/ worker[v].stage < LastStage /\ o \in Pending(worker[v].stage)
  BY DEF Checkpoint, Postpone
<1>3. \/ o.stage = worker[v].stage
      \/ worker[v].stage < LastStage /\ o.stage = worker[v].stage + 1
  BY <1>1, <1>2, RunAssumption DEF Outcomes, Pending, RunAssumption
<1>4. PICK q : q = RunOf(v)
  OBVIOUS
<1>5. q \in Runs
  BY <1>2, <1>4 DEF Commit, CanCommit, AllInStep, InStep, HasRead
<1>6. run' = [run EXCEPT ![q].status = o.status, ![q].stage = o.stage]
  BY <1>2, <1>4 DEF Commit
<1>7. run'[q].stage = o.stage /\ \A r \in Runs : r # q => run'[r] = run[r]
  BY <1>1, <1>5, <1>6 DEF Run
<1>8. \A r \in Runs : OwnJobOnly(r)' <=> OwnJobOnly(r)
  <2>1. \A j \in Jobs : job'[j].run = job[j].run
    BY <1>1, <1>2 DEF Commit, Finish, Job
  <2> QED BY <2>1 DEF OwnJobOnly, JobsOf
<1>9. OwnJobOnly(q) => worker[v].stage = run[q].stage
  BY <1>2, <1>4 DEF Commit, CanCommit, AllInStep, InStep
<1>10. TellsOf(q)
  BY <1>3, <1>5, <1>7, <1>8, <1>9 DEF TellsOf, Told
<1> QED BY <1>10

\* Other steps write no stage, but for the request that gives its run an extra job.
LEMMA RestTells ==
    ASSUME AllInStep, [Next]_vars,
           ~\E v \in Workers : Checkpoint(v) \/ Postpone(v)
    PROVE  \E q : TellsOf(q)
<1>1. run \in [Runs -> Run] /\ QueueTypeOK
  BY DEF AllInStep, Ownership, RunTypeOK
<1>2. PICK q : \A r \in Runs : r # q => JobsOf(r)' = JobsOf(r)
  BY <1>1, QueueStep, OneRunGetsJob DEF AllInStep
<1>3. ASSUME \A r \in Runs : run'[r].stage = run[r].stage PROVE \E p : TellsOf(p)
  <2>1. TellsOf(q)
    BY <1>2, <1>3, StepOfRows DEF TellsOf, Told, OwnJobOnly
  <2> QED BY <2>1
<1>4. ASSUME NEW r \in Runs, RequestAudioTrust(r) PROVE \E p : TellsOf(p)
  <2>1. PICK j \in ExtraJobs : Enqueue(j, r)
    BY <1>4 DEF RequestAudioTrust
  <2>2. ~OwnJobOnly(r)'
    BY <1>1, <2>1, ExtraJobShows
  <2>3. \A p \in Runs : p # r => run'[p] = run[p]
    BY <1>1, <1>4 DEF RequestAudioTrust, Requeue
  <2>4. \A p \in Runs : p # r => JobsOf(p)' = JobsOf(p)
    <3>1. j \in Jobs /\ job[j].run = None /\ job'[j].run = r
          /\ \A k \in Jobs \ {j} : job'[k] = job[k]
      BY <1>1, <2>1, RunAssumption DEF RunAssumption, Enqueue, NoJob, AllInStep, AbsentRows,
                                       QueueTypeOK
    <3> QED BY <3>1, NullIsApart DEF JobsOf
  <2>5. TellsOf(r)
    BY <2>2, <2>3, <2>4 DEF TellsOf, Told, OwnJobOnly
  <2> QED BY <2>5
<1>5. ASSUME NEW r \in Runs, CreateRun(r) \/ RetryRun(r) \/ ContinueAfterAuditFailure(r)
      PROVE  \A p \in Runs : run'[p].stage = run[p].stage
  BY <1>1, <1>5 DEF CreateRun, RetryRun, ContinueAfterAuditFailure, Requeue, Run
<1>6. ASSUME NEW v \in Workers, ParkRun(v) \/ MarkRunning(v)
      PROVE  \A p \in Runs : run'[p].stage = run[p].stage
  <2>1. PICK p : p = RunOf(v)
    OBVIOUS
  <2>2. PICK status, t : run' = [run EXCEPT ![p].status = status, ![p].token = t]
    BY <1>6, <2>1 DEF ParkRun, MarkRunning
  <2> QED BY <1>1, <2>2 DEF Run
<1>7. ASSUME UNCHANGED run PROVE \A p \in Runs : run'[p].stage = run[p].stage
  BY <1>7
<1>8. \/ UNCHANGED run
      \/ \E v \in Workers : ParkRun(v) \/ MarkRunning(v)
      \/ \E r \in Runs : UserStep(r)
  BY DEF Next, WorkerStep, vars, StartJob, HandleJob, ReadRun, CloseFinished, ReturnParked,
         RenewLease, Abandon, Error, Crash, DispatchOne, DispatchRead, EnqueueOther,
         ToggleMonitoring, TimePasses
<1> QED BY <1>3, <1>4, <1>5, <1>6, <1>7, <1>8 DEF UserStep

\* What is told of the runs, as the abstract specification has it.
ToldStages == [r \in Runs |-> IF OwnJobOnly(r) THEN run[r].stage ELSE LastStage + 1]

\* A step of the system commits one stage, releases one run, or does neither.
LEMMA ProgressStep == AllInStep /\ [Next]_vars => [Progress!ProgressNext]_ToldStages
<1> SUFFICES ASSUME AllInStep, [Next]_vars, ~UNCHANGED ToldStages PROVE Progress!ProgressNext
  OBVIOUS
<1>1. PICK q : TellsOf(q)
  BY CommitTells, RestTells
<1>2. \A r \in Runs : ToldStages[r] = Told(r) /\ ToldStages'[r] = Told(r)'
  BY DEF ToldStages, Told
<1>3. q \in Runs /\ Told(q)' # Told(q) /\ ToldStages' = [ToldStages EXCEPT ![q] = Told(q)']
  BY <1>1, <1>2 DEF TellsOf, ToldStages
<1>4. LastStage \in Nat /\ Told(q) \in 0..LastStage + 1
  BY <1>3, RunAssumption DEF RunAssumption, Told, AllInStep, Ownership, RunTypeOK, Run
<1>5. CASE Told(q)' = LastStage + 1
  <2>1. Progress!Release(q)
    BY <1>2, <1>3, <1>4, <1>5 DEF Progress!Release, Progress!Released, ToldStages
  <2> QED BY <1>3, <2>1 DEF Progress!ProgressNext
<1>6. CASE Told(q) < LastStage /\ Told(q)' = Told(q) + 1
  <2>1. Progress!CommitStage(q)
    BY <1>2, <1>3, <1>4, <1>6 DEF Progress!CommitStage, ToldStages
  <2> QED BY <1>3, <2>1 DEF Progress!ProgressNext
<1> QED BY <1>1, <1>3, <1>5, <1>6 DEF TellsOf

\* The queue implements StageProgress: every stage of a run is committed once, in
\* order, however leases expire and workers die, until the run is given a second job.
THEOREM RunsProgressInOrder == Spec => StagesInOrder
<1>1. Init => Progress!ProgressInit
  <2> SUFFICES ASSUME Init PROVE Progress!ProgressInit
    OBVIOUS
  <2>1. \A r \in Runs : JobsOf(r) = {}
    BY NullIsApart DEF Init, QueueInit, NoJob, JobsOf
  <2>2. \A r \in Runs : OwnJobOnly(r) /\ run[r].stage = 0
    BY <2>1 DEF Init, OwnJobOnly
  <2> QED BY <2>2 DEF Progress!ProgressInit
<1>2. AllInStep /\ [Next]_vars => [Progress!ProgressNext]_ToldStages
  BY ProgressStep
<1> QED BY <1>1, <1>2, InStepHolds, PTL DEF Spec, StagesInOrder, Progress!ProgressSpec, ToldStages
=============================================================================
