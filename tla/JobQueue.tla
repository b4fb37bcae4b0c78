------------------------------ MODULE JobQueue ------------------------------
(***************************************************************************)
(* The leased job queue: the `jobs` table behind queue.ts and repos/jobs.ts *)
(*                                                                         *)
(* One row per job.  A claim takes the row for LeaseTerm ticks under a     *)
(* fresh token; every later write by the claimant is a conditional UPDATE  *)
(* that names the token and requires the lease to be unexpired.            *)
(*                                                                         *)
(* Time is relative: `lease` counts the ticks left until lease_until and   *)
(* `due` the ticks left until run_after, negative once it has passed and   *)
(* saturating at the first value the ORDER BY treats as aged.              *)
(***************************************************************************)
EXTENDS Integers, FiniteSets

CONSTANTS
    Jobs,             \* job ids (the primary key)
    Runs,             \* analysis runs a payload can name
    BackgroundRuns,   \* origin=channel or processingMode=batch, task # research-brief
    Class,            \* the ORDER BY class (0..3) of a run's analyze job
    Tokens,           \* lease tokens (randomUUID)
    None,             \* SQL NULL: no run in the payload, no lease token
    Capacity,         \* processing.parallelVideos
    BackgroundLimit,  \* YTI_BACKGROUND_CONCURRENCY, or capacity less one
    LeaseTerm,        \* QUEUE_LEASE_MS
    AgedAfter,        \* the 120 seconds of the ORDER BY
    MaxDelay          \* the longest retry delay

ASSUME QueueAssumption ==
    /\ IsFiniteSet(Jobs)
    /\ None \notin Runs \cup Tokens \cup Jobs
    /\ BackgroundRuns \subseteq Runs
    /\ Class \in [Runs -> 0..3]
    /\ Capacity \in Nat \ {0}
    /\ BackgroundLimit \in 1..Capacity
    /\ LeaseTerm \in Nat \ {0}
    /\ AgedAfter \in Nat
    /\ MaxDelay \in Nat

VARIABLE job

JobStatus == {"absent", "queued", "running", "completed", "failed"}
Finished  == {"completed", "failed"}

Due == (0 - AgedAfter - 1)..MaxDelay

Job == [status : JobStatus,
        run    : Runs \cup {None},
        token  : Tokens \cup {None},
        lease  : 0..LeaseTerm,
        due    : Due]

NoJob == [status |-> "absent", run |-> None, token |-> None,
          lease |-> 0, due |-> 0]

-----------------------------------------------------------------------------
(* What the WHERE clauses read.                                            *)

Live(j) == job[j].status = "running" /\ job[j].lease > 0

\* The fence of renewJob and finish: this token, still running, unexpired.
Owns(j, t) == Live(j) /\ job[j].token = t

LiveJobs == {j \in Jobs : Live(j)}

Background(j) == job[j].run \in BackgroundRuns

LiveBackground == {j \in LiveJobs : Background(j)}

\* Due work, or work whose owner let its lease run out.
Claimable(j) == \/ job[j].status = "queued" /\ job[j].due <= 0
                \/ job[j].status = "running" /\ job[j].lease = 0

Aged(j) == job[j].due < 0 - AgedAfter

\* A job of another kind ranks with ordinary analyses.
Rank(j) == IF job[j].run = None THEN 2 ELSE Class[job[j].run]

\* Mutant: the ORDER BY without its two aging terms.
BeforeByClass(j, k) == \/ Rank(j) < Rank(k)
                       \/ Rank(j) = Rank(k) /\ job[j].due < job[k].due

\* The ORDER BY: aged work first and oldest first, then class, then age.
Before(j, k) ==
    \/ Aged(j) /\ ~Aged(k)
    \/ /\ ~Aged(j) /\ ~Aged(k)
       /\ \/ Rank(j) < Rank(k)
          \/ Rank(j) = Rank(k) /\ job[j].due < job[k].due

\* Mutant: background work is admitted like any other.
AllCandidates == {j \in Jobs : Claimable(j)}

\* Claimable now, with background work held back when its share is in use.
Candidates == {j \in Jobs :
                 /\ Claimable(j)
                 /\ Background(j) => Cardinality(LiveBackground) < BackgroundLimit}

-----------------------------------------------------------------------------
(* The operations.                                                         *)

QueueInit == job = [j \in Jobs |-> NoJob]

\* INSERT ... ON CONFLICT(id) DO NOTHING that does insert.
Enqueue(j, r) ==
    /\ job[j].status = "absent"
    /\ job' = [job EXCEPT ![j] = [NoJob EXCEPT !.status = "queued", !.run = r]]

\* Mutant: one claim too many passes the capacity count.
ClaimPastCapacity(j, t) ==
    /\ Cardinality(LiveJobs) <= Capacity
    /\ j \in Candidates
    /\ job' = [job EXCEPT ![j] = [@ EXCEPT !.status = "running",
                                           !.token  = t,
                                           !.lease  = LeaseTerm]]

\* claimJob, one transaction under the capacity advisory lock.
Claim(j, t) ==
    /\ Cardinality(LiveJobs) < Capacity
    /\ j \in Candidates
    /\ \A k \in Candidates : ~Before(k, j)
    /\ job' = [job EXCEPT ![j] = [@ EXCEPT !.status = "running",
                                           !.token  = t,
                                           !.lease  = LeaseTerm]]

\* Mutant: a renewal adds a term to the deadline instead of starting over.
RenewOnTop(j, t) ==
    /\ Owns(j, t)
    /\ job' = [job EXCEPT ![j].lease = @ + LeaseTerm]

\* renewJob by the holder of t.
Renew(j, t) ==
    /\ Owns(j, t)
    /\ job' = [job EXCEPT ![j].lease = LeaseTerm]

\* Mutant: a finished row keeps its token.
FinishKeepingToken(j, t, status, delay) ==
    /\ Owns(j, t)
    /\ job' = [job EXCEPT ![j] = [@ EXCEPT !.status = status, !.lease = 0, !.due = delay]]

\* completeJob, retryJob and failJob by the holder of t.
Finish(j, t, status, delay) ==
    /\ Owns(j, t)
    /\ job' = [job EXCEPT ![j] = [@ EXCEPT !.status = status,
                                           !.token  = None,
                                           !.lease  = 0,
                                           !.due    = delay]]

\* dispatchOpenRuns: a finished job of an open run is put back in the queue.
Reopen(j) ==
    /\ job[j].status \in Finished
    /\ job' = [job EXCEPT ![j] = [@ EXCEPT !.status = "queued",
                                           !.token  = None,
                                           !.lease  = 0,
                                           !.due    = 0]]

Earlier(n) == IF n > 0 - AgedAfter - 1 THEN n - 1 ELSE n

\* Time passes for every row at once.
Tick ==
    job' = [j \in Jobs |->
              [job[j] EXCEPT !.lease = IF @ > 0 THEN @ - 1 ELSE 0,
                             !.due   = IF job[j].status \in {"queued", "running"}
                                         THEN Earlier(@) ELSE @]]

\* randomUUID never repeats a token some row still carries.
FreshToken(t) == t \in Tokens /\ \A j \in Jobs : job[j].token # t

EnqueueAny(j)  == \E r \in Runs \cup {None} : Enqueue(j, r)
ClaimAny(j)    == \E t \in Tokens : FreshToken(t) /\ Claim(j, t)
RenewAny(j)    == \E t \in Tokens : Renew(j, t)
FinishAny(j)   == \E t \in Tokens :
                     \/ \E s \in Finished : Finish(j, t, s, 0)
                     \/ \E d \in 0..MaxDelay : Finish(j, t, "queued", d)

QueueNext == \/ \E j \in Jobs : \/ EnqueueAny(j)
                                \/ ClaimAny(j)
                                \/ RenewAny(j)
                                \/ FinishAny(j)
                                \/ Reopen(j)
             \/ Tick

QueueSpec == QueueInit /\ [][QueueNext]_job

(* Claimants return: a handler ends, or its host dies and the lease runs   *)
(* out.  Time passes, and the total order behind Before (run_after,        *)
(* created_at, id) never passes over the same tied job forever.            *)
QueueFairness == /\ WF_job(Tick)
                 /\ \A j \in Jobs : WF_job(FinishAny(j)) /\ SF_job(ClaimAny(j))

FairQueueSpec == QueueSpec /\ QueueFairness

-----------------------------------------------------------------------------
(* Properties.                                                             *)

\* Every row is well formed.
QueueTypeOK == job \in [Jobs -> Job]

\* However claims, expiries, renewals and late finishes interleave, no more
\* than processing.parallelVideos leases are unexpired at once (claimJob).
CapacityRespected == Cardinality(LiveJobs) <= Capacity

\* Channel and batch work never takes the share of the capacity that claimJob
\* keeps for the analyses people are waiting for.
BackgroundRespected == Cardinality(LiveBackground) <= BackgroundLimit

\* A token is on one row at most, and only on a row that is running: a
\* claimant whose token is found holds exactly that job (queue.ts fencing).
TokenNamesOneJob ==
    /\ \A j \in Jobs : job[j].token # None <=> job[j].status = "running"
    /\ \A j, k \in Jobs : job[j].token = job[k].token /\ j # k
                            => job[j].token = None

\* A queued job of whatever class is claimed in the end, however many jobs of
\* a better class keep coming back: what the aging terms of the ORDER BY are
\* for.
NoStarvation == \A j \in Jobs : job[j].status = "queued" ~> job[j].status = "running"
=============================================================================
