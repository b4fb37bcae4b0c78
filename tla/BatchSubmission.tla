--------------------------- MODULE BatchSubmission ---------------------------
(***************************************************************************)
(* Batch model calls (batch.ts): a stage of a run in batch mode reserves   *)
(* and records its intent, submits the request, and is resumed once a      *)
(* `batch-poll` job has found the provider's answer.                       *)
(*                                                                         *)
(* A record per stage stands for the `google-batch` document under the     *)
(* fingerprint of the stage's request; it is written whole, from the copy  *)
(* its writer holds.  Submitters and pollers may die, or lose their queue  *)
(* lease and go on.                                                        *)
(***************************************************************************)
EXTENDS Ledger

CONSTANTS
    Submitters,   \* concurrent submitBatchStage invocations
    Pollers,      \* concurrent pollBatch invocations
    Price,        \* what an answer with usage costs
    MaxLapses,    \* bound: queue leases lost under a living worker
    MaxCrashes,   \* bound: hosts that die
    MaxErrors     \* bound: polls that throw anything but `pending`

ASSUME BatchAssumption ==
    /\ Price \in 0..Estimate
    /\ None \notin Pollers
    /\ MaxLapses \in Nat /\ MaxCrashes \in Nat /\ MaxErrors \in Nat

VARIABLES
    record,      \* stage -> its google-batch document
    normalized,  \* calls with a replayable response
    provider,    \* call -> what became of the request at the provider
    late,        \* calls submitted more than 48 hours ago
    job,         \* stage -> its batch-poll job
    submitter, poller,
    lapses, crashes, errors

vars == <<call, record, normalized, provider, late, job, submitter, poller,
          lapses, crashes, errors>>

\* An answer with or without usage.
Response == {"priced", "unpriced"}

\* Accepted and running; answered; failed unbilled; ended without an answer.
Fate == {"none", "running", "failed", "missing"} \cup Response

Record == [status : {"absent", "submitting", "pending", "completed", "failed", "uncertain"},
           call   : Calls \cup {0},
           named  : BOOLEAN]           \* the provider's resource name is known

NoRecord == [status |-> "absent", call |-> 0, named |-> FALSE]

Job == [status : {"absent", "queued", "running", "completed", "failed"},
        owner  : Pollers \cup {None}]

Submitter == [pc : {"idle", "looking", "replaying", "reading", "reserving", "creating",
                    "naming", "rejecting", "failing", "marking", "recording"},
              stage : Stages \cup {None}, copy : Record, stale : BOOLEAN]

Poller == [pc : {"idle", "reading", "fetching", "completing", "releasing", "marking",
                 "recording", "doubting"},
           stage : Stages \cup {None}, copy : Record]

NoSubmitter == [pc |-> "idle", stage |-> None, copy |-> NoRecord, stale |-> FALSE]
NoPoller    == [pc |-> "idle", stage |-> None, copy |-> NoRecord]

Init ==
    /\ LedgerInit
    /\ record = [s \in Stages |-> NoRecord]
    /\ normalized = {} /\ late = {}
    /\ provider = [k \in Calls |-> "none"]
    /\ job = [s \in Stages |-> [status |-> "absent", owner |-> None]]
    /\ submitter = [c \in Submitters |-> NoSubmitter]
    /\ poller = [p \in Pollers |-> NoPoller]
    /\ lapses = 0 /\ crashes = 0 /\ errors = 0

-----------------------------------------------------------------------------
(* submitBatchStage, from the look for an earlier answer in modelCall.     *)

At(c, pc)    == submitter[c].pc = pc
Go(c, pc)    == submitter' = [submitter EXCEPT ![c].pc = pc]
Leave(c)     == submitter' = [submitter EXCEPT ![c] = NoSubmitter]
Mine(c)      == submitter[c].copy.call

\* put: the writer's copy, with another status.
Put(s, copy, status) == record' = [record EXCEPT ![s] = [copy EXCEPT !.status = status]]

\* enqueueJob under the id of the record.
Schedule(s) == job' = IF job[s].status = "absent"
                        THEN [job EXCEPT ![s].status = "queued"] ELSE job

\* A worker with a lease on the run comes to the stage.
Begin(c, s) ==
    /\ At(c, "idle")
    /\ \A d \in Submitters : submitter[d].stage = s => submitter[d].stale
    /\ submitter' = [submitter EXCEPT ![c] = [NoSubmitter EXCEPT !.pc = "looking",
                                                                 !.stage = s]]
    /\ UNCHANGED <<call, record, normalized, provider, late, job, poller,
                   lapses, crashes, errors>>

Look(c) ==
    /\ At(c, "looking")
    /\ LET s == submitter[c].stage
           prior == {k \in Attempts(s) : k \in normalized /\ call[k].status # "released"} IN
         \/ prior = {} /\ Go(c, "reading")
         \/ \E newest \in prior :
              /\ \A k \in prior : k <= newest
              /\ IF call[newest].status = "completed" THEN Leave(c)
                 ELSE submitter' = [submitter EXCEPT ![c].pc = "replaying",
                          ![c].copy = [NoRecord EXCEPT !.call = newest]]
    /\ UNCHANGED <<call, record, normalized, provider, late, job, poller,
                   lapses, crashes, errors>>

Replay(c) ==
    /\ At(c, "replaying")
    /\ Settle(Mine(c), IF provider[Mine(c)] = "priced" THEN Price ELSE None)
    /\ Leave(c)
    /\ UNCHANGED <<record, normalized, provider, late, job, poller, lapses, crashes, errors>>

\* Mutant: a record that failed may be tried again.
ReadUnfailed(c) ==
    /\ At(c, "reading")
    /\ IF record[submitter[c].stage].status \in {"absent", "failed"}
         THEN Go(c, "reserving") ELSE Leave(c)
    /\ UNCHANGED <<call, record, normalized, provider, late, job, poller,
                   lapses, crashes, errors>>

\* Whatever the record of the request says, it answers for the stage.
ReadRecord(c) ==
    /\ At(c, "reading")
    /\ IF record[submitter[c].stage].status = "absent"
         THEN Go(c, "reserving") ELSE Leave(c)
    /\ UNCHANGED <<call, record, normalized, provider, late, job, poller,
                   lapses, crashes, errors>>

\* The reservation and the intent, in one transaction before any IO.
Intend(c) ==
    /\ At(c, "reserving")
    /\ \E k \in Calls :
         LET intent == [status |-> "submitting", call |-> k, named |-> FALSE] IN
         /\ Reserve(k, submitter[c].stage)
         /\ Put(submitter[c].stage, intent, "submitting")
         /\ submitter' = [submitter EXCEPT ![c].pc = "creating", ![c].copy = intent]
    /\ UNCHANGED <<normalized, provider, late, job, poller, lapses, crashes, errors>>

Refuse(c) ==
    /\ At(c, "reserving")
    /\ Reservable(submitter[c].stage) => \A k \in Calls : call[k].status # "absent"
    /\ Leave(c)
    /\ UNCHANGED <<call, record, normalized, provider, late, job, poller,
                   lapses, crashes, errors>>

\* Mutant: a reply that got lost is taken for a rejection.
CreateOrReject(c) ==
    /\ At(c, "creating")
    /\ \/ /\ provider' = [provider EXCEPT ![Mine(c)] = "running"]
          /\ \/ submitter' = [submitter EXCEPT ![c].pc = "naming",
                                              ![c].copy = [@ EXCEPT !.named = TRUE]]
             \/ Go(c, "rejecting")
       \/ Go(c, "rejecting") /\ UNCHANGED provider
    /\ UNCHANGED <<call, record, normalized, late, job, poller, lapses, crashes, errors>>

\* batches.create is accepted, its reply arriving or not; or is rejected with
\* one of five statuses; or never arrives.
Create(c) ==
    /\ At(c, "creating")
    /\ \/ /\ provider' = [provider EXCEPT ![Mine(c)] = "running"]
          /\ \/ submitter' = [submitter EXCEPT ![c].pc = "naming",
                                              ![c].copy = [@ EXCEPT !.named = TRUE]]
             \/ Go(c, "marking")
       \/ (Go(c, "rejecting") \/ Go(c, "marking")) /\ UNCHANGED provider
    /\ UNCHANGED <<call, record, normalized, late, job, poller, lapses, crashes, errors>>

\* The name and the poll job in one transaction.
Name(c) ==
    /\ At(c, "naming")
    /\ Put(submitter[c].stage, submitter[c].copy, "pending")
    /\ Schedule(submitter[c].stage)
    /\ Leave(c)
    /\ UNCHANGED <<call, normalized, provider, late, poller, lapses, crashes, errors>>

\* That transaction fails: an uncertain outcome like any other.
NameFails(c) ==
    /\ At(c, "naming") /\ errors < MaxErrors
    /\ Go(c, "marking")
    /\ errors' = errors + 1
    /\ UNCHANGED <<call, record, normalized, provider, late, job, poller, lapses, crashes>>

Reject(c) ==
    /\ At(c, "rejecting")
    /\ Release(Mine(c))
    /\ Go(c, "failing")
    /\ UNCHANGED <<record, normalized, provider, late, job, poller, lapses, crashes, errors>>

PutFailed(c) ==
    /\ At(c, "failing")
    /\ Put(submitter[c].stage, submitter[c].copy, "failed")
    /\ Leave(c)
    /\ UNCHANGED <<call, normalized, provider, late, job, poller, lapses, crashes, errors>>

\* The row is still open, so no other of its stage is, and the write succeeds.
MarkUncertain(c) ==
    /\ At(c, "marking")
    /\ MarkUnknown(Mine(c), FALSE)
    /\ Go(c, "recording")
    /\ UNCHANGED <<record, normalized, provider, late, job, poller, lapses, crashes, errors>>

PutUncertain(c) ==
    /\ At(c, "recording")
    /\ Put(submitter[c].stage, submitter[c].copy, "uncertain")
    /\ Leave(c)
    /\ UNCHANGED <<call, normalized, provider, late, job, poller, lapses, crashes, errors>>

-----------------------------------------------------------------------------
(* pollBatch, run by the stage's batch-poll job.                           *)

Holds(p) == job[poller[p].stage].owner = p
Polled(p) == poller[p].copy.call

Step(p, pc) == poller' = [poller EXCEPT ![p].pc = pc]

\* finish, fenced: a poller that lost its lease changes nothing.
EndPoll(p, status) ==
    /\ poller' = [poller EXCEPT ![p] = NoPoller]
    /\ job' = IF Holds(p) THEN [job EXCEPT ![poller[p].stage] =
                                  [status |-> status, owner |-> None]]
              ELSE job

\* The job is due, its host died, or its lease ran out under a frozen host.
StartPoll(p, s) ==
    /\ poller[p].pc = "idle"
    /\ \/ job[s].status = "queued" /\ UNCHANGED lapses
       \/ /\ job[s].status = "running"
          /\ IF poller[job[s].owner].stage = s
               THEN lapses < MaxLapses /\ lapses' = lapses + 1
               ELSE UNCHANGED lapses
    /\ job' = [job EXCEPT ![s] = [status |-> "running", owner |-> p]]
    /\ poller' = [poller EXCEPT ![p] = [NoPoller EXCEPT !.pc = "reading", !.stage = s]]
    /\ UNCHANGED <<call, record, normalized, provider, late, submitter, crashes, errors>>

ReadPoll(p) ==
    /\ poller[p].pc = "reading"
    /\ LET now == record[poller[p].stage] IN
         IF now.status \in {"completed", "failed"} THEN EndPoll(p, "completed")
         ELSE IF ~now.named THEN EndPoll(p, "failed")
         ELSE /\ poller' = [poller EXCEPT ![p].pc = "fetching", ![p].copy = now]
              /\ UNCHANGED job
    /\ UNCHANGED <<call, record, normalized, provider, late, submitter,
                   lapses, crashes, errors>>

\* Mutant: `still running` fails the job like any other throw.
FetchOnce(p) ==
    /\ poller[p].pc = "fetching"
    /\ LET fate == provider[Polled(p)] IN
         IF Polled(p) \in late THEN Step(p, "marking") /\ UNCHANGED job
         ELSE CASE fate \in Response -> Step(p, "completing") /\ UNCHANGED job
                [] fate = "failed"   -> Step(p, "releasing") /\ UNCHANGED job
                [] fate = "missing"  -> Step(p, "marking") /\ UNCHANGED job
                [] OTHER             -> EndPoll(p, "failed")
    /\ UNCHANGED <<call, record, normalized, provider, late, submitter,
                   lapses, crashes, errors>>

\* Past 48 hours nothing is fetched.  Otherwise the answer under the record's
\* key decides; none yet, or no reply, means another poll a minute later.
Fetch(p) ==
    /\ poller[p].pc = "fetching"
    /\ LET fate == provider[Polled(p)] IN
         IF Polled(p) \in late THEN Step(p, "marking") /\ UNCHANGED job
         ELSE CASE fate \in Response -> Step(p, "completing") /\ UNCHANGED job
                [] fate = "failed"   -> Step(p, "releasing") /\ UNCHANGED job
                [] fate = "missing"  -> Step(p, "marking") /\ UNCHANGED job
                [] OTHER             -> EndPoll(p, "queued")
    /\ UNCHANGED <<call, record, normalized, provider, late, submitter,
                   lapses, crashes, errors>>

Unreachable(p) ==
    /\ poller[p].pc = "fetching" /\ Polled(p) \notin late
    /\ EndPoll(p, "queued")
    /\ UNCHANGED <<call, record, normalized, provider, late, submitter,
                   lapses, crashes, errors>>

\* An output that is malformed, or has the key twice.
Doubt(p) ==
    /\ poller[p].pc = "fetching" /\ Polled(p) \notin late
    /\ errors < MaxErrors /\ errors' = errors + 1
    /\ Step(p, "doubting")
    /\ UNCHANGED <<call, record, normalized, provider, late, job, submitter,
                   lapses, crashes>>

\* Mutant: the attempt is not settled when the answer names no price.
CompleteIfPriced(p) ==
    /\ poller[p].pc = "completing"
    /\ normalized' = normalized \cup {Polled(p)}
    /\ IF provider[Polled(p)] = "priced" THEN Settle(Polled(p), Price) ELSE UNCHANGED call
    /\ Put(poller[p].stage, poller[p].copy, "completed")
    /\ EndPoll(p, "completed")
    /\ UNCHANGED <<provider, late, submitter, lapses, crashes, errors>>

\* Response, price (or else the reservation) and record in one transaction.
Complete(p) ==
    /\ poller[p].pc = "completing"
    /\ normalized' = normalized \cup {Polled(p)}
    /\ Settle(Polled(p), IF provider[Polled(p)] = "priced"
                           THEN Price ELSE call[Polled(p)].amount)
    /\ Put(poller[p].stage, poller[p].copy, "completed")
    /\ EndPoll(p, "completed")
    /\ UNCHANGED <<provider, late, submitter, lapses, crashes, errors>>

\* The provider says the request failed: the hold is given back.
GiveBack(p) ==
    /\ poller[p].pc = "releasing"
    /\ Release(Polled(p))
    /\ Put(poller[p].stage, poller[p].copy, "failed")
    /\ EndPoll(p, "completed")
    /\ UNCHANGED <<normalized, provider, late, submitter, lapses, crashes, errors>>

\* Too late, or ended without an answer: two writes, and the job fails.
MarkPolled(p) ==
    /\ poller[p].pc = "marking"
    /\ MarkUnknown(Polled(p), FALSE)
    /\ IF Conflicts(Polled(p)) THEN EndPoll(p, "failed")
       ELSE Step(p, "recording") /\ UNCHANGED job
    /\ UNCHANGED <<record, normalized, provider, late, submitter, lapses, crashes, errors>>

RecordPolled(p) ==
    /\ poller[p].pc = "recording"
    /\ Put(poller[p].stage, poller[p].copy, "uncertain")
    /\ EndPoll(p, "failed")
    /\ UNCHANGED <<call, normalized, provider, late, submitter, lapses, crashes, errors>>

\* uncertain: the same in one transaction.
PutDoubt(p) ==
    /\ poller[p].pc = "doubting"
    /\ MarkUnknown(Polled(p), FALSE)
    /\ IF Conflicts(Polled(p)) THEN UNCHANGED record
       ELSE Put(poller[p].stage, poller[p].copy, "uncertain")
    /\ EndPoll(p, "failed")
    /\ UNCHANGED <<normalized, provider, late, submitter, lapses, crashes, errors>>

\* The database is briefly gone, or the answer does not parse: failJob.
PollError(p) ==
    /\ poller[p].pc # "idle" /\ errors < MaxErrors
    /\ EndPoll(p, "failed")
    /\ errors' = errors + 1
    /\ UNCHANGED <<call, record, normalized, provider, late, submitter, lapses, crashes>>

\* schedulePendingBatches, for each pending record.
SchedulePending(s) ==
    /\ record[s].status = "pending"
    /\ Schedule(s)
    /\ UNCHANGED <<call, record, normalized, provider, late, submitter, poller,
                   lapses, crashes, errors>>

-----------------------------------------------------------------------------
(* The provider, time and failures.                                        *)

Finish(k) ==
    /\ provider[k] = "running"
    /\ \E fate \in Response \cup {"failed", "missing"} :
         provider' = [provider EXCEPT ![k] = fate]
    /\ UNCHANGED <<call, record, normalized, late, job, submitter, poller,
                   lapses, crashes, errors>>

WindowEnds(k) ==
    /\ provider[k] # "none" /\ k \notin late
    /\ late' = late \cup {k}
    /\ UNCHANGED <<call, record, normalized, provider, job, submitter, poller,
                   lapses, crashes, errors>>

LoseLease(c) ==
    /\ ~At(c, "idle") /\ ~submitter[c].stale /\ lapses < MaxLapses
    /\ submitter' = [submitter EXCEPT ![c].stale = TRUE]
    /\ lapses' = lapses + 1
    /\ UNCHANGED <<call, record, normalized, provider, late, job, poller, crashes, errors>>

CrashSubmitter(c) ==
    /\ ~At(c, "idle") /\ crashes < MaxCrashes
    /\ Leave(c) /\ crashes' = crashes + 1
    /\ UNCHANGED <<call, record, normalized, provider, late, job, poller, lapses, errors>>

CrashPoller(p) ==
    /\ poller[p].pc # "idle" /\ crashes < MaxCrashes
    /\ poller' = [poller EXCEPT ![p] = NoPoller] /\ crashes' = crashes + 1
    /\ UNCHANGED <<call, record, normalized, provider, late, job, submitter, lapses, errors>>

Submit(c) ==
    \/ Look(c) \/ Replay(c) \/ ReadRecord(c) \/ Intend(c) \/ Refuse(c) \/ Create(c)
    \/ Name(c) \/ Reject(c) \/ PutFailed(c) \/ MarkUncertain(c) \/ PutUncertain(c)

Poll(p) ==
    \/ ReadPoll(p) \/ Fetch(p) \/ Complete(p) \/ GiveBack(p) \/ MarkPolled(p)
    \/ RecordPolled(p) \/ PutDoubt(p)

Next ==
    \/ \E c \in Submitters : \/ \E s \in Stages : Begin(c, s)
                             \/ Submit(c) \/ NameFails(c) \/ LoseLease(c) \/ CrashSubmitter(c)
    \/ \E p \in Pollers : \/ \E s \in Stages : StartPoll(p, s)
                          \/ Poll(p) \/ Unreachable(p) \/ Doubt(p) \/ PollError(p)
                          \/ CrashPoller(p)
    \/ \E s \in Stages : SchedulePending(s)
    \/ \E k \in Calls : Finish(k) \/ WindowEnds(k)

Spec == Init /\ [][Next]_vars

(* Workers go on, the queue hands out its jobs, the window ends.           *)
Fairness ==
    /\ \A c \in Submitters : WF_vars(Submit(c))
    /\ \A p \in Pollers : WF_vars(Poll(p))
    /\ \A s \in Stages : /\ WF_vars(\E p \in Pollers : StartPoll(p, s))
                         /\ WF_vars(SchedulePending(s))
    /\ \A k \in Calls : WF_vars(WindowEnds(k))

FairSpec == Spec /\ Fairness

-----------------------------------------------------------------------------
(* Properties.                                                             *)

\* Every variable has its type.
BatchTypeOK ==
    /\ call \in [Calls -> Call]
    /\ record \in [Stages -> Record]
    /\ normalized \subseteq Calls /\ late \subseteq Calls
    /\ provider \in [Calls -> Fate]
    /\ job \in [Stages -> Job]
    /\ submitter \in [Submitters -> Submitter] /\ poller \in [Pollers -> Poller]
    /\ lapses \in 0..MaxLapses /\ crashes \in 0..MaxCrashes /\ errors \in 0..MaxErrors

\* A request the provider has accepted and not failed may be on its bill: its
\* reservation is never given back, whether the reply was lost, the poll came
\* too late, or the answer never appeared (batch.ts catch and pollBatch).
AcceptedIsCounted ==
    \A k \in Calls : provider[k] \notin {"none", "failed"} => k \in Counted

\* As long as no lease is lost under a living worker, a stage's request is
\* accepted by the provider once at most, crashes and retries included.
SubmittedOnce ==
    lapses = 0 => \A s \in Stages :
      Cardinality({k \in Attempts(s) : provider[k] # "none"}) <= 1

\* As long as no lease is lost under a living worker, a record says completed
\* only of an attempt that was paid and can be replayed.
CompletedIsPaid ==
    lapses = 0 => \A s \in Stages :
      record[s].status = "completed" => /\ record[s].call \in normalized
                                        /\ call[record[s].call].status = "completed"

\* A pending request is decided in the end if no poll fails and no lease is
\* lost under a living worker: its job returns after every `pending`, and a
\* poller that dies is replaced.
PendingEnds ==
    ([](errors = 0 /\ lapses = 0)) =>
      \A s \in Stages : record[s].status = "pending" ~> record[s].status # "pending"
=============================================================================
