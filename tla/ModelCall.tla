------------------------------ MODULE ModelCall ------------------------------
(***************************************************************************)
(* Paid model calls: modelCall of pipeline.ts against the ledger, with the *)
(* sweeper and the reconciliation of attempts whose outcome is not known.  *)
(*                                                                         *)
(* A caller replays a retained response if there is one; otherwise it      *)
(* reserves, calls the provider, retains what came back and settles.  Its  *)
(* host may die anywhere, or be frozen past its queue lease and go on.     *)
(***************************************************************************)
EXTENDS Ledger

CONSTANTS
    Callers,         \* concurrent modelCall invocations, over all hosts
    Unpriced,        \* a retained response that names no price
    Pending,         \* one that will be billed later (Cheaper Inference)
    Sweeps,          \* whether anything calls sweep() (scripts/worker.ts does)
    MaxLapses,       \* bound: queue leases lost under a living caller
    MaxCrashes       \* bound: hosts that die

ASSUME CallAssumption ==
    /\ Unpriced \notin {None, Pending} \cup (0..Estimate)
    /\ Pending \notin {None} \cup (0..Estimate)
    /\ Sweeps \in BOOLEAN
    /\ MaxLapses \in Nat /\ MaxCrashes \in Nat

VARIABLES
    raw,         \* yi_responses[id]: what it says of the price, or None
    normalized,  \* ids that also have a replayable response
    caller,
    leased,      \* runs some job holds an unexpired lease on
    todo, queue, \* rows the sweeper, a reconciliation have read and not yet done
    task,        \* the job `reconcile:<id>` of a row
    lapses, crashes

vars == <<call, raw, normalized, caller, leased, todo, queue, task, lapses, crashes>>

\* A price is at most what the reservation estimated.
Prices == 1..Estimate

Step == {"idle", "looking", "replaying", "reserving", "calling", "releasing",
         "answered", "received", "settling", "unanswered", "marking"}

Caller == [pc    : Step,
           stage : Stages \cup {None},
           call  : Calls \cup {0},
           price : Prices \cup {None},   \* what it will settle at
           stale : BOOLEAN]              \* its queue lease is gone

Idle == [pc |-> "idle", stage |-> None, call |-> 0, price |-> None, stale |-> FALSE]

Init ==
    /\ LedgerInit
    /\ raw = [k \in Calls |-> None]
    /\ normalized = {}
    /\ caller = [c \in Callers |-> Idle]
    /\ leased = {} /\ todo = {} /\ queue = {}
    /\ task = [k \in Calls |-> "absent"]
    /\ lapses = 0 /\ crashes = 0

-----------------------------------------------------------------------------
(* A caller.                                                               *)

At(c, pc)   == caller[c].pc = pc
Move(c, pc) == caller' = [caller EXCEPT ![c].pc = pc]
Leave(c)    == caller' = [caller EXCEPT ![c] = Idle]

Running(r) == {c \in Callers : caller[c].pc # "idle" /\ RunOf[caller[c].stage] = r}

Response == Prices \cup {Unpriced, Pending}

PriceOf(response) == IF response \in Prices THEN response ELSE None

\* A worker with a lease on the run comes to the stage.
Begin(c, s) ==
    /\ At(c, "idle")
    /\ RunOf[s] \in leased
    /\ \A d \in Callers : caller[d].stage = s => caller[d].stale
    /\ caller' = [caller EXCEPT ![c] = [Idle EXCEPT !.pc = "looking", !.stage = s]]
    /\ UNCHANGED <<call, raw, normalized, leased, todo, queue, task, lapses, crashes>>

\* Mutant: only settled attempts are looked at.
DecisiveSettled(s) == {k \in Attempts(s) : call[k].status = "completed"}

\* Earlier attempts that decide what happens to this one.
Decisive(s) == {k \in Attempts(s) :
                  call[k].status # "released"
                  /\ (k \in normalized \/ call[k].status = "completed")}

\* listAttempts, the latest first: return a retained response (settling it
\* when nothing has), refuse to go on past a settled attempt that kept none,
\* or go on to a new attempt.
Look(c) ==
    /\ At(c, "looking")
    /\ LET s == caller[c].stage IN
         \/ Decisive(s) = {} /\ Move(c, "reserving")
         \/ /\ Decisive(s) # {}
            /\ LET k == Max(Decisive(s)) IN
                 IF call[k].status = "completed" \/ raw[k] = Pending
                   THEN Leave(c)
                   ELSE caller' = [caller EXCEPT ![c].pc = "replaying", ![c].call = k,
                                                 ![c].price = PriceOf(raw[k])]
    /\ UNCHANGED <<call, raw, normalized, leased, todo, queue, task, lapses, crashes>>

Replay(c) ==
    /\ At(c, "replaying")
    /\ Settle(caller[c].call, caller[c].price)
    /\ Leave(c)
    /\ UNCHANGED <<raw, normalized, leased, todo, queue, task, lapses, crashes>>

\* reserve, and the request goes out.
Send(c) ==
    /\ At(c, "reserving")
    /\ \E k \in Calls :
         /\ Reserve(k, caller[c].stage)
         /\ caller' = [caller EXCEPT ![c].pc = "calling", ![c].call = k]
    /\ UNCHANGED <<raw, normalized, leased, todo, queue, task, lapses, crashes>>

\* An open attempt or a limit (that of the model included): reserve throws.
Refuse(c) ==
    /\ At(c, "reserving")
    /\ Reservable(caller[c].stage) => \A k \in Calls : call[k].status # "absent"
    /\ Leave(c)
    /\ UNCHANGED <<call, raw, normalized, leased, todo, queue, task, lapses, crashes>>

\* transport.call returns, throws with the response it received, throws with
\* a status or a retryable failure (taken for unbilled), or just breaks off.
Answer(c) ==
    /\ At(c, "calling")
    /\ \E pc \in {"answered", "received", "releasing", "unanswered"} : Move(c, pc)
    /\ UNCHANGED <<call, raw, normalized, leased, todo, queue, task, lapses, crashes>>

\* The raw and the normalized response in one transaction; after an error
\* only the raw one.
Retain(c) ==
    /\ caller[c].pc \in {"answered", "received"}
    /\ \E response \in Response :
         /\ raw' = [raw EXCEPT ![caller[c].call] = response]
         /\ caller' = [caller EXCEPT
                         ![c].pc = IF At(c, "answered") THEN "settling" ELSE "unanswered",
                         ![c].price = PriceOf(response)]
    /\ normalized' = normalized \cup (IF At(c, "answered") THEN {caller[c].call} ELSE {})
    /\ UNCHANGED <<call, leased, todo, queue, task, lapses, crashes>>

\* settle; an attempt that failed without a price, or that is billed later,
\* is then marked unknown.
SettleCall(c) ==
    /\ caller[c].pc \in {"settling", "unanswered"}
    /\ Settle(caller[c].call, caller[c].price)
    /\ IF /\ caller[c].price = None /\ ~Conflicts(caller[c].call)
          /\ At(c, "unanswered") \/ raw[caller[c].call] = Pending
         THEN Move(c, "marking") ELSE Leave(c)
    /\ UNCHANGED <<raw, normalized, leased, todo, queue, task, lapses, crashes>>

Mark(c) ==
    /\ At(c, "marking")
    /\ MarkUnknown(caller[c].call, FALSE)
    /\ Leave(c)
    /\ UNCHANGED <<raw, normalized, leased, todo, queue, task, lapses, crashes>>

\* release; withRetry makes another attempt, or the error goes up.
GiveBack(c) ==
    /\ At(c, "releasing")
    /\ Release(caller[c].call)
    /\ \/ caller' = [caller EXCEPT ![c].pc = "reserving", ![c].call = 0]
       \/ Leave(c)
    /\ UNCHANGED <<raw, normalized, leased, todo, queue, task, lapses, crashes>>

Crash(c) ==
    /\ caller[c].pc # "idle" /\ crashes < MaxCrashes
    /\ Leave(c)
    /\ crashes' = crashes + 1
    /\ UNCHANGED <<call, raw, normalized, leased, todo, queue, task, lapses>>

-----------------------------------------------------------------------------
(* The queue's leases, and the hold.                                       *)

Lease(r) ==
    /\ r \in Runs \ leased
    /\ leased' = leased \cup {r}
    /\ UNCHANGED <<call, raw, normalized, caller, todo, queue, task, lapses, crashes>>

\* The job is finished, or its lease runs out under a frozen worker: a host
\* that lives for fourteen minutes at most, where the hold is an hour.
Unlease(r) ==
    /\ r \in leased
    /\ leased' = leased \ {r}
    /\ \/ Running(r) = {} /\ UNCHANGED <<caller, lapses>>
       \/ /\ Running(r) # {} /\ lapses < MaxLapses
          /\ \A c \in Running(r) : caller[c].call # 0 => ~call[caller[c].call].due
          /\ lapses' = lapses + 1
          /\ caller' = [c \in Callers |-> IF c \in Running(r)
                                            THEN [caller[c] EXCEPT !.stale = TRUE]
                                            ELSE caller[c]]
    /\ UNCHANGED <<call, raw, normalized, todo, queue, task, crashes>>

Expire(k) ==
    /\ \A c \in Callers : caller[c].call = k => ~caller[c].stale
    /\ HoldExpires(k)
    /\ UNCHANGED <<raw, normalized, caller, leased, todo, queue, task, lapses, crashes>>

-----------------------------------------------------------------------------
(* sweep: enqueueExpiredReservations, and reconcileUnknown, which the jobs *)
(* it enqueues run as well.                                                *)

\* Mutant: nobody looks whether the run is being worked on.
SweepLeased ==
    /\ Sweeps /\ todo = {}
    /\ todo' = {k \in Calls : Open(k) /\ call[k].due}
    /\ todo' # {}
    /\ UNCHANGED <<call, raw, normalized, caller, leased, queue, task, lapses, crashes>>

\* Mutant: only attempts someone marked are swept.
SweepUnknown ==
    /\ Sweeps /\ todo = {}
    /\ todo' = {k \in Calls : /\ call[k].status = "unknown" /\ call[k].due
                              /\ RunOf[call[k].stage] \notin leased}
    /\ todo' # {}
    /\ UNCHANGED <<call, raw, normalized, caller, leased, queue, task, lapses, crashes>>

\* Open attempts past their hold that no leased run can still be using.
Sweep ==
    /\ Sweeps /\ todo = {}
    /\ todo' = {k \in Calls : Open(k) /\ call[k].due /\ RunOf[call[k].stage] \notin leased}
    /\ todo' # {}
    /\ UNCHANGED <<call, raw, normalized, caller, leased, queue, task, lapses, crashes>>

\* One transaction each, from the rows as the query returned them.  One that
\* fails ends the sweep.
SweepOne(k) ==
    /\ k \in todo
    /\ MarkUnknown(k, TRUE)
    /\ IF Conflicts(k)
         THEN todo' = {} /\ UNCHANGED task
         ELSE /\ todo' = todo \ {k}
              /\ task' = [task EXCEPT ![k] = IF @ = "absent" THEN "queued" ELSE @]
    /\ UNCHANGED <<raw, normalized, caller, leased, queue, lapses, crashes>>

\* At the end of the sweep, or by a job, whichever row the job was for.
Reconcile ==
    /\ Sweeps /\ queue = {}
    /\ \/ todo = {} /\ UNCHANGED task
       \/ \E k \in Calls : /\ task[k] = "queued"
                           /\ task' = [task EXCEPT ![k] = "finished"]
    /\ queue' = {k \in Calls : call[k].status = "unknown" /\ call[k].due}
    /\ queue' # {}
    /\ UNCHANGED <<call, raw, normalized, caller, leased, todo, lapses, crashes>>

\* Mutant: the retained response is not looked for.
ReconcileUnread(k) ==
    /\ k \in queue
    /\ queue' = queue \ {k}
    /\ Release(k)
    /\ UNCHANGED <<raw, normalized, caller, leased, todo, task, lapses, crashes>>

\* A retained response settles the attempt at its price, or else at the
\* reservation; a bill still to come keeps the hold; no evidence, no charge.
ReconcileOne(k) ==
    /\ k \in queue
    /\ queue' = queue \ {k}
    /\ \/ raw[k] = None /\ Release(k)
       \/ raw[k] \in Prices /\ Settle(k, raw[k])
       \/ raw[k] = Unpriced /\ Settle(k, call[k].amount)
       \/ raw[k] = Pending /\ UNCHANGED call
    /\ UNCHANGED <<raw, normalized, caller, leased, todo, task, lapses, crashes>>

-----------------------------------------------------------------------------
CallerStep(c) ==
    \/ \E s \in Stages : Begin(c, s)
    \/ Look(c) \/ Replay(c) \/ Send(c) \/ Refuse(c) \/ Answer(c) \/ Retain(c)
    \/ SettleCall(c) \/ Mark(c) \/ GiveBack(c) \/ Crash(c)

Next ==
    \/ \E c \in Callers : CallerStep(c)
    \/ \E k \in Calls : Expire(k) \/ SweepOne(k) \/ ReconcileOne(k)
    \/ \E r \in Runs : Lease(r) \/ Unlease(r)
    \/ Sweep \/ Reconcile

Spec == Init /\ [][Next]_vars

(* Requests end or time out, holds run out, callers go on, the worker loop *)
(* sweeps, and a run is not being worked on at every single sweep, nor its *)
(* response replayed just before every reconciliation.                     *)
Fairness ==
    /\ \A k \in Calls : /\ WF_vars(Expire(k))
                        /\ WF_vars(SweepOne(k)) /\ WF_vars(ReconcileOne(k))
                        /\ SF_vars(Sweep /\ k \in todo')
                        /\ SF_vars(Reconcile /\ k \in queue')
    /\ \A c \in Callers :
         WF_vars(Look(c) \/ Replay(c) \/ Send(c) \/ Refuse(c) \/ Answer(c) \/ Retain(c)
                   \/ SettleCall(c) \/ Mark(c) \/ GiveBack(c))
    /\ \A r \in Runs : SF_vars(Unlease(r))

FairSpec == Spec /\ Fairness

-----------------------------------------------------------------------------
(* Properties.                                                             *)

\* Every variable has its type.
CallTypeOK ==
    /\ call \in [Calls -> Call]
    /\ normalized \subseteq Calls
    /\ raw \in [Calls -> Response \cup {None}]
    /\ caller \in [Callers -> Caller]
    /\ leased \subseteq Runs /\ todo \subseteq Calls /\ queue \subseteq Calls
    /\ task \in [Calls -> {"absent", "queued", "finished"}]
    /\ lapses \in 0..MaxLapses /\ crashes \in 0..MaxCrashes

\* Nobody decides an attempt whose request is still out: the lease that
\* enqueueExpiredReservations looks for keeps the row reserved, however short
\* the hold, and after a lease that was lost the hold does.
CallKeepsHold ==
    \A c \in Callers :
      caller[c].pc \in {"calling", "answered", "received"}
        => call[caller[c].call].status = "reserved"

\* What is spent or reserved never passes the run's cap or the budget, however
\* reservations, prices and reconciliations interleave.
BudgetHeld ==
    /\ Spent(Counted) <= Budget
    /\ \A r \in Runs : RunSpent(r) <= RunCap

\* A response that was retained is paid work: its attempt is never given back.
EvidenceIsCounted ==
    \A k \in Calls : raw[k] # None => k \in Counted

\* A stage is paid for at most once: retries replay the retained response.
PaidOnce ==
    \A s \in Stages : Cardinality({k \in Attempts(s) : call[k].status = "completed"}) <= 1

\* As long as no queue lease is lost under a living caller, an answer that
\* can be replayed is never bought again.
NoSecondAnswer ==
    lapses = 0 => \A s \in Stages : Cardinality(normalized \cap Attempts(s)) <= 1

\* An attempt of unknown outcome is held for the configured time and no
\* longer, then reconciled; only a bill still to come keeps it open.
HoldEnds ==
    \A k \in Calls : Open(k) ~> ~Open(k) \/ raw[k] = Pending
=============================================================================
