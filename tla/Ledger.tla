-------------------------------- MODULE Ledger --------------------------------
(***************************************************************************)
(* The call ledger: the `yi_calls` table of store.ts.                      *)
(*                                                                         *)
(* One row per attempt at a paid stage of a run.  Money is reserved before *)
(* the provider is called and the row is then completed at a price, given  *)
(* back, or held as `unknown`.  Every write after the reservation names    *)
(* the row by id alone.                                                    *)
(***************************************************************************)
EXTENDS Integers, FiniteSets, FiniteSetsExt

CONSTANTS
    MaxCalls,   \* bound: ledger rows in one behaviour
    Stages,     \* (run, stage) pairs that cost money
    RunOf,      \* the run of a stage
    None,       \* no stage, no response
    Estimate,   \* what a reservation holds
    RunCap,     \* budget.perVideoMaxUsd
    Budget      \* budget.monthlyUsd, YTI_BUDGET_USD

\* Rows are numbered in the order of their reservation.
Calls == 1..MaxCalls
Runs  == {RunOf[s] : s \in Stages}

ASSUME LedgerAssumption ==
    /\ MaxCalls \in Nat \ {0}
    /\ DOMAIN RunOf = Stages
    /\ None \notin Stages \cup (0..Estimate)
    /\ Estimate \in Nat \ {0}
    /\ RunCap \in Nat /\ Budget \in Nat

VARIABLE call

CallStatus == {"absent", "reserved", "unknown", "completed", "released"}

\* `due`: the row has been reserved or unknown for unknownOutcomeHoldMinutes.
Call == [status : CallStatus,
         stage  : Stages \cup {None},
         amount : 0..Estimate,
         due    : BOOLEAN]

NoCall == [status |-> "absent", stage |-> None, amount |-> 0, due |-> FALSE]

LedgerInit == call = [k \in Calls |-> NoCall]

-----------------------------------------------------------------------------
Open(k) == call[k].status \in {"reserved", "unknown"}

Attempts(s) == {k \in Calls : call[k].stage = s}

OpenAttempts(s) == {k \in Attempts(s) : Open(k)}

\* Released rows count for neither run nor budget.
Counted == {k \in Calls : call[k].status \notin {"absent", "released"}}

Spent(S) == MapThenSumSet(LAMBDA k : call[k].amount, S)

RunSpent(r) == Spent({k \in Counted : RunOf[call[k].stage] = r})

-----------------------------------------------------------------------------
\* Mutant: held money is not counted.
ReservableOnSettled(s) ==
    LET settled == {k \in Calls : call[k].status = "completed"} IN
    /\ OpenAttempts(s) = {}
    /\ Spent({k \in settled : RunOf[call[k].stage] = RunOf[s]}) + Estimate <= RunCap
    /\ Spent(settled) + Estimate <= Budget

\* No attempt is open, and neither cap would be passed.
Reservable(s) ==
    /\ OpenAttempts(s) = {}
    /\ RunSpent(RunOf[s]) + Estimate <= RunCap
    /\ Spent(Counted) + Estimate <= Budget

\* reserve, one transaction under the run row's lock and the budget lock.
Reserve(k, s) ==
    /\ call[k].status = "absent"
    /\ \A l \in Calls : l < k => call[l].status # "absent"
    /\ Reservable(s)
    /\ call' = [call EXCEPT ![k] = [status |-> "reserved", stage |-> s,
                                    amount |-> Estimate, due |-> FALSE]]

\* yi_calls_open_attempt: a stage has one open row at most, or the write fails.
Conflicts(k) == OpenAttempts(call[k].stage) \ {k} # {}

\* Mutant: the price is added to the reservation.
SettleOnTop(k, price) ==
    call' = IF price = None
              THEN IF Conflicts(k) THEN call ELSE [call EXCEPT ![k].status = "reserved"]
              ELSE [call EXCEPT ![k] = [@ EXCEPT !.status = "completed", !.amount = @ + price]]

\* settle at a price; without one the row is `reserved` and keeps its amount.
Settle(k, price) ==
    call' = IF price = None
              THEN IF Conflicts(k) THEN call ELSE [call EXCEPT ![k].status = "reserved"]
              ELSE [call EXCEPT ![k] = [@ EXCEPT !.status = "completed", !.amount = price]]

\* markUnknown: `due` says whether unknown_since is already past the hold.
MarkUnknown(k, due) ==
    call' = IF Conflicts(k) THEN call
            ELSE [call EXCEPT ![k] = [@ EXCEPT !.status = "unknown", !.due = due]]

Release(k) ==
    call' = [call EXCEPT ![k] = [@ EXCEPT !.status = "released", !.amount = 0]]

HoldExpires(k) ==
    /\ Open(k) /\ ~call[k].due
    /\ call' = [call EXCEPT ![k].due = TRUE]
=============================================================================
