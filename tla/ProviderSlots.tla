---------------------------- MODULE ProviderSlots ----------------------------
(***************************************************************************)
(* withProviderSlot of provider-limits.ts: rows of yi_provider_slots that  *)
(* bound the calls in flight to one provider over all worker processes.    *)
(*                                                                         *)
(* A caller asks for a row under an advisory lock, where rows whose lease  *)
(* has passed are dropped and the others counted.  While its call runs a   *)
(* timer renews the lease, by id, and looks at no row count.  Leases and   *)
(* waits are counted down; a caller may die, or be frozen past its lease.  *)
(***************************************************************************)
EXTENDS Integers, FiniteSets

CONSTANTS
    SlotCallers,    \* invocations of withProviderSlot
    SlotCap,        \* YTI_PROVIDER_CONCURRENCY
    SlotTerm,       \* the ten minutes of a lease
    SlotPatience,   \* the ten minutes a caller waits for a row
    MaxFreezes      \* bound: leases that are not renewed in time

ASSUME SlotAssumption ==
    /\ IsFiniteSet(SlotCallers)
    /\ SlotCap \in 1..64
    /\ SlotTerm \in Nat \ {0} /\ SlotPatience \in Nat \ {0}
    /\ MaxFreezes \in Nat

VARIABLES
    slot,      \* caller -> its row: what is left of the lease, or NoRow
    caller,    \* caller -> where it is
    waited,    \* caller -> how long it has waited
    outlasted  \* callers whose lease passed while they ran

slotVars == <<slot, caller, waited, outlasted>>

NoRow == -1   \* there is no such row; 0 is a row whose lease has passed

CallerPc == {"idle", "asking", "calling", "done", "gaveUp", "dead"}

SlotsInit ==
    /\ slot = [c \in SlotCallers |-> NoRow]
    /\ caller = [c \in SlotCallers |-> "idle"]
    /\ waited = [c \in SlotCallers |-> 0]
    /\ outlasted = {}

Rows    == {c \in SlotCallers : slot[c] # NoRow}
Unlapsed == {c \in SlotCallers : slot[c] > 0}
InCall  == {c \in SlotCallers : caller[c] = "calling"}

-----------------------------------------------------------------------------
Ask(c) ==
    /\ caller[c] = "idle"
    /\ caller' = [caller EXCEPT ![c] = "asking"]
    /\ UNCHANGED <<slot, waited, outlasted>>

\* DELETE ... WHERE lease_until < now(), then the count.
Swept == [c \in SlotCallers |-> IF slot[c] = 0 THEN NoRow ELSE slot[c]]

\* Mutant: the count lets one caller too many in.
AcquireOneMore(c) ==
    /\ caller[c] = "asking"
    /\ Cardinality(Unlapsed) <= SlotCap
    /\ slot' = [Swept EXCEPT ![c] = SlotTerm]
    /\ caller' = [caller EXCEPT ![c] = "calling"]
    /\ UNCHANGED <<waited, outlasted>>

Acquire(c) ==
    /\ caller[c] = "asking"
    /\ Cardinality(Unlapsed) < SlotCap
    /\ slot' = [Swept EXCEPT ![c] = SlotTerm]
    /\ caller' = [caller EXCEPT ![c] = "calling"]
    /\ UNCHANGED <<waited, outlasted>>

\* Mutant: nobody gives up.
TurnAwayAgain(c) ==
    /\ caller[c] = "asking"
    /\ Cardinality(Unlapsed) >= SlotCap
    /\ slot' = Swept
    /\ UNCHANGED <<caller, waited, outlasted>>

\* Refused: the lapsed rows are gone all the same, and the caller asks again
\* or, after ten minutes, throws.
TurnAway(c) ==
    /\ caller[c] = "asking"
    /\ Cardinality(Unlapsed) >= SlotCap
    /\ slot' = Swept
    /\ caller' = [caller EXCEPT ![c] = IF waited[c] > SlotPatience THEN "gaveUp" ELSE "asking"]
    /\ UNCHANGED <<waited, outlasted>>

\* UPDATE ... WHERE id: nothing, when the row has been dropped meanwhile.
Heartbeat(c) ==
    /\ caller[c] = "calling" /\ slot[c] \in 0..(SlotTerm - 1)
    /\ slot' = [slot EXCEPT ![c] = SlotTerm]
    /\ UNCHANGED <<caller, waited, outlasted>>

\* The operation returns or throws: the row is deleted in `finally`.
FreeRow(c) ==
    /\ caller[c] = "calling"
    /\ slot' = [slot EXCEPT ![c] = NoRow]
    /\ caller' = [caller EXCEPT ![c] = "done"]
    /\ UNCHANGED <<waited, outlasted>>

Die(c) ==
    /\ caller[c] \in {"asking", "calling"}
    /\ caller' = [caller EXCEPT ![c] = "dead"]
    /\ UNCHANGED <<slot, waited, outlasted>>

\* A running caller renews every half minute, so its lease passes only when
\* the process is frozen or its updates keep failing.
Lapsing == {c \in InCall : slot[c] = 1}

SlotTime ==
    /\ Cardinality(outlasted \cup Lapsing) <= MaxFreezes
    /\ slot' = [c \in SlotCallers |-> IF slot[c] > 0 THEN slot[c] - 1 ELSE slot[c]]
    /\ waited' = [c \in SlotCallers |-> IF caller[c] = "asking" /\ waited[c] <= SlotPatience
                                          THEN waited[c] + 1 ELSE waited[c]]
    /\ outlasted' = outlasted \cup Lapsing
    /\ UNCHANGED caller

SlotStep(c) == \/ Ask(c) \/ Acquire(c) \/ TurnAway(c) \/ Heartbeat(c)
               \/ FreeRow(c) \/ Die(c)

SlotsNext == SlotTime \/ \E c \in SlotCallers : SlotStep(c)

(* Time passes, the timers fire, and a caller asks again every 100 ms.     *)
SlotFairness ==
    /\ WF_slotVars(SlotTime)
    /\ \A c \in SlotCallers : /\ WF_slotVars(Acquire(c) \/ TurnAway(c))
                              /\ WF_slotVars(Heartbeat(c))

SlotsSpec == SlotsInit /\ [][SlotsNext]_slotVars

FairSlotsSpec == SlotsSpec /\ SlotFairness

-----------------------------------------------------------------------------
(* Properties.                                                             *)

SlotTypeOK ==
    /\ slot \in [SlotCallers -> NoRow..SlotTerm]
    /\ caller \in [SlotCallers -> CallerPc]
    /\ waited \in [SlotCallers -> 0..(SlotPatience + 1)]
    /\ outlasted \subseteq SlotCallers

\* The bound on calls in flight: the cap, and one more for each call whose
\* process was frozen past its lease, since nobody asks a caller that wakes
\* up whether its row is still there.
InFlightBounded == Cardinality(InCall \ outlasted) <= SlotCap

\* A caller that asks is let in or gives up, even if no call in flight ever
\* ends and the rows of dead callers have to lapse first: in the end ...
NobodyAsks == \A c \in SlotCallers : caller[c] # "asking"
=============================================================================
