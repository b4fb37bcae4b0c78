--------------------------- MODULE SharedAdmission ---------------------------
(***************************************************************************)
(* The admission one `critique` stage shares between its two groups of     *)
(* calls: sharedAdmission(4) of audited-recall.ts under two boundedSettled *)
(* loops, discovery (three lanes over the recall windows) and critique     *)
(* (two lanes over the transcript chunks).                                 *)
(*                                                                         *)
(* One process runs all of it on one event loop, so what lies between two  *)
(* awaits is one step.  A lane awaits in admit (for a slot), in the call   *)
(* itself, and for the microtask that resumes it once a slot is handed     *)
(* over.  The stage ends when every lane of both groups has ended: its     *)
(* `finally` awaits discovery whatever critique did.                       *)
(***************************************************************************)
EXTENDS Integers, Sequences, FiniteSets, SequencesExt

CONSTANTS
    Groups,          \* the boundedSettled calls that share the admission
    Lanes,           \* all their lanes
    GroupOf,         \* lane -> its group
    ItemCount,           \* group -> number of items it has to work through
    AdmissionLimit   \* sharedAdmission(limit)

ASSUME AdmissionAssumption ==
    /\ IsFiniteSet(Lanes)
    /\ GroupOf \in [Lanes -> Groups]
    /\ ItemCount \in [Groups -> Nat]
    /\ AdmissionLimit \in 1..16

VARIABLES
    lane,      \* lane -> where it is
    cursor,    \* group -> items taken
    halted,    \* group -> its loop was stopped by a fatal error
    active,    \* the admission's counter
    stopped,   \* a call of either group failed fatally
    waiting    \* lanes queued for a slot, oldest first

admissionVars == <<lane, cursor, halted, active, stopped, waiting>>

LanePc == {"ready", "waiting", "woken", "calling", "done"}

AdmissionInit ==
    /\ lane = [l \in Lanes |-> "ready"]
    /\ cursor = [g \in Groups |-> 0]
    /\ halted = [g \in Groups |-> FALSE]
    /\ active = 0
    /\ stopped = FALSE
    /\ waiting = <<>>

Calling == {l \in Lanes : lane[l] = "calling"}
Woken   == {l \in Lanes : lane[l] = "woken"}

-----------------------------------------------------------------------------
\* `while (!stopped && cursor < items.length)` of the lane's group.
MoreItems(l) == ~halted[GroupOf[l]] /\ cursor[GroupOf[l]] < ItemCount[GroupOf[l]]

TakeItem(l) == cursor' = [cursor EXCEPT ![GroupOf[l]] = @ + 1]

LaneEnds(l) ==
    /\ lane[l] = "ready" /\ ~MoreItems(l)
    /\ lane' = [lane EXCEPT ![l] = "done"]
    /\ UNCHANGED <<cursor, halted, active, stopped, waiting>>

\* admit with every slot taken.
Enqueue(l) ==
    /\ lane[l] = "ready" /\ MoreItems(l)
    /\ active >= AdmissionLimit
    /\ TakeItem(l)
    /\ waiting' = Append(waiting, l)
    /\ lane' = [lane EXCEPT ![l] = "waiting"]
    /\ UNCHANGED <<halted, active, stopped>>

\* admit with a free slot: it is counted, and then, if a call has failed
\* fatally, the error is thrown ahead of the `try` that would give it back.
\* An AdmissionStoppedError is not fatal to the loop: the lane goes on.
Admit(l) ==
    /\ lane[l] = "ready" /\ MoreItems(l)
    /\ active < AdmissionLimit
    /\ TakeItem(l)
    /\ active' = active + 1
    /\ lane' = [lane EXCEPT ![l] = IF stopped THEN "ready" ELSE "calling"]
    /\ UNCHANGED <<halted, stopped, waiting>>

\* Mutant: a waiting lane goes straight on to its call.
ResumeUnchecked(l) ==
    /\ lane[l] = "woken"
    /\ lane' = [lane EXCEPT ![l] = "calling"]
    /\ UNCHANGED <<cursor, halted, active, stopped, waiting>>

\* A lane that was handed a slot runs again, and finds `stopped` or not.
Resume(l) ==
    /\ lane[l] = "woken"
    /\ lane' = [lane EXCEPT ![l] = IF stopped THEN "ready" ELSE "calling"]
    /\ UNCHANGED <<cursor, halted, active, stopped, waiting>>

\* Mutant: the slot is given back and to the waiter as well.
HandOverTwice(l) ==
    /\ active' = active - 1
    /\ IF waiting # <<>>
         THEN /\ lane' = [lane EXCEPT ![l] = "ready", ![Head(waiting)] = "woken"]
              /\ waiting' = Tail(waiting)
         ELSE /\ lane' = [lane EXCEPT ![l] = "ready"]
              /\ UNCHANGED waiting

\* The `finally` of admit before any fatal error: the slot goes to the oldest
\* waiter, or back to the counter.
HandOver(l) ==
    IF waiting # <<>>
      THEN /\ lane' = [lane EXCEPT ![l] = "ready", ![Head(waiting)] = "woken"]
           /\ waiting' = Tail(waiting)
           /\ UNCHANGED active
      ELSE /\ lane' = [lane EXCEPT ![l] = "ready"]
           /\ active' = active - 1
           /\ UNCHANGED waiting

\* The same once `stopped` is set: every waiter is woken, to be refused.
WakeAll(l) ==
    /\ active' = active - 1
    /\ waiting' = <<>>
    /\ lane' = [k \in Lanes |-> IF k = l THEN "ready"
                                ELSE IF k \in ToSet(waiting) THEN "woken" ELSE lane[k]]

\* The call returns, or fails in a way that concerns its item only.
Return(l) ==
    /\ lane[l] = "calling"
    /\ IF stopped THEN WakeAll(l) ELSE HandOver(l)
    /\ UNCHANGED <<cursor, halted, stopped>>

\* 401, 402 or 403: admission stops for both groups, the loop for its own.
FailFatally(l) ==
    /\ lane[l] = "calling"
    /\ stopped' = TRUE
    /\ halted' = [halted EXCEPT ![GroupOf[l]] = TRUE]
    /\ WakeAll(l)
    /\ UNCHANGED cursor

LaneStep(l) == \/ LaneEnds(l) \/ Enqueue(l) \/ Admit(l) \/ Resume(l)
               \/ Return(l) \/ FailFatally(l)

AdmissionNext == \E l \in Lanes : LaneStep(l)

AdmissionSpec == AdmissionInit /\ [][AdmissionNext]_admissionVars

(* Timeouts bound every provider call, and the event loop runs what is due. *)
LaneFairness(l) ==
    WF_admissionVars(LaneEnds(l) \/ Enqueue(l) \/ Admit(l) \/ Resume(l) \/ Return(l))

FairAdmissionSpec == AdmissionSpec /\ \A l \in Lanes : LaneFairness(l)

-----------------------------------------------------------------------------
(* Properties.                                                             *)

AdmissionTypeOK ==
    /\ lane \in [Lanes -> LanePc]
    /\ cursor \in [Groups -> Nat] /\ \A g \in Groups : cursor[g] <= ItemCount[g]
    /\ halted \in [Groups -> BOOLEAN]
    /\ active \in 0..AdmissionLimit
    /\ stopped \in BOOLEAN
    /\ waiting \in Seq(Lanes)

\* The groups together never have more calls in flight than the limit, through
\* every hand-over of a slot and however the stop interleaves with it.
AdmissionBound == Cardinality(Calling) <= AdmissionLimit

\* After an account failure no call is started, not even by a lane that was
\* handed its slot before the failure and resumed after it (the message of
\* AdmissionStoppedError: `no paid request was made for this item`).
NoCallAfterStop ==
    [][\A l \in Lanes : lane'[l] = "calling" /\ lane[l] # "calling" => ~stopped]_admissionVars

\* Unless a call fails fatally, every lane of both groups ends: no slot is lost
\* between the counter and the queue, and no lane waits for one that is free.
DrainedOrStopped == stopped \/ \A l \in Lanes : lane[l] = "done"

\* Every started sibling drains, after a fatal failure as well.
AllDrain == <>(\A l \in Lanes : lane[l] = "done")
=============================================================================
