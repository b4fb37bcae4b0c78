------------------------------ MODULE Parts_proofs ------------------------------
(***************************************************************************)
(* The parts of MCAnalysis: the two bounds on calls in flight, that of a   *)
(* provider over all workers (ProviderSlots), for any number of callers    *)
(* and of frozen processes, and that of one `critique` stage               *)
(* (SharedAdmission), for any number of lanes and items; the hearing of a  *)
(* video (WindowedTranscription), for any lengths and any answers; and all *)
(* of them side by side, with the stages and the batches, which have proof *)
(* modules of their own.                                                   *)
(***************************************************************************)
EXTENDS MCAnalysis, Analysis_proofs, BatchSubmission_proofs

-----------------------------------------------------------------------------
(* Slots of a provider.                                                    *)

\* What is counted: the rows whose lease is good and was good all the time.
Good == Unlapsed \ outlasted

\* A call that was never outlasted by its lease has such a row, and there are no
\* more of them than the cap.  Unlapsed alone is not bounded: the heartbeat of a
\* frozen caller brings back a row whose place was given away.
SlotInv ==
    /\ SlotTypeOK
    /\ InCall \ outlasted \subseteq Unlapsed
    /\ Cardinality(Good) <= SlotCap

\* The callers are finitely many.
LEMMA CallersFinite ==
    ASSUME NEW S \in SUBSET SlotCallers
    PROVE  IsFiniteSet(S) /\ Cardinality(S) \in Nat
  BY SlotAssumption, FS_Subset, FS_CardinalityType

\* Fewer rows are fewer to count.
LEMMA FewerGood ==
    ASSUME SlotInv, Good' \subseteq Good
    PROVE  Cardinality(Good') <= SlotCap
<1>1. IsFiniteSet(Good) /\ Cardinality(Good) \in Nat
  BY CallersFinite DEF Good, Unlapsed
<1>2. Cardinality(Good') <= Cardinality(Good) /\ Cardinality(Good') \in Nat
  BY <1>1, FS_Subset, FS_CardinalityType
<1> QED
  BY <1>1, <1>2, SlotAssumption DEF SlotInv

\* Nobody has a row.
LEMMA SlotInitHolds == SlotsInit => SlotInv
<1> SUFFICES ASSUME SlotsInit PROVE SlotInv
  OBVIOUS
<1>1. SlotTypeOK
  BY SlotAssumption DEF SlotsInit, SlotTypeOK, NoRow, CallerPc
<1>2. InCall = {} /\ Good = {}
  BY DEF SlotsInit, InCall, Good, Unlapsed, NoRow
<1> QED
  BY <1>1, <1>2, FS_EmptySet, SlotAssumption DEF SlotInv

\* A caller is let in when the rows, and so the good ones, are fewer than the cap.
LEMMA AcquireKeeps ==
    ASSUME SlotInv, NEW c \in SlotCallers, Acquire(c)
    PROVE  SlotInv'
<1>1. SlotTypeOK'
  BY SlotAssumption DEF SlotInv, SlotTypeOK, Acquire, Swept, NoRow, CallerPc
<1>2. \A k \in SlotCallers : slot'[k] > 0 <=> k = c \/ slot[k] > 0
  BY SlotAssumption DEF SlotInv, SlotTypeOK, Acquire, Swept, NoRow
<1>3. (InCall \ outlasted)' \subseteq Unlapsed'
  BY <1>2 DEF SlotInv, SlotTypeOK, Acquire, InCall, Unlapsed
<1>4. Good' \subseteq Unlapsed \cup {c}
  BY <1>2 DEF Good, Unlapsed, Acquire
<1>5. IsFiniteSet(Unlapsed) /\ Cardinality(Unlapsed) \in Nat /\ Cardinality(Unlapsed) < SlotCap
  BY CallersFinite DEF Unlapsed, Acquire
<1>6. IsFiniteSet(Unlapsed \cup {c}) /\ Cardinality(Unlapsed \cup {c}) \in Nat
      /\ Cardinality(Unlapsed \cup {c}) <= Cardinality(Unlapsed) + 1
  <2>1. IsFiniteSet(Unlapsed \cup {c})
    BY CallersFinite DEF Unlapsed
  <2>2. Cardinality(Unlapsed \cup {c}) = IF c \in Unlapsed THEN Cardinality(Unlapsed)
                                         ELSE Cardinality(Unlapsed) + 1
    BY <1>5, FS_AddElement, Zenon
  <2> QED
    BY <1>5, <2>1, <2>2
<1>7. Cardinality(Good') <= Cardinality(Unlapsed \cup {c}) /\ Cardinality(Good') \in Nat
  BY <1>4, <1>6, FS_Subset, FS_CardinalityType
<1>8. Cardinality(Good') <= SlotCap
  BY <1>5, <1>6, <1>7, SlotAssumption
<1> QED
  BY <1>1, <1>3, <1>8 DEF SlotInv

\* The other steps give no caller a good row that it had not.
LEMMA SlotInvStep == SlotInv /\ [SlotsNext]_slotVars => SlotInv'
<1> SUFFICES ASSUME SlotInv, [SlotsNext]_slotVars
             PROVE  SlotInv'
  OBVIOUS
<1> USE DEF SlotInv
<1>1. ASSUME NEW c \in SlotCallers, Ask(c) \/ Die(c)
      PROVE  SlotInv'
  <2>1. SlotTypeOK'
    BY <1>1 DEF SlotTypeOK, Ask, Die, CallerPc
  <2>2. InCall' \subseteq InCall /\ Good' = Good /\ Unlapsed' = Unlapsed /\ outlasted' = outlasted
    BY <1>1 DEF SlotTypeOK, Ask, Die, InCall, Good, Unlapsed
  <2> QED
    BY <2>1, <2>2
<1>2. ASSUME NEW c \in SlotCallers, TurnAway(c)
      PROVE  SlotInv'
  <2>1. SlotTypeOK'
    BY <1>2, SlotAssumption DEF SlotTypeOK, TurnAway, Swept, NoRow, CallerPc
  <2>2. \A k \in SlotCallers : slot'[k] > 0 <=> slot[k] > 0
    BY <1>2 DEF SlotTypeOK, TurnAway, Swept, NoRow
  <2>3. InCall' \subseteq InCall /\ Good' = Good /\ Unlapsed' = Unlapsed /\ outlasted' = outlasted
    BY <1>2, <2>2 DEF SlotTypeOK, TurnAway, InCall, Good, Unlapsed
  <2> QED
    BY <2>1, <2>3
<1>3. ASSUME NEW c \in SlotCallers, Heartbeat(c)
      PROVE  SlotInv'
  <2>1. SlotTypeOK'
    BY <1>3, SlotAssumption DEF SlotTypeOK, Heartbeat, NoRow
  <2>2. InCall' = InCall /\ outlasted' = outlasted /\ c \in InCall
    BY <1>3 DEF Heartbeat, InCall
  <2>3. Unlapsed' = Unlapsed \cup {c}
    BY <1>3, SlotAssumption DEF SlotTypeOK, Heartbeat, Unlapsed
  <2>4. Good' = Good
    BY <2>2, <2>3 DEF Good
  <2> QED
    BY <2>1, <2>2, <2>3, <2>4
<1>4. ASSUME NEW c \in SlotCallers, FreeRow(c)
      PROVE  SlotInv'
  <2>1. SlotTypeOK'
    BY <1>4, SlotAssumption DEF SlotTypeOK, FreeRow, NoRow, CallerPc
  <2>2. InCall' = InCall \ {c} /\ Unlapsed' = Unlapsed \ {c} /\ outlasted' = outlasted
    BY <1>4 DEF SlotTypeOK, FreeRow, InCall, Unlapsed, NoRow
  <2>3. Cardinality(Good') <= SlotCap
    BY <2>2, FewerGood DEF Good
  <2> QED
    BY <2>1, <2>2, <2>3
<1>5. CASE SlotTime
  <2>1. SlotTypeOK'
    BY <1>5, SlotAssumption DEF SlotTypeOK, SlotTime, NoRow, Lapsing, InCall
  <2>2. Unlapsed' \subseteq Unlapsed /\ InCall' = InCall /\ outlasted \subseteq outlasted'
    BY <1>5 DEF SlotTypeOK, SlotTime, Unlapsed, InCall, NoRow
  <2>3. (InCall \ outlasted)' \subseteq Unlapsed'
    BY <1>5, <2>2 DEF SlotTypeOK, SlotTime, Unlapsed, InCall, NoRow, Lapsing
  <2>4. Cardinality(Good') <= SlotCap
    BY <2>2, FewerGood DEF Good
  <2> QED
    BY <2>1, <2>3, <2>4
<1>6. CASE UNCHANGED slotVars
  BY <1>6 DEF slotVars, SlotTypeOK, InCall, Unlapsed, Good
<1> QED
  BY <1>1, <1>2, <1>3, <1>4, <1>5, <1>6, AcquireKeeps DEF SlotsNext, SlotStep

\* The rows, the callers and their waits stay well formed.
THEOREM SlotTypeCorrect == SlotsSpec => []SlotTypeOK
<1>1. SlotInv => SlotTypeOK
  BY DEF SlotInv
<1> QED
  BY SlotInitHolds, SlotInvStep, <1>1, PTL DEF SlotsSpec

\* However many callers ask, die and freeze, the calls in flight whose lease never
\* passed under them are at most the cap of withProviderSlot.
THEOREM InFlightIsBounded == SlotsSpec => []InFlightBounded
<1>1. SlotInv => InFlightBounded
  <2> SUFFICES ASSUME SlotInv PROVE Cardinality(InCall \ outlasted) <= SlotCap
    BY DEF InFlightBounded
  <2>1. InCall \ outlasted \subseteq Good
    BY DEF SlotInv, Good
  <2>2. IsFiniteSet(Good) /\ Cardinality(Good) \in Nat
    BY CallersFinite DEF Good, Unlapsed
  <2>3. Cardinality(InCall \ outlasted) <= Cardinality(Good)
        /\ Cardinality(InCall \ outlasted) \in Nat
    BY <2>1, <2>2, FS_Subset, FS_CardinalityType
  <2> QED
    BY <2>2, <2>3, SlotAssumption DEF SlotInv
<1> QED
  BY SlotInitHolds, SlotInvStep, <1>1, PTL DEF SlotsSpec

-----------------------------------------------------------------------------
(* Slots of a stage.                                                       *)

\* Who has a slot: a lane in its call, and, until the stop, a lane that was
\* handed one.  The lanes a stop wakes have none.
Holding == Calling \cup (IF stopped THEN {} ELSE Woken)

\* Each queued lane waits, and is queued once.
QueueInOrder ==
    /\ \A i \in 1..Len(waiting) : lane[waiting[i]] = "waiting"
    /\ \A i, j \in 1..Len(waiting) : waiting[i] = waiting[j] => i = j

\* The counter covers the slots in use.  It may exceed them: a lane that is let
\* in after the stop is counted and never given back.
AdmissionInv ==
    /\ AdmissionTypeOK
    /\ QueueInOrder
    /\ Cardinality(Holding) <= active

\* The lanes are finitely many.
LEMMA LanesFinite ==
    ASSUME NEW S \in SUBSET Lanes
    PROVE  IsFiniteSet(S) /\ Cardinality(S) \in Nat
  BY AdmissionAssumption, FS_Subset, FS_CardinalityType

\* Lanes whose number is compared.
LEMMA FewerLanes ==
    ASSUME NEW S \in SUBSET Lanes, NEW T \in SUBSET S
    PROVE  Cardinality(T) <= Cardinality(S)
  BY LanesFinite, FS_Subset, Zenon

\* One lane more is one slot more at most.
LEMMA OneLaneMore ==
    ASSUME NEW S \in SUBSET Lanes, NEW l \in Lanes
    PROVE  Cardinality(S \cup {l}) <= Cardinality(S) + 1
<1>1. Cardinality(S \cup {l}) = IF l \in S THEN Cardinality(S) ELSE Cardinality(S) + 1
  BY LanesFinite, FS_AddElement, Zenon
<1> QED
  BY <1>1, LanesFinite

\* One lane less is one slot less.
LEMMA OneLaneLess ==
    ASSUME NEW S \in SUBSET Lanes, NEW l \in S
    PROVE  Cardinality(S \ {l}) = Cardinality(S) - 1
<1>1. Cardinality(S \ {l}) = IF l \in S THEN Cardinality(S) - 1 ELSE Cardinality(S)
  BY LanesFinite, FS_RemoveElement, Zenon
<1> QED
  BY <1>1

\* Every lane is ready, and no slot is taken.
LEMMA AdmissionInitHolds == AdmissionInit => AdmissionInv
<1> SUFFICES ASSUME AdmissionInit PROVE AdmissionInv
  OBVIOUS
<1>1. waiting \in Seq(Lanes) /\ Len(waiting) = 0
  BY DEF AdmissionInit
<1>2. AdmissionLimit \in Nat /\ ItemCount \in [Groups -> Nat]
  BY AdmissionAssumption
<1>3. AdmissionTypeOK
  <2>1. cursor \in [Groups -> Nat] /\ \A g \in Groups : cursor[g] <= ItemCount[g]
    BY <1>2 DEF AdmissionInit
  <2>2. lane \in [Lanes -> LanePc] /\ halted \in [Groups -> BOOLEAN] /\ stopped \in BOOLEAN
    BY DEF AdmissionInit, LanePc
  <2>3. active \in 0..AdmissionLimit
    BY <1>2 DEF AdmissionInit
  <2> QED
    BY <1>1, <2>1, <2>2, <2>3 DEF AdmissionTypeOK
<1>4. QueueInOrder
  BY <1>1 DEF QueueInOrder
<1>5. Holding = {}
  BY DEF AdmissionInit, Holding, Calling, Woken
<1> QED
  BY <1>3, <1>4, <1>5, FS_EmptySet DEF AdmissionInit, AdmissionInv

\* The oldest waiter is woken with the slot of the lane that returns.
LEMMA HandOverKeeps ==
    ASSUME AdmissionInv, NEW l \in Lanes, Return(l), ~stopped
    PROVE  AdmissionInv'
<1>0. lane[l] = "calling" /\ HandOver(l) /\ UNCHANGED <<cursor, halted, stopped>>
      /\ AdmissionTypeOK /\ QueueInOrder /\ Cardinality(Holding) <= active
  BY DEF AdmissionInv, Return
<1>1. l \in Holding /\ Holding \in SUBSET Lanes
  BY <1>0 DEF Holding, Calling, Woken
<1>2. Cardinality(Holding \ {l}) = Cardinality(Holding) - 1 /\ Cardinality(Holding) \in Nat
      /\ Cardinality(Holding \ {l}) \in Nat
  BY <1>1, OneLaneLess, LanesFinite
<1>3. CASE waiting = <<>>
  <2>1. lane' = [lane EXCEPT ![l] = "ready"] /\ active' = active - 1 /\ waiting' = waiting
        /\ stopped' = stopped
    BY <1>0, <1>3 DEF HandOver
  <2>2. Holding' = Holding \ {l}
    BY <1>0, <2>1 DEF Holding, Calling, Woken, AdmissionTypeOK
  <2>3. active' \in 0..AdmissionLimit
    BY <1>0, <1>2, <2>1, AdmissionAssumption DEF AdmissionTypeOK
  <2>4. lane' \in [Lanes -> LanePc]
    BY <1>0, <2>1 DEF AdmissionTypeOK, LanePc
  <2>5. AdmissionTypeOK' /\ QueueInOrder'
    BY <1>0, <1>3, <2>1, <2>3, <2>4 DEF AdmissionTypeOK, QueueInOrder
  <2> QED
    BY <1>0, <1>2, <2>1, <2>2, <2>5 DEF AdmissionTypeOK, AdmissionInv
<1>4. CASE waiting # <<>>
  <2> DEFINE h == Head(waiting)
  <2>1. waiting \in Seq(Lanes) /\ Len(waiting) \in Nat \ {0} /\ h = waiting[1]
    BY <1>0, <1>4 DEF AdmissionTypeOK
  <2>2. 1 \in 1..Len(waiting) /\ h \in Lanes
    BY <2>1
  <2>3. h # l /\ lane[h] = "waiting"
    BY <1>0, <2>1, <2>2 DEF QueueInOrder
  <2>4. lane' = [lane EXCEPT ![l] = "ready", ![h] = "woken"] /\ waiting' = Tail(waiting)
        /\ active' = active /\ stopped' = stopped
    BY <1>0, <1>4 DEF HandOver
  <2> HIDE DEF h
  <2>5. Tail(waiting) \in Seq(Lanes) /\ Len(Tail(waiting)) = Len(waiting) - 1
        /\ \A i \in 1..Len(Tail(waiting)) : Tail(waiting)[i] = waiting[i + 1]
    BY <1>4, <2>1
  <2>6. \A i \in 1..Len(Tail(waiting)) : i + 1 \in 1..Len(waiting) /\ i + 1 # 1
    BY <2>1, <2>5
  <2>7. \A i \in 1..Len(Tail(waiting)) :
          /\ Tail(waiting)[i] \in Lanes /\ Tail(waiting)[i] # h
          /\ lane[Tail(waiting)[i]] = "waiting"
    BY <2>1, <2>2, <2>5, <2>6, <1>0 DEF QueueInOrder
  <2>8. \A i \in 1..Len(Tail(waiting)) : lane'[Tail(waiting)[i]] = "waiting"
    BY <1>0, <2>4, <2>7 DEF AdmissionTypeOK
  <2>9. \A i, j \in 1..Len(Tail(waiting)) : Tail(waiting)[i] = Tail(waiting)[j] => i = j
    <3> TAKE i, j \in 1..Len(Tail(waiting))
    <3>1. waiting[i + 1] = waiting[j + 1] => i + 1 = j + 1
      BY <1>0, <2>6 DEF QueueInOrder
    <3> QED
      BY <2>5, <3>1
  <2>10. QueueInOrder'
    BY <2>4, <2>8, <2>9 DEF QueueInOrder
  <2>11. lane' \in [Lanes -> LanePc]
    BY <1>0, <2>2, <2>4 DEF AdmissionTypeOK, LanePc
  <2>12. AdmissionTypeOK'
    BY <1>0, <2>4, <2>5, <2>11 DEF AdmissionTypeOK
  <2>13. Holding' = (Holding \ {l}) \cup {h}
    BY <1>0, <2>2, <2>3, <2>4 DEF Holding, Calling, Woken, AdmissionTypeOK
  <2>14. Cardinality(Holding') <= Cardinality(Holding \ {l}) + 1 /\ Holding' \in SUBSET Lanes
    BY <1>1, <2>2, <2>13, OneLaneMore
  <2>15. Cardinality(Holding') \in Nat
    BY <2>14, LanesFinite
  <2>16. active \in Int
    BY <1>0 DEF AdmissionTypeOK
  <2>17. Cardinality(Holding') <= active'
    BY <1>0, <1>2, <2>4, <2>14, <2>15, <2>16
  <2> QED
    BY <2>10, <2>12, <2>17 DEF AdmissionInv
<1> QED
  BY <1>3, <1>4

\* With the stop set, the lanes that are woken hold no slot.
LEMMA WakeAllKeeps ==
    ASSUME AdmissionInv, NEW l \in Lanes, lane[l] = "calling", WakeAll(l), stopped',
           UNCHANGED cursor, halted' \in [Groups -> BOOLEAN]
    PROVE  AdmissionInv'
<1>1. l \in Holding /\ Holding \in SUBSET Lanes
  BY DEF Holding, Calling, Woken
<1>2. Cardinality(Holding \ {l}) = Cardinality(Holding) - 1 /\ Cardinality(Holding) \in Nat
      /\ Cardinality(Holding \ {l}) \in Nat
  BY <1>1, OneLaneLess, LanesFinite
<1>3. Holding' = Calling'
  BY DEF Holding
<1>4. Calling' \subseteq Holding \ {l}
  BY DEF Calling, WakeAll, Holding
<1>5. Cardinality(Holding') <= Cardinality(Holding \ {l}) /\ Cardinality(Holding') \in Nat
  BY <1>1, <1>3, <1>4, FewerLanes, LanesFinite
<1>6. active \in Nat /\ active >= 1 /\ active <= AdmissionLimit /\ AdmissionLimit \in Nat
  BY <1>2, AdmissionAssumption DEF AdmissionInv, AdmissionTypeOK
<1>7. active' = active - 1 /\ active' \in 0..AdmissionLimit
  BY <1>6 DEF WakeAll
<1>8. lane' \in [Lanes -> LanePc] /\ waiting' = <<>> /\ stopped' \in BOOLEAN
  BY DEF AdmissionInv, AdmissionTypeOK, WakeAll, LanePc
<1>9. AdmissionTypeOK' /\ QueueInOrder'
  BY <1>7, <1>8 DEF AdmissionInv, AdmissionTypeOK, QueueInOrder
<1> QED
  BY <1>2, <1>5, <1>6, <1>7, <1>9 DEF AdmissionInv

\* A lane takes an item: the counter is raised with the call it lets in, and a
\* lane that waits is queued once.
LEMMA TakeKeeps ==
    ASSUME AdmissionInv, NEW l \in Lanes, Enqueue(l) \/ Admit(l)
    PROVE  AdmissionInv'
<1>0. lane[l] = "ready" /\ AdmissionTypeOK /\ QueueInOrder /\ Cardinality(Holding) <= active
      /\ stopped' = stopped /\ halted' = halted
  BY DEF AdmissionInv, Enqueue, Admit
<1>1. cursor' \in [Groups -> Nat] /\ \A g \in Groups : cursor'[g] <= ItemCount[g]
  <2>1. GroupOf[l] \in Groups /\ cursor[GroupOf[l]] < ItemCount[GroupOf[l]]
        /\ cursor' = [cursor EXCEPT ![GroupOf[l]] = @ + 1]
    BY AdmissionAssumption DEF Enqueue, Admit, MoreItems, TakeItem
  <2>2. cursor \in [Groups -> Nat] /\ ItemCount \in [Groups -> Nat]
        /\ \A g \in Groups : cursor[g] <= ItemCount[g]
    BY <1>0, AdmissionAssumption DEF AdmissionTypeOK
  <2> QED
    BY <2>1, <2>2
<1>2. l \notin Holding /\ Holding \in SUBSET Lanes /\ Cardinality(Holding) \in Nat
  BY <1>0, LanesFinite DEF Holding, Calling, Woken
<1>3. CASE Enqueue(l)
  <2>1. lane' = [lane EXCEPT ![l] = "waiting"] /\ waiting' = Append(waiting, l)
        /\ active' = active
    BY <1>3 DEF Enqueue
  <2>2. waiting' \in Seq(Lanes) /\ Len(waiting') = Len(waiting) + 1 /\ waiting'[Len(waiting')] = l
        /\ \A i \in 1..Len(waiting) : waiting'[i] = waiting[i]
    BY <1>0, <2>1 DEF AdmissionTypeOK
  <2>3. Len(waiting) \in Nat /\ \A i \in 1..Len(waiting) : waiting[i] \in Lanes /\ waiting[i] # l
    BY <1>0 DEF AdmissionTypeOK, QueueInOrder
  <2>4. \A i \in 1..Len(waiting') : i \in 1..Len(waiting) \/ i = Len(waiting')
    BY <2>2, <2>3
  <2>5. \A i \in 1..Len(waiting') : lane'[waiting'[i]] = "waiting"
    BY <1>0, <2>1, <2>2, <2>3, <2>4 DEF AdmissionTypeOK, QueueInOrder
  <2>6. \A i, j \in 1..Len(waiting') : waiting'[i] = waiting'[j] => i = j
    BY <1>0, <2>2, <2>3, <2>4 DEF QueueInOrder
  <2>7. QueueInOrder'
    BY <2>5, <2>6 DEF QueueInOrder
  <2>8. AdmissionTypeOK'
    BY <1>0, <1>1, <2>1, <2>2 DEF AdmissionTypeOK, LanePc
  <2>9. Holding' = Holding
    BY <1>0, <2>1 DEF Holding, Calling, Woken, AdmissionTypeOK
  <2> QED
    BY <1>0, <2>1, <2>7, <2>8, <2>9 DEF AdmissionInv
<1>4. CASE Admit(l)
  <2>1. lane' = [lane EXCEPT ![l] = IF stopped THEN "ready" ELSE "calling"]
        /\ waiting' = waiting /\ active' = active + 1 /\ active < AdmissionLimit
    BY <1>4 DEF Admit
  <2>2. active' \in 0..AdmissionLimit
    BY <1>0, <2>1, AdmissionAssumption DEF AdmissionTypeOK
  <2>3. AdmissionTypeOK'
    BY <1>0, <1>1, <2>1, <2>2 DEF AdmissionTypeOK, LanePc
  <2>4. \A i \in 1..Len(waiting) : waiting[i] \in Lanes /\ waiting[i] # l
    BY <1>0 DEF AdmissionTypeOK, QueueInOrder
  <2>5. QueueInOrder'
    BY <1>0, <2>1, <2>4 DEF QueueInOrder, AdmissionTypeOK
  <2>6. Holding' \in SUBSET (Holding \cup {l})
    BY <1>0, <2>1 DEF Holding, Calling, Woken, AdmissionTypeOK
  <2>7. Cardinality(Holding') <= Cardinality(Holding \cup {l})
        /\ Cardinality(Holding') \in Nat /\ Cardinality(Holding \cup {l}) \in Nat
    BY <1>2, <2>6, FewerLanes, LanesFinite
  <2>8. Cardinality(Holding \cup {l}) <= Cardinality(Holding) + 1
    BY <1>2, OneLaneMore
  <2> QED
    BY <1>0, <1>2, <2>1, <2>3, <2>5, <2>7, <2>8 DEF AdmissionInv, AdmissionTypeOK
<1> QED
  BY <1>3, <1>4

\* A lane moves without a slot changing hands.
LEMMA LaneMoves ==
    ASSUME AdmissionInv, NEW l \in Lanes, LaneEnds(l) \/ Resume(l)
    PROVE  AdmissionInv'
<1> DEFINE pc == lane'[l]
<1>0. AdmissionTypeOK /\ QueueInOrder /\ Cardinality(Holding) <= active
      /\ UNCHANGED <<cursor, halted, active, stopped, waiting>>
  BY DEF AdmissionInv, LaneEnds, Resume
<1>1. pc \in {"done", "ready", "calling"} /\ lane' = [lane EXCEPT ![l] = pc]
      /\ (pc = "calling" => lane[l] = "woken" /\ ~stopped) /\ lane[l] # "waiting"
  BY <1>0 DEF AdmissionTypeOK, LaneEnds, Resume
<1> HIDE DEF pc
<1>2. AdmissionTypeOK'
  BY <1>0, <1>1 DEF AdmissionTypeOK, LanePc
<1>3. \A i \in 1..Len(waiting) : waiting[i] \in Lanes /\ waiting[i] # l
  BY <1>0, <1>1 DEF AdmissionTypeOK, QueueInOrder
<1>4. QueueInOrder'
  BY <1>0, <1>1, <1>3 DEF QueueInOrder, AdmissionTypeOK
<1>5. Holding' \in SUBSET Holding /\ Holding \in SUBSET Lanes
  BY <1>0, <1>1 DEF Holding, Calling, Woken, AdmissionTypeOK
<1>6. Cardinality(Holding') <= Cardinality(Holding) /\ Cardinality(Holding') \in Nat
      /\ Cardinality(Holding) \in Nat
  BY <1>5, FewerLanes, LanesFinite
<1> QED
  BY <1>0, <1>2, <1>4, <1>6 DEF AdmissionInv, AdmissionTypeOK

\* Every step keeps the books of the admission.
LEMMA AdmissionInvStep == AdmissionInv /\ [AdmissionNext]_admissionVars => AdmissionInv'
<1> SUFFICES ASSUME AdmissionInv, [AdmissionNext]_admissionVars
             PROVE  AdmissionInv'
  OBVIOUS
<1>1. ASSUME NEW l \in Lanes, Return(l), stopped
      PROVE  AdmissionInv'
  <2>1. lane[l] = "calling" /\ WakeAll(l) /\ stopped' /\ UNCHANGED <<cursor, halted>>
    BY <1>1 DEF Return
  <2>2. halted' \in [Groups -> BOOLEAN]
    BY <2>1 DEF AdmissionInv, AdmissionTypeOK
  <2> QED
    BY <2>1, <2>2, WakeAllKeeps
<1>2. ASSUME NEW l \in Lanes, FailFatally(l)
      PROVE  AdmissionInv'
  <2>1. lane[l] = "calling" /\ WakeAll(l) /\ stopped' /\ UNCHANGED cursor
    BY <1>2 DEF FailFatally
  <2>2. halted' \in [Groups -> BOOLEAN]
    BY <1>2 DEF FailFatally, AdmissionInv, AdmissionTypeOK
  <2>3. stopped' = TRUE
    BY <1>2 DEF FailFatally
  <2> QED
    BY <2>1, <2>2, <2>3, WakeAllKeeps
<1>3. CASE UNCHANGED admissionVars
  BY <1>3 DEF admissionVars, AdmissionInv, AdmissionTypeOK, QueueInOrder, Holding, Calling, Woken
<1> QED
  BY <1>1, <1>2, <1>3, TakeKeeps, LaneMoves, HandOverKeeps DEF AdmissionNext, LaneStep

\* The lanes, their items and the counter stay well formed: the counter is never
\* negative and never above the limit.
THEOREM AdmissionTypeCorrect == AdmissionSpec => []AdmissionTypeOK
<1>1. AdmissionInv => AdmissionTypeOK
  BY DEF AdmissionInv
<1> QED
  BY AdmissionInitHolds, AdmissionInvStep, <1>1, PTL DEF AdmissionSpec

\* Any number of groups and lanes never has more calls in flight than the limit,
\* through every hand-over of a slot and every stop (admit of audited-recall.ts).
THEOREM AdmissionIsBounded == AdmissionSpec => []AdmissionBound
<1>1. AdmissionInv => AdmissionBound
  <2> SUFFICES ASSUME AdmissionInv PROVE Cardinality(Calling) <= AdmissionLimit
    BY DEF AdmissionBound
  <2>1. Calling \in SUBSET Holding /\ Holding \in SUBSET Lanes
    BY DEF Calling, Woken, Holding
  <2>2. Cardinality(Calling) <= Cardinality(Holding) /\ Cardinality(Calling) \in Nat
        /\ Cardinality(Holding) \in Nat
    BY <2>1, FewerLanes, LanesFinite
  <2> QED
    BY <2>2, AdmissionAssumption DEF AdmissionInv, AdmissionTypeOK
<1> QED
  BY AdmissionInitHolds, AdmissionInvStep, <1>1, PTL DEF AdmissionSpec

\* Once a call has failed fatally no lane begins one, wherever it waited for its
\* slot.
THEOREM StopIsFinal == AdmissionSpec => NoCallAfterStop
<1> DEFINE NoneStarts ==
             \A l \in Lanes : lane'[l] = "calling" /\ lane[l] # "calling" => ~stopped
<1>1. AdmissionInv /\ [AdmissionNext]_admissionVars => [NoneStarts]_admissionVars
  <2> SUFFICES ASSUME AdmissionInv, NEW l \in Lanes, LaneStep(l), NEW k \in Lanes,
                      lane'[k] = "calling", lane[k] # "calling", stopped
               PROVE  FALSE
    BY DEF AdmissionNext
  <2>1. lane \in [Lanes -> LanePc]
    BY DEF AdmissionInv, AdmissionTypeOK
  <2>2. CASE LaneEnds(l) \/ Enqueue(l) \/ Admit(l) \/ Resume(l)
    BY <2>1, <2>2 DEF LaneEnds, Enqueue, Admit, Resume
  <2>3. CASE Return(l) \/ FailFatally(l)
    <3>1. WakeAll(l)
      BY <2>3 DEF Return, FailFatally
    <3> QED
      BY <3>1 DEF WakeAll
  <2> QED
    BY <2>2, <2>3 DEF LaneStep
<1> QED
  BY AdmissionInitHolds, AdmissionInvStep, <1>1, PTL DEF AdmissionSpec, NoCallAfterStop

-----------------------------------------------------------------------------
(* The hearing of a video.                                                 *)

\* Two clips have no unit in common.
Apart(c, d) == Units(c) \cap Units(d) = {}

\* The clips of a plan that are still to be listened to.
StillOpen(plan, listened) == ToSet(plan) \ Clips(listened)

\* A unit was heard a second time or found silent.
Checked(copy, u) ==
    \E c \in copy.checks : /\ u \in Units(c.clip)
                           /\ c.heard = {} \/ u \notin SilentFor(c.clip, c.heard)

\* It was, or is yet to be.
Covered(copy, u) ==
    Checked(copy, u) \/ \E g \in StillOpen(copy.gaps, copy.checks) : u \in Units(g)

\* The windows do not overlap, and each has one answer at most; those that are
\* cited are among them.
WindowsSound(copy) ==
    /\ \A i, j \in DOMAIN copy.plan : i # j => Apart(copy.plan[i], copy.plan[j])
    /\ \A h \in copy.windows : h.clip \in ToSet(copy.plan)
    /\ \A h, k \in copy.windows : h.clip = k.clip => h = k
    /\ copy.stage = "asr-evidence" =>
         \A u \in CitedUnits : \E i \in DOMAIN copy.plan : u \in Units(copy.plan[i])

\* A second hearing is planned when the windows are heard.
Replanned(copy) ==
    /\ copy.stage = "asr-source" /\ Left(copy.plan, copy.windows) = {}
    /\ \A i, j \in DOMAIN copy.gaps :
         i # j /\ copy.gaps[i] \notin Clips(copy.checks)
               /\ copy.gaps[j] \notin Clips(copy.checks)
           => Apart(copy.gaps[i], copy.gaps[j])
    /\ \A g \in StillOpen(copy.gaps, copy.checks), c \in copy.checks :
         Apart(g, c.clip) \/ (Units(g) \subseteq Units(c.clip) /\ g # c.clip)
    /\ \A u \in SilentFor(Video, AllHeard(copy.windows)) : Covered(copy, u)

\* The open clips of the second hearing do not overlap, and lie within a clip
\* that was checked or outside of it; what the windows left is covered.
GapsSound(copy) ==
    IF copy.planned THEN Replanned(copy) ELSE copy.checks = {}

HeardWithin == \A r \in retained, ask \in NextCall : r.heard \subseteq Units(ask.clip)

AudioInv ==
    /\ AudioTypeOK /\ EveryGapHeard
    /\ Listening => WindowsSound(audio) /\ GapsSound(audio) /\ HeardWithin

-----------------------------------------------------------------------------
\* What a clip is.
LEMMA ClipIs ==
  ASSUME NEW c \in Clip
  PROVE  /\ c[1] \in Nat /\ c[2] \in Nat /\ c[1] < c[2] /\ c[2] <= Duration
         /\ c = <<c[1], c[2]>>
         /\ c[1] \in Units(c) /\ Units(c) \subseteq Units(Video)
         /\ \A u : u \in Units(c) <=> u \in Int /\ c[1] <= u /\ u < c[2]
  BY AudioAssumption DEF Clip, Units, Video

\* A clip is known by its units.
LEMMA SameUnits ==
  ASSUME NEW c \in Clip, NEW d \in Clip, Units(c) \subseteq Units(d), Units(d) \subseteq Units(c)
  PROVE  c = d
<1>1. c[1] \in Units(c) /\ d[1] \in Units(d) /\ c[2] - 1 \in Units(c) /\ d[2] - 1 \in Units(d)
  BY ClipIs
<1>2. c[1] = d[1] BY <1>1, ClipIs
<1>3. c[2] = d[2] BY <1>1, ClipIs
<1> QED BY <1>2, <1>3, ClipIs

\* There are finitely many clips.
LEMMA ClipsFinite ==
  ASSUME NEW S \in SUBSET Clip
  PROVE  IsFiniteSet(S) /\ Cardinality(S) \in Nat
<1> PICK T : T = 0..Duration OBVIOUS
<1>1. IsFiniteSet(T) BY AudioAssumption, FS_Interval
<1>2. IsFiniteSet(T \X T) BY <1>1, FS_Product
<1>3. S \in SUBSET (T \X T) BY DEF Clip
<1> QED BY <1>2, <1>3, FS_Subset, FS_CardinalityType

\* The clips of S that begin before c.
Before(S, c) == {d \in S : d[1] < c[1]}

\* Different clips that do not overlap have different places.
LEMMA PlacesDiffer ==
  ASSUME NEW S \in SUBSET Clip, NEW c \in S, NEW d \in S, c[1] < d[1]
  PROVE  Cardinality(Before(S, c)) # Cardinality(Before(S, d))
<1>1. Before(S, c) \in SUBSET Before(S, d) BY ClipIs DEF Before
<1>2. c \in Before(S, d) /\ c \notin Before(S, c) BY ClipIs DEF Before
<1>3. IsFiniteSet(Before(S, d)) BY ClipsFinite DEF Before
<1> QED BY <1>1, <1>2, <1>3, FS_Subset

\* The clips of a plan are those of a set, each once.
Lists(q, S) ==
    /\ q \in Seq(Clip)
    /\ \A i \in DOMAIN q : q[i] \in S
    /\ \A c \in S : \E i \in DOMAIN q : q[i] = c
    /\ \A i, j \in DOMAIN q : i # j => q[i] # q[j]

\* Clips put in order are the same clips.
LEMMA Ordered ==
  ASSUME NEW S \in SUBSET Clip, \A c, d \in S : c # d => Apart(c, d)
  PROVE  Lists(InOrder(S), S)
<1>n. PICK n : n = Cardinality(S) OBVIOUS
<1>1. IsFiniteSet(S) /\ n \in Nat BY <1>n, ClipsFinite
<1> DEFINE place == [c \in S |-> Cardinality(Before(S, c)) + 1]
<1>2. \A c \in S : Cardinality(Before(S, c)) \in 0..n - 1
  <2> SUFFICES ASSUME NEW c \in S PROVE Cardinality(Before(S, c)) \in 0..n - 1 OBVIOUS
  <2>1. Before(S, c) \in SUBSET S /\ c \notin Before(S, c) BY ClipIs DEF Before
  <2>2. Cardinality(Before(S, c)) \in Nat BY <2>1, ClipsFinite
  <2>3. Cardinality(Before(S, c)) <= n /\ (n = Cardinality(Before(S, c)) => S = Before(S, c))
    BY <1>1, <1>n, <2>1, FS_Subset
  <2> QED BY <1>1, <2>1, <2>2, <2>3
<1>3. \A c, d \in S : Cardinality(Before(S, c)) = Cardinality(Before(S, d)) => c = d
  <2> SUFFICES ASSUME NEW c \in S, NEW d \in S, c # d
               PROVE  Cardinality(Before(S, c)) # Cardinality(Before(S, d))
    OBVIOUS
  <2>1. c[1] # d[1] BY ClipIs DEF Apart
  <2>2. c[1] < d[1] \/ d[1] < c[1] BY <2>1, ClipIs
  <2> QED BY <2>2, PlacesDiffer
<1>4. place \in Injection(S, 1..n)
  <2>1. \A c \in S : Cardinality(Before(S, c)) + 1 \in 1..n BY <1>1, <1>2
  <2>2. \A c, d \in S : Cardinality(Before(S, c)) + 1 = Cardinality(Before(S, d)) + 1 => c = d
    BY <1>1, <1>2, <1>3
  <2> QED BY <2>1, <2>2 DEF Injection, IsInjective
<1>5. place \in Surjection(S, 1..n)
  <2>1. IsFiniteSet(1..n) /\ Cardinality(1..n) = n BY <1>1, FS_Interval
  <2> HIDE DEF place
  <2> QED BY <1>4, <1>n, <2>1, FS_Injection
<1>6. \A i \in 1..n : \E c \in S : Cardinality(Before(S, c)) = i - 1
  <2> SUFFICES ASSUME NEW i \in 1..n PROVE \E c \in S : Cardinality(Before(S, c)) = i - 1
    OBVIOUS
  <2>1. PICK c \in S : place[c] = i BY <1>5 DEF Surjection
  <2>2. Cardinality(Before(S, c)) + 1 = i BY <2>1
  <2> QED BY <1>1, <1>2, <2>2
<1> HIDE DEF place
<1>q. PICK q : q = InOrder(S) OBVIOUS
<1>7. q = [i \in 1..n |-> CHOOSE c \in S : Cardinality(Before(S, c)) = i - 1]
  BY <1>n, <1>q DEF InOrder, Before
<1>8. \A i \in 1..n : q[i] \in S /\ Cardinality(Before(S, q[i])) = i - 1
  BY <1>6, <1>7
<1>9. q \in Seq(Clip) /\ DOMAIN q = 1..n
  <2>1. q \in [1..n -> Clip] BY <1>7, <1>8
  <2> QED BY <1>1, <2>1
<1>10. \A c \in S : \E i \in 1..n : q[i] = c
  <2> SUFFICES ASSUME NEW c \in S PROVE \E i \in 1..n : q[i] = c OBVIOUS
  <2>1. PICK k : k = Cardinality(Before(S, c)) OBVIOUS
  <2>2. k \in 0..n - 1 BY <1>2, <2>1
  <2>3. k + 1 \in 1..n /\ (k + 1) - 1 = k BY <1>1, <2>2
  <2>4. q[k + 1] \in S /\ Cardinality(Before(S, q[k + 1])) = k BY <1>8, <2>3
  <2> QED BY <1>3, <2>1, <2>3, <2>4
<1>11. \A i, j \in 1..n : i # j => q[i] # q[j] BY <1>1, <1>8
<1> QED BY <1>8, <1>9, <1>10, <1>11, <1>q DEF Lists

-----------------------------------------------------------------------------
\* What a hearing missed are clips within what was listened to, apart from each
\* other, and silent.
LEMMA MissedRanges ==
  ASSUME NEW c \in Clip, NEW heard
  PROVE  /\ MissingRanges(c, heard) \subseteq Clip
         /\ \A r \in MissingRanges(c, heard) : Units(r) \subseteq Units(c) \ heard
         /\ \A r, s \in MissingRanges(c, heard) : r # s => Apart(r, s)
<1>1. /\ MissingRanges(c, heard) \subseteq Clip
      /\ \A r \in MissingRanges(c, heard) : Units(r) \subseteq Units(c) \ heard
  BY DEF MissingRanges
<1>2. ASSUME NEW r \in MissingRanges(c, heard), NEW s \in MissingRanges(c, heard),
             NEW u \in Units(r), u \in Units(s)
      PROVE  ~(r[1] < s[1]) /\ ~(r[2] < s[2])
  <2>1. r \in Clip /\ s \in Clip BY <1>1
  <2>2. /\ r[1] \in Nat /\ r[2] \in Nat /\ s[1] \in Nat /\ s[2] \in Nat /\ u \in Int
        /\ c[1] \in Nat /\ c[2] \in Nat
        /\ r[1] <= u /\ u < r[2] /\ s[1] <= u /\ u < s[2]
    BY <1>2, <2>1, ClipIs
  <2>3. r[1] >= c[1] /\ s[2] <= c[2]
    <3>1. r[1] \in Units(c) /\ s[2] - 1 \in Units(c) BY <1>1, <2>1, ClipIs
    <3> QED BY <2>2, <3>1, ClipIs
  <2>4. CASE r[1] < s[1]
    <3>1. s[1] - 1 \in heard BY <2>2, <2>3, <2>4 DEF MissingRanges
    <3>2. s[1] - 1 \in Units(r) BY <2>1, <2>2, <2>4, ClipIs
    <3> QED BY <1>1, <3>1, <3>2
  <2>5. CASE r[2] < s[2]
    <3>1. r[2] \in heard BY <2>2, <2>3, <2>5 DEF MissingRanges
    <3>2. r[2] \in Units(s) BY <2>1, <2>2, <2>5, ClipIs
    <3> QED BY <1>1, <3>1, <3>2
  <2> QED BY <2>4, <2>5
<1>3. ASSUME NEW r \in MissingRanges(c, heard), NEW s \in MissingRanges(c, heard), ~Apart(r, s)
      PROVE  r = s
  <2>1. PICK u \in Units(r) : u \in Units(s) BY <1>3 DEF Apart
  <2>2. r \in Clip /\ s \in Clip BY <1>1
  <2>3. r[1] = s[1] /\ r[2] = s[2] BY <1>2, <2>1, <2>2, ClipIs
  <2> QED BY <2>2, <2>3, ClipIs
<1> QED BY <1>1, <1>3

\* The slices of a range are apart from each other and make it up.
LEMMA SlicesCover ==
  ASSUME NEW c \in Clip, NEW l \in Nat \ {0}
  PROVE  /\ Slices(c, l) \subseteq Clip
         /\ \A s \in Slices(c, l) : Units(s) \subseteq Units(c)
         /\ \A s, t \in Slices(c, l) : s # t => Apart(s, t)
         /\ \A u \in Units(c) : \E s \in Slices(c, l) : u \in Units(s)
<1>n. l \in Nat /\ l > 0 /\ c[1] \in Nat /\ c[2] \in Nat /\ c[1] < c[2] /\ c[2] <= Duration
      /\ Duration \in Nat
  BY ClipIs, AudioAssumption
<1> DEFINE e(a) == IF a + l < c[2] THEN a + l ELSE c[2]
<1>1. ASSUME NEW s \in Slices(c, l)
      PROVE  \E a \in Units(c) : (a - c[1]) % l = 0 /\ s = <<a, e(a)>>
  BY DEF Slices
<1>2. ASSUME NEW a \in Units(c)
      PROVE  /\ <<a, e(a)>> \in Clip /\ Units(<<a, e(a)>>) \subseteq Units(c)
             /\ \A u : u \in Units(<<a, e(a)>>) <=> u \in Int /\ a <= u /\ u < e(a)
  <2>1. a \in Nat /\ c[1] <= a /\ a < c[2] BY <1>n, ClipIs
  <2>2. e(a) \in Nat /\ a < e(a) /\ e(a) <= c[2] /\ e(a) <= Duration BY <1>n, <2>1
  <2>3. a \in 0..Duration /\ e(a) \in 0..Duration BY <1>n, <2>1, <2>2
  <2> HIDE DEF e
  <2> PICK b : b = e(a) OBVIOUS
  <2>4. <<a, b>> \in Clip BY <2>2, <2>3 DEF Clip
  <2> QED BY <2>1, <2>2, <2>4, ClipIs
<1>3. ASSUME NEW a \in Units(c), NEW b \in Units(c), (a - c[1]) % l = 0, (b - c[1]) % l = 0, a < b
      PROVE  a + l <= b
  <2>1. a \in Int /\ b \in Int /\ a >= c[1] /\ b >= c[1] BY ClipIs
  <2> PICK x \in Nat : x = a - c[1] BY <1>n, <2>1
  <2> PICK y \in Nat : y = b - c[1] BY <1>n, <2>1
  <2>2. x = l * (x \div l) /\ y = l * (y \div l) /\ x \div l \in Nat /\ y \div l \in Nat
    BY <1>n, <1>3
  <2> PICK p \in Nat : p = x \div l BY <2>2
  <2> PICK q \in Nat : q = y \div l BY <2>2
  <2>3. x = l * p /\ y = l * q /\ x < y BY <1>n, <1>3, <2>1, <2>2
  <2>4. p < q BY <1>n, <2>3
  <2>5. l * (p + 1) <= l * q BY <1>n, <2>4
  <2> QED BY <1>n, <2>1, <2>3, <2>5
<1>4. ASSUME NEW s \in Slices(c, l), NEW t \in Slices(c, l), ~Apart(s, t)
      PROVE  s = t
  <2>1. PICK a \in Units(c) : (a - c[1]) % l = 0 /\ s = <<a, e(a)>> BY <1>1
  <2>2. PICK b \in Units(c) : (b - c[1]) % l = 0 /\ t = <<b, e(b)>> BY <1>1
  <2>3. PICK u \in Units(s) : u \in Units(t) BY <1>4 DEF Apart
  <2>4. u \in Int /\ a <= u /\ u < e(a) /\ b <= u /\ u < e(b) BY <1>2, <2>1, <2>2, <2>3
  <2>5. a \in Int /\ b \in Int BY ClipIs
  <2>6. ~(a < b) BY <1>3, <1>n, <2>1, <2>2, <2>4, <2>5
  <2>7. ~(b < a) BY <1>3, <1>n, <2>1, <2>2, <2>4, <2>5
  <2> QED BY <2>1, <2>2, <2>5, <2>6, <2>7
<1>5. ASSUME NEW u \in Units(c)
      PROVE  \E s \in Slices(c, l) : u \in Units(s)
  <2>1. u \in Int /\ u >= c[1] /\ u < c[2] BY ClipIs
  <2> PICK x \in Nat : x = u - c[1] BY <1>n, <2>1
  <2>2. PICK q \in Nat, r \in Nat : x = l * q + r /\ r < l
    <3>1. x \div l \in Nat /\ x % l \in Nat /\ x % l < l /\ x = l * (x \div l) + (x % l)
      BY <1>n
    <3> QED BY <3>1
  <2>3. l * q \in Nat /\ l * q <= x BY <1>n, <2>2
  <2>4. PICK a \in Nat : a = c[1] + l * q BY <1>n, <2>3
  <2>5. a >= c[1] /\ a <= u /\ u < a + l /\ a - c[1] = l * q BY <1>n, <2>1, <2>2, <2>3, <2>4
  <2>6. (l * q) % l = 0 BY <1>n
  <2>7. a \in Units(c) BY <1>n, <2>1, <2>5, ClipIs
  <2>8. <<a, e(a)>> \in Slices(c, l) BY <2>5, <2>6, <2>7 DEF Slices
  <2>9. u \in Units(<<a, e(a)>>) BY <1>2, <1>n, <2>1, <2>5, <2>7
  <2> QED BY <2>8, <2>9
<1> QED BY <1>1, <1>2, <1>4, <1>5

\* A set of clips that do not overlap, within some ranges and making them up.
MakeUp(S, ranges) ==
    /\ S \subseteq Clip
    /\ \A s \in S : \E r \in ranges : Units(s) \subseteq Units(r)
    /\ \A s, t \in S : s # t => Apart(s, t)
    /\ \A r \in ranges : \A u \in Units(r) : \E s \in S : u \in Units(s)

\* The slices of ranges that do not overlap make them up.
LEMMA SlicesMakeUp ==
  ASSUME NEW ranges \in SUBSET Clip, \A r, s \in ranges : r # s => Apart(r, s),
         NEW l \in Nat \ {0}
  PROVE  MakeUp(UNION {Slices(r, l) : r \in ranges}, ranges)
<1> PICK S : S = UNION {Slices(r, l) : r \in ranges} OBVIOUS
<1>1. \A s \in S : \E r \in ranges : s \in Slices(r, l) OBVIOUS
<1>2. \A r \in ranges : \A s \in Slices(r, l) : s \in S OBVIOUS
<1>3. \A r \in ranges : /\ Slices(r, l) \subseteq Clip
                        /\ \A s \in Slices(r, l) : Units(s) \subseteq Units(r)
                        /\ \A s, t \in Slices(r, l) : s # t => Apart(s, t)
                        /\ \A u \in Units(r) : \E s \in Slices(r, l) : u \in Units(s)
  BY SlicesCover
<1>4. \A s, t \in S : s # t => Apart(s, t)
  <2> SUFFICES ASSUME NEW s \in S, NEW t \in S, s # t PROVE Apart(s, t) OBVIOUS
  <2>1. PICK r \in ranges : s \in Slices(r, l) BY <1>1
  <2>2. PICK p \in ranges : t \in Slices(p, l) BY <1>1
  <2>3. CASE r = p BY <1>3, <2>1, <2>2, <2>3
  <2>4. CASE r # p
    <3>1. Apart(r, p) /\ Units(s) \subseteq Units(r) /\ Units(t) \subseteq Units(p)
      BY <1>3, <2>1, <2>2, <2>4
    <3> QED BY <3>1 DEF Apart
  <2> QED BY <2>3, <2>4
<1>5. S \subseteq Clip /\ \A s \in S : \E r \in ranges : Units(s) \subseteq Units(r)
  BY <1>1, <1>3
<1>6. \A r \in ranges : \A u \in Units(r) : \E s \in S : u \in Units(s)
  BY <1>2, <1>3
<1> QED BY <1>4, <1>5, <1>6 DEF MakeUp

\* The whole video is a clip.
LEMMA VideoIsClip == Video \in Clip
  BY AudioAssumption DEF Video, Clip

\* The second hearing that is planned first.
LEMMA FirstGapsMakeUp ==
  LET missed == MissingRanges(Video, AllHeard(audio.windows))
      S == UNION {Slices(r, GapUnits) : r \in missed}
  IN  /\ MakeUp(S, missed) /\ FirstGaps = InOrder(S)
      /\ missed \subseteq Clip
<1> PICK missed : missed = MissingRanges(Video, AllHeard(audio.windows)) OBVIOUS
<1>1. missed \in SUBSET Clip /\ \A r, s \in missed : r # s => Apart(r, s)
  BY VideoIsClip, MissedRanges
<1>2. GapUnits \in Nat \ {0} BY AudioAssumption
<1>3. MakeUp(UNION {Slices(r, GapUnits) : r \in missed}, missed)
  BY <1>1, <1>2, SlicesMakeUp
<1> QED BY <1>1, <1>3 DEF FirstGaps

\* A set of places has a first one: that with the fewest others before it.
LEMMA FirstPlace ==
  ASSUME NEW S \in SUBSET Nat, S # {}
  PROVE  Min(S) \in S
<1> DEFINE below(x) == {y \in S : y < x}
<1> DEFINE T == {below(x) : x \in S}
<1>1. IsWellFoundedOn(StrictSubsetOrdering(Nat), FiniteSubsetsOf(Nat))
  BY FS_StrictSubsetOrderingWellFounded
<1>2. T \subseteq FiniteSubsetsOf(Nat)
  <2> SUFFICES ASSUME NEW x \in S PROVE below(x) \in FiniteSubsetsOf(Nat) OBVIOUS
  <2>0. x \in Nat /\ \A y \in S : y \in Nat OBVIOUS
  <2>1. \A y \in S : y < x => y <= x BY <2>0
  <2>1a. below(x) \in SUBSET Nat OBVIOUS
  <2>1b. \A y \in below(x) : y <= x BY <2>1
  <2>2. IsFiniteSet(below(x)) BY <2>0, <2>1a, <2>1b, FS_BoundedSetOfNaturals
  <2> QED BY <2>1a, <2>2 DEF FiniteSubsetsOf
<1>3. T # {} OBVIOUS
<1>4. PICK b \in T : \A a \in T : ~(<<a, b>> \in StrictSubsetOrdering(Nat))
  <2> HIDE DEF T
  <2> QED BY <1>1, <1>2, <1>3, WFMin
<1>5. PICK x \in S : b = below(x) BY <1>4
<1>6. \A y \in S : x <= y
  <2> SUFFICES ASSUME NEW y \in S, y < x PROVE FALSE OBVIOUS
  <2>0. x \in Nat /\ y \in Nat /\ \A z \in S : z \in Nat OBVIOUS
  <2>1a. \A z \in S : z < y => z < x BY <2>0
  <2>1. below(y) \subseteq below(x) BY <2>1a
  <2>2. y \in below(x) /\ y \notin below(y) OBVIOUS
  <2>3. below(y) \in SUBSET Nat /\ below(x) \in SUBSET Nat /\ below(y) \in T OBVIOUS
  <2> HIDE DEF below, T
  <2>4. <<below(y), below(x)>> \in StrictSubsetOrdering(Nat)
    BY <2>1, <2>2, <2>3 DEF StrictSubsetOrdering
  <2> QED BY <1>4, <1>5, <2>3, <2>4
<1> QED BY <1>6 DEF Min

\* The places left are those of the clips still to be listened to.
LEMMA LeftPlaces ==
  ASSUME NEW plan \in Seq(Clip), NEW listened
  PROVE  /\ Left(plan, listened) \in SUBSET Nat
         /\ \A i \in Left(plan, listened) : /\ i \in 1..Len(plan) /\ i \in DOMAIN plan
                                            /\ plan[i] \in Clip
                                            /\ plan[i] \notin Clips(listened)
         /\ Left(plan, listened) = {} <=> StillOpen(plan, listened) = {}
  BY DEF Left, StillOpen, ToSet

-----------------------------------------------------------------------------
\* What a copy of the run must be to be saved.
Kept(copy) ==
    /\ copy \in Audio
    /\ copy.status = "queued" /\ copy.stage \in {"asr-source", "asr-evidence"}
         => WindowsSound(copy) /\ GapsSound(copy)
    /\ copy.stage = "synthesis" =>
         \A u \in SilentFor(Video, AllHeard(copy.windows)) : Checked(copy, u)
    /\ copy.stage = "agree" =>
         \A u \in CitedUnits : \E w \in copy.windows : u \in Units(w.clip)

\* A copy that is as it must be keeps the invariant when it is saved.
LEMMA AudioSaved ==
  ASSUME NEW copy, Kept(copy), SaveAudio(copy)
  PROVE  AudioInv'
<1>1. audio' = copy /\ retained' = {} BY DEF SaveAudio
<1>2. AudioTypeOK' BY <1>1 DEF AudioTypeOK, Kept
<1>3. EveryGapHeard' BY <1>1 DEF EveryGapHeard, Kept, Checked
<1>4. HeardWithin' BY <1>1 DEF HeardWithin
<1>5. Listening' => WindowsSound(audio)' /\ GapsSound(audio)'
  <2>1. Listening' => WindowsSound(copy) /\ GapsSound(copy) BY <1>1 DEF Listening, Kept
  <2> QED BY <1>1, <2>1 DEF WindowsSound, GapsSound, Replanned, Covered, Checked
<1> QED BY <1>2, <1>3, <1>4, <1>5 DEF AudioInv

\* A run that a person or the queue sees to is not listened to.
LEMMA SetAsideKeeps ==
  ASSUME NEW copy \in Audio, copy.stage \in {"asr-source", "asr-evidence"},
         NEW status \in {"needs_review", "failed"}, SetAside(copy, status)
  PROVE  AudioInv'
<1> PICK c : c = [copy EXCEPT !.status = status] OBVIOUS
<1>1. c \in Audio /\ c.status = status /\ c.stage = copy.stage BY DEF Audio
<1>2. Kept(c) BY <1>1 DEF Kept
<1>3. SaveAudio(c) BY DEF SetAside
<1> QED BY <1>2, <1>3, AudioSaved

\* All is heard that has to be.
AllIsHeard(copy) ==
    /\ copy.stage = "asr-source" =>
         \A u \in SilentFor(Video, AllHeard(copy.windows)) : Checked(copy, u)
    /\ copy.stage = "asr-evidence" =>
         \A u \in CitedUnits : \E w \in copy.windows : u \in Units(w.clip)

\* So does one that is accepted when all is heard.
LEMMA AcceptKeeps ==
  ASSUME NEW copy \in Audio, copy.stage \in {"asr-source", "asr-evidence"},
         AllIsHeard(copy), Accept(copy)
  PROVE  AudioInv'
<1>1. CASE copy.stage = "asr-evidence"
  <2> PICK c : c = [copy EXCEPT !.stage = "agree"] OBVIOUS
  <2>1. c \in Audio /\ c.stage = "agree" /\ c.windows = copy.windows BY DEF Audio
  <2>2. Kept(c) BY <1>1, <2>1 DEF Kept, AllIsHeard
  <2>3. SaveAudio(c) BY <1>1 DEF Accept
  <2> QED BY <2>2, <2>3, AudioSaved
<1>2. CASE copy.stage = "asr-source" /\ AllHeard(copy.windows \cup copy.checks) = {}
  <2>1. SetAside(copy, "needs_review") BY <1>2 DEF Accept
  <2> QED BY <2>1, SetAsideKeeps
<1>3. CASE copy.stage = "asr-source" /\ AllHeard(copy.windows \cup copy.checks) # {}
  <2> PICK c : c = [copy EXCEPT !.stage = "synthesis"] OBVIOUS
  <2>1. /\ c \in Audio /\ c.stage = "synthesis" /\ c.windows = copy.windows
        /\ c.checks = copy.checks
    BY DEF Audio
  <2>2. \A u \in SilentFor(Video, AllHeard(c.windows)) : Checked(c, u)
    BY <1>3, <2>1 DEF AllIsHeard, Checked
  <2>3. Kept(c) BY <2>1, <2>2 DEF Kept
  <2>4. SaveAudio(c) BY <1>3 DEF Accept
  <2> QED BY <2>3, <2>4, AudioSaved
<1> QED BY <1>1, <1>2, <1>3

-----------------------------------------------------------------------------
\* The call of this step is for a window that was not listened to ...
WindowDue(copy, ask) ==
    /\ ~ask.gap /\ ~copy.planned /\ copy.checks = {}
    /\ \E n \in 1..Len(copy.plan) : copy.plan[n] = ask.clip
    /\ ask.clip \notin Clips(copy.windows)

\* ... or for a clip of the second hearing that was not.
GapDue(copy, ask) ==
    /\ ask.gap /\ copy.planned
    /\ \E n \in 1..Len(copy.gaps) : copy.gaps[n] = ask.clip
    /\ ask.clip \notin Clips(copy.checks)

\* The copy that a call of this step is made with.
Due(copy, ask) ==
    /\ copy \in Audio /\ copy.status = "queued" /\ copy.stage \in {"asr-source", "asr-evidence"}
    /\ WindowsSound(copy) /\ GapsSound(copy)
    /\ ask.clip \in Clip
    /\ WindowDue(copy, ask) \/ GapDue(copy, ask)

\* The plan of a second hearing is as it should be when it is made.
LEMMA GapPlanSound ==
  ASSUME AudioInv, Listening, WindowsLeft = {}, audio.stage = "asr-source",
         NEW copy, copy = [audio EXCEPT !.gaps = GapPlan, !.planned = TRUE]
  PROVE  copy \in Audio /\ Replanned(copy) /\ copy.gaps = GapPlan
<1>1. audio \in Audio /\ GapsSound(audio) BY DEF AudioInv, AudioTypeOK
<1>2. CASE audio.planned
  <2>1. GapPlan = audio.gaps /\ Replanned(audio) BY <1>1, <1>2 DEF GapPlan, GapsSound
  <2>2. copy = audio BY <1>1, <1>2, <2>1 DEF Audio
  <2> QED BY <1>1, <2>1, <2>2
<1>3. CASE ~audio.planned
  <2> PICK missed : missed = MissingRanges(Video, AllHeard(audio.windows)) OBVIOUS
  <2> PICK S : S = UNION {Slices(r, GapUnits) : r \in missed} OBVIOUS
  <2>1. MakeUp(S, missed) /\ FirstGaps = InOrder(S) BY FirstGapsMakeUp
  <2>q. PICK q : q = InOrder(S) OBVIOUS
  <2>2. GapPlan = q BY <1>3, <2>1, <2>q DEF GapPlan
  <2>3. /\ q \in Seq(Clip) /\ \A i \in DOMAIN q : q[i] \in S
        /\ \A c \in S : \E i \in DOMAIN q : q[i] = c
        /\ \A i, j \in DOMAIN q : i # j => q[i] # q[j]
    <3>1. S \in SUBSET Clip /\ \A c, d \in S : c # d => Apart(c, d) BY <2>1 DEF MakeUp
    <3>2. Lists(q, S) BY <3>1, <2>q, Ordered
    <3> QED BY <3>2 DEF Lists
  <2>4. audio.checks = {} BY <1>1, <1>3 DEF GapsSound
  <2>5. /\ copy \in Audio /\ copy.gaps = q /\ copy.stage = audio.stage /\ copy.plan = audio.plan
        /\ copy.windows = audio.windows /\ copy.checks = {}
    <3> PICK d : d = [audio EXCEPT !.gaps = q] OBVIOUS
    <3>1. /\ d \in Audio /\ d.gaps = q /\ d.stage = audio.stage /\ d.plan = audio.plan
          /\ d.windows = audio.windows /\ d.checks = audio.checks
      BY <1>1, <2>3 DEF Audio
    <3>2. copy = [d EXCEPT !.planned = TRUE] BY <1>1, <2>2 DEF Audio
    <3> QED BY <3>1, <3>2, <2>4 DEF Audio
  <2>6. Left(copy.plan, copy.windows) = {} BY <2>5 DEF WindowsLeft
  <2>7. \A i, j \in DOMAIN q : i # j => Apart(q[i], q[j]) BY <2>1, <2>3 DEF MakeUp
  <2>8. \A u \in SilentFor(Video, AllHeard(copy.windows)) : Covered(copy, u)
    <3> SUFFICES ASSUME NEW u \in SilentFor(Video, AllHeard(audio.windows))
                 PROVE  \E g \in StillOpen(copy.gaps, copy.checks) : u \in Units(g)
      BY <2>5 DEF Covered
    <3>1. PICK r \in missed : u \in Units(r) BY DEF SilentFor
    <3>2. PICK s \in S : u \in Units(s) BY <2>1, <3>1 DEF MakeUp
    <3>3. PICK i \in DOMAIN q : q[i] = s BY <2>3
    <3>4. s \in StillOpen(copy.gaps, copy.checks) BY <2>5, <3>3 DEF StillOpen, ToSet, Clips
    <3> QED BY <3>2, <3>4
  <2> QED BY <2>2, <2>5, <2>6, <2>7, <2>8 DEF Replanned
<1> QED BY <1>2, <1>3

\* A call is for a clip that is still to be listened to, and its copy is sound.
LEMMA CallIsDue ==
  ASSUME AudioInv, Listening, NEW ask \in NextCall
  PROVE  Due(Current(ask), ask)
<1>1. /\ audio \in Audio /\ audio.status = "queued"
      /\ audio.stage \in {"asr-source", "asr-evidence"}
      /\ WindowsSound(audio) /\ GapsSound(audio)
  BY DEF AudioInv, AudioTypeOK, Listening
<1>2. CASE WindowsLeft # {}
  <2>1. ask = [clip |-> audio.plan[Min(WindowsLeft)], gap |-> FALSE] BY <1>2 DEF NextCall
  <2>2. audio.plan \in Seq(Clip) BY <1>1 DEF Audio
  <2>3. Min(WindowsLeft) \in WindowsLeft BY <1>2, <2>2, LeftPlaces, FirstPlace DEF WindowsLeft
  <2>4. /\ ask.clip \in Clip /\ ask.clip \notin Clips(audio.windows)
        /\ \E n \in 1..Len(audio.plan) : audio.plan[n] = ask.clip
    BY <2>1, <2>2, <2>3, LeftPlaces DEF WindowsLeft
  <2>5. ~audio.planned /\ audio.checks = {} BY <1>1, <1>2 DEF GapsSound, Replanned, WindowsLeft
  <2>6. Current(ask) = audio BY <2>1 DEF Current
  <2>7. ~ask.gap BY <2>1
  <2> QED BY <1>1, <2>4, <2>5, <2>6, <2>7 DEF Due, WindowDue
<1>3. CASE WindowsLeft = {}
  <2>1. GapsLeft # {} /\ ask = [clip |-> GapPlan[Min(GapsLeft)], gap |-> TRUE]
    BY <1>3 DEF NextCall
  <2>2. audio.stage = "asr-source"
    <3> SUFFICES ASSUME audio.stage = "asr-evidence" PROVE FALSE BY <1>1
    <3>1. ~audio.planned BY <1>1 DEF GapsSound, Replanned
    <3>2. GapPlan = <<>> BY <3>1 DEF GapPlan
    <3> QED BY <2>1, <3>2 DEF GapsLeft, Left
  <2> PICK copy : copy = [audio EXCEPT !.gaps = GapPlan, !.planned = TRUE] OBVIOUS
  <2>3. copy \in Audio /\ Replanned(copy) /\ copy.gaps = GapPlan BY <1>3, <2>2, GapPlanSound
  <2>4. GapPlan \in Seq(Clip) BY <2>3 DEF Audio
  <2>5. Min(GapsLeft) \in GapsLeft BY <2>1, <2>4, LeftPlaces, FirstPlace DEF GapsLeft
  <2>6. /\ ask.clip \in Clip /\ ask.clip \notin Clips(audio.checks)
        /\ \E n \in 1..Len(GapPlan) : GapPlan[n] = ask.clip
    BY <2>1, <2>4, <2>5, LeftPlaces DEF GapsLeft
  <2>7. /\ copy.status = audio.status /\ copy.stage = audio.stage /\ copy.checks = audio.checks
        /\ copy.plan = audio.plan /\ copy.windows = audio.windows /\ copy.planned
    BY <1>1 DEF Audio
  <2>8. WindowsSound(copy) BY <1>1, <2>7 DEF WindowsSound
  <2>9. GapsSound(copy) BY <2>3, <2>7 DEF GapsSound
  <2>10. Current(ask) = copy /\ ask.gap BY <2>1 DEF Current
  <2>11. GapDue(copy, ask) BY <2>3, <2>6, <2>7, <2>10 DEF GapDue
  <2> QED BY <1>1, <2>3, <2>6, <2>7, <2>8, <2>9, <2>10, <2>11 DEF Due
<1> QED BY <1>2, <1>3

-----------------------------------------------------------------------------
\* An answer is retained, and the call stays the same until it is used.
LEMMA ListenStep ==
  ASSUME AudioInv, Listening, NEW ask \in NextCall, Listen(ask)
  PROVE  AudioInv'
<1>1. /\ audio \in Audio /\ WindowsSound(audio) /\ GapsSound(audio) BY DEF AudioInv, AudioTypeOK
<1>2. audio' = audio BY DEF Listen
<1>3. PICK kind \in ReplyKind, heard \in SUBSET Units(ask.clip) :
        retained' = {[kind |-> kind, heard |-> heard]}
  BY DEF Listen
<1>4. ask.clip \in Clip BY CallIsDue DEF Due
<1>5. heard \in SUBSET Units(Video) BY <1>3, <1>4, ClipIs
<1>6. AudioTypeOK' BY <1>1, <1>2, <1>3, <1>5 DEF AudioTypeOK, Reply
<1>7. EveryGapHeard' BY <1>2 DEF AudioInv, EveryGapHeard
<1>8. NextCall' = NextCall BY <1>2 DEF NextCall, WindowsLeft, GapsLeft, GapPlan, FirstGaps
<1>9. NextCall = {ask}
  <2>1. \E x : NextCall = {x}
    <3>1. CASE WindowsLeft # {} BY <3>1 DEF NextCall
    <3>2. CASE WindowsLeft = {} /\ GapsLeft # {} BY <3>2 DEF NextCall
    <3>3. CASE WindowsLeft = {} /\ GapsLeft = {} BY <3>3 DEF NextCall
    <3> QED BY <3>1, <3>2, <3>3
  <2> QED BY <2>1
<1>10. HeardWithin' BY <1>3, <1>8, <1>9 DEF HeardWithin
<1>11. WindowsSound(audio)' /\ GapsSound(audio)'
  BY <1>1, <1>2 DEF WindowsSound, GapsSound, Replanned, Covered, Checked
<1> QED BY <1>6, <1>7, <1>10, <1>11 DEF AudioInv

\* A person is asked.
LEMMA AskAPersonStep ==
  ASSUME AudioInv, Listening, NEW ask \in NextCall, AskAPerson(ask)
  PROVE  AudioInv'
<1> PICK copy : copy = Current(ask) OBVIOUS
<1>1. copy \in Audio /\ copy.stage \in {"asr-source", "asr-evidence"} BY CallIsDue DEF Due
<1>2. SetAside(copy, "needs_review") BY DEF AskAPerson
<1> QED BY <1>1, <1>2, SetAsideKeeps

\* The step throws.
LEMMA ListeningFailsStep ==
  ASSUME AudioInv, Listening, NEW ask \in NextCall, ListeningFails(ask)
  PROVE  AudioInv'
<1> PICK copy : copy = Current(ask) OBVIOUS
<1>1. copy \in Audio /\ copy.stage \in {"asr-source", "asr-evidence"} BY CallIsDue DEF Due
<1>2. SetAside(copy, "failed") BY DEF ListeningFails
<1> QED BY <1>1, <1>2, SetAsideKeeps

\* The halves of a clip.
FirstHalf(c)  == <<c[1], (c[1] + c[2]) \div 2>>
SecondHalf(c) == <<(c[1] + c[2]) \div 2, c[2]>>

\* The halves of a clip make it up, and each is shorter.
LEMMA HalvesOf ==
  ASSUME NEW c \in Clip, ClipLength(c) > SplitUnits
  PROVE  /\ FirstHalf(c) \in Clip /\ SecondHalf(c) \in Clip
         /\ Units(FirstHalf(c)) \subseteq Units(c) /\ Units(SecondHalf(c)) \subseteq Units(c)
         /\ FirstHalf(c) # c /\ SecondHalf(c) # c
         /\ Apart(FirstHalf(c), SecondHalf(c))
         /\ \A u \in Units(c) : u \in Units(FirstHalf(c)) \/ u \in Units(SecondHalf(c))
<1> PICK m : m = (c[1] + c[2]) \div 2 OBVIOUS
<1>1. c[1] \in Nat /\ c[2] \in Nat /\ c[2] <= Duration /\ Duration \in Nat
  BY ClipIs, AudioAssumption
<1>2. c[2] - c[1] > 1
  <2>1. SplitUnits \in Nat /\ SplitUnits > 0 BY AudioAssumption
  <2> QED BY <1>1, <2>1 DEF ClipLength
<1>3. m \in Nat /\ c[1] < m /\ m < c[2] BY <1>1, <1>2
<1>4. FirstHalf(c) = <<c[1], m>> /\ SecondHalf(c) = <<m, c[2]>> BY DEF FirstHalf, SecondHalf
<1>5. <<c[1], m>> \in Clip /\ <<m, c[2]>> \in Clip
  <2>1. c[1] \in 0..Duration /\ m \in 0..Duration /\ c[2] \in 0..Duration BY <1>1, <1>3
  <2> QED BY <1>3, <2>1 DEF Clip
<1>6. /\ \A u : u \in Units(<<c[1], m>>) <=> u \in Int /\ c[1] <= u /\ u < m
      /\ \A u : u \in Units(<<m, c[2]>>) <=> u \in Int /\ m <= u /\ u < c[2]
  BY <1>5, ClipIs
<1>7. \A u : u \in Units(c) <=> u \in Int /\ c[1] <= u /\ u < c[2] BY ClipIs
<1>8. <<c[1], m>> # c /\ <<m, c[2]>> # c BY <1>1, <1>3, ClipIs
<1>9. Units(<<c[1], m>>) \subseteq Units(c) /\ Units(<<m, c[2]>>) \subseteq Units(c)
  BY <1>1, <1>3, <1>6, <1>7
<1>10. Apart(<<c[1], m>>, <<m, c[2]>>) BY <1>1, <1>3, <1>6 DEF Apart
<1>11. \A u \in Units(c) : u \in Units(<<c[1], m>>) \/ u \in Units(<<m, c[2]>>)
  BY <1>1, <1>3, <1>6, <1>7
<1> QED BY <1>4, <1>5, <1>8, <1>9, <1>10, <1>11

\* What a plan is when the clip at n was halved.
HalvedAt(p, n, q) ==
    /\ q \in Seq(Clip) /\ Len(q) = Len(p) + 1
    /\ \A m \in 1..n - 1 : q[m] = p[m]
    /\ q[n] = FirstHalf(p[n]) /\ q[n + 1] = SecondHalf(p[n])
    /\ \A m \in n + 1..Len(p) : q[m + 1] = p[m]

\* Halving changes the plan at one place.
LEMMA HalvedIs ==
  ASSUME NEW p \in Seq(Clip), NEW n \in 1..Len(p), ClipLength(p[n]) > SplitUnits,
         \A i \in 1..Len(p) : p[i] = p[n] => i = n,
         NEW q, q = Halved(p, p[n])
  PROVE  HalvedAt(p, n, q)
<1> PICK c \in Clip : c = p[n] OBVIOUS
<1>1. {j \in DOMAIN p : p[j] = c} = {n} OBVIOUS
<1>2. Min({n}) = n
  <2>1. \A x : x \in {n} /\ (\A y \in {n} : x <= y) <=> x = n OBVIOUS
  <2> QED BY <2>1 DEF Min
<1>h. PICK h : h = <<FirstHalf(c), SecondHalf(c)>> OBVIOUS
<1>3. h \in Seq(Clip) /\ Len(h) = 2 /\ h[1] = FirstHalf(c) /\ h[2] = SecondHalf(c)
  BY <1>h, HalvesOf
<1>4. q = Spliced(p, n, h)
  BY <1>1, <1>2, <1>h DEF Halved, Spliced, FirstHalf, SecondHalf
<1>5. q \in Seq(Clip) /\ Len(q) = Len(p) + 1 BY <1>3, <1>4, Replaced
<1>6. \A m \in 1..n - 1 : q[m] = p[m] BY <1>3, <1>4, Replaced
<1>7. q[n] = h[1] /\ q[n + 1] = h[2] BY <1>3, <1>4, Replaced
<1>8. \A m \in n + 1..Len(p) : q[m + 1] = p[m] BY <1>3, <1>4, Replaced
<1> QED BY <1>3, <1>5, <1>6, <1>7, <1>8 DEF HalvedAt

\* Where the clips of such a plan come from.
LEMMA HalvedClips ==
  ASSUME NEW p \in Seq(Clip), NEW n \in 1..Len(p), NEW q, HalvedAt(p, n, q)
  PROVE  /\ \A i \in 1..Len(q) :
              \/ i = n /\ q[i] = FirstHalf(p[n])
              \/ i = n + 1 /\ q[i] = SecondHalf(p[n])
              \/ i < n /\ i \in 1..Len(p) /\ q[i] = p[i]
              \/ i > n + 1 /\ i - 1 \in 1..Len(p) /\ q[i] = p[i - 1]
         /\ \A m \in 1..Len(p) : m # n => \E i \in 1..Len(q) : q[i] = p[m]
         /\ \E i \in 1..Len(q) : q[i] = FirstHalf(p[n])
         /\ \E i \in 1..Len(q) : q[i] = SecondHalf(p[n])
<1> PICK l : l = Len(p) OBVIOUS
<1>1. n \in Int /\ l \in Nat /\ n >= 1 /\ n <= l /\ Len(q) = l + 1
  <2>1. Len(q) = Len(p) + 1 BY DEF HalvedAt
  <2> QED BY <2>1
<1>2. ASSUME NEW i \in 1..Len(q)
      PROVE  \/ i = n /\ q[i] = FirstHalf(p[n])
             \/ i = n + 1 /\ q[i] = SecondHalf(p[n])
             \/ i < n /\ i \in 1..Len(p) /\ q[i] = p[i]
             \/ i > n + 1 /\ i - 1 \in 1..Len(p) /\ q[i] = p[i - 1]
  <2>1. CASE i = n BY <2>1 DEF HalvedAt
  <2>2. CASE i = n + 1 BY <2>2 DEF HalvedAt
  <2>3. CASE i < n
    <3>1. i \in 1..n - 1 /\ i \in 1..Len(p) BY <1>1, <2>3
    <3> QED BY <2>3, <3>1 DEF HalvedAt
  <2>4. CASE i > n + 1
    <3>1. i - 1 \in n + 1..Len(p) /\ i - 1 \in 1..Len(p) /\ (i - 1) + 1 = i BY <1>1, <2>4
    <3>2. q[(i - 1) + 1] = p[i - 1] BY <3>1 DEF HalvedAt
    <3> QED BY <2>4, <3>1, <3>2
  <2> QED BY <1>1, <2>1, <2>2, <2>3, <2>4
<1>3. ASSUME NEW m \in 1..Len(p), m # n PROVE \E i \in 1..Len(q) : q[i] = p[m]
  <2>1. CASE m < n
    <3>1. m \in 1..n - 1 /\ m \in 1..Len(q) BY <1>1, <2>1
    <3> QED BY <3>1 DEF HalvedAt
  <2>2. CASE m > n
    <3>1. m + 1 \in 1..Len(q) /\ m \in n + 1..Len(p) BY <1>1, <2>2
    <3> QED BY <3>1 DEF HalvedAt
  <2> QED BY <1>1, <1>3, <2>1, <2>2
<1>4. n \in 1..Len(q) /\ n + 1 \in 1..Len(q) BY <1>1
<1>5. q[n] = FirstHalf(p[n]) /\ q[n + 1] = SecondHalf(p[n]) BY DEF HalvedAt
<1> QED BY <1>2, <1>3, <1>4, <1>5

\* The clips of a plan that are not in X do not overlap.
ApartBut(p, X) ==
    \A i, j \in 1..Len(p) : i # j /\ p[i] \notin X /\ p[j] \notin X => Apart(p[i], p[j])

\* A plan that was halved overlaps no more than it did.
LEMMA HalvedApart ==
  ASSUME NEW p \in Seq(Clip), NEW n \in 1..Len(p), ClipLength(p[n]) > SplitUnits,
         NEW q, HalvedAt(p, n, q), NEW X, p[n] \notin X, ApartBut(p, X)
  PROVE  ApartBut(q, X)
<1> PICK c \in Clip : c = p[n] OBVIOUS
<1>1. /\ Units(FirstHalf(c)) \subseteq Units(c) /\ Units(SecondHalf(c)) \subseteq Units(c)
      /\ Apart(FirstHalf(c), SecondHalf(c))
  BY HalvesOf
<1> DEFINE from(i) == IF i <= n THEN i ELSE i - 1
<1>2. ASSUME NEW i \in 1..Len(q), q[i] \notin X
      PROVE  /\ from(i) \in 1..Len(p) /\ p[from(i)] \notin X
             /\ Units(q[i]) \subseteq Units(p[from(i)])
  <2>1. CASE i = n /\ q[i] = FirstHalf(p[n]) BY <1>1, <2>1
  <2>2. CASE i = n + 1 /\ q[i] = SecondHalf(p[n])
    <3>1. from(i) = n BY <2>2
    <3> QED BY <1>1, <2>2, <3>1
  <2>3. CASE i < n /\ i \in 1..Len(p) /\ q[i] = p[i]
    <3>1. from(i) = i BY <2>3
    <3> QED BY <1>2, <2>3, <3>1
  <2>4. CASE i > n + 1 /\ i - 1 \in 1..Len(p) /\ q[i] = p[i - 1]
    <3>1. from(i) = i - 1 BY <2>4
    <3> QED BY <1>2, <2>4, <3>1
  <2> QED BY <2>1, <2>2, <2>3, <2>4, HalvedClips
<1>3. ASSUME NEW i \in 1..Len(q), NEW j \in 1..Len(q), i < j, from(i) = from(j)
      PROVE  i = n /\ j = n + 1
  BY <1>3
<1>4. q[n] = FirstHalf(c) /\ q[n + 1] = SecondHalf(c) BY DEF HalvedAt
<1>5. ASSUME NEW i \in 1..Len(q), NEW j \in 1..Len(q), i < j, q[i] \notin X, q[j] \notin X
      PROVE  Apart(q[i], q[j])
  <2>1. CASE from(i) = from(j) BY <1>1, <1>3, <1>4, <1>5, <2>1
  <2>2. CASE from(i) # from(j)
    <3> PICK a \in 1..Len(p) : a = from(i) BY <1>2, <1>5
    <3> PICK b \in 1..Len(p) : b = from(j) BY <1>2, <1>5
    <3> HIDE DEF from
    <3>1. Apart(p[a], p[b]) BY <1>2, <1>5, <2>2 DEF ApartBut
    <3>2. Units(q[i]) \subseteq Units(p[a]) /\ Units(q[j]) \subseteq Units(p[b]) BY <1>2, <1>5
    <3> QED BY <3>1, <3>2 DEF Apart
  <2> QED BY <2>1, <2>2
<1>6. ASSUME NEW i \in 1..Len(q), NEW j \in 1..Len(q), i # j, q[i] \notin X, q[j] \notin X
      PROVE  Apart(q[i], q[j])
  <2>1. CASE i < j BY <1>5, <1>6, <2>1
  <2>2. CASE j < i
    <3>1. Apart(q[j], q[i]) BY <1>5, <1>6, <2>2
    <3> QED BY <3>1 DEF Apart
  <2> QED BY <1>6, <2>1, <2>2
<1> QED BY <1>6 DEF ApartBut

\* A clip that does not overlap with itself is nowhere else in its plan.
LEMMA OnePlace ==
  ASSUME NEW p \in Seq(Clip), NEW n \in 1..Len(p), NEW X, p[n] \notin X, ApartBut(p, X)
  PROVE  \A i \in 1..Len(p) : p[i] = p[n] => i = n
<1> SUFFICES ASSUME NEW i \in 1..Len(p), p[i] = p[n], i # n PROVE FALSE OBVIOUS
<1>1. Apart(p[i], p[n]) BY DEF ApartBut
<1>2. p[n] \in Clip OBVIOUS
<1>3. p[n][1] \in Units(p[n]) BY <1>2, ClipIs
<1> QED BY <1>1, <1>3 DEF Apart

\* A window is listened to in two halves instead.
LEMMA HalveWindow ==
  ASSUME NEW copy, NEW ask, Due(copy, ask), WindowDue(copy, ask),
         ClipLength(ask.clip) > SplitUnits,
         NEW new, new = [copy EXCEPT !.plan = Halved(copy.plan, ask.clip)]
  PROVE  Kept(new)
<1> PICK p : p = copy.plan OBVIOUS
<1>1. /\ copy \in Audio /\ p \in Seq(Clip) /\ WindowsSound(copy)
      /\ ~copy.planned /\ copy.checks = {} /\ ask.clip \notin Clips(copy.windows)
  BY DEF Due, WindowDue, Audio
<1>2. PICK n \in 1..Len(p) : p[n] = ask.clip BY DEF WindowDue
<1>q. PICK q : q = Halved(p, p[n]) OBVIOUS
<1>3. ApartBut(p, {}) BY <1>1 DEF WindowsSound, ApartBut
<1>4. HalvedAt(p, n, q)
  <2>1. \A i \in 1..Len(p) : p[i] = p[n] => i = n BY <1>1, <1>3, OnePlace
  <2> QED BY <1>1, <1>2, <1>q, <2>1, HalvedIs
<1>5. ApartBut(q, {}) BY <1>1, <1>2, <1>3, <1>4, HalvedApart
<1>6. q \in Seq(Clip) /\ DOMAIN q = 1..Len(q) /\ DOMAIN p = 1..Len(p)
  <2>1. q \in Seq(Clip) BY <1>4 DEF HalvedAt
  <2> QED BY <1>1, <2>1
<1>7. /\ new \in Audio /\ new.plan = q /\ new.windows = copy.windows /\ new.stage = copy.stage
      /\ new.checks = {} /\ ~new.planned
  BY <1>1, <1>2, <1>q, <1>6 DEF Audio
<1>8. \A m \in 1..Len(p) : m # n => \E i \in 1..Len(q) : q[i] = p[m]
  BY <1>1, <1>4, HalvedClips
<1>9. \A h \in copy.windows : h.clip \in ToSet(q)
  <2> SUFFICES ASSUME NEW h \in copy.windows PROVE h.clip \in ToSet(q) OBVIOUS
  <2>1. PICK m \in 1..Len(p) : p[m] = h.clip BY <1>1, <1>6 DEF WindowsSound, ToSet
  <2>2. m # n BY <1>1, <1>2, <2>1 DEF Clips
  <2> QED BY <1>6, <1>8, <2>1, <2>2 DEF ToSet
<1>10. ASSUME NEW u, \E m \in 1..Len(p) : u \in Units(p[m])
       PROVE  \E i \in 1..Len(q) : u \in Units(q[i])
  <2>1. PICK m \in 1..Len(p) : u \in Units(p[m]) BY <1>10
  <2>2. CASE m # n BY <1>8, <2>1, <2>2
  <2>3. CASE m = n
    <3>1. p[n] \in Clip BY <1>1
    <3>2. u \in Units(FirstHalf(p[n])) \/ u \in Units(SecondHalf(p[n]))
      BY <1>2, <2>1, <2>3, <3>1, HalvesOf
    <3>3. \E i \in 1..Len(q) : q[i] = FirstHalf(p[n]) BY <1>1, <1>4, HalvedClips
    <3>4. \E i \in 1..Len(q) : q[i] = SecondHalf(p[n]) BY <1>1, <1>4, HalvedClips
    <3> QED BY <3>2, <3>3, <3>4
  <2> QED BY <2>2, <2>3
<1>11. WindowsSound(new)
  <2>1. \A i, j \in DOMAIN q : i # j => Apart(q[i], q[j]) BY <1>5, <1>6 DEF ApartBut
  <2>2. \A h, k \in copy.windows : h.clip = k.clip => h = k BY <1>1 DEF WindowsSound
  <2>3. copy.stage = "asr-evidence" => \A u \in CitedUnits : \E i \in DOMAIN q : u \in Units(q[i])
    BY <1>1, <1>6, <1>10 DEF WindowsSound
  <2> QED BY <1>7, <1>9, <2>1, <2>2, <2>3 DEF WindowsSound
<1>12. GapsSound(new) BY <1>7 DEF GapsSound
<1>13. new.stage # "synthesis" /\ new.stage # "agree" BY <1>7 DEF Due
<1> QED BY <1>7, <1>11, <1>12, <1>13 DEF Kept

\* So is a clip of the second hearing.
LEMMA HalveGap ==
  ASSUME NEW copy, NEW ask, Due(copy, ask), GapDue(copy, ask),
         ClipLength(ask.clip) > SplitUnits,
         NEW new, new = [copy EXCEPT !.gaps = Halved(copy.gaps, ask.clip)]
  PROVE  Kept(new)
<1> PICK p : p = copy.gaps OBVIOUS
<1>X. PICK X : X = Clips(copy.checks) OBVIOUS
<1>1. /\ copy \in Audio /\ p \in Seq(Clip) /\ WindowsSound(copy) /\ Replanned(copy)
      /\ copy.planned /\ ask.clip \notin X
  BY <1>X DEF Due, GapDue, Audio, GapsSound
<1>2. PICK n \in 1..Len(p) : p[n] = ask.clip BY DEF GapDue
<1>q. PICK q : q = Halved(p, p[n]) OBVIOUS
<1>3. ApartBut(p, X)
  <2>1. DOMAIN p = 1..Len(p) BY <1>1
  <2> QED BY <1>1, <1>X, <2>1 DEF Replanned, ApartBut
<1>4. HalvedAt(p, n, q)
  <2>1. \A i \in 1..Len(p) : p[i] = p[n] => i = n BY <1>1, <1>2, <1>3, OnePlace
  <2> QED BY <1>1, <1>2, <1>q, <2>1, HalvedIs
<1>5. ApartBut(q, X) BY <1>1, <1>2, <1>3, <1>4, HalvedApart
<1>6. q \in Seq(Clip) /\ DOMAIN q = 1..Len(q) /\ DOMAIN p = 1..Len(p)
  <2>1. q \in Seq(Clip) BY <1>4 DEF HalvedAt
  <2> QED BY <1>1, <2>1
<1>7. /\ new \in Audio /\ new.gaps = q /\ new.windows = copy.windows /\ new.stage = copy.stage
      /\ new.checks = copy.checks /\ new.planned /\ new.plan = copy.plan
  BY <1>1, <1>2, <1>q, <1>6 DEF Audio
<1> PICK c \in Clip : c = p[n] BY <1>1
<1>8. /\ FirstHalf(c) \in Clip /\ SecondHalf(c) \in Clip
      /\ Units(FirstHalf(c)) \subseteq Units(c) /\ Units(SecondHalf(c)) \subseteq Units(c)
      /\ FirstHalf(c) # c /\ SecondHalf(c) # c
      /\ \A u \in Units(c) : u \in Units(FirstHalf(c)) \/ u \in Units(SecondHalf(c))
  BY <1>2, HalvesOf
<1>9. c \in StillOpen(p, copy.checks) BY <1>1, <1>2, <1>6, <1>X DEF StillOpen, ToSet
<1>c. \A k \in copy.checks : k.clip \in Clip /\ k.clip \in X
  BY <1>1, <1>X DEF Audio, Hearing, Clips
<1>10. \A g \in StillOpen(p, copy.checks), k \in copy.checks :
         Apart(g, k.clip) \/ (Units(g) \subseteq Units(k.clip) /\ g # k.clip)
  BY <1>1 DEF Replanned
<1>11. ASSUME NEW g \in StillOpen(q, copy.checks), NEW k \in copy.checks
       PROVE  Apart(g, k.clip) \/ (Units(g) \subseteq Units(k.clip) /\ g # k.clip)
  <2>1. PICK i \in 1..Len(q) : q[i] = g BY <1>6 DEF StillOpen, ToSet
  <2>2. g \notin X BY <1>X DEF StillOpen
  <2>3. CASE g = FirstHalf(c) \/ g = SecondHalf(c)
    <3>1. Units(g) \subseteq Units(c) BY <1>8, <2>3
    <3>2. g # k.clip BY <1>c, <2>2
    <3> QED BY <1>9, <1>10, <3>1, <3>2 DEF Apart
  <2>4. CASE g \in ToSet(p)
    <3>1. g \in StillOpen(p, copy.checks) BY <1>X, <2>2, <2>4 DEF StillOpen
    <3> QED BY <1>10, <3>1
  <2>5. g = FirstHalf(c) \/ g = SecondHalf(c) \/ g \in ToSet(p)
    <3>1. \/ q[i] = FirstHalf(c) \/ q[i] = SecondHalf(c)
          \/ i \in 1..Len(p) /\ q[i] = p[i]
          \/ i - 1 \in 1..Len(p) /\ q[i] = p[i - 1]
      BY <1>1, <1>4, HalvedClips
    <3>2. \A m \in 1..Len(p) : p[m] \in ToSet(p) BY <1>6 DEF ToSet
    <3> QED BY <2>1, <3>1, <3>2
  <2> QED BY <2>3, <2>4, <2>5
<1>12. ASSUME NEW g, g = FirstHalf(c) \/ g = SecondHalf(c)
       PROVE  g \in StillOpen(q, copy.checks)
  <2>1. \E i \in 1..Len(q) : q[i] = g
    <3>1. \E i \in 1..Len(q) : q[i] = FirstHalf(p[n]) BY <1>1, <1>4, HalvedClips
    <3>2. \E i \in 1..Len(q) : q[i] = SecondHalf(p[n]) BY <1>1, <1>4, HalvedClips
    <3> QED BY <1>12, <3>1, <3>2
  <2>2. g \notin X
    <3> SUFFICES ASSUME NEW k \in copy.checks, g = k.clip PROVE FALSE BY <1>X DEF Clips
    <3>1. g \in Clip /\ Units(g) \subseteq Units(c) /\ g # c BY <1>8, <1>12
    <3>2. g[1] \in Units(g) BY <3>1, ClipIs
    <3>3. Units(c) \subseteq Units(g) BY <1>9, <1>10, <3>1, <3>2 DEF Apart
    <3> QED BY <3>1, <3>3, SameUnits
  <2> QED BY <1>6, <1>X, <2>1, <2>2 DEF StillOpen, ToSet
<1>k. \A m \in 1..Len(p) : m # n => \E i \in 1..Len(q) : q[i] = p[m]
  BY <1>1, <1>4, HalvedClips
<1>13. \A u \in SilentFor(Video, AllHeard(copy.windows)) : Covered(new, u)
  <2> SUFFICES ASSUME NEW u \in SilentFor(Video, AllHeard(copy.windows)), ~Checked(copy, u)
               PROVE  \E g \in StillOpen(q, copy.checks) : u \in Units(g)
    BY <1>7 DEF Covered, Checked
  <2>1. PICK g \in StillOpen(p, copy.checks) : u \in Units(g) BY <1>1 DEF Replanned, Covered
  <2>2. CASE g = c BY <1>8, <1>12, <2>1, <2>2
  <2>3. CASE g # c
    <3>1. PICK m \in 1..Len(p) : p[m] = g BY <1>6 DEF StillOpen, ToSet
    <3>2. m # n BY <2>3, <3>1
    <3>3. \E i \in 1..Len(q) : q[i] = p[m] BY <1>k, <3>2
    <3>4. g \in StillOpen(q, copy.checks) BY <1>6, <3>1, <3>3 DEF StillOpen, ToSet
    <3> QED BY <2>1, <3>4
  <2> QED BY <2>2, <2>3
<1>14. Replanned(new)
  <2>1. \A i, j \in DOMAIN q : i # j /\ q[i] \notin X /\ q[j] \notin X => Apart(q[i], q[j])
    BY <1>5, <1>6 DEF ApartBut
  <2>2. new.stage = "asr-source" /\ Left(new.plan, new.windows) = {} BY <1>1, <1>7 DEF Replanned
  <2> QED BY <1>7, <1>X, <1>11, <1>13, <2>1, <2>2 DEF Replanned
<1>15. WindowsSound(new) BY <1>1, <1>7 DEF WindowsSound
<1>16. new.stage # "synthesis" /\ new.stage # "agree" BY <1>7 DEF Due
<1> QED BY <1>7, <1>14, <1>15, <1>16 DEF Kept, GapsSound

\* A clip is halved.
LEMMA HalveClipStep ==
  ASSUME AudioInv, Listening, NEW ask \in NextCall, HalveClip(ask)
  PROVE  AudioInv'
<1> PICK copy : copy = Current(ask) OBVIOUS
<1>1. Due(copy, ask) BY CallIsDue
<1>2. ClipLength(ask.clip) > SplitUnits BY DEF HalveClip
<1>3. CASE WindowDue(copy, ask)
  <2> PICK new : new = [copy EXCEPT !.plan = Halved(copy.plan, ask.clip)] OBVIOUS
  <2>1. SaveAudio(new) BY <1>3 DEF HalveClip, WindowDue
  <2>2. Kept(new) BY <1>1, <1>2, <1>3, HalveWindow
  <2> QED BY <2>1, <2>2, AudioSaved
<1>4. CASE GapDue(copy, ask)
  <2> PICK new : new = [copy EXCEPT !.gaps = Halved(copy.gaps, ask.clip)] OBVIOUS
  <2>1. SaveAudio(new) BY <1>4 DEF HalveClip, GapDue
  <2>2. Kept(new) BY <1>1, <1>2, <1>4, HalveGap
  <2> QED BY <2>1, <2>2, AudioSaved
<1> QED BY <1>1, <1>3, <1>4 DEF Due

-----------------------------------------------------------------------------
\* What the provider said is about the clip.
LEMMA EntryIs ==
  ASSUME AudioInv, Listening, NEW ask \in NextCall
  PROVE  /\ Entry(ask) \in Hearing /\ Entry(ask).clip = ask.clip
         /\ Entry(ask).heard \subseteq Units(ask.clip)
<1>1. ask.clip \in Clip BY CallIsDue DEF Due
<1>2. AllHeard(retained) \subseteq Units(ask.clip) BY DEF AudioInv, HeardWithin, AllHeard
<1>3. AllHeard(retained) \subseteq Units(Video) BY <1>1, <1>2, ClipIs
<1> QED BY <1>1, <1>2, <1>3 DEF Entry, Hearing

\* As many answers as windows are answers to all of them.
LEMMA AllWindowsHeard ==
  ASSUME NEW copy \in Audio, WindowsSound(copy), ~(Cardinality(copy.windows) < Len(copy.plan))
  PROVE  \A i \in DOMAIN copy.plan : \E w \in copy.windows : w.clip = copy.plan[i]
<1> PICK p : p = copy.plan OBVIOUS
<1> PICK W : W = copy.windows OBVIOUS
<1> PICK P : P = ToSet(p) OBVIOUS
<1>1. p \in Seq(Clip) /\ Len(p) \in Nat /\ DOMAIN p = 1..Len(p)
  <2>1. p \in Seq(Clip) BY DEF Audio
  <2> QED BY <2>1
<1>2. P \in SUBSET Clip BY <1>1 DEF ToSet
<1>3. IsFiniteSet(P) /\ Cardinality(P) \in Nat BY <1>2, ClipsFinite
<1>4. Cardinality(P) <= Len(p)
  <2>1. p \in [1..Len(p) -> P] /\ \A c \in P : \E i \in 1..Len(p) : p[i] = c
    BY <1>1 DEF ToSet
  <2>2. ExistsSurjection(1..Len(p), P) BY <2>1 DEF ExistsSurjection, Surjection
  <2> QED BY <1>1, <2>2, FS_SurjCardinalityBound
<1> PICK f : f = [h \in W |-> h.clip] OBVIOUS
<1>5. f \in Injection(W, P) BY DEF WindowsSound, Injection, IsInjective
<1>6. IsFiniteSet(W) /\ Cardinality(W) <= Cardinality(P)
      /\ (Cardinality(W) = Cardinality(P) <=> f \in Surjection(W, P))
  BY <1>3, <1>5, FS_Injection
<1>7. Cardinality(W) \in Nat BY <1>6, FS_CardinalityType
<1>8. Cardinality(W) = Cardinality(P) BY <1>1, <1>3, <1>4, <1>6, <1>7
<1>9. \A c \in P : \E h \in W : f[h] = c BY <1>6, <1>8 DEF Surjection
<1> QED BY <1>9 DEF ToSet

\* A window is heard.
LEMMA TakeWindowStep ==
  ASSUME AudioInv, Listening, NEW ask \in NextCall, TakeWindow(ask)
  PROVE  AudioInv'
<1>1. Due(audio, ask) /\ WindowDue(audio, ask)
  <2>1. Due(Current(ask), ask) BY CallIsDue
  <2>2. Current(ask) = audio BY DEF TakeWindow, Current
  <2> QED BY <2>1, <2>2 DEF Due, GapDue, TakeWindow
<1> PICK e : e = Entry(ask) OBVIOUS
<1>2. e \in Hearing /\ e.clip = ask.clip BY EntryIs
<1> PICK W : W = audio.windows \cup {e} OBVIOUS
<1> PICK copy : copy = [audio EXCEPT !.windows = W] OBVIOUS
<1>3. audio \in Audio /\ audio.windows \subseteq Hearing BY <1>1 DEF Due, Audio
<1>4. /\ copy \in Audio /\ copy.windows = W /\ copy.plan = audio.plan /\ copy.checks = {}
      /\ copy.stage = audio.stage /\ copy.status = "queued" /\ ~copy.planned
  <2>1. W \in SUBSET Hearing BY <1>2, <1>3
  <2> QED BY <1>1, <1>3, <2>1 DEF Audio, WindowDue, Due
<1>5. WindowsSound(copy)
  <2>1. \A h \in W : h.clip \in ToSet(audio.plan)
    <3>1. ask.clip \in ToSet(audio.plan) BY <1>1, <1>3 DEF WindowDue, ToSet, Audio
    <3>2. \A h \in audio.windows : h.clip \in ToSet(audio.plan) BY <1>1 DEF Due, WindowsSound
    <3> QED BY <1>2, <3>1, <3>2
  <2>2. \A h, k \in W : h.clip = k.clip => h = k
    <3>1. \A h \in audio.windows : h.clip # e.clip BY <1>1, <1>2 DEF WindowDue, Clips
    <3>2. \A h, k \in audio.windows : h.clip = k.clip => h = k BY <1>1 DEF Due, WindowsSound
    <3> QED BY <3>1, <3>2
  <2>3. WindowsSound(audio) BY <1>1 DEF Due
  <2> QED BY <1>4, <2>1, <2>2, <2>3 DEF WindowsSound
<1>6. GapsSound(copy) BY <1>4 DEF GapsSound
<1>7. copy.stage \in {"asr-source", "asr-evidence"} BY <1>1, <1>4 DEF Due
<1>8. CASE SaveAudio(copy)
  <2>1. Kept(copy) BY <1>4, <1>5, <1>6, <1>7 DEF Kept
  <2> QED BY <1>8, <2>1, AudioSaved
<1>9. CASE /\ ~(Cardinality(copy.windows) < Len(copy.plan))
           /\ ~(copy.stage = "asr-source" /\ MissingRanges(Video, AllHeard(copy.windows)) # {})
           /\ Accept(copy)
  <2>1. copy.stage = "asr-source" => SilentFor(Video, AllHeard(copy.windows)) = {}
    BY <1>9 DEF SilentFor
  <2>2. copy.stage = "asr-evidence" =>
          \A u \in CitedUnits : \E w \in copy.windows : u \in Units(w.clip)
    <3> SUFFICES ASSUME copy.stage = "asr-evidence", NEW u \in CitedUnits
                 PROVE  \E w \in copy.windows : u \in Units(w.clip)
      OBVIOUS
    <3>1. PICK i \in DOMAIN copy.plan : u \in Units(copy.plan[i]) BY <1>5 DEF WindowsSound
    <3>2. \E w \in copy.windows : w.clip = copy.plan[i] BY <1>4, <1>5, <1>9, AllWindowsHeard
    <3> QED BY <3>1, <3>2
  <2>3. AllIsHeard(copy) BY <2>1, <2>2 DEF AllIsHeard
  <2> QED BY <1>4, <1>7, <1>9, <2>3, AcceptKeeps
<1>10. \/ SaveAudio(copy)
       \/ /\ ~(Cardinality(copy.windows) < Len(copy.plan))
          /\ ~(copy.stage = "asr-source" /\ MissingRanges(Video, AllHeard(copy.windows)) # {})
          /\ Accept(copy)
  <2>1. copy = [audio EXCEPT !.windows = @ \cup {Entry(ask)}] OBVIOUS
  <2> QED BY <2>1 DEF TakeWindow
<1> QED BY <1>8, <1>9, <1>10

\* Where the clips of a plan come from that is two plans in a row.
InARow(p, o, q) ==
    /\ q \in Seq(Clip) /\ Len(q) = Len(p) + Len(o)
    /\ \A i \in 1..Len(q) :
         \/ i \in 1..Len(p) /\ q[i] = p[i]
         \/ i > Len(p) /\ i - Len(p) \in 1..Len(o) /\ q[i] = o[i - Len(p)]
    /\ \A m \in 1..Len(p) : \E i \in 1..Len(q) : q[i] = p[m]
    /\ \A m \in 1..Len(o) : \E i \in 1..Len(q) : q[i] = o[m]

\* Each clip of two plans in a row is of one of them.
LEMMA Appended ==
  ASSUME NEW p \in Seq(Clip), NEW o \in Seq(Clip), NEW q, q = p \o o
  PROVE  InARow(p, o, q)
<1> PICK k : k = Len(p) OBVIOUS
<1> PICK l : l = Len(o) OBVIOUS
<1>1. k \in Nat /\ l \in Nat OBVIOUS
<1>2. /\ q \in Seq(Clip) /\ Len(q) = k + l
      /\ \A i \in 1..k + l : q[i] = IF i <= k THEN p[i] ELSE o[i - k]
  BY ConcatProperties
<1>3. ASSUME NEW i \in 1..k + l
      PROVE  \/ i \in 1..k /\ q[i] = p[i]
             \/ i > k /\ i - k \in 1..l /\ q[i] = o[i - k]
  <2>1. CASE i <= k
    <3>1. i \in 1..k BY <1>1, <2>1
    <3> QED BY <1>2, <2>1, <3>1
  <2>2. CASE ~(i <= k)
    <3>1. i > k /\ i - k \in 1..l BY <1>1, <2>2
    <3> QED BY <1>2, <2>2, <3>1
  <2> QED BY <2>1, <2>2
<1>4. ASSUME NEW m \in 1..k PROVE m \in 1..k + l /\ q[m] = p[m]
  <2>1. m \in 1..k + l /\ m <= k BY <1>1
  <2> QED BY <1>2, <2>1
<1>5. ASSUME NEW m \in 1..l PROVE m + k \in 1..k + l /\ q[m + k] = o[m]
  <2>1. m + k \in 1..k + l /\ ~(m + k <= k) /\ (m + k) - k = m BY <1>1
  <2> QED BY <1>2, <2>1
<1>6. Len(q) = k + l BY <1>2
<1>7. \A m \in 1..k : \E i \in 1..k + l : q[i] = p[m] BY <1>4
<1>8. \A m \in 1..l : \E i \in 1..k + l : q[i] = o[m] BY <1>5
<1> QED BY <1>2, <1>3, <1>6, <1>7, <1>8 DEF InARow

\* What a clip of the second hearing left lies within it.
LEMMA LeftoverIs ==
  ASSUME NEW e \in Hearing, e.heard \subseteq Units(e.clip)
  PROVE  /\ Leftover(e) \in SUBSET Clip
         /\ \A r \in Leftover(e) : Units(r) \subseteq Units(e.clip) /\ r # e.clip
         /\ \A r, s \in Leftover(e) : r # s => Apart(r, s)
         /\ \A u \in Units(e.clip) :
              \/ e.heard = {} \/ u \notin SilentFor(e.clip, e.heard)
              \/ \E r \in Leftover(e) : u \in Units(r)
<1>1. e.clip \in Clip BY DEF Hearing
<1>2. CASE e.heard = {} BY <1>2 DEF Leftover
<1>3. CASE e.heard # {}
  <2>1. Leftover(e) = MissingRanges(e.clip, e.heard) BY <1>3 DEF Leftover
  <2>2. ASSUME NEW r \in Leftover(e)
        PROVE  r \in Clip /\ Units(r) \subseteq Units(e.clip) /\ r # e.clip
    <3>1. r \in Clip /\ Units(r) \subseteq Units(e.clip) \ e.heard BY <1>1, <2>1, MissedRanges
    <3>2. PICK u \in e.heard : u \in Units(e.clip) BY <1>3
    <3> QED BY <3>1, <3>2
  <2>3. \A r, s \in Leftover(e) : r # s => Apart(r, s) BY <1>1, <2>1, MissedRanges
  <2>4. \A u \in SilentFor(e.clip, e.heard) : \E r \in Leftover(e) : u \in Units(r)
    BY <2>1 DEF SilentFor
  <2> QED BY <2>2, <2>3, <2>4
<1> QED BY <1>2, <1>3

\* After a clip of the second hearing was heard, the plan is of the clips there
\* were and, each once, of those that it left.
LEMMA TakeGapKeeps ==
  ASSUME NEW copy, NEW ask, Due(copy, ask), GapDue(copy, ask),
         NEW e \in Hearing, e.clip = ask.clip, e.heard \subseteq Units(e.clip),
         NEW fresh, fresh = Leftover(e) \ ToSet(copy.gaps),
         NEW new \in Audio, new.stage = copy.stage, new.planned,
         new.plan = copy.plan, new.windows = copy.windows,
         new.checks = copy.checks \cup {e}, new.gaps = copy.gaps \o InOrder(fresh)
  PROVE  Kept(new)
<1> PICK c \in Clip : c = e.clip BY DEF Hearing
<1> PICK p : p = copy.gaps OBVIOUS
<1>X. PICK X : X = Clips(copy.checks) OBVIOUS
<1>Y. PICK Y : Y = Clips(new.checks) OBVIOUS
<1>1. /\ copy \in Audio /\ p \in Seq(Clip) /\ DOMAIN p = 1..Len(p)
      /\ WindowsSound(copy) /\ Replanned(copy) /\ c \notin X
  <2>1. copy \in Audio /\ WindowsSound(copy) /\ Replanned(copy) /\ c \notin X
    BY <1>X DEF Due, GapDue, GapsSound
  <2>2. p \in Seq(Clip) BY <2>1 DEF Audio
  <2> QED BY <2>1, <2>2
<1>2. PICK n \in 1..Len(p) : p[n] = c BY DEF GapDue
<1>3. Y = X \cup {c} BY <1>X, <1>Y DEF Clips
<1>4. c \in StillOpen(p, copy.checks) BY <1>1, <1>2, <1>X DEF StillOpen, ToSet
<1>5. \A i, j \in 1..Len(p) : i # j /\ p[i] \notin X /\ p[j] \notin X => Apart(p[i], p[j])
  BY <1>1, <1>X DEF Replanned
<1>6. \A g \in StillOpen(p, copy.checks), k \in copy.checks :
        Apart(g, k.clip) \/ (Units(g) \subseteq Units(k.clip) /\ g # k.clip)
  BY <1>1 DEF Replanned
<1>7. /\ fresh \in SUBSET Clip
      /\ \A r \in fresh : Units(r) \subseteq Units(c) /\ r # c /\ r \in Leftover(e)
      /\ \A r, s \in fresh : r # s => Apart(r, s)
  BY LeftoverIs
<1>o. PICK o : o = InOrder(fresh) OBVIOUS
<1>q. PICK q : q = p \o o OBVIOUS
<1>8. /\ o \in Seq(Clip) /\ DOMAIN o = 1..Len(o) /\ \A i \in 1..Len(o) : o[i] \in fresh
      /\ \A r \in fresh : \E i \in 1..Len(o) : o[i] = r
      /\ \A i, j \in 1..Len(o) : i # j => o[i] # o[j]
  <2>1. Lists(o, fresh) BY <1>7, <1>o, Ordered
  <2>2. o \in Seq(Clip) BY <2>1 DEF Lists
  <2>3. DOMAIN o = 1..Len(o) BY <2>2
  <2> QED BY <2>1, <2>2, <2>3 DEF Lists
<1>i. InARow(p, o, q) BY <1>1, <1>8, <1>q, Appended
<1>9. /\ q \in Seq(Clip) /\ DOMAIN q = 1..Len(q) /\ new.gaps = q
      /\ \A m \in 1..Len(p) : \E i \in 1..Len(q) : q[i] = p[m]
      /\ \A m \in 1..Len(o) : \E i \in 1..Len(q) : q[i] = o[m]
  <2>1. q \in Seq(Clip) BY <1>i DEF InARow
  <2>2. DOMAIN q = 1..Len(q) BY <2>1
  <2> QED BY <1>i, <1>o, <1>q, <2>1, <2>2 DEF InARow
<1>10. \A i \in 1..Len(q) :
         \/ i \in 1..Len(p) /\ q[i] = p[i]
         \/ i > Len(p) /\ i - Len(p) \in 1..Len(o) /\ q[i] = o[i - Len(p)]
  BY <1>i DEF InARow
\* The open clips of the old plan lie outside the one that was heard.
<1>11. ASSUME NEW i \in 1..Len(p), p[i] \notin Y
       PROVE  p[i] \notin X /\ Apart(p[i], c) /\ p[i] \in StillOpen(p, copy.checks)
  <2>1. p[i] \notin X /\ p[i] # c BY <1>3, <1>11
  <2>2. i # n BY <1>2, <2>1
  <2>3. Apart(p[i], c) BY <1>1, <1>2, <1>5, <2>1, <2>2
  <2>4. p[i] \in StillOpen(p, copy.checks) BY <1>1, <1>X, <2>1 DEF StillOpen, ToSet
  <2> QED BY <2>1, <2>3, <2>4
<1>12. ASSUME NEW i \in 1..Len(q), NEW j \in 1..Len(q), i # j, q[i] \notin Y, q[j] \notin Y
       PROVE  Apart(q[i], q[j])
  <2>1. CASE i \in 1..Len(p) /\ q[i] = p[i] /\ j \in 1..Len(p) /\ q[j] = p[j]
    BY <1>5, <1>11, <1>12, <2>1
  <2>2. CASE i \in 1..Len(p) /\ q[i] = p[i] /\ q[j] \in fresh
    <3>1. Apart(p[i], c) /\ Units(q[j]) \subseteq Units(c) BY <1>7, <1>11, <1>12, <2>2
    <3> QED BY <2>2, <3>1 DEF Apart
  <2>3. CASE q[i] \in fresh /\ j \in 1..Len(p) /\ q[j] = p[j]
    <3>1. Apart(p[j], c) /\ Units(q[i]) \subseteq Units(c) BY <1>7, <1>11, <1>12, <2>3
    <3> QED BY <2>3, <3>1 DEF Apart
  <2>4. CASE /\ i > Len(p) /\ i - Len(p) \in 1..Len(o) /\ q[i] = o[i - Len(p)]
             /\ j > Len(p) /\ j - Len(p) \in 1..Len(o) /\ q[j] = o[j - Len(p)]
    <3>1. Len(p) \in Nat BY <1>1
    <3>2. i - Len(p) # j - Len(p) BY <1>12, <3>1
    <3> PICK a \in 1..Len(o) : a = i - Len(p) BY <2>4
    <3> PICK b \in 1..Len(o) : b = j - Len(p) BY <2>4
    <3>3. q[i] = o[a] /\ q[j] = o[b] /\ a # b BY <2>4, <3>2
    <3>o. \A x, y \in 1..Len(o) : x # y => o[x] # o[y] BY <1>8
    <3>f. \A x \in 1..Len(o) : o[x] \in fresh BY <1>8
    <3>4. q[i] # q[j] /\ q[i] \in fresh /\ q[j] \in fresh BY <3>3, <3>o, <3>f
    <3> QED BY <1>7, <3>4
  <2>5. i > Len(p) /\ i - Len(p) \in 1..Len(o) /\ q[i] = o[i - Len(p)] => q[i] \in fresh
    BY <1>8
  <2>6. j > Len(p) /\ j - Len(p) \in 1..Len(o) /\ q[j] = o[j - Len(p)] => q[j] \in fresh
    BY <1>8
  <2> QED BY <1>10, <2>1, <2>2, <2>3, <2>4, <2>5, <2>6
<1>c. \A k \in copy.checks : k.clip \in Clip /\ k.clip \in X
  BY <1>1, <1>X DEF Audio, Hearing, Clips
<1>13. ASSUME NEW g \in StillOpen(q, new.checks)
       PROVE  /\ g \notin Y
              /\ \/ \E i \in 1..Len(p) : p[i] = g
                 \/ g \in fresh
  <2>1. PICK i \in 1..Len(q) : q[i] = g BY <1>9 DEF StillOpen, ToSet
  <2>2. g \notin Y BY <1>Y DEF StillOpen
  <2> QED BY <1>8, <1>10, <2>1, <2>2
<1>14. ASSUME NEW g \in StillOpen(q, new.checks), NEW k \in new.checks
       PROVE  Apart(g, k.clip) \/ (Units(g) \subseteq Units(k.clip) /\ g # k.clip)
  <2>1. g \notin Y BY <1>13
  <2>2. CASE \E i \in 1..Len(p) : p[i] = g
    <3>1. Apart(g, c) /\ g \in StillOpen(p, copy.checks) BY <1>11, <2>1, <2>2
    <3> QED BY <1>6, <3>1
  <2>3. CASE g \in fresh
    <3>1. Units(g) \subseteq Units(c) /\ g # c BY <1>7, <2>3
    <3>2. CASE k = e BY <3>1, <3>2
    <3>3. CASE k \in copy.checks
      <4>1. g # k.clip BY <1>3, <1>c, <2>1, <3>3
      <4> QED BY <1>4, <1>6, <3>1, <3>3, <4>1 DEF Apart
    <3> QED BY <3>2, <3>3
  <2> QED BY <1>13, <2>2, <2>3
\* What the clip left is still to be heard: it was not, nor was it planned.
<1>15. ASSUME NEW r \in Leftover(e)
       PROVE  r \in StillOpen(q, new.checks)
  <2>1. r \in Clip /\ Units(r) \subseteq Units(c) /\ r # c BY LeftoverIs
  <2>2. r[1] \in Units(r) BY <2>1, ClipIs
  <2>3. r \notin X
    <3> SUFFICES ASSUME NEW k \in copy.checks, r = k.clip PROVE FALSE BY <1>X DEF Clips
    <3>1. Units(c) \subseteq Units(r) BY <1>4, <1>6, <2>1, <2>2 DEF Apart
    <3> QED BY <2>1, <3>1, SameUnits
  <2>4. r \notin ToSet(p)
    <3> SUFFICES ASSUME NEW i \in 1..Len(p), p[i] = r PROVE FALSE BY <1>1 DEF ToSet
    <3>1. i # n BY <1>2, <2>1
    <3>2. Apart(r, c) BY <1>1, <1>2, <1>5, <2>3, <3>1
    <3> QED BY <2>1, <2>2, <3>2 DEF Apart
  <2>5. r \in fresh BY <2>4
  <2>6. \E i \in 1..Len(q) : q[i] = r BY <1>8, <1>9, <2>5
  <2>7. r \notin Y BY <1>3, <2>1, <2>3
  <2> QED BY <1>9, <1>Y, <2>6, <2>7 DEF StillOpen, ToSet
<1>16. ASSUME NEW u \in SilentFor(Video, AllHeard(copy.windows)), ~Checked(new, u)
       PROVE  \E g \in StillOpen(q, new.checks) : u \in Units(g)
  <2>1. ~Checked(copy, u) BY <1>16 DEF Checked
  <2>2. PICK g \in StillOpen(p, copy.checks) : u \in Units(g) BY <1>1, <2>1 DEF Replanned, Covered
  <2>3. CASE g = c
    <3>1. e \in new.checks OBVIOUS
    <3>2. ~(e.heard = {} \/ u \notin SilentFor(e.clip, e.heard))
      BY <1>16, <2>2, <2>3, <3>1 DEF Checked
    <3>3. PICK r \in Leftover(e) : u \in Units(r) BY <2>2, <2>3, <3>2, LeftoverIs
    <3> QED BY <1>15, <3>3
  <2>4. CASE g # c
    <3>1. PICK m \in 1..Len(p) : p[m] = g BY <1>1 DEF StillOpen, ToSet
    <3>2. \E i \in 1..Len(q) : q[i] = g BY <1>9, <3>1
    <3>3. g \notin Y BY <1>3, <1>X, <2>4 DEF StillOpen
    <3>4. g \in StillOpen(q, new.checks) BY <1>9, <1>Y, <3>2, <3>3 DEF StillOpen, ToSet
    <3> QED BY <2>2, <3>4
  <2> QED BY <2>3, <2>4
<1>17. Replanned(new)
  <2>1. \A i, j \in DOMAIN q : i # j /\ q[i] \notin Y /\ q[j] \notin Y => Apart(q[i], q[j])
    BY <1>9, <1>12
  <2>2. new.stage = "asr-source" /\ Left(new.plan, new.windows) = {} BY <1>1 DEF Replanned
  <2>3. \A u \in SilentFor(Video, AllHeard(new.windows)) : Covered(new, u)
    BY <1>9, <1>16 DEF Covered
  <2> QED BY <1>9, <1>Y, <1>14, <2>1, <2>2, <2>3 DEF Replanned
<1>18. WindowsSound(new) BY <1>1 DEF WindowsSound
<1>19. new.stage # "synthesis" /\ new.stage # "agree" BY DEF Due
<1> QED BY <1>17, <1>18, <1>19 DEF Kept, GapsSound

\* A clip of the second hearing is heard.
LEMMA TakeCheckStep ==
  ASSUME AudioInv, Listening, NEW ask \in NextCall, TakeCheck(ask)
  PROVE  AudioInv'
<1> PICK base : base = Current(ask) OBVIOUS
<1>1. Due(base, ask) /\ GapDue(base, ask) BY CallIsDue DEF Due, WindowDue, TakeCheck
<1> PICK e : e = Entry(ask) OBVIOUS
<1>2. e \in Hearing /\ e.clip = ask.clip /\ e.heard \subseteq Units(e.clip) BY EntryIs
<1> PICK K : K = base.checks \cup {e} OBVIOUS
<1> PICK copy : copy = [base EXCEPT !.checks = K] OBVIOUS
<1>3. base \in Audio /\ base.checks \subseteq Hearing BY <1>1 DEF Due, Audio
<1>4. /\ copy \in Audio /\ copy.checks = K /\ copy.plan = base.plan /\ copy.windows = base.windows
      /\ copy.stage = base.stage /\ copy.status = "queued" /\ copy.planned
      /\ copy.gaps = base.gaps /\ copy.depth = base.depth
  <2>1. K \in SUBSET Hearing BY <1>2, <1>3
  <2> QED BY <1>1, <1>3, <2>1 DEF Audio, GapDue, Due
<1>5. copy.stage \in {"asr-source", "asr-evidence"} BY <1>1, <1>4 DEF Due
<1> PICK d : d = copy.depth[ask.clip] OBVIOUS
<1> PICK fresh : fresh = Leftover(e) \ ToSet(base.gaps) OBVIOUS
<1> PICK q : q = base.gaps \o InOrder(fresh) OBVIOUS
<1> PICK D : D = [k \in Clip |-> IF k \in fresh THEN d + 1 ELSE copy.depth[k]] OBVIOUS
<1>6. \/ SetAside(copy, "needs_review")
      \/ /\ ~(/\ Leftover(e) # {}
              /\ d >= MaxDepth \/ Cardinality(copy.checks) >= MaxChecks)
         /\ SaveAudio([copy EXCEPT !.gaps = q, !.depth = D])
  <2>1. copy = [Current(ask) EXCEPT !.checks = @ \cup {Entry(ask)}] OBVIOUS
  <2>2. fresh = Leftover(Entry(ask)) \ ToSet(copy.gaps) BY <1>4
  <2>3. [copy EXCEPT !.gaps = q, !.depth = D]
          = [copy EXCEPT !.gaps = @ \o InOrder(fresh),
                         !.depth = [k \in Clip |-> IF k \in fresh THEN d + 1 ELSE @[k]]]
    BY <1>4
  <2> QED BY <2>1, <2>2, <2>3 DEF TakeCheck
<1>7. CASE SetAside(copy, "needs_review") BY <1>4, <1>5, <1>7, SetAsideKeeps
<1>8. CASE /\ ~(/\ Leftover(e) # {}
                /\ d >= MaxDepth \/ Cardinality(copy.checks) >= MaxChecks)
           /\ SaveAudio([copy EXCEPT !.gaps = q, !.depth = D])
  <2>1. D \in [Clip -> 0..MaxDepth]
    <3>1. copy.depth \in [Clip -> 0..MaxDepth] BY <1>4 DEF Audio
    <3>2. ask.clip \in Clip /\ MaxDepth \in Nat BY <1>1, AudioAssumption DEF Due
    <3>3. d \in 0..MaxDepth BY <3>1, <3>2
    <3>4. fresh # {} => d + 1 \in 0..MaxDepth
      <4>1. fresh # {} => ~(d >= MaxDepth) BY <1>8
      <4> QED BY <3>2, <3>3, <4>1
    <3> QED BY <3>1, <3>4
  <2>2. q \in Seq(Clip)
    <3>1. fresh \in SUBSET Clip /\ \A r, s \in fresh : r # s => Apart(r, s) BY <1>2, LeftoverIs
    <3> PICK o : o = InOrder(fresh) OBVIOUS
    <3>2. Lists(o, fresh) BY <3>1, Ordered
    <3>3. o \in Seq(Clip) BY <3>2 DEF Lists
    <3>4. base.gaps \in Seq(Clip) BY <1>3 DEF Audio
    <3>5. InARow(base.gaps, o, q) BY <3>3, <3>4, Appended
    <3> QED BY <3>5 DEF InARow
  <2>r. PICK mid : mid = [copy EXCEPT !.gaps = q] OBVIOUS
  <2>n. PICK new : new = [mid EXCEPT !.depth = D] OBVIOUS
  <2>3. /\ mid \in Audio /\ mid.stage = base.stage /\ mid.planned /\ mid.plan = base.plan
        /\ mid.windows = base.windows /\ mid.checks = K /\ mid.gaps = q
    BY <1>4, <2>2, <2>r DEF Audio
  <2>4. /\ new \in Audio /\ new.stage = base.stage /\ new.planned /\ new.plan = base.plan
        /\ new.windows = base.windows /\ new.checks = K /\ new.gaps = q
    BY <2>1, <2>3, <2>n DEF Audio
  <2>5. new = [copy EXCEPT !.gaps = q, !.depth = D] BY <1>4, <2>r, <2>n DEF Audio
  <2>6. Kept(new) BY <1>1, <1>2, <2>4, TakeGapKeeps
  <2>7. SaveAudio(new) BY <1>8, <2>5
  <2> QED BY <2>6, <2>7, AudioSaved
<1> QED BY <1>6, <1>7, <1>8

\* Nothing is left to listen to.
LEMMA HearingOverStep ==
  ASSUME AudioInv, Listening, HearingOver
  PROVE  AudioInv'
<1>1. /\ audio \in Audio /\ audio.status = "queued"
      /\ audio.stage \in {"asr-source", "asr-evidence"}
      /\ WindowsSound(audio) /\ GapsSound(audio)
  BY DEF AudioInv, AudioTypeOK, Listening
<1>2. WindowsLeft = {} /\ GapsLeft = {}
  <2>1. NextCall = {} BY DEF HearingOver
  <2> QED BY <2>1 DEF NextCall
<1> PICK done \in BOOLEAN : done = (audio.planned \/ audio.stage = "asr-source")
  BY <1>1 DEF Audio
<1> PICK copy : copy = [audio EXCEPT !.planned = done] OBVIOUS
<1>3. /\ copy \in Audio /\ copy.stage = audio.stage /\ copy.windows = audio.windows
      /\ copy.checks = audio.checks
  BY <1>1 DEF Audio
<1>4. Accept(copy) BY <1>1 DEF HearingOver, Audio
<1>5. ASSUME audio.stage = "asr-source", NEW u \in SilentFor(Video, AllHeard(audio.windows))
      PROVE  Checked(audio, u)
  <2> PICK full : full = [audio EXCEPT !.gaps = GapPlan, !.planned = TRUE] OBVIOUS
  <2>1. full \in Audio /\ Replanned(full) /\ full.gaps = GapPlan BY <1>2, <1>5, GapPlanSound
  <2>2. full.checks = audio.checks /\ full.windows = audio.windows BY <1>1 DEF Audio
  <2>3. GapPlan \in Seq(Clip) BY <2>1 DEF Audio
  <2>4. StillOpen(full.gaps, full.checks) = {} BY <1>2, <2>1, <2>2, <2>3, LeftPlaces DEF GapsLeft
  <2>5. Covered(full, u) BY <1>5, <2>1, <2>2 DEF Replanned
  <2> QED BY <2>2, <2>4, <2>5 DEF Covered, Checked
<1>6. ASSUME audio.stage = "asr-evidence", NEW u \in CitedUnits
      PROVE  \E w \in audio.windows : u \in Units(w.clip)
  <2>1. PICK i \in DOMAIN audio.plan : u \in Units(audio.plan[i])
    BY <1>1, <1>6 DEF WindowsSound
  <2>2. audio.plan[i] \in Clips(audio.windows) BY <1>2 DEF WindowsLeft, Left
  <2> QED BY <2>1, <2>2 DEF Clips
<1>7. AllIsHeard(copy) BY <1>3, <1>5, <1>6 DEF AllIsHeard, Checked
<1> QED BY <1>1, <1>3, <1>4, <1>7, AcceptKeeps

\* The windows are planned, and nothing is heard.
LEMMA AudioBegins == AudioInit => AudioInv
<1> SUFFICES ASSUME AudioInit PROVE AudioInv OBVIOUS
<1>1. PICK stage \in {"asr-source", "asr-evidence"} :
        audio = [stage |-> stage, status |-> "queued", plan |-> PlanWindows(stage),
                 windows |-> {}, planned |-> FALSE, gaps |-> <<>>, checks |-> {},
                 depth |-> [c \in Clip |-> 0]]
  BY DEF AudioInit
<1> PICK S : S = {w \in Slices(Video, WindowUnits) : stage = "asr-source" \/ Meets(w, CitedUnits)}
  OBVIOUS
<1>2. /\ Slices(Video, WindowUnits) \subseteq Clip
      /\ \A s, t \in Slices(Video, WindowUnits) : s # t => Apart(s, t)
      /\ \A u \in Units(Video) : \E s \in Slices(Video, WindowUnits) : u \in Units(s)
  BY VideoIsClip, SlicesCover, AudioAssumption
<1>3. S \in SUBSET Clip /\ \A s, t \in S : s # t => Apart(s, t) BY <1>2
<1>p. PICK p : p = InOrder(S) OBVIOUS
<1>4. Lists(p, S) BY <1>3, <1>p, Ordered
<1>5. PlanWindows(stage) = p BY <1>p DEF PlanWindows
<1>6. audio \in Audio
  <2>1. p \in Seq(Clip) BY <1>4 DEF Lists
  <2>2. [c \in Clip |-> 0] \in [Clip -> 0..MaxDepth] BY AudioAssumption
  <2>3. <<>> \in Seq(Clip) OBVIOUS
  <2> QED BY <1>1, <1>5, <2>1, <2>2, <2>3 DEF Audio
<1>7. /\ audio.stage = stage /\ audio.plan = p /\ audio.windows = {} /\ ~audio.planned
      /\ audio.checks = {}
  BY <1>1, <1>5
<1>8. \A i, j \in DOMAIN p : i # j => Apart(p[i], p[j]) BY <1>3, <1>4 DEF Lists
<1>9. ASSUME NEW u \in CitedUnits PROVE \E i \in DOMAIN p : u \in Units(p[i])
  <2>1. u \in Units(Video) BY AudioAssumption DEF Units, Video
  <2>2. PICK s \in Slices(Video, WindowUnits) : u \in Units(s) BY <1>2, <2>1
  <2>3. s \in S BY <2>2 DEF Meets
  <2> QED BY <1>4, <2>2, <2>3 DEF Lists
<1>10. WindowsSound(audio) BY <1>7, <1>8, <1>9 DEF WindowsSound
<1>11. GapsSound(audio) BY <1>7 DEF GapsSound
<1>12. EveryGapHeard BY <1>7 DEF EveryGapHeard
<1>13. HeardWithin /\ retained \subseteq Reply BY DEF AudioInit, HeardWithin
<1> QED BY <1>6, <1>10, <1>11, <1>12, <1>13 DEF AudioInv, AudioTypeOK

\* The invariant is inductive.
LEMMA AudioStepKeeps == AudioInv /\ [AudioStep]_audioVars => AudioInv'
<1> SUFFICES ASSUME AudioInv, [AudioStep]_audioVars PROVE AudioInv' OBVIOUS
<1>1. CASE UNCHANGED audioVars
  <2>1. audio' = audio /\ retained' = retained BY <1>1 DEF audioVars
  <2>2. AudioTypeOK' /\ EveryGapHeard' BY <2>1 DEF AudioInv, AudioTypeOK, EveryGapHeard
  <2>3. NextCall' = NextCall BY <2>1 DEF NextCall, WindowsLeft, GapsLeft, GapPlan, FirstGaps
  <2>4. HeardWithin' = HeardWithin BY <2>1, <2>3 DEF HeardWithin
  <2>5. WindowsSound(audio)' = WindowsSound(audio) /\ GapsSound(audio)' = GapsSound(audio)
    BY <2>1 DEF WindowsSound, GapsSound, Replanned, Covered, Checked
  <2>6. Listening' = Listening BY <2>1 DEF Listening
  <2> QED BY <2>2, <2>4, <2>5, <2>6 DEF AudioInv
<1>2. CASE AudioStep
  <2>1. Listening BY <1>2 DEF AudioStep
  <2>2. CASE HearingOver BY <2>1, <2>2, HearingOverStep
  <2>3. ASSUME NEW ask \in NextCall,
               \/ Listen(ask) \/ HalveClip(ask) \/ AskAPerson(ask) \/ ListeningFails(ask)
               \/ TakeWindow(ask) \/ TakeCheck(ask)
        PROVE  AudioInv'
    <3>1. CASE Listen(ask) BY <2>1, <3>1, ListenStep
    <3>2. CASE HalveClip(ask) BY <2>1, <3>2, HalveClipStep
    <3>3. CASE AskAPerson(ask) BY <2>1, <3>3, AskAPersonStep
    <3>4. CASE ListeningFails(ask) BY <2>1, <3>4, ListeningFailsStep
    <3>5. CASE TakeWindow(ask) BY <2>1, <3>5, TakeWindowStep
    <3>6. CASE TakeCheck(ask) BY <2>1, <3>6, TakeCheckStep
    <3> QED BY <2>3, <3>1, <3>2, <3>3, <3>4, <3>5, <3>6
  <2> QED BY <1>2, <2>2, <2>3 DEF AudioStep
<1> QED BY <1>1, <1>2

\* The invariant of the proof.
LEMMA AudioInvariance == AudioSpec => []AudioInv
  BY AudioBegins, AudioStepKeeps, PTL DEF AudioSpec

\* The run's plans are of clips of the video and the answers within it, however
\* often a clip is halved.
THEOREM AudioTypeCorrect == AudioSpec => []AudioTypeOK
  BY AudioInvariance, PTL DEF AudioInv

\* No stretch of the video is lost between two hearings, whatever the lengths of
\* the windows, the depth and what the provider says.
THEOREM GapsAreHeard == AudioSpec => []EveryGapHeard
  BY AudioInvariance, PTL DEF AudioInv

-----------------------------------------------------------------------------
(* The parts side by side.                                                 *)

\* A behaviour of them all is one of each.
LEMMA PartsApart ==
  PartSpec => Spec /\ AnalysisSpec /\ AudioSpec /\ AdmissionSpec /\ SlotsSpec
<1>1. PartInit => Init /\ AnalysisInit /\ AudioInit /\ AdmissionInit /\ SlotsInit
  BY DEF PartInit
<1>2. [PartNext]_partVars => [Next]_vars
  BY DEF PartNext, partVars, BatchGoes, StagesGo, ClipsGo, AdmissionGoes, SlotsGo
<1>3. [PartNext]_partVars => [AnalysisNext]_analysisVars
  BY DEF PartNext, partVars, BatchGoes, StagesGo, ClipsGo, AdmissionGoes, SlotsGo
<1>4. [PartNext]_partVars => [AudioStep]_audioVars
  BY DEF PartNext, partVars, BatchGoes, StagesGo, ClipsGo, AdmissionGoes, SlotsGo
<1>5. [PartNext]_partVars => [AdmissionNext]_admissionVars
  BY DEF PartNext, partVars, BatchGoes, StagesGo, ClipsGo, AdmissionGoes, SlotsGo
<1>6. [PartNext]_partVars => [SlotsNext]_slotVars
  BY DEF PartNext, partVars, BatchGoes, StagesGo, ClipsGo, AdmissionGoes, SlotsGo
<1> QED BY <1>1, <1>2, <1>3, <1>4, <1>5, <1>6, PTL
        DEF PartSpec, Spec, AnalysisSpec, AudioSpec, AdmissionSpec, SlotsSpec

\* Whatever a part does, its run, its rows, its plans, its counters and its slots
\* remain what their types say.
THEOREM PartTypesCorrect == PartSpec => []PartTypesOK
BY PartsApart, BatchTypeCorrect, AnalysisTypeCorrect, AudioTypeCorrect, AdmissionTypeCorrect,
   SlotTypeCorrect, PTL DEF PartTypesOK
=============================================================================
