--------------------------- MODULE ModelCall_proofs ---------------------------
(***************************************************************************)
(* Paid model calls keep the budget and never lose the evidence of paid    *)
(* work, for every number of callers, rows, stages and runs, and through   *)
(* every crash, lost lease, sweep and reconciliation.                      *)
(***************************************************************************)
EXTENDS ModelCall, Ledger_proofs

-----------------------------------------------------------------------------
(* The inductive invariant.                                                *)

\* A caller whose request is out, or whose answer is not retained yet.
Out(c) == caller[c].pc \in {"calling", "answered", "received"}

\* A caller that is still about to write the row it reserved.
Owns(c) == Out(c) \/ caller[c].pc \in {"releasing", "settling", "unanswered", "marking"}

\* A retained price is within what the row holds, and what was given back holds nothing.
RowsInOrder ==
    \A k \in Calls :
      /\ call[k].status = "absent" <=> call[k].stage = None
      /\ call[k].status = "absent" => raw[k] = None /\ k \notin todo \cup queue
      /\ call[k].status = "released" => call[k].amount = 0
      /\ k \in normalized => raw[k] # None
      /\ raw[k] \in Prices => raw[k] <= call[k].amount

\* What a caller is about to write agrees with what is retained for its row.
Knows(c) ==
    LET k == caller[c].call IN
    /\ caller[c].pc # "idle" => caller[c].stage \in Stages
    /\ Owns(c) \/ At(c, "replaying") => k \in Calls
    /\ Owns(c) => call[k].stage = caller[c].stage
    /\ Out(c) => call[k].status = "reserved" /\ call[k].amount = Estimate
    /\ Out(c) \/ At(c, "releasing") => raw[k] = None
    /\ caller[c].pc \in {"settling", "replaying"} => raw[k] # None
    /\ caller[c].pc \in {"settling", "replaying", "unanswered"}
         => caller[c].price = PriceOf(raw[k])
    /\ Out(c) \/ caller[c].pc \in {"looking", "reserving", "releasing"}
         => caller[c].price = None

CallersKnow == \A c \in Callers : Knows(c)

\* Callers own different rows.
OwnersApart ==
    \A c, d \in Callers :
      Owns(c) /\ Owns(d) /\ caller[c].call = caller[d].call => c = d

\* The queue lease of a caller, or the hold of a frozen one, keeps its row from the
\* sweep and from reconciliation.
Held(c) ==
    /\ caller[c].pc # "idle" /\ ~caller[c].stale => RunOf[caller[c].stage] \in leased
    /\ Out(c) => caller[c].call \notin todo \cup queue
    /\ Out(c) /\ caller[c].stale => ~call[caller[c].call].due

HoldsKept == \A c \in Callers : Held(c)

\* While no lease was lost, a stage has one caller, and a caller that has passed the
\* look knows that there is nothing to replay.
NobodyFrozen == \A c \in Callers : ~caller[c].stale

CallersApart ==
    \A c, d \in Callers :
      caller[c].pc # "idle" /\ caller[d].stage = caller[c].stage => c = d

Looked(c) == Out(c) \/ caller[c].pc \in {"reserving", "releasing"}

NothingToReplay ==
    \A c \in Callers : Looked(c) =>
      \A k \in Calls : k \in normalized => call[k].stage # caller[c].stage

OneAnswer ==
    \A j, k \in Calls :
      j \in normalized /\ k \in normalized /\ call[j].stage = call[k].stage => j = k

LeasesKept == lapses = 0 => NobodyFrozen /\ CallersApart /\ NothingToReplay /\ OneAnswer

CallInv ==
    /\ CallTypeOK /\ BudgetHeld /\ EvidenceIsCounted
    /\ RowsInOrder /\ CallersKnow /\ OwnersApart /\ HoldsKept /\ LeasesKept

-----------------------------------------------------------------------------
(* What the invariant says of the books.                                   *)

\* There are finitely many rows, and their amounts are numbers.
LEMMA RowsAreCounted ==
    ASSUME call \in [Calls -> Call]
    PROVE  /\ \A S \in SUBSET Calls : IsFiniteSet(S)
           /\ \A k \in Calls : call[k].amount \in Nat
<1>1. IsFiniteSet(Calls)
  BY LedgerAssumption, FS_Interval DEF LedgerAssumption, Calls
<1>2. \A S \in SUBSET Calls : IsFiniteSet(S)
  BY <1>1, FS_Subset
<1>3. \A k \in Calls : call[k].amount \in Nat
  BY LedgerAssumption DEF LedgerAssumption, Call
<1> QED  BY <1>2, <1>3

\* A set of counted rows whose total falls when one row's share does.
LEMMA TotalFalls ==
    ASSUME call \in [Calls -> Call], call' \in [Calls -> Call], NEW k \in Calls,
           \A l \in Calls \ {k} : call'[l] = call[l],
           NEW S \in SUBSET Calls, NEW T \in SUBSET Calls, S \ {k} = T \ {k},
           NEW more \in Nat,
           Share(call', T, k) <= Share(call, S, k) + more
    PROVE  /\ Total(call, S) \in Nat /\ Total(call', T) \in Nat
           /\ Total(call', T) <= Total(call, S) + more
<1>1. IsFiniteSet(S) /\ IsFiniteSet(T)
  BY RowsAreCounted
<1>2. \A l \in Calls : call[l].amount \in Nat /\ call'[l].amount \in Nat
  BY LedgerAssumption DEF LedgerAssumption, Call
<1>3. /\ Total(call, S) \in Nat /\ Total(call', T) \in Nat
      /\ Total(call', T) + Share(call, S, k) = Total(call, S) + Share(call', T, k)
  BY <1>1, <1>2, OneRow
<1>4. Share(call, S, k) \in Nat /\ Share(call', T, k) \in Nat
  BY <1>2 DEF Share
<1> QED  BY <1>3, <1>4

\* The rows that count for a run.
CountedFor(r) == {k \in Counted : RunOf[call[k].stage] = r}

\* Budget and caps in terms of totals, now and after a step.
LEMMA BudgetAsTotals ==
    /\ BudgetHeld <=> /\ Total(call, Counted) <= Budget
                      /\ \A r \in Runs : Total(call, CountedFor(r)) <= RunCap
    /\ BudgetHeld' <=> /\ Total(call', Counted') <= Budget
                       /\ \A r \in Runs : Total(call', CountedFor(r)') <= RunCap
BY SpentIsTotal, SpentIsTotalNext DEF BudgetHeld, RunSpent, CountedFor

\* A row that is written over keeps budget and caps if it does not grow in the books.
LEMMA BudgetKept ==
    ASSUME call \in [Calls -> Call], BudgetHeld, NEW k \in Calls, Rewrites(k),
           Share(call', Counted', k) <= Share(call, Counted, k)
    PROVE  BudgetHeld'
<1>0. /\ call' \in [Calls -> Call] /\ \A l \in Calls \ {k} : call'[l] = call[l]
      /\ call'[k].stage = call[k].stage
  BY DEF Rewrites
<1>1. /\ Total(call, Counted) <= Budget
      /\ \A r \in Runs : Total(call, CountedFor(r)) <= RunCap
  BY BudgetAsTotals
<1>2. Counted \in SUBSET Calls /\ Counted' \in SUBSET Calls
      /\ Counted \ {k} = Counted' \ {k}
  BY <1>0 DEF Counted
<1>3. Total(call', Counted') <= Budget
  <2>1. Share(call', Counted', k) \in Nat /\ Share(call, Counted, k) \in Nat
    BY <1>0, LedgerAssumption DEF LedgerAssumption, Share, Call
  <2>2. /\ Total(call, Counted) \in Nat /\ Total(call', Counted') \in Nat
        /\ Total(call', Counted') <= Total(call, Counted) + 0
    BY <1>0, <1>2, <2>1, TotalFalls
  <2> QED  BY <1>1, <2>2, LedgerAssumption DEF LedgerAssumption
<1>4. ASSUME NEW r \in Runs
      PROVE  Total(call', CountedFor(r)') <= RunCap
  <2>1. CountedFor(r) \in SUBSET Calls /\ CountedFor(r)' \in SUBSET Calls
        /\ CountedFor(r) \ {k} = CountedFor(r)' \ {k}
    BY <1>0 DEF CountedFor, Counted
  <2>2. /\ Share(call', CountedFor(r)', k) \in Nat /\ Share(call, CountedFor(r), k) \in Nat
        /\ Share(call', CountedFor(r)', k) <= Share(call, CountedFor(r), k) + 0
    BY <1>0, LedgerAssumption DEF LedgerAssumption, Share, Call, CountedFor, Counted
  <2>3. /\ Total(call, CountedFor(r)) \in Nat /\ Total(call', CountedFor(r)') \in Nat
        /\ Total(call', CountedFor(r)') <= Total(call, CountedFor(r)) + 0
    BY <1>0, <2>1, <2>2, TotalFalls
  <2> QED  BY <1>1, <2>3, LedgerAssumption DEF LedgerAssumption
<1> QED  BY <1>3, <1>4, BudgetAsTotals

-----------------------------------------------------------------------------
(* The invariant holds at first, and every action keeps it.                *)

\* Nobody has called, and the books are empty.
LEMMA CallInitially == Init => CallInv
<1> SUFFICES ASSUME Init PROVE CallInv
  OBVIOUS
<1> USE DEF Init, LedgerInit
<1>1. NoCall \in Call /\ Idle \in Caller
  BY LedgerAssumption DEF LedgerAssumption, NoCall, Call, CallStatus, Idle, Caller, Step
<1>2. CallTypeOK
  BY <1>1, CallAssumption DEF CallTypeOK, CallAssumption
<1>3. BudgetHeld
  <2>1. Counted = {} /\ \A r \in Runs : CountedFor(r) = {}
    BY DEF Counted, CountedFor, NoCall
  <2>2. Total(call, {}) = 0
    BY TotalDef, FS_EmptySet
  <2> QED  BY <2>1, <2>2, BudgetAsTotals, LedgerAssumption DEF LedgerAssumption
<1>4. EvidenceIsCounted /\ RowsInOrder
  <2>1. None \notin Prices
    BY LedgerAssumption DEF LedgerAssumption, Prices
  <2> QED  BY <2>1 DEF EvidenceIsCounted, RowsInOrder, NoCall
<1>5. CallersKnow /\ OwnersApart /\ HoldsKept /\ LeasesKept
  <2>1. \A c \in Callers : caller[c].pc = "idle" /\ caller[c].stale = FALSE
    BY DEF Idle
  <2> QED  BY <2>1 DEF CallersKnow, Knows, OwnersApart, HoldsKept, Held, LeasesKept, NobodyFrozen, CallersApart,
                      NothingToReplay, OneAnswer, Looked, Owns, Out, At
<1> QED  BY <1>2, <1>3, <1>4, <1>5 DEF CallInv

\* A step that leaves the rows and what is retained for them.
LEMMA BooksStay ==
    ASSUME CallInv, UNCHANGED <<call, raw, normalized, todo, queue>>
    PROVE  BudgetHeld' /\ EvidenceIsCounted' /\ RowsInOrder'
<1>1. Counted' = Counted /\ \A r \in Runs : CountedFor(r)' = CountedFor(r)
  BY DEF Counted, CountedFor
<1>2. BudgetHeld'
  BY <1>1, BudgetAsTotals DEF CallInv
<1>3. EvidenceIsCounted' /\ RowsInOrder'
  BY <1>1 DEF CallInv, EvidenceIsCounted, RowsInOrder
<1> QED  BY <1>2, <1>3

\* No row gets another stage, and the row a caller's request is out for is not written.
StagesStay ==
    call' \in [Calls -> Call] /\ \A k \in Calls : call'[k].stage = call[k].stage

Spared(d) == Out(d) => call'[caller[d].call] = call[caller[d].call]

\* A caller that does not move, and whose row is spared, knows what it knew.
LEMMA OthersKnow ==
    ASSUME CallInv, StagesStay, NEW d \in Callers, Spared(d), caller'[d] = caller[d],
           UNCHANGED <<raw, leased>>, todo' \subseteq todo, queue' \subseteq queue
    PROVE  Knows(d)' /\ Held(d)'
<1>1. Knows(d) /\ Held(d)
  BY DEF CallInv, CallersKnow, HoldsKept
<1>2. Knows(d)'
  BY <1>1 DEF StagesStay, Spared, Knows, Owns, Out, At
<1>3. Held(d)'
  BY <1>1 DEF StagesStay, Spared, Held, Knows, Owns, Out
<1> QED  BY <1>2, <1>3

\* A caller that leaves, having written one row at most.
LEMMA CallerLeaves ==
    ASSUME CallInv, NEW c \in Callers, Leave(c), StagesStay,
           \A d \in Callers \ {c} : Spared(d),
           UNCHANGED <<raw, normalized, leased, lapses>>,
           todo' \subseteq todo, queue' \subseteq queue
    PROVE  /\ caller' \in [Callers -> Caller]
           /\ CallersKnow' /\ OwnersApart' /\ HoldsKept' /\ LeasesKept'
<1>1. Idle \in Caller /\ Idle.pc = "idle" /\ Idle.stage = None /\ ~Idle.stale
  BY DEF Idle, Caller, Step
<1>2. caller \in [Callers -> Caller] /\ caller' = [caller EXCEPT ![c] = Idle]
  BY DEF CallInv, CallTypeOK, Leave
<1>3. /\ caller' \in [Callers -> Caller]
      /\ caller'[c] = Idle /\ \A d \in Callers \ {c} : caller'[d] = caller[d]
  BY <1>1, <1>2
<1>4. Knows(c)' /\ Held(c)'
  BY <1>1, <1>3 DEF Knows, Held, Owns, Out, At
<1>5. \A d \in Callers : Knows(d)' /\ Held(d)'
  BY <1>3, <1>4, OthersKnow
<1>6. OwnersApart'
  BY <1>1, <1>3 DEF CallInv, OwnersApart, Owns, Out
<1>7. LeasesKept'
  <2> SUFFICES ASSUME lapses = 0
               PROVE  (NobodyFrozen /\ CallersApart /\ NothingToReplay /\ OneAnswer)'
    BY DEF LeasesKept
  <2>1. NobodyFrozen /\ CallersApart /\ NothingToReplay /\ OneAnswer
    BY DEF CallInv, LeasesKept
  <2>2. NobodyFrozen'
    BY <1>1, <1>3, <2>1 DEF NobodyFrozen
  <2>3. CallersApart'
    <3>1. \A d \in Callers : caller[d].pc # "idle" => caller[d].stage # None
      BY LedgerAssumption DEF LedgerAssumption, CallInv, CallersKnow, Knows
    <3> QED  BY <1>1, <1>3, <2>1, <3>1 DEF CallersApart
  <2>4. NothingToReplay'
    BY <1>1, <1>3, <2>1 DEF NothingToReplay, Looked, Out, StagesStay
  <2>5. OneAnswer'
    BY <2>1 DEF OneAnswer, StagesStay
  <2> QED  BY <2>2, <2>3, <2>4, <2>5
<1> QED  BY <1>3, <1>5, <1>6, <1>7 DEF CallersKnow, HoldsKept

\* A caller that goes on at its stage, having written one row at most.
LEMMA CallerGoes ==
    ASSUME CallInv, NEW c \in Callers, NEW new \in Caller,
           caller' = [caller EXCEPT ![c] = new],
           caller[c].pc # "idle", new.stage = caller[c].stage, new.stale = caller[c].stale,
           StagesStay, \A d \in Callers \ {c} : Spared(d),
           UNCHANGED <<raw, normalized, leased, lapses>>,
           todo' \subseteq todo, queue' \subseteq queue,
           Knows(c)', Held(c)',
           \A d \in Callers \ {c} : Owns(c)' /\ Owns(d) => new.call # caller[d].call,
           Looked(c)' => \/ Looked(c)
                         \/ \A l \in Calls : l \in normalized => call[l].stage # new.stage
    PROVE  /\ caller' \in [Callers -> Caller]
           /\ CallersKnow' /\ OwnersApart' /\ HoldsKept' /\ LeasesKept'
<1>1. /\ caller' \in [Callers -> Caller]
      /\ caller'[c] = new /\ \A d \in Callers \ {c} : caller'[d] = caller[d]
  BY DEF CallInv, CallTypeOK
<1>2. \A d \in Callers : Knows(d)' /\ Held(d)'
  BY <1>1, OthersKnow
<1>3. OwnersApart'
  BY <1>1 DEF CallInv, OwnersApart, Owns, Out
<1>4. LeasesKept'
  <2> SUFFICES ASSUME lapses = 0
               PROVE  (NobodyFrozen /\ CallersApart /\ NothingToReplay /\ OneAnswer)'
    BY DEF LeasesKept
  <2>1. NobodyFrozen /\ CallersApart /\ NothingToReplay /\ OneAnswer
    BY DEF CallInv, LeasesKept
  <2>2. NobodyFrozen'
    BY <1>1, <2>1 DEF NobodyFrozen
  <2>3. CallersApart'
    BY <1>1, <2>1 DEF CallersApart
  <2>4. NothingToReplay'
    <3>1. ASSUME NEW l \in Calls, l \in normalized, Looked(c)'
          PROVE  call[l].stage # new.stage
      BY <2>1, <3>1 DEF NothingToReplay
    <3>2. \A l \in Calls : call'[l].stage = call[l].stage
      BY DEF StagesStay
    <3>3. \A d \in Callers \ {c} : Looked(d)' => Looked(d)
      BY <1>1 DEF Looked, Out
    <3> QED  BY <1>1, <2>1, <3>1, <3>2, <3>3 DEF NothingToReplay
  <2>5. OneAnswer'
    BY <2>1 DEF OneAnswer, StagesStay
  <2> QED  BY <2>2, <2>3, <2>4, <2>5
<1> QED  BY <1>1, <1>2, <1>3, <1>4 DEF CallersKnow, HoldsKept

\* A step that writes no row spares everybody.
LEMMA WritesNothing ==
    ASSUME CallInv, UNCHANGED call
    PROVE  StagesStay /\ \A d \in Callers : Spared(d)
BY DEF StagesStay, Spared, CallInv, CallTypeOK

\* A caller that begins.
LEMMA BeginKeeps ==
    ASSUME CallInv, NEW c \in Callers, NEW s \in Stages, Begin(c, s)
    PROVE  CallInv'
<1> DEFINE new == [Idle EXCEPT !.pc = "looking", !.stage = s]
<1>1. /\ caller \in [Callers -> Caller] /\ caller' = [caller EXCEPT ![c] = new]
      /\ UNCHANGED <<call, raw, normalized, leased, todo, queue, task, lapses, crashes>>
      /\ RunOf[s] \in leased /\ \A d \in Callers : caller[d].stage = s => caller[d].stale
  BY DEF Begin, CallInv, CallTypeOK
<1>2. /\ new \in Caller /\ new.pc = "looking" /\ new.stage = s /\ new.price = None
      /\ new.stale = FALSE
  BY DEF Idle, Caller, Step
<1> HIDE DEF new
<1>3. caller'[c] = new /\ \A d \in Callers \ {c} : caller'[d] = caller[d]
  BY <1>1
<1>4. CallTypeOK'
  BY <1>1, <1>2 DEF CallInv, CallTypeOK
<1>5. BudgetHeld' /\ EvidenceIsCounted' /\ RowsInOrder'
  BY <1>1, BooksStay
<1>6. CallersKnow'
  BY <1>1, <1>2, <1>3 DEF CallInv, CallersKnow, Knows, Owns, Out, At
<1>7. OwnersApart'
  BY <1>1, <1>2, <1>3 DEF CallInv, OwnersApart, Owns, Out
<1>8. HoldsKept'
  BY <1>1, <1>2, <1>3 DEF CallInv, HoldsKept, Held, Out
<1>9. LeasesKept'
  <2> SUFFICES ASSUME lapses = 0
               PROVE  (NobodyFrozen /\ CallersApart /\ NothingToReplay /\ OneAnswer)'
    BY <1>1 DEF LeasesKept
  <2>1. NobodyFrozen /\ CallersApart /\ NothingToReplay /\ OneAnswer
    BY DEF CallInv, LeasesKept
  <2>2. NobodyFrozen'
    BY <1>2, <1>3, <2>1 DEF NobodyFrozen
  <2>3. CallersApart'
    BY <1>1, <1>2, <1>3, <2>1 DEF NobodyFrozen, CallersApart
  <2>4. NothingToReplay'
    BY <1>1, <1>2, <1>3, <2>1 DEF NothingToReplay, Looked, Out
  <2>5. OneAnswer'
    BY <1>1, <2>1 DEF OneAnswer
  <2> QED  BY <2>2, <2>3, <2>4, <2>5
<1> QED  BY <1>4, <1>5, <1>6, <1>7, <1>8, <1>9 DEF CallInv

\* A caller that leaves without having written anything.
LEMMA LeavesQuietly ==
    ASSUME CallInv, NEW c \in Callers, Leave(c),
           UNCHANGED <<call, raw, normalized, leased, todo, queue, task, lapses>>,
           crashes' \in 0..MaxCrashes
    PROVE  CallInv'
<1>1. StagesStay /\ \A d \in Callers : Spared(d)
  BY WritesNothing
<1>2. /\ caller' \in [Callers -> Caller]
      /\ CallersKnow' /\ OwnersApart' /\ HoldsKept' /\ LeasesKept'
  BY <1>1, CallerLeaves
<1>3. BudgetHeld' /\ EvidenceIsCounted' /\ RowsInOrder'
  BY BooksStay
<1>4. CallTypeOK'
  BY <1>2 DEF CallInv, CallTypeOK
<1> QED  BY <1>2, <1>3, <1>4 DEF CallInv

\* A caller that goes on without having written anything.
LEMMA GoesQuietly ==
    ASSUME CallInv, NEW c \in Callers, NEW new \in Caller,
           caller' = [caller EXCEPT ![c] = new],
           caller[c].pc # "idle", new.stage = caller[c].stage, new.stale = caller[c].stale,
           UNCHANGED <<call, raw, normalized, leased, todo, queue, task, lapses, crashes>>,
           Knows(c)', Held(c)',
           Owns(c)' => Owns(c) /\ new.call = caller[c].call,
           Looked(c)' => \/ Looked(c)
                         \/ \A l \in Calls : l \in normalized => call[l].stage # new.stage
    PROVE  CallInv'
<1>1. StagesStay /\ \A d \in Callers : Spared(d)
  BY WritesNothing
<1>2. \A d \in Callers \ {c} : Owns(c)' /\ Owns(d) => new.call # caller[d].call
  BY DEF CallInv, OwnersApart
<1>3. /\ caller' \in [Callers -> Caller]
      /\ CallersKnow' /\ OwnersApart' /\ HoldsKept' /\ LeasesKept'
  BY <1>1, <1>2, CallerGoes
<1>4. BudgetHeld' /\ EvidenceIsCounted' /\ RowsInOrder'
  BY BooksStay
<1>5. CallTypeOK'
  BY <1>3 DEF CallInv, CallTypeOK
<1> QED  BY <1>3, <1>4, <1>5 DEF CallInv

\* Of several rows there is a latest one.
LEMMA LatestRow ==
    ASSUME NEW S \in SUBSET Calls, S # {}
    PROVE  Max(S) \in S
<1> DEFINE G == {T \in SUBSET S : T = {} \/ \E x \in T : \A y \in T : x >= y}
<1>1. IsFiniteSet(S)
  <2>1. IsFiniteSet(Calls)
    BY FS_Interval, LedgerAssumption DEF LedgerAssumption, Calls
  <2> QED  BY <2>1, FS_Subset
<1>2. ASSUME NEW T \in SUBSET S, \A U \in SUBSET T : U # T => U \in G
      PROVE  T \in G
  <2> SUFFICES ASSUME NEW a \in T
               PROVE  \E x \in T : \A y \in T : x >= y
    OBVIOUS
  <2>1. T \ {a} \in G
    BY <1>2
  <2>2. T \subseteq Int
    BY DEF Calls
  <2>3. CASE T \ {a} = {}
    BY <2>2, <2>3
  <2>4. CASE T \ {a} # {}
    <3>1. PICK m \in T \ {a} : \A y \in T \ {a} : m >= y
      BY <2>1, <2>4
    <3>2. CASE m >= a
      BY <3>1, <3>2
    <3>3. CASE a > m
      <4>1. \A y \in T : a >= y
        BY <2>2, <3>1, <3>3
      <4> QED  BY <4>1
    <3> QED  BY <2>2, <3>1, <3>2, <3>3
  <2> QED  BY <2>3, <2>4
<1> HIDE DEF G
<1>3. S \in G
  BY <1>1, <1>2, SubsetInduction
<1>4. \E x \in S : \A y \in S : x >= y
  BY <1>3 DEF G
<1> QED  BY <1>4 DEF Max

\* The look at the earlier attempts of the stage.
LEMMA LookKeeps ==
    ASSUME CallInv, NEW c \in Callers, Look(c)
    PROVE  CallInv'
<1> DEFINE earlier == Decisive(caller[c].stage)
<1>0. /\ caller \in [Callers -> Caller] /\ caller[c].pc = "looking" /\ caller[c] \in Caller
      /\ Knows(c) /\ Held(c)
      /\ UNCHANGED <<call, raw, normalized, leased, todo, queue, task, lapses, crashes>>
      /\ crashes \in 0..MaxCrashes
  BY DEF Look, At, CallInv, CallTypeOK, CallersKnow, HoldsKept
<1>1. CASE earlier = {} /\ Move(c, "reserving")
  <2> DEFINE new == [caller[c] EXCEPT !.pc = "reserving"]
  <2>1. /\ new \in Caller /\ new.pc = "reserving" /\ new.stage = caller[c].stage
        /\ new.stale = caller[c].stale /\ new.price = caller[c].price
        /\ new.call = caller[c].call
    BY <1>0 DEF Caller, Step
  <2>2. caller' = [caller EXCEPT ![c] = new]
    BY <1>1 DEF Move
  <2> HIDE DEF new
  <2>3. caller'[c] = new
    BY <1>0, <2>2
  <2>4. Knows(c)' /\ Held(c)'
    BY <1>0, <2>1, <2>3 DEF Knows, Held, Owns, Out, At
  <2>5. ~Owns(c)'
    BY <2>1, <2>3 DEF Owns, Out
  <2>6. \A l \in Calls : l \in normalized => call[l].stage # new.stage
    BY <1>1, <2>1 DEF Decisive, Attempts, CallInv, RowsInOrder, EvidenceIsCounted, Counted
  <2> QED  BY <1>0, <2>1, <2>2, <2>4, <2>5, <2>6, GoesQuietly
<1>2. CASE Leave(c)
  BY <1>0, <1>2, LeavesQuietly
<1> DEFINE k == Max(earlier)
<1>3. CASE /\ earlier # {} /\ call[k].status # "completed"
           /\ caller' = [caller EXCEPT ![c].pc = "replaying", ![c].call = k,
                                       ![c].price = PriceOf(raw[k])]
  <2> DEFINE new == [caller[c] EXCEPT !.pc = "replaying", !.call = k, !.price = PriceOf(raw[k])]
  <2>1. k \in Calls /\ k \in normalized
    <3>1. earlier \in SUBSET Calls
      BY DEF Decisive, Attempts
    <3> HIDE DEF earlier
    <3>2. k \in earlier
      BY <1>3, <3>1, LatestRow
    <3> QED  BY <1>3, <3>2 DEF earlier, Decisive, Attempts
  <2> HIDE DEF k
  <2>2. raw[k] # None
    BY <2>1 DEF CallInv, RowsInOrder
  <2>3. /\ new \in Caller /\ new.pc = "replaying" /\ new.stage = caller[c].stage
        /\ new.stale = caller[c].stale /\ new.price = PriceOf(raw[k]) /\ new.call = k
    BY <1>0, <2>1 DEF Caller, Step, PriceOf
  <2>4. caller' = [caller EXCEPT ![c] = new]
    BY <1>0, <1>3
  <2> HIDE DEF new
  <2>5. caller'[c] = new
    BY <1>0, <2>4
  <2>6. Knows(c)' /\ Held(c)'
    BY <1>0, <2>1, <2>2, <2>3, <2>5 DEF Knows, Held, Owns, Out, At
  <2>7. ~Owns(c)' /\ ~Looked(c)'
    BY <2>3, <2>5 DEF Owns, Looked, Out
  <2> QED  BY <1>0, <2>3, <2>4, <2>6, <2>7, GoesQuietly
<1> QED  BY <1>1, <1>2, <1>3 DEF Look

\* A refused reservation.
LEMMA RefuseKeeps ==
    ASSUME CallInv, NEW c \in Callers, Refuse(c)
    PROVE  CallInv'
<1>1. crashes \in 0..MaxCrashes
  BY DEF CallInv, CallTypeOK
<1> QED  BY <1>1, LeavesQuietly DEF Refuse

\* A host that dies.
LEMMA CrashKeeps ==
    ASSUME CallInv, NEW c \in Callers, Crash(c)
    PROVE  CallInv'
<1>1. crashes' \in 0..MaxCrashes
  BY CallAssumption DEF CallAssumption, CallInv, CallTypeOK, Crash
<1> QED  BY <1>1, LeavesQuietly DEF Crash

\* The end of a request, one way or another.
LEMMA AnswerKeeps ==
    ASSUME CallInv, NEW c \in Callers, Answer(c)
    PROVE  CallInv'
<1>0. /\ caller \in [Callers -> Caller] /\ caller[c].pc = "calling" /\ caller[c] \in Caller
      /\ Knows(c) /\ Held(c)
      /\ UNCHANGED <<call, raw, normalized, leased, todo, queue, task, lapses, crashes>>
  BY DEF Answer, At, CallInv, CallTypeOK, CallersKnow, HoldsKept
<1>1. PICK pc \in {"answered", "received", "releasing", "unanswered"} : Move(c, pc)
  BY DEF Answer
<1> DEFINE new == [caller[c] EXCEPT !.pc = pc]
<1>2. /\ new \in Caller /\ new.pc = pc /\ new.stage = caller[c].stage
      /\ new.stale = caller[c].stale /\ new.price = caller[c].price
      /\ new.call = caller[c].call
  BY <1>0 DEF Caller, Step
<1>3. caller' = [caller EXCEPT ![c] = new]
  BY <1>1 DEF Move
<1> HIDE DEF new
<1>4. caller'[c] = new
  BY <1>0, <1>3
<1>5. None \notin Prices
  BY LedgerAssumption DEF LedgerAssumption, Prices
<1>6. Knows(c)' /\ Held(c)'
  BY <1>0, <1>2, <1>4, <1>5 DEF Knows, Held, Owns, Out, At, PriceOf
<1>7. Owns(c) /\ Looked(c)
  BY <1>0 DEF Owns, Out, Looked
<1> QED  BY <1>0, <1>2, <1>3, <1>6, <1>7, GoesQuietly

\* A row that is written over, within what it holds and without giving back evidence.
LEMMA BooksKept ==
    ASSUME CallInv, NEW k \in Calls, Rewrites(k), UNCHANGED <<raw, normalized>>,
           call[k].status # "absent",
           todo' \subseteq todo, queue' \subseteq queue,
           raw[k] # None => call'[k].status # "released",
           raw[k] \in Prices => raw[k] <= call'[k].amount,
           Share(call', Counted', k) <= Share(call, Counted, k)
    PROVE  /\ call' \in [Calls -> Call] /\ StagesStay
           /\ BudgetHeld' /\ EvidenceIsCounted' /\ RowsInOrder'
<1>1. call \in [Calls -> Call] /\ BudgetHeld /\ EvidenceIsCounted /\ RowsInOrder
  BY DEF CallInv, CallTypeOK
<1>2. BudgetHeld'
  BY <1>1, BudgetKept
<1>3. StagesStay
  BY DEF StagesStay, Rewrites
<1>4. EvidenceIsCounted'
  BY <1>1 DEF EvidenceIsCounted, Counted, Rewrites
<1>5. RowsInOrder'
  <2>1. ASSUME NEW l \in Calls \ {k}
        PROVE  call'[l] = call[l]
    BY DEF Rewrites
  <2>2. /\ call'[k].stage = call[k].stage /\ call[k].stage # None /\ call'[k].status # "absent"
        /\ call'[k].status = "released" => call'[k].amount = 0
    BY <1>1 DEF Rewrites, RowsInOrder
  <2> QED  BY <1>1, <2>1, <2>2 DEF RowsInOrder
<1> QED  BY <1>2, <1>3, <1>4, <1>5 DEF Rewrites

\* A settlement at the retained price, or at none.
LEMMA SettlementKept ==
    ASSUME CallInv, NEW k \in Calls, NEW price \in Charges, Settle(k, price),
           call[k].status # "absent", UNCHANGED <<raw, normalized>>,
           todo' \subseteq todo, queue' \subseteq queue,
           price # None => /\ k \in Counted /\ price <= call[k].amount
                           /\ raw[k] \in Prices => raw[k] <= price
    PROVE  /\ call' \in [Calls -> Call] /\ StagesStay
           /\ BudgetHeld' /\ EvidenceIsCounted' /\ RowsInOrder'
           /\ \A l \in Calls \ {k} : call'[l] = call[l]
<1>1. /\ call \in [Calls -> Call] /\ EvidenceIsCounted
      /\ call[k].status = "released" => call[k].amount = 0
      /\ raw[k] \in Prices => raw[k] <= call[k].amount
  BY DEF CallInv, CallTypeOK, RowsInOrder
<1>2. /\ Rewrites(k)
      /\ price = None => call'[k].amount = call[k].amount
      /\ price = None => call'[k].status \in {call[k].status, "reserved"}
      /\ price # None => call'[k].amount = price /\ call'[k].status = "completed"
  BY <1>1, SettleRewrites
<1>3. /\ raw[k] # None => call'[k].status # "released"
      /\ raw[k] \in Prices => raw[k] <= call'[k].amount
  BY <1>1, <1>2 DEF EvidenceIsCounted, Counted
<1>4. Share(call', Counted', k) <= Share(call, Counted, k)
  <2>1. call[k].amount \in Nat
    BY <1>1, RowsAreCounted
  <2>2. CASE price = None
    BY <1>1, <1>2, <2>1, <2>2 DEF Share, Counted
  <2>3. CASE price # None
    <3>1. Share(call, Counted, k) = call[k].amount
      BY <2>3 DEF Share
    <3>2. Share(call', Counted', k) = price
      BY <1>2, <2>3 DEF Share, Counted
    <3> QED  BY <2>3, <3>1, <3>2
  <2> QED  BY <2>2, <2>3
<1> QED  BY <1>2, <1>3, <1>4, BooksKept DEF Rewrites

\* What a caller is about to settle at is a price the row can hold.
LEMMA PriceFits ==
    ASSUME CallInv, NEW c \in Callers,
           caller[c].pc \in {"replaying", "settling", "unanswered"}
    PROVE  LET k == caller[c].call IN
           /\ k \in Calls /\ caller[c].price \in Charges /\ call[k].status # "absent"
           /\ caller[c].price # None => /\ k \in Counted /\ caller[c].price <= call[k].amount
                                        /\ raw[k] \in Prices => raw[k] <= caller[c].price
           /\ raw[k] # None \/ caller[c].price = None
<1> DEFINE k == caller[c].call
<1>1. Knows(c) /\ k \in Calls
  BY DEF CallInv, CallersKnow, Knows, Owns, At
<1>2. caller[c].price = PriceOf(raw[k])
  BY <1>1 DEF Knows
<1>3. \A p \in Prices : p \in Charges /\ p \in Nat
  BY LedgerAssumption DEF LedgerAssumption, Prices, Charges
<1>4. call[k].status # "absent"
  <2>1. CASE caller[c].pc = "replaying"
    BY <1>1, <2>1 DEF CallInv, RowsInOrder, Knows
  <2>2. CASE caller[c].pc # "replaying"
    <3>1. call[k].stage = caller[c].stage /\ caller[c].stage \in Stages
      BY <1>1, <2>2 DEF Knows, Owns
    <3> QED  BY <1>1, <3>1, LedgerAssumption DEF LedgerAssumption, CallInv, RowsInOrder
  <2> QED  BY <2>1, <2>2
<1>5. raw[k] \in Prices => k \in Counted /\ raw[k] <= call[k].amount /\ raw[k] # None
  BY <1>1, LedgerAssumption DEF LedgerAssumption, Prices, CallInv, EvidenceIsCounted, RowsInOrder
<1> QED  BY <1>1, <1>2, <1>3, <1>4, <1>5 DEF PriceOf, Charges

\* A replay settles the row whose answer is retained.
LEMMA ReplayKeeps ==
    ASSUME CallInv, NEW c \in Callers, Replay(c)
    PROVE  CallInv'
<1> DEFINE k == caller[c].call
<1>0. /\ caller[c].pc = "replaying" /\ Leave(c) /\ Settle(k, caller[c].price)
      /\ UNCHANGED <<raw, normalized, leased, todo, queue, task, lapses, crashes>>
  BY DEF Replay, At
<1>1. k \in Calls /\ raw[k] # None
  BY <1>0 DEF CallInv, CallersKnow, Knows, At
<1>2. /\ call' \in [Calls -> Call] /\ StagesStay
      /\ BudgetHeld' /\ EvidenceIsCounted' /\ RowsInOrder'
      /\ \A l \in Calls \ {k} : call'[l] = call[l]
  BY <1>0, PriceFits, SettlementKept
<1>3. \A d \in Callers \ {c} : Spared(d)
  BY <1>1, <1>2 DEF Spared, CallInv, CallersKnow, Knows, Owns
<1>4. /\ caller' \in [Callers -> Caller]
      /\ CallersKnow' /\ OwnersApart' /\ HoldsKept' /\ LeasesKept'
  BY <1>0, <1>2, <1>3, CallerLeaves
<1>5. CallTypeOK'
  BY <1>0, <1>2, <1>4 DEF CallInv, CallTypeOK
<1> QED  BY <1>2, <1>4, <1>5 DEF CallInv

\* The settlement of a row by the caller that reserved it.
LEMMA SettleCallKeeps ==
    ASSUME CallInv, NEW c \in Callers, SettleCall(c)
    PROVE  CallInv'
<1> DEFINE k == caller[c].call
<1>0. /\ caller[c].pc \in {"settling", "unanswered"} /\ Settle(k, caller[c].price)
      /\ UNCHANGED <<raw, normalized, leased, todo, queue, task, lapses, crashes>>
      /\ Move(c, "marking") \/ Leave(c)
  BY DEF SettleCall
<1>1. /\ caller \in [Callers -> Caller] /\ caller[c] \in Caller
      /\ Owns(c) /\ ~Out(c) /\ Knows(c) /\ Held(c)
  BY <1>0 DEF CallInv, CallTypeOK, CallersKnow, HoldsKept, Owns, Out
<1>2. /\ call' \in [Calls -> Call] /\ StagesStay
      /\ BudgetHeld' /\ EvidenceIsCounted' /\ RowsInOrder'
      /\ \A l \in Calls \ {k} : call'[l] = call[l]
  BY <1>0, PriceFits, SettlementKept
<1>3. \A d \in Callers \ {c} : Spared(d)
  BY <1>1, <1>2 DEF Spared, CallInv, CallersKnow, Knows, OwnersApart, Owns
<1>4. /\ caller' \in [Callers -> Caller]
      /\ CallersKnow' /\ OwnersApart' /\ HoldsKept' /\ LeasesKept'
  <2>1. CASE Leave(c)
    BY <1>0, <1>2, <1>3, <2>1, CallerLeaves
  <2>2. CASE Move(c, "marking")
    <3> DEFINE new == [caller[c] EXCEPT !.pc = "marking"]
    <3>1. /\ new \in Caller /\ new.pc = "marking" /\ new.stage = caller[c].stage
          /\ new.stale = caller[c].stale /\ new.call = k
      BY <1>1 DEF Caller, Step
    <3>2. caller' = [caller EXCEPT ![c] = new]
      BY <2>2 DEF Move
    <3> HIDE DEF new
    <3>3. caller'[c] = new
      BY <1>1, <3>2
    <3>4. Knows(c)' /\ Held(c)'
      BY <1>0, <1>1, <1>2, <3>1, <3>3 DEF Knows, Held, Owns, Out, At, StagesStay
    <3>5. \A d \in Callers \ {c} : Owns(d) => new.call # caller[d].call
      BY <1>1, <3>1 DEF CallInv, OwnersApart
    <3>6. ~Looked(c)'
      BY <3>1, <3>3 DEF Looked, Out
    <3> QED  BY <1>0, <1>2, <1>3, <3>1, <3>2, <3>4, <3>5, <3>6, CallerGoes
  <2> QED  BY <1>0, <2>1, <2>2
<1>5. CallTypeOK'
  BY <1>0, <1>2, <1>4 DEF CallInv, CallTypeOK
<1> QED  BY <1>2, <1>4, <1>5 DEF CallInv

\* The marking of a row whose outcome is not known, by its caller or by the sweep.
LEMMA MarkingKept ==
    ASSUME CallInv, NEW k \in Calls, NEW due \in BOOLEAN, MarkUnknown(k, due),
           call[k].status # "absent", UNCHANGED <<raw, normalized>>,
           todo' \subseteq todo, queue' \subseteq queue
    PROVE  /\ call' \in [Calls -> Call] /\ StagesStay
           /\ BudgetHeld' /\ EvidenceIsCounted' /\ RowsInOrder'
           /\ \A l \in Calls \ {k} : call'[l] = call[l]
<1>1. /\ call \in [Calls -> Call] /\ EvidenceIsCounted
      /\ call[k].status = "released" => call[k].amount = 0
      /\ raw[k] \in Prices => raw[k] <= call[k].amount
  BY DEF CallInv, CallTypeOK, RowsInOrder
<1>2. /\ Rewrites(k) /\ call'[k].amount = call[k].amount
      /\ call'[k].status \in {call[k].status, "unknown"}
  BY <1>1, MarkRewrites
<1>3. /\ raw[k] # None => call'[k].status # "released"
      /\ raw[k] \in Prices => raw[k] <= call'[k].amount
  BY <1>1, <1>2 DEF EvidenceIsCounted, Counted
<1>4. Share(call', Counted', k) <= Share(call, Counted, k)
  <2>1. call[k].amount \in Nat
    BY <1>1, RowsAreCounted
  <2> QED  BY <1>1, <1>2, <2>1 DEF Share, Counted
<1> QED  BY <1>2, <1>3, <1>4, BooksKept DEF Rewrites

\* The mark of the caller that reserved the row.
LEMMA MarkKeeps ==
    ASSUME CallInv, NEW c \in Callers, Mark(c)
    PROVE  CallInv'
<1> DEFINE k == caller[c].call
<1>0. /\ caller[c].pc = "marking" /\ Leave(c) /\ MarkUnknown(k, FALSE)
      /\ UNCHANGED <<raw, normalized, leased, todo, queue, task, lapses, crashes>>
  BY DEF Mark, At
<1>1. k \in Calls /\ Owns(c) /\ call[k].stage = caller[c].stage /\ caller[c].stage \in Stages
  BY <1>0 DEF CallInv, CallersKnow, Knows, Owns
<1>2. call[k].status # "absent"
  BY <1>1, LedgerAssumption DEF LedgerAssumption, CallInv, RowsInOrder
<1>3. /\ call' \in [Calls -> Call] /\ StagesStay
      /\ BudgetHeld' /\ EvidenceIsCounted' /\ RowsInOrder'
      /\ \A l \in Calls \ {k} : call'[l] = call[l]
  BY <1>0, <1>1, <1>2, MarkingKept
<1>4. \A d \in Callers \ {c} : Spared(d)
  BY <1>1, <1>3 DEF Spared, CallInv, CallersKnow, Knows, OwnersApart, Owns
<1>5. /\ caller' \in [Callers -> Caller]
      /\ CallersKnow' /\ OwnersApart' /\ HoldsKept' /\ LeasesKept'
  BY <1>0, <1>3, <1>4, CallerLeaves
<1>6. CallTypeOK'
  BY <1>0, <1>3, <1>5 DEF CallInv, CallTypeOK
<1> QED  BY <1>3, <1>5, <1>6 DEF CallInv

\* The release of a row for which nothing is retained, by its caller or by reconciliation.
LEMMA ReleaseKept ==
    ASSUME CallInv, NEW k \in Calls, Release(k), raw[k] = None,
           call[k].status # "absent", UNCHANGED <<raw, normalized>>,
           todo' \subseteq todo, queue' \subseteq queue
    PROVE  /\ call' \in [Calls -> Call] /\ StagesStay
           /\ BudgetHeld' /\ EvidenceIsCounted' /\ RowsInOrder'
           /\ \A l \in Calls \ {k} : call'[l] = call[l]
<1>1. call \in [Calls -> Call]
  BY DEF CallInv, CallTypeOK
<1>2. Rewrites(k) /\ call'[k].status = "released" /\ call'[k].amount = 0
  BY <1>1, ReleaseRewrites
<1>3. Share(call', Counted', k) <= Share(call, Counted, k)
  <2>1. call[k].amount \in Nat
    BY <1>1, RowsAreCounted
  <2> QED  BY <1>2, <2>1 DEF Share
<1>4. None \notin Prices
  BY LedgerAssumption DEF LedgerAssumption, Prices
<1> QED  BY <1>2, <1>3, <1>4, BooksKept DEF Rewrites

\* A caller gives its row back, and tries again or leaves.
LEMMA GiveBackKeeps ==
    ASSUME CallInv, NEW c \in Callers, GiveBack(c)
    PROVE  CallInv'
<1> DEFINE k == caller[c].call
           again == caller' = [caller EXCEPT ![c].pc = "reserving", ![c].call = 0]
<1>0. /\ caller[c].pc = "releasing" /\ Release(k) /\ (again \/ Leave(c))
      /\ UNCHANGED <<raw, normalized, leased, todo, queue, task, lapses, crashes>>
  BY DEF GiveBack, At
<1>1. /\ caller \in [Callers -> Caller] /\ caller[c] \in Caller
      /\ Owns(c) /\ ~Out(c) /\ Knows(c) /\ Held(c)
      /\ k \in Calls /\ raw[k] = None
      /\ call[k].stage = caller[c].stage /\ caller[c].stage \in Stages
  BY <1>0 DEF CallInv, CallTypeOK, CallersKnow, HoldsKept, Knows, Owns, Out, At
<1>2. call[k].status # "absent"
  BY <1>1, LedgerAssumption DEF LedgerAssumption, CallInv, RowsInOrder
<1>3. /\ call' \in [Calls -> Call] /\ StagesStay
      /\ BudgetHeld' /\ EvidenceIsCounted' /\ RowsInOrder'
      /\ \A l \in Calls \ {k} : call'[l] = call[l]
  BY <1>0, <1>1, <1>2, ReleaseKept
<1>4. \A d \in Callers \ {c} : Spared(d)
  BY <1>1, <1>3 DEF Spared, CallInv, CallersKnow, Knows, OwnersApart, Owns
<1>5. /\ caller' \in [Callers -> Caller]
      /\ CallersKnow' /\ OwnersApart' /\ HoldsKept' /\ LeasesKept'
  <2>1. CASE Leave(c)
    BY <1>0, <1>3, <1>4, <2>1, CallerLeaves
  <2>2. CASE again
    <3> DEFINE new == [caller[c] EXCEPT !.pc = "reserving", !.call = 0]
    <3>1. /\ new \in Caller /\ new.pc = "reserving" /\ new.stage = caller[c].stage
          /\ new.stale = caller[c].stale /\ new.call = 0 /\ new.price = caller[c].price
      BY <1>1 DEF Caller, Step
    <3>2. caller' = [caller EXCEPT ![c] = new]
      BY <1>1, <2>2
    <3> HIDE DEF new
    <3>3. caller'[c] = new
      BY <1>1, <3>2
    <3>4. Knows(c)' /\ Held(c)'
      BY <1>0, <1>1, <3>1, <3>3 DEF Knows, Held, Owns, Out, At
    <3>5. ~Owns(c)' /\ Looked(c)
      BY <1>0, <3>1, <3>3 DEF Looked, Owns, Out
    <3> QED  BY <1>0, <1>3, <1>4, <3>1, <3>2, <3>4, <3>5, CallerGoes
  <2> QED  BY <1>0, <2>1, <2>2
<1>6. CallTypeOK'
  BY <1>0, <1>3, <1>5 DEF CallInv, CallTypeOK
<1> QED  BY <1>3, <1>5, <1>6 DEF CallInv

\* A reservation and the request that follows it.
LEMMA SendKeeps ==
    ASSUME CallInv, NEW c \in Callers, Send(c)
    PROVE  CallInv'
<1> DEFINE s == caller[c].stage
<1>0. /\ caller \in [Callers -> Caller] /\ caller[c].pc = "reserving" /\ caller[c] \in Caller
      /\ call \in [Calls -> Call] /\ Knows(c) /\ Held(c)
      /\ UNCHANGED <<raw, normalized, leased, todo, queue, task, lapses, crashes>>
  BY DEF Send, At, CallInv, CallTypeOK, CallersKnow, HoldsKept
<1>1. PICK k \in Calls :
        /\ Reserve(k, s)
        /\ caller' = [caller EXCEPT ![c].pc = "calling", ![c].call = k]
  BY DEF Send
<1>2. s \in Stages /\ caller[c].price = None /\ RunOf[s] \in Runs
  BY <1>0 DEF Knows, Runs
<1> DEFINE new == [caller[c] EXCEPT !.pc = "calling", !.call = k]
           row == [status |-> "reserved", stage |-> s, amount |-> Estimate, due |-> FALSE]
<1>3. /\ new \in Caller /\ new.pc = "calling" /\ new.stage = s
      /\ new.stale = caller[c].stale /\ new.price = None /\ new.call = k
  BY <1>0, <1>2 DEF Caller, Step
<1>4. /\ row \in Call /\ row.status = "reserved" /\ row.stage = s
      /\ row.amount = Estimate /\ row.due = FALSE
  BY <1>2, LedgerAssumption DEF LedgerAssumption, Call, CallStatus
<1>5. call' = [call EXCEPT ![k] = row] /\ call[k].status = "absent" /\ Reservable(s)
  BY <1>1 DEF Reserve
<1>6. caller' = [caller EXCEPT ![c] = new]
  BY <1>0, <1>1
<1> HIDE DEF new, row
<1>7. /\ caller' \in [Callers -> Caller] /\ caller'[c] = new
      /\ \A d \in Callers \ {c} : caller'[d] = caller[d]
  BY <1>0, <1>3, <1>6
<1>8. /\ call' \in [Calls -> Call] /\ call'[k] = row
      /\ \A l \in Calls \ {k} : call'[l] = call[l]
  BY <1>0, <1>4, <1>5
<1>9. /\ call[k].stage = None /\ raw[k] = None /\ k \notin todo \cup queue /\ k \notin normalized
  BY <1>5 DEF CallInv, RowsInOrder
<1>10. CallTypeOK'
  BY <1>0, <1>7, <1>8 DEF CallInv, CallTypeOK
<1>11. BudgetHeld'
  <2>0. Estimate \in Nat /\ Budget \in Nat /\ RunCap \in Nat
    BY LedgerAssumption DEF LedgerAssumption
  <2>1. /\ Total(call, Counted) + Estimate <= Budget
        /\ Total(call, CountedFor(RunOf[s])) + Estimate <= RunCap
        /\ \A r \in Runs : Total(call, CountedFor(r)) <= RunCap
    BY <1>5, SpentIsTotal, BudgetAsTotals DEF CallInv, Reservable, RunSpent, CountedFor
  <2>2. Total(call', Counted') <= Budget
    <3>1. Counted \in SUBSET Calls /\ Counted' \in SUBSET Calls
          /\ Counted \ {k} = Counted' \ {k}
      BY <1>8 DEF Counted
    <3>2. Share(call', Counted', k) = Estimate /\ Share(call, Counted, k) = 0
      BY <1>4, <1>5, <1>8 DEF Share, Counted
    <3>3. Share(call', Counted', k) <= Share(call, Counted, k) + Estimate
      BY <2>0, <3>2
    <3>4. /\ Total(call, Counted) \in Nat /\ Total(call', Counted') \in Nat
          /\ Total(call', Counted') <= Total(call, Counted) + Estimate
      BY <1>0, <1>8, <2>0, <3>1, <3>3, TotalFalls
    <3> QED  BY <2>0, <2>1, <3>4
  <2>3. ASSUME NEW r \in Runs
        PROVE  Total(call', CountedFor(r)') <= RunCap
    <3> DEFINE more == IF r = RunOf[s] THEN Estimate ELSE 0
    <3>1. CountedFor(r) \in SUBSET Calls /\ CountedFor(r)' \in SUBSET Calls
          /\ CountedFor(r) \ {k} = CountedFor(r)' \ {k}
      BY <1>8 DEF CountedFor, Counted
    <3>2. Share(call', CountedFor(r)', k) = more /\ Share(call, CountedFor(r), k) = 0
      BY <1>4, <1>5, <1>8 DEF Share, CountedFor, Counted
    <3>3. /\ Share(call', CountedFor(r)', k) <= Share(call, CountedFor(r), k) + more
          /\ more \in Nat
      BY <2>0, <3>2
    <3> HIDE DEF more
    <3>4. /\ Total(call, CountedFor(r)) \in Nat /\ Total(call', CountedFor(r)') \in Nat
          /\ Total(call', CountedFor(r)') <= Total(call, CountedFor(r)) + more
      BY <1>0, <1>8, <3>1, <3>3, TotalFalls
    <3>5. Total(call, CountedFor(r)) + more <= RunCap
      BY <2>0, <2>1, <3>4 DEF more
    <3> QED  BY <2>0, <3>3, <3>4, <3>5
  <2> QED  BY <2>2, <2>3, BudgetAsTotals
<1>12. EvidenceIsCounted' /\ RowsInOrder'
  <2>1. None \notin Stages
    BY LedgerAssumption DEF LedgerAssumption
  <2>2. None \notin Prices
    BY LedgerAssumption DEF LedgerAssumption, Prices
  <2>3. EvidenceIsCounted'
    BY <1>0, <1>8, <1>9 DEF CallInv, EvidenceIsCounted, Counted
  <2>4. RowsInOrder'
    BY <1>0, <1>2, <1>4, <1>8, <1>9, <2>1, <2>2 DEF CallInv, RowsInOrder
  <2> QED  BY <2>3, <2>4
<1>13. ASSUME NEW d \in Callers, Owns(d) \/ At(d, "replaying")
       PROVE  caller[d].call # k
  <2>1. Knows(d)
    BY DEF CallInv, CallersKnow
  <2>2. CASE Owns(d)
    <3>1. call[caller[d].call].stage \in Stages
      BY <2>1, <2>2 DEF Knows, Owns, Out
    <3> QED  BY <1>9, <3>1, LedgerAssumption DEF LedgerAssumption
  <2>3. CASE At(d, "replaying")
    BY <1>9, <2>1, <2>3 DEF Knows, At
  <2> QED  BY <1>13, <2>2, <2>3
<1>14. Knows(c)' /\ Held(c)'
  BY <1>0, <1>2, <1>3, <1>4, <1>7, <1>8, <1>9 DEF Knows, Held, Owns, Out, At
<1>15. ASSUME NEW d \in Callers \ {c}
       PROVE  Knows(d)' /\ Held(d)'
  <2>1. Knows(d) /\ Held(d) /\ caller'[d] = caller[d]
    BY <1>7 DEF CallInv, CallersKnow, HoldsKept
  <2>2. Owns(d) \/ At(d, "replaying") =>
          caller[d].call \in Calls /\ call'[caller[d].call] = call[caller[d].call]
    BY <1>8, <1>13, <2>1 DEF Knows
  <2>3. Knows(d)'
    BY <1>0, <2>1, <2>2 DEF Knows, Owns, Out, At
  <2>4. Held(d)'
    BY <1>0, <2>1, <2>2 DEF Held, Owns, Out
  <2> QED  BY <2>3, <2>4
<1>16. OwnersApart'
  BY <1>3, <1>7, <1>13 DEF CallInv, OwnersApart, Owns, Out
<1>17. LeasesKept'
  <2> SUFFICES ASSUME lapses = 0
               PROVE  (NobodyFrozen /\ CallersApart /\ NothingToReplay /\ OneAnswer)'
    BY <1>0 DEF LeasesKept
  <2>1. NobodyFrozen /\ CallersApart /\ NothingToReplay /\ OneAnswer
    BY DEF CallInv, LeasesKept
  <2>2. NobodyFrozen'
    BY <1>3, <1>7, <2>1 DEF NobodyFrozen
  <2>3. CallersApart'
    BY <1>0, <1>3, <1>7, <2>1 DEF CallersApart
  <2>4. \A l \in Calls : l \in normalized => call'[l] = call[l]
    BY <1>8, <1>9
  <2>5. NothingToReplay'
    BY <1>0, <1>3, <1>7, <2>1, <2>4 DEF NothingToReplay, Looked, Out
  <2>6. OneAnswer'
    BY <1>0, <2>1, <2>4 DEF OneAnswer
  <2> QED  BY <2>2, <2>3, <2>5, <2>6
<1> QED  BY <1>10, <1>11, <1>12, <1>14, <1>15, <1>16, <1>17 DEF CallInv, CallersKnow, HoldsKept

\* The response, or what came with the error, is retained.
LEMMA RetainKeeps ==
    ASSUME CallInv, NEW c \in Callers, Retain(c)
    PROVE  CallInv'
<1> DEFINE k == caller[c].call
           pc == IF At(c, "answered") THEN "settling" ELSE "unanswered"
<1>0. /\ caller \in [Callers -> Caller] /\ caller[c] \in Caller
      /\ caller[c].pc \in {"answered", "received"} /\ raw \in [Calls -> Response \cup {None}]
      /\ UNCHANGED <<call, leased, todo, queue, task, lapses, crashes>>
      /\ Knows(c) /\ Held(c) /\ Out(c) /\ Owns(c)
  BY DEF Retain, CallInv, CallTypeOK, CallersKnow, HoldsKept, Out, Owns
<1>1. PICK response \in Response :
        /\ raw' = [raw EXCEPT ![k] = response]
        /\ caller' = [caller EXCEPT ![c].pc = pc, ![c].price = PriceOf(response)]
  BY DEF Retain
<1>2. /\ k \in Calls /\ call[k].status = "reserved" /\ call[k].amount = Estimate
      /\ raw[k] = None /\ call[k].stage = caller[c].stage /\ caller[c].stage \in Stages
  BY <1>0 DEF Knows, Owns, Out
<1>3. response # None /\ (response \in Prices => response <= Estimate)
  BY LedgerAssumption, CallAssumption
     DEF LedgerAssumption, CallAssumption, Response, Prices
<1> DEFINE new == [caller[c] EXCEPT !.pc = pc, !.price = PriceOf(response)]
<1>4. /\ new \in Caller /\ new.pc = pc /\ pc \in {"settling", "unanswered"}
      /\ new.stage = caller[c].stage
      /\ new.stale = caller[c].stale /\ new.price = PriceOf(response) /\ new.call = k
  BY <1>0 DEF Caller, Step, PriceOf
<1>5. caller' = [caller EXCEPT ![c] = new]
  BY <1>0, <1>1
<1> HIDE DEF new
<1>6. /\ caller' \in [Callers -> Caller] /\ caller'[c] = new
      /\ \A d \in Callers \ {c} : caller'[d] = caller[d]
  BY <1>0, <1>4, <1>5
<1>7. /\ raw' \in [Calls -> Response \cup {None}] /\ raw'[k] = response
      /\ \A l \in Calls \ {k} : raw'[l] = raw[l]
  BY <1>0, <1>1, <1>2
<1>8. \A l \in normalized' : l \in normalized \/ l = k
  BY DEF Retain
<1>9. normalized \subseteq normalized' /\ normalized' \subseteq Calls
  BY <1>2, <1>8 DEF Retain, CallInv, CallTypeOK
<1>10. CallTypeOK'
  BY <1>0, <1>6, <1>7, <1>9 DEF CallInv, CallTypeOK
<1>11. BudgetHeld'
  <2>1. Counted' = Counted /\ \A r \in Runs : CountedFor(r)' = CountedFor(r)
    BY <1>0 DEF Counted, CountedFor
  <2> QED  BY <1>0, <2>1, BudgetAsTotals DEF CallInv
<1>12. EvidenceIsCounted'
  BY <1>0, <1>2, <1>7 DEF CallInv, EvidenceIsCounted, Counted
<1>13. RowsInOrder'
  BY <1>0, <1>2, <1>3, <1>7, <1>8 DEF CallInv, RowsInOrder
<1>14. ASSUME NEW d \in Callers \ {c}, Owns(d) \/ At(d, "replaying")
       PROVE  caller[d].call # k
  BY <1>0, <1>2, <1>14 DEF CallInv, CallersKnow, Knows, OwnersApart, At
<1>15. Knows(c)' /\ Held(c)'
  BY <1>0, <1>2, <1>3, <1>4, <1>6, <1>7 DEF Knows, Held, Owns, Out, At
<1>16. ASSUME NEW d \in Callers \ {c}
       PROVE  Knows(d)' /\ Held(d)'
  <2>1. Knows(d) /\ Held(d) /\ caller'[d] = caller[d]
    BY <1>6 DEF CallInv, CallersKnow, HoldsKept
  <2>2. Owns(d) \/ At(d, "replaying") =>
          caller[d].call \in Calls /\ raw'[caller[d].call] = raw[caller[d].call]
    BY <1>7, <1>14, <2>1 DEF Knows
  <2>3. Knows(d)'
    BY <1>0, <2>1, <2>2 DEF Knows, Owns, Out, At
  <2>4. Held(d)'
    BY <1>0, <2>1, <2>2 DEF Held, Owns, Out
  <2> QED  BY <2>3, <2>4
<1>17. OwnersApart'
  BY <1>0, <1>4, <1>6 DEF CallInv, OwnersApart, Owns, Out
<1>18. LeasesKept'
  <2> SUFFICES ASSUME lapses = 0
               PROVE  (NobodyFrozen /\ CallersApart /\ NothingToReplay /\ OneAnswer)'
    BY <1>0 DEF LeasesKept
  <2>1. NobodyFrozen /\ CallersApart /\ NothingToReplay /\ OneAnswer
    BY DEF CallInv, LeasesKept
  <2>2. NobodyFrozen'
    BY <1>4, <1>6, <2>1 DEF NobodyFrozen
  <2>3. CallersApart'
    BY <1>0, <1>4, <1>6, <2>1 DEF CallersApart
  <2>4. \A l \in normalized : l \in Calls /\ call[l].stage # caller[c].stage
    BY <1>0, <1>9, <2>1 DEF NothingToReplay, Looked
  <2>5. NothingToReplay'
    <3> SUFFICES ASSUME NEW d \in Callers, Looked(d)', NEW l \in Calls, l \in normalized'
                 PROVE  call[l].stage # caller'[d].stage
      BY <1>0 DEF NothingToReplay
    <3>1. d # c
      BY <1>4, <1>6 DEF Looked, Out
    <3>2. Looked(d) /\ caller'[d] = caller[d]
      BY <1>6, <3>1 DEF Looked, Out
    <3>3. caller[d].stage # caller[c].stage
      BY <1>0, <2>1, <3>1 DEF CallersApart
    <3> QED  BY <1>2, <1>8, <2>1, <3>2, <3>3 DEF NothingToReplay
  <2>6. OneAnswer'
    BY <1>0, <1>2, <1>8, <2>1, <2>4 DEF OneAnswer
  <2> QED  BY <2>2, <2>3, <2>5, <2>6
<1> QED  BY <1>10, <1>11, <1>12, <1>13, <1>15, <1>16, <1>17, <1>18 DEF CallInv, CallersKnow, HoldsKept

\* Callers that do not move, when their rows are spared.
LEMMA CallersStay ==
    ASSUME CallInv, StagesStay, \A d \in Callers : Spared(d),
           UNCHANGED <<raw, normalized, caller, leased, lapses>>,
           todo' \subseteq todo, queue' \subseteq queue
    PROVE  CallersKnow' /\ OwnersApart' /\ HoldsKept' /\ LeasesKept'
<1>1. \A d \in Callers : Knows(d)' /\ Held(d)'
  BY OthersKnow
<1>2. OwnersApart'
  BY DEF CallInv, OwnersApart, Owns, Out
<1>3. LeasesKept'
  BY DEF CallInv, LeasesKept, NobodyFrozen, CallersApart, NothingToReplay, Looked, Out,
         OneAnswer, StagesStay
<1> QED  BY <1>1, <1>2, <1>3 DEF CallersKnow, HoldsKept

\* A job of a run is leased.
LEMMA LeaseKeeps ==
    ASSUME CallInv, NEW r \in Runs, Lease(r)
    PROVE  CallInv'
<1>1. /\ UNCHANGED <<call, raw, normalized, caller, todo, queue, task, lapses, crashes>>
      /\ leased' = leased \cup {r}
  BY DEF Lease
<1>2. CallTypeOK'
  BY <1>1 DEF CallInv, CallTypeOK
<1>3. BudgetHeld' /\ EvidenceIsCounted' /\ RowsInOrder'
  BY <1>1, BooksStay
<1>4. CallersKnow'
  BY <1>1 DEF CallInv, CallersKnow, Knows, Owns, Out, At
<1>5. OwnersApart'
  BY <1>1 DEF CallInv, OwnersApart, Owns, Out
<1>6. HoldsKept'
  BY <1>1 DEF CallInv, HoldsKept, Held, Out
<1>7. LeasesKept'
  BY <1>1 DEF CallInv, LeasesKept, NobodyFrozen, CallersApart, NothingToReplay, Looked, Out,
              OneAnswer
<1> QED  BY <1>2, <1>3, <1>4, <1>5, <1>6, <1>7 DEF CallInv

\* A run's lease ends: nobody works on it, or who does is frozen from now on.
LEMMA UnleaseKeeps ==
    ASSUME CallInv, NEW r \in Runs, Unlease(r)
    PROVE  CallInv'
<1>1. /\ UNCHANGED <<call, raw, normalized, todo, queue, task, crashes>>
      /\ leased' = leased \ {r} /\ caller \in [Callers -> Caller]
      /\ lapses \in 0..MaxLapses
  BY DEF Unlease, CallInv, CallTypeOK
<1>2. BudgetHeld' /\ EvidenceIsCounted' /\ RowsInOrder'
  BY <1>1, BooksStay
<1>3. CASE Running(r) = {} /\ UNCHANGED <<caller, lapses>>
  <2>1. CallTypeOK'
    BY <1>1, <1>3 DEF CallInv, CallTypeOK
  <2>2. CallersKnow'
    BY <1>1, <1>3 DEF CallInv, CallersKnow, Knows, Owns, Out, At
  <2>3. OwnersApart'
    BY <1>3 DEF CallInv, OwnersApart, Owns, Out
  <2>4. HoldsKept'
    BY <1>1, <1>3 DEF CallInv, HoldsKept, Held, Out, Running
  <2>5. LeasesKept'
    BY <1>1, <1>3 DEF CallInv, LeasesKept, NobodyFrozen, CallersApart, NothingToReplay,
                      Looked, Out, OneAnswer
  <2> QED  BY <1>2, <2>1, <2>2, <2>3, <2>4, <2>5 DEF CallInv
<1>4. CASE /\ lapses < MaxLapses /\ lapses' = lapses + 1
           /\ \A c \in Running(r) : caller[c].call # 0 => ~call[caller[c].call].due
           /\ caller' = [c \in Callers |-> IF c \in Running(r)
                                             THEN [caller[c] EXCEPT !.stale = TRUE]
                                             ELSE caller[c]]
  <2>1. ASSUME NEW c \in Callers
        PROVE  /\ caller'[c] \in Caller
               /\ caller'[c].pc = caller[c].pc /\ caller'[c].stage = caller[c].stage
               /\ caller'[c].call = caller[c].call /\ caller'[c].price = caller[c].price
               /\ c \in Running(r) => caller'[c].stale
               /\ c \notin Running(r) => caller'[c].stale = caller[c].stale
    <3>1. caller[c] \in Caller
      BY <1>1
    <3>2. caller'[c] = IF c \in Running(r) THEN [caller[c] EXCEPT !.stale = TRUE] ELSE caller[c]
      BY <1>4
    <3> QED  BY <3>1, <3>2 DEF Caller
  <2>2. CallTypeOK'
    <3>1. lapses' \in 0..MaxLapses
      BY <1>1, <1>4, CallAssumption DEF CallAssumption
    <3>2. caller' \in [Callers -> Caller]
      BY <1>4, <2>1
    <3> QED  BY <1>1, <3>1, <3>2 DEF CallInv, CallTypeOK
  <2>3. CallersKnow'
    BY <1>1, <2>1 DEF CallInv, CallersKnow, Knows, Owns, Out, At
  <2>4. OwnersApart'
    BY <2>1 DEF CallInv, OwnersApart, Owns, Out
  <2>5. ASSUME NEW c \in Callers
        PROVE  Held(c)'
    <3>1. Held(c) /\ Knows(c)
      BY DEF CallInv, HoldsKept, CallersKnow
    <3>2. caller[c].pc # "idle" /\ ~caller'[c].stale => RunOf[caller[c].stage] \in leased'
      BY <1>1, <2>1, <3>1 DEF Held, Running
    <3>3. Out(c) => caller[c].call # 0
      BY <3>1 DEF Knows, Owns, Calls
    <3>4. Out(c) /\ caller'[c].stale => ~call[caller[c].call].due
      BY <1>4, <2>1, <3>1, <3>3 DEF Held
    <3> QED  BY <1>1, <2>1, <3>1, <3>2, <3>4 DEF Held, Out
  <2>6. LeasesKept'
    BY <1>1, <1>4 DEF LeasesKept
  <2> QED  BY <1>2, <2>2, <2>3, <2>4, <2>5, <2>6 DEF CallInv, HoldsKept
<1> QED  BY <1>3, <1>4 DEF Unlease

\* A hold runs out; only its row is touched.
LEMMA ExpireKeeps ==
    ASSUME CallInv, NEW k \in Calls, Expire(k)
    PROVE  CallInv'
<1>1. /\ UNCHANGED <<raw, normalized, caller, leased, todo, queue, task, lapses, crashes>>
      /\ call \in [Calls -> Call] /\ Open(k) /\ call' = [call EXCEPT ![k].due = TRUE]
      /\ \A c \in Callers : caller[c].call = k => ~caller[c].stale
  BY DEF Expire, HoldExpires, CallInv, CallTypeOK
<1> DEFINE row == [call[k] EXCEPT !.due = TRUE]
<1>2. /\ row \in Call /\ row.status = call[k].status /\ row.stage = call[k].stage
      /\ row.amount = call[k].amount
  BY <1>1 DEF Call
<1>3. call' = [call EXCEPT ![k] = row]
  BY <1>1
<1> HIDE DEF row
<1>4. call' \in [Calls -> Call] /\ call'[k] = row /\ \A l \in Calls \ {k} : call'[l] = call[l]
  BY <1>1, <1>2, <1>3
<1>5. \A l \in Calls : /\ call'[l].status = call[l].status /\ call'[l].stage = call[l].stage
                       /\ call'[l].amount = call[l].amount
  BY <1>2, <1>4
<1>6. Rewrites(k) /\ call[k].status \notin {"absent", "released"}
  BY <1>1, <1>4, <1>5 DEF Rewrites, Open
<1>7. StagesStay /\ BudgetHeld' /\ EvidenceIsCounted' /\ RowsInOrder'
  <2>1. call[k].amount \in Nat
    BY <1>1, RowsAreCounted
  <2>2. Share(call', Counted', k) <= Share(call, Counted, k)
    BY <1>5, <2>1 DEF Share, Counted
  <2>3. /\ raw[k] # None => call'[k].status # "released"
        /\ raw[k] \in Prices => raw[k] <= call'[k].amount
    BY <1>5, <1>6 DEF CallInv, RowsInOrder
  <2> QED  BY <1>1, <1>6, <2>2, <2>3, BooksKept
<1>8. CallTypeOK'
  BY <1>1, <1>4 DEF CallInv, CallTypeOK
<1>9. CallersKnow'
  BY <1>1, <1>5 DEF CallInv, CallersKnow, Knows, Owns, Out, At
<1>10. OwnersApart'
  BY <1>1 DEF CallInv, OwnersApart, Owns, Out
<1>11. HoldsKept'
  BY <1>1, <1>4 DEF CallInv, HoldsKept, Held, Out, CallersKnow, Knows, Owns
<1>12. LeasesKept'
  BY <1>1, <1>5 DEF CallInv, LeasesKept, NobodyFrozen, CallersApart, NothingToReplay, Looked,
                    Out, OneAnswer
<1> QED  BY <1>7, <1>8, <1>9, <1>10, <1>11, <1>12 DEF CallInv

\* The sweep reads the rows past their hold: none that a request is out for.
LEMMA SweepReads ==
    ASSUME CallInv, Sweep
    PROVE  CallInv'
<1>1. /\ UNCHANGED <<call, raw, normalized, caller, leased, queue, task, lapses, crashes>>
      /\ todo' = {k \in Calls : Open(k) /\ call[k].due /\ RunOf[call[k].stage] \notin leased}
  BY DEF Sweep
<1>2. CallTypeOK'
  BY <1>1 DEF CallInv, CallTypeOK
<1>3. EvidenceIsCounted' /\ RowsInOrder'
  BY <1>1 DEF CallInv, EvidenceIsCounted, Counted, RowsInOrder, Open
<1>4. BudgetHeld'
  <2>1. Counted' = Counted /\ \A r \in Runs : CountedFor(r)' = CountedFor(r)
    BY <1>1 DEF Counted, CountedFor
  <2> QED  BY <1>1, <2>1, BudgetAsTotals DEF CallInv
<1>5. CallersKnow'
  BY <1>1 DEF CallInv, CallersKnow, Knows, Owns, Out, At
<1>6. OwnersApart'
  BY <1>1 DEF CallInv, OwnersApart, Owns, Out
<1>7. ASSUME NEW c \in Callers
      PROVE  Held(c)'
  <2>1. Held(c) /\ Knows(c)
    BY DEF CallInv, HoldsKept, CallersKnow
  <2>2. Out(c) => caller[c].pc # "idle" /\ call[caller[c].call].stage = caller[c].stage
    BY <2>1 DEF Knows, Owns, Out
  <2>3. Out(c) => caller[c].call \notin todo'
    BY <1>1, <2>1, <2>2 DEF Held
  <2> QED  BY <1>1, <2>1, <2>3 DEF Held, Out
<1>8. LeasesKept'
  BY <1>1 DEF CallInv, LeasesKept, NobodyFrozen, CallersApart, NothingToReplay, Looked, Out,
              OneAnswer
<1> QED  BY <1>2, <1>3, <1>4, <1>5, <1>6, <1>7, <1>8 DEF CallInv, HoldsKept

\* The sweep marks one of the rows it has read.
LEMMA SweepOneKeeps ==
    ASSUME CallInv, NEW k \in Calls, SweepOne(k)
    PROVE  CallInv'
<1>1. /\ UNCHANGED <<raw, normalized, caller, leased, queue, lapses, crashes>>
      /\ k \in todo /\ MarkUnknown(k, TRUE) /\ todo' \subseteq todo /\ queue' \subseteq queue
      /\ task \in [Calls -> {"absent", "queued", "finished"}]
      /\ \/ UNCHANGED task
         \/ task' = [task EXCEPT ![k] = IF @ = "absent" THEN "queued" ELSE @]
  BY DEF SweepOne, CallInv, CallTypeOK
<1>2. call[k].status # "absent"
  BY <1>1 DEF CallInv, RowsInOrder
<1>3. /\ call' \in [Calls -> Call] /\ StagesStay
      /\ BudgetHeld' /\ EvidenceIsCounted' /\ RowsInOrder'
      /\ \A l \in Calls \ {k} : call'[l] = call[l]
  BY <1>1, <1>2, MarkingKept
<1>4. \A d \in Callers : Spared(d)
  BY <1>1, <1>3 DEF Spared, CallInv, HoldsKept, Held, CallersKnow, Knows, Owns
<1>5. CallersKnow' /\ OwnersApart' /\ HoldsKept' /\ LeasesKept'
  BY <1>1, <1>3, <1>4, CallersStay
<1>6. task' \in [Calls -> {"absent", "queued", "finished"}]
  BY <1>1
<1>7. CallTypeOK'
  BY <1>1, <1>3, <1>6 DEF CallInv, CallTypeOK
<1> QED  BY <1>3, <1>5, <1>7 DEF CallInv

\* Reconciliation reads the unknown rows: none that a request is out for.
LEMMA ReconcileReads ==
    ASSUME CallInv, Reconcile
    PROVE  CallInv'
<1>1. /\ UNCHANGED <<call, raw, normalized, caller, leased, todo, lapses, crashes>>
      /\ queue' = {k \in Calls : call[k].status = "unknown" /\ call[k].due}
      /\ task \in [Calls -> {"absent", "queued", "finished"}]
      /\ UNCHANGED task \/ \E k \in Calls : task' = [task EXCEPT ![k] = "finished"]
  BY DEF Reconcile, CallInv, CallTypeOK
<1>2. CallTypeOK'
  BY <1>1 DEF CallInv, CallTypeOK
<1>3. EvidenceIsCounted' /\ RowsInOrder'
  BY <1>1 DEF CallInv, EvidenceIsCounted, Counted, RowsInOrder
<1>4. BudgetHeld'
  <2>1. Counted' = Counted /\ \A r \in Runs : CountedFor(r)' = CountedFor(r)
    BY <1>1 DEF Counted, CountedFor
  <2> QED  BY <1>1, <2>1, BudgetAsTotals DEF CallInv
<1>5. CallersKnow'
  BY <1>1 DEF CallInv, CallersKnow, Knows, Owns, Out, At
<1>6. OwnersApart'
  BY <1>1 DEF CallInv, OwnersApart, Owns, Out
<1>7. HoldsKept'
  BY <1>1 DEF CallInv, HoldsKept, Held, CallersKnow, Knows, Out
<1>8. LeasesKept'
  BY <1>1 DEF CallInv, LeasesKept, NobodyFrozen, CallersApart, NothingToReplay, Looked, Out,
              OneAnswer
<1> QED  BY <1>2, <1>3, <1>4, <1>5, <1>6, <1>7, <1>8 DEF CallInv

\* Reconciliation decides one of the rows it has read, by what is retained for it.
LEMMA ReconcileOneKeeps ==
    ASSUME CallInv, NEW k \in Calls, ReconcileOne(k)
    PROVE  CallInv'
<1>1. /\ UNCHANGED <<raw, normalized, caller, leased, todo, task, lapses, crashes>>
      /\ k \in queue /\ todo' \subseteq todo /\ queue' \subseteq queue
      /\ call \in [Calls -> Call] /\ call[k].status # "absent"
  BY DEF ReconcileOne, CallInv, CallTypeOK, RowsInOrder
<1>2. /\ call' \in [Calls -> Call] /\ StagesStay
      /\ BudgetHeld' /\ EvidenceIsCounted' /\ RowsInOrder'
      /\ \A l \in Calls \ {k} : call'[l] = call[l]
  <2>1. CASE raw[k] = None /\ Release(k)
    BY <1>1, <2>1, ReleaseKept
  <2>2. CASE raw[k] \in Prices /\ Settle(k, raw[k])
    <3>1. /\ raw[k] \in Charges /\ raw[k] # None /\ raw[k] <= raw[k]
          /\ k \in Counted /\ raw[k] <= call[k].amount
      BY <2>2, LedgerAssumption
         DEF LedgerAssumption, CallInv, EvidenceIsCounted, RowsInOrder, Prices, Charges
    <3> QED  BY <1>1, <2>2, <3>1, SettlementKept
  <2>3. CASE raw[k] = Unpriced /\ Settle(k, call[k].amount)
    <3>1. Unpriced # None /\ Unpriced \notin Prices
      BY CallAssumption DEF CallAssumption, Prices
    <3>2. /\ call[k].amount \in Charges /\ call[k].amount <= call[k].amount /\ k \in Counted
      BY <1>1, <2>3, <3>1, RowsAreCounted
         DEF CallInv, EvidenceIsCounted, Charges, Call
    <3> QED  BY <1>1, <2>3, <3>1, <3>2, SettlementKept
  <2>4. CASE raw[k] = Pending /\ UNCHANGED call
    <3>1. EvidenceIsCounted' /\ RowsInOrder'
      BY <1>1, <2>4 DEF CallInv, EvidenceIsCounted, Counted, RowsInOrder
    <3>2. BudgetHeld'
      <4>1. Counted' = Counted /\ \A r \in Runs : CountedFor(r)' = CountedFor(r)
        BY <2>4 DEF Counted, CountedFor
      <4> QED  BY <2>4, <4>1, BudgetAsTotals DEF CallInv
    <3> QED  BY <1>1, <2>4, <3>1, <3>2 DEF StagesStay
  <2> QED  BY <2>1, <2>2, <2>3, <2>4 DEF ReconcileOne
<1>3. \A d \in Callers : Spared(d)
  BY <1>1, <1>2 DEF Spared, CallInv, HoldsKept, Held, CallersKnow, Knows, Owns
<1>4. CallersKnow' /\ OwnersApart' /\ HoldsKept' /\ LeasesKept'
  BY <1>1, <1>2, <1>3, CallersStay
<1>5. CallTypeOK'
  BY <1>1, <1>2 DEF CallInv, CallTypeOK
<1> QED  BY <1>2, <1>4, <1>5 DEF CallInv

\* A step that changes nothing.
LEMMA CallStutters ==
    ASSUME CallInv, UNCHANGED vars
    PROVE  CallInv'
<1> USE DEF vars
<1>1. StagesStay /\ \A d \in Callers : Spared(d)
  BY WritesNothing
<1>2. CallersKnow' /\ OwnersApart' /\ HoldsKept' /\ LeasesKept'
  BY <1>1, CallersStay
<1>3. BudgetHeld' /\ EvidenceIsCounted' /\ RowsInOrder'
  BY BooksStay
<1>4. CallTypeOK'
  BY DEF CallInv, CallTypeOK
<1> QED  BY <1>2, <1>3, <1>4 DEF CallInv

\* The invariant is inductive.
LEMMA CallInvKept == CallInv /\ [Next]_vars => CallInv'
<1> SUFFICES ASSUME CallInv, [Next]_vars PROVE CallInv'
  OBVIOUS
<1>1. ASSUME NEW c \in Callers, CallerStep(c)
      PROVE  CallInv'
  BY <1>1, BeginKeeps, LookKeeps, ReplayKeeps, SendKeeps, RefuseKeeps, AnswerKeeps, RetainKeeps,
     SettleCallKeeps, MarkKeeps, GiveBackKeeps, CrashKeeps DEF CallerStep
<1>2. ASSUME NEW k \in Calls, Expire(k) \/ SweepOne(k) \/ ReconcileOne(k)
      PROVE  CallInv'
  BY <1>2, ExpireKeeps, SweepOneKeeps, ReconcileOneKeeps
<1>3. ASSUME NEW r \in Runs, Lease(r) \/ Unlease(r)
      PROVE  CallInv'
  BY <1>3, LeaseKeeps, UnleaseKeeps
<1>4. CASE Sweep \/ Reconcile
  BY <1>4, SweepReads, ReconcileReads
<1>5. CASE UNCHANGED vars
  BY <1>5, CallStutters
<1> QED  BY <1>1, <1>2, <1>3, <1>4, <1>5 DEF Next

-----------------------------------------------------------------------------
(* What follows of every behaviour.                                        *)

\* The invariant of the proof.
LEMMA CallsInvariant == Spec => []CallInv
BY CallInitially, CallInvKept, PTL DEF Spec

\* Every variable has its type.
THEOREM CallTypeCorrect == Spec => []CallTypeOK
<1>1. CallInv => CallTypeOK
  BY DEF CallInv
<1> QED  BY <1>1, CallsInvariant, PTL

\* The sweep and reconciliation never decide a row whose request is still out.
THEOREM HoldIsKept == Spec => []CallKeepsHold
<1>1. CallInv => CallKeepsHold
  BY DEF CallInv, CallersKnow, Knows, Out, CallKeepsHold
<1> QED  BY <1>1, CallsInvariant, PTL

\* reserve, settle and release never let the spending pass a cap: for every
\* number of rows, and whatever order the prices come in.
THEOREM BudgetIsHeld == Spec => []BudgetHeld
<1>1. CallInv => BudgetHeld
  BY DEF CallInv
<1> QED  BY <1>1, CallsInvariant, PTL

\* A retained response keeps its attempt in the books for ever.
THEOREM EvidenceStays == Spec => []EvidenceIsCounted
<1>1. CallInv => EvidenceIsCounted
  BY DEF CallInv
<1> QED  BY <1>1, CallsInvariant, PTL

\* No second replayable answer is bought for a stage whose callers kept their leases.
THEOREM NoAnswerBoughtAgain == Spec => []NoSecondAnswer
<1>1. CallInv => NoSecondAnswer
  <2> SUFFICES ASSUME CallInv, lapses = 0, NEW s \in Stages
               PROVE  Cardinality(normalized \cap Attempts(s)) <= 1
    BY DEF NoSecondAnswer
  <2> DEFINE S == normalized \cap Attempts(s)
  <2>1. \A j, k \in S : j = k
    BY DEF CallInv, LeasesKept, OneAnswer, Attempts
  <2>2. S = {} \/ \E k : S = {k}
    BY <2>1
  <2>3. S = {} => Cardinality(S) = 0
    BY FS_EmptySet
  <2>4. \A k : S = {k} => Cardinality(S) = 1
    BY FS_Singleton
  <2> HIDE DEF S
  <2> QED  BY <2>2, <2>3, <2>4 DEF S
<1> QED  BY <1>1, CallsInvariant, PTL
=============================================================================
