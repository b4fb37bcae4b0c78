---------------------------- MODULE Ledger_proofs ----------------------------
(***************************************************************************)
(* What the operations of the call ledger keep, for any number of rows,    *)
(* stages and any amounts.                                                 *)
(***************************************************************************)
EXTENDS Ledger, FiniteSetTheorems, TLAPS

Charges == (0..Estimate) \cup {None}

\* The ledger is well formed, no row disappears and no row of a set leaves
\* the books.
KeepsBooks(S) ==
    /\ call' \in [Calls -> Call]
    /\ \A k \in Calls : call'[k].status = "absent" => call[k].status = "absent"
    /\ \A k \in S : k \in Counted => k \in Counted'

\* A step that writes one row and neither drops nor releases it.
LEMMA RowWritten ==
    ASSUME call \in [Calls -> Call], NEW k \in Calls,
           NEW row \in Call, row.status \notin {"absent", "released"},
           call' = [call EXCEPT ![k] = row]
    PROVE  KeepsBooks(Calls)
BY DEF KeepsBooks, Counted

\* A reservation writes a row that nobody had.
LEMMA ReserveKeeps ==
    ASSUME call \in [Calls -> Call], NEW k \in Calls, NEW s \in Stages \cup {None},
           Reserve(k, s)
    PROVE  KeepsBooks(Calls)
<1> DEFINE row == [status |-> "reserved", stage |-> s, amount |-> Estimate, due |-> FALSE]
<1>1. row \in Call
  BY LedgerAssumption DEF LedgerAssumption, Call, CallStatus
<1>2. call' = [call EXCEPT ![k] = row]
  BY DEF Reserve
<1> QED  BY <1>1, <1>2, RowWritten

\* Settling leaves the row counted, with a price or without, or fails on the index.
LEMMA SettleKeeps ==
    ASSUME call \in [Calls -> Call], NEW k \in Calls, NEW price \in Charges,
           Settle(k, price)
    PROVE  KeepsBooks(Calls)
<1>1. CASE price = None /\ Conflicts(k)
  BY <1>1 DEF Settle, KeepsBooks, Counted
<1>2. CASE price = None /\ ~Conflicts(k)
  <2> DEFINE row == [call[k] EXCEPT !.status = "reserved"]
  <2>1. row \in Call /\ row.status = "reserved"
    BY DEF Call, CallStatus
  <2>2. call' = [call EXCEPT ![k] = row]
    BY <1>2 DEF Settle
  <2> QED  BY <2>1, <2>2, RowWritten
<1>3. CASE price # None
  <2> DEFINE row == [call[k] EXCEPT !.status = "completed", !.amount = price]
  <2>1. row \in Call /\ row.status = "completed"
    BY <1>3 DEF Call, CallStatus, Charges
  <2>2. call' = [call EXCEPT ![k] = row]
    BY <1>3 DEF Settle
  <2> QED  BY <2>1, <2>2, RowWritten
<1> QED  BY <1>1, <1>2, <1>3

\* A row of unknown outcome stays counted.
LEMMA MarkUnknownKeeps ==
    ASSUME call \in [Calls -> Call], NEW k \in Calls, NEW due \in BOOLEAN,
           MarkUnknown(k, due)
    PROVE  KeepsBooks(Calls)
<1>1. CASE Conflicts(k)
  BY <1>1 DEF MarkUnknown, KeepsBooks, Counted
<1>2. CASE ~Conflicts(k)
  <2> DEFINE row == [call[k] EXCEPT !.status = "unknown", !.due = due]
  <2>1. row \in Call /\ row.status = "unknown"
    BY DEF Call, CallStatus
  <2>2. call' = [call EXCEPT ![k] = row]
    BY <1>2 DEF MarkUnknown
  <2> QED  BY <2>1, <2>2, RowWritten
<1> QED  BY <1>1, <1>2

\* Only the row that is given back leaves the books.
LEMMA ReleaseKeeps ==
    ASSUME call \in [Calls -> Call], NEW k \in Calls, Release(k)
    PROVE  KeepsBooks(Calls \ {k})
<1> DEFINE row == [call[k] EXCEPT !.status = "released", !.amount = 0]
<1>1. row \in Call /\ row.status = "released"
  <2>1. 0 \in 0..Estimate
    BY LedgerAssumption DEF LedgerAssumption
  <2>2. call[k] \in Call
    OBVIOUS
  <2> QED  BY <2>1, <2>2 DEF Call, CallStatus
<1>2. call' = [call EXCEPT ![k] = row]
  BY DEF Release
<1> HIDE DEF row
<1> QED  BY <1>1, <1>2 DEF KeepsBooks, Counted

-----------------------------------------------------------------------------
(* What the operations of the ledger do to one row.                        *)

\* A step that writes one row, of a stage already, and gives back all of it or nothing.
Rewrites(k) ==
    /\ call' \in [Calls -> Call]
    /\ \A l \in Calls \ {k} : call'[l] = call[l]
    /\ call'[k].stage = call[k].stage
    /\ call'[k].status # "absent"
    /\ call'[k].status = "released" => call'[k].amount = 0

\* Settling completes the row at its price; without one the amount stays.
LEMMA SettleRewrites ==
    ASSUME call \in [Calls -> Call], NEW k \in Calls, NEW price \in Charges,
           call[k].status # "absent",
           call[k].status = "released" => call[k].amount = 0,
           Settle(k, price)
    PROVE  /\ Rewrites(k)
           /\ price = None => call'[k].amount = call[k].amount
           /\ price = None => call'[k].status \in {call[k].status, "reserved"}
           /\ price # None => call'[k].amount = price /\ call'[k].status = "completed"
<1>1. CASE price = None /\ Conflicts(k)
  BY <1>1 DEF Settle, Rewrites
<1>2. CASE price = None /\ ~Conflicts(k)
  <2> DEFINE row == [call[k] EXCEPT !.status = "reserved"]
  <2>1. /\ row \in Call /\ row.status = "reserved"
        /\ row.amount = call[k].amount /\ row.stage = call[k].stage
    BY DEF Call, CallStatus
  <2>2. call' = [call EXCEPT ![k] = row]
    BY <1>2 DEF Settle
  <2> HIDE DEF row
  <2> QED  BY <1>2, <2>1, <2>2 DEF Rewrites
<1>3. CASE price # None
  <2> DEFINE row == [call[k] EXCEPT !.status = "completed", !.amount = price]
  <2>1. /\ row \in Call /\ row.status = "completed"
        /\ row.amount = price /\ row.stage = call[k].stage
    BY <1>3 DEF Call, CallStatus, Charges
  <2>2. call' = [call EXCEPT ![k] = row]
    BY <1>3 DEF Settle
  <2> HIDE DEF row
  <2> QED  BY <1>3, <2>1, <2>2 DEF Rewrites
<1> QED  BY <1>1, <1>2, <1>3

\* Marking leaves the amount.
LEMMA MarkRewrites ==
    ASSUME call \in [Calls -> Call], NEW k \in Calls, NEW due \in BOOLEAN,
           call[k].status # "absent",
           call[k].status = "released" => call[k].amount = 0,
           MarkUnknown(k, due)
    PROVE  /\ Rewrites(k)
           /\ call'[k].amount = call[k].amount
           /\ call'[k].status \in {call[k].status, "unknown"}
<1>1. CASE Conflicts(k)
  BY <1>1 DEF MarkUnknown, Rewrites
<1>2. CASE ~Conflicts(k)
  <2> DEFINE row == [call[k] EXCEPT !.status = "unknown", !.due = due]
  <2>1. /\ row \in Call /\ row.status = "unknown"
        /\ row.amount = call[k].amount /\ row.stage = call[k].stage
    BY DEF Call, CallStatus
  <2>2. call' = [call EXCEPT ![k] = row]
    BY <1>2 DEF MarkUnknown
  <2> HIDE DEF row
  <2> QED  BY <2>1, <2>2 DEF Rewrites
<1> QED  BY <1>1, <1>2

\* A release takes the row out of the books.
LEMMA ReleaseRewrites ==
    ASSUME call \in [Calls -> Call], NEW k \in Calls, Release(k)
    PROVE  Rewrites(k) /\ call'[k].status = "released" /\ call'[k].amount = 0
<1> DEFINE row == [call[k] EXCEPT !.status = "released", !.amount = 0]
<1>1. 0 \in 0..Estimate
  BY LedgerAssumption DEF LedgerAssumption
<1>2. /\ row \in Call /\ row.status = "released"
      /\ row.amount = 0 /\ row.stage = call[k].stage
  BY <1>1 DEF Call, CallStatus
<1>3. call' = [call EXCEPT ![k] = row]
  BY DEF Release
<1> HIDE DEF row
<1> QED  BY <1>2, <1>3 DEF Rewrites

-----------------------------------------------------------------------------
(* What is spent.  Spent is a fold, and a fold is a function that is        *)
(* defined by recursion over the subsets of a set; these lemmas show that   *)
(* there is such a function, and that it adds up in any order.              *)

Pick(s) == CHOOSE x \in s : TRUE

SumsTo(g, rows, S) ==
    g = [s \in SUBSET S |-> IF s = {} THEN 0
                            ELSE rows[Pick(s)].amount + g[s \ {Pick(s)}]]

Total(rows, S) == (CHOOSE g : SumsTo(g, rows, S))[S]

\* What is spent on a set of rows is their total, now and after a step.
LEMMA SpentIsTotal == ASSUME NEW S PROVE Spent(S) = Total(call, S)
BY DEF Spent, MapThenSumSet, MapThenFoldSet, Total, SumsTo, Pick

LEMMA SpentIsTotalNext == ASSUME NEW S PROVE Spent(S)' = Total(call', S)
BY DEF Spent, MapThenSumSet, MapThenFoldSet, Total, SumsTo, Pick

\* Induction over the subsets of a finite set, for a set of subsets.
LEMMA SubsetInduction ==
    ASSUME NEW S, IsFiniteSet(S), NEW G,
           \A T \in SUBSET S : (\A U \in SUBSET T : U # T => U \in G) => T \in G
    PROVE  \A T \in SUBSET S : T \in G
<1> SUFFICES ASSUME (SUBSET S) \ G # {} PROVE FALSE
  OBVIOUS
<1>1. IsWellFoundedOn(StrictSubsetOrdering(S), SUBSET S)
  <2>1. FiniteSubsetsOf(S) = SUBSET S
    BY FS_FiniteSubsetsOfFinite
  <2>2. IsWellFoundedOn(StrictSubsetOrdering(S), FiniteSubsetsOf(S))
    BY FS_StrictSubsetOrderingWellFounded
  <2> QED BY <2>1, <2>2, Zenon
<1>2. PICK T \in (SUBSET S) \ G : \A U \in (SUBSET S) \ G : <<U, T>> \notin StrictSubsetOrdering(S)
  <2> DEFINE B == (SUBSET S) \ G
  <2>1. B \subseteq SUBSET S /\ B # {}
    OBVIOUS
  <2> HIDE DEF B
  <2>2. \E T \in B : \A U \in B : ~ (<<U, T>> \in StrictSubsetOrdering(S))
    BY <1>1, <2>1, WFMin
  <2> QED BY <2>2 DEF B
<1>3. ASSUME NEW U \in SUBSET T, U # T PROVE U \in G
  <2>1. <<U, T>> \in StrictSubsetOrdering(S) <=> U \subseteq T /\ U # T
    BY DEF StrictSubsetOrdering
  <2> QED BY <1>2, <1>3, <2>1
<1> QED BY <1>2, <1>3

\* A table of sums, cut down to the subsets of a smaller set, is one for that set.
LEMMA SumsRestrict ==
    ASSUME NEW rows, NEW S, NEW T \in SUBSET S, NEW g, SumsTo(g, rows, S)
    PROVE  SumsTo([s \in SUBSET T |-> g[s]], rows, T)
<1> DEFINE h == [s \in SUBSET T |-> g[s]]
<1>1. ASSUME NEW s \in SUBSET T, s # {}
      PROVE  h[s] = rows[Pick(s)].amount + h[s \ {Pick(s)}]
  <2>1. s \in SUBSET S /\ s \ {Pick(s)} \in SUBSET T
    OBVIOUS
  <2>2. g[s] = rows[Pick(s)].amount + g[s \ {Pick(s)}]
    BY <1>1, <2>1 DEF SumsTo
  <2> QED BY <2>1, <2>2
<1>2. {} \in SUBSET T => h[{}] = 0
  BY DEF SumsTo
<1>3. h = [s \in SUBSET T |-> h[s]]
  OBVIOUS
<1> HIDE DEF h
<1>4. SumsTo(h, rows, T)
  BY <1>1, <1>2, <1>3 DEF SumsTo
<1> QED BY <1>4 DEF h

\* There is one table of sums at most.
LEMMA SumsUnique ==
    ASSUME NEW rows, NEW S, IsFiniteSet(S), NEW g, NEW h,
           SumsTo(g, rows, S), SumsTo(h, rows, S)
    PROVE  g = h
<1> DEFINE G == {s \in SUBSET S : g[s] = h[s]}
<1>1. ASSUME NEW T \in SUBSET S, \A U \in SUBSET T : U # T => U \in G
      PROVE  T \in G
  <2>1. CASE T = {}
    BY <2>1 DEF SumsTo
  <2>2. CASE T # {}
    <3>1. Pick(T) \in T
      BY <2>2 DEF Pick
    <3>2. T \ {Pick(T)} \in SUBSET T /\ T \ {Pick(T)} # T
      BY <3>1
    <3>3. g[T \ {Pick(T)}] = h[T \ {Pick(T)}]
      BY <1>1, <3>2
    <3>4. g[T] = rows[Pick(T)].amount + g[T \ {Pick(T)}]
      BY <2>2 DEF SumsTo
    <3>5. h[T] = rows[Pick(T)].amount + h[T \ {Pick(T)}]
      BY <2>2 DEF SumsTo
    <3> QED BY <3>3, <3>4, <3>5
  <2> QED BY <2>1, <2>2
<1> HIDE DEF G
<1>2. \A T \in SUBSET S : T \in G
  BY <1>1, SubsetInduction
<1>3. \A T \in SUBSET S : g[T] = h[T]
  BY <1>2 DEF G
<1>4. g = [s \in SUBSET S |-> g[s]] /\ h = [s \in SUBSET S |-> h[s]]
  BY DEF SumsTo
<1> QED BY <1>3, <1>4

\* Where there is a table, the total is that of the others and the row taken out.
LEMMA TotalStep ==
    ASSUME NEW rows, NEW T, IsFiniteSet(T), \E g : SumsTo(g, rows, T)
    PROVE  Total(rows, T) = IF T = {} THEN 0
                            ELSE rows[Pick(T)].amount + Total(rows, T \ {Pick(T)})
<1> DEFINE g == CHOOSE f : SumsTo(f, rows, T)
           U == T \ {Pick(T)}
<1>1. SumsTo(g, rows, T) /\ Total(rows, T) = g[T]
  BY DEF Total
<1> HIDE DEF g
<1>2. g[T] = IF T = {} THEN 0 ELSE rows[Pick(T)].amount + g[U]
  BY <1>1 DEF SumsTo
<1>3. SumsTo([s \in SUBSET U |-> g[s]], rows, U)
  BY <1>1, SumsRestrict
<1>4. IsFiniteSet(U)
  BY FS_RemoveElement
<1> DEFINE h == CHOOSE f : SumsTo(f, rows, U)
<1>5. SumsTo(h, rows, U) /\ Total(rows, U) = h[U]
  BY <1>3 DEF Total
<1> HIDE DEF h
<1>6. h = [s \in SUBSET U |-> g[s]]
  BY <1>3, <1>4, <1>5, SumsUnique
<1>7. h[U] = g[U]
  BY <1>6
<1> QED BY <1>1, <1>2, <1>5, <1>7

\* Every finite set of rows has its table of sums.
LEMMA SumsExist ==
    ASSUME NEW rows, NEW S, IsFiniteSet(S)
    PROVE  \A T \in SUBSET S : \E g : SumsTo(g, rows, T)
<1> DEFINE G == {T \in SUBSET S : \E g : SumsTo(g, rows, T)}
<1>1. ASSUME NEW T \in SUBSET S, \A U \in SUBSET T : U # T => U \in G
      PROVE  T \in G
  <2> DEFINE g == [s \in SUBSET T |->
                     IF s = {} THEN 0
                     ELSE rows[Pick(s)].amount + Total(rows, s \ {Pick(s)})]
  <2>1. ASSUME NEW s \in SUBSET T, s # {}
        PROVE  g[s \ {Pick(s)}] = Total(rows, s \ {Pick(s)})
    <3> DEFINE u == s \ {Pick(s)}
    <3>1. Pick(s) \in s
      BY <2>1 DEF Pick
    <3>2. u \in SUBSET T /\ u # T
      BY <3>1
    <3>3. IsFiniteSet(u) /\ \E f : SumsTo(f, rows, u)
      BY <1>1, <3>2, FS_Subset
    <3>4. Total(rows, u) = IF u = {} THEN 0 ELSE rows[Pick(u)].amount + Total(rows, u \ {Pick(u)})
      BY <3>3, TotalStep
    <3> QED BY <3>2, <3>4
  <2>2. g = [s \in SUBSET T |-> IF s = {} THEN 0
                                ELSE rows[Pick(s)].amount + g[s \ {Pick(s)}]]
    BY <2>1
  <2> HIDE DEF g
  <2>3. SumsTo(g, rows, T)
    BY <2>2 DEF SumsTo
  <2> QED BY <2>3
<1> HIDE DEF G
<1>2. \A T \in SUBSET S : T \in G
  BY <1>1, SubsetInduction
<1> QED BY <1>2 DEF G

\* The equation that defines the total.
LEMMA TotalDef ==
    ASSUME NEW rows, NEW S, IsFiniteSet(S)
    PROVE  Total(rows, S) = IF S = {} THEN 0
                            ELSE rows[Pick(S)].amount + Total(rows, S \ {Pick(S)})
<1>1. \E g : SumsTo(g, rows, S)
  BY SumsExist
<1> QED BY <1>1, TotalStep

\* A total of amounts is an amount.
LEMMA TotalNat ==
    ASSUME NEW rows, NEW S, IsFiniteSet(S), \A k \in S : rows[k].amount \in Nat
    PROVE  \A T \in SUBSET S : Total(rows, T) \in Nat
<1> DEFINE G == {T \in SUBSET S : Total(rows, T) \in Nat}
<1>1. ASSUME NEW T \in SUBSET S, \A U \in SUBSET T : U # T => U \in G
      PROVE  T \in G
  <2>1. IsFiniteSet(T)
    BY FS_Subset
  <2>2. CASE T = {}
    <3>1. Total(rows, T) = 0
      BY <2>1, <2>2, TotalDef
    <3> QED BY <3>1
  <2>3. CASE T # {}
    <3>1. Pick(T) \in T
      BY <2>3 DEF Pick
    <3>2. T \ {Pick(T)} \in SUBSET T /\ T \ {Pick(T)} # T
      BY <3>1
    <3>3. Total(rows, T \ {Pick(T)}) \in Nat
      BY <1>1, <3>2
    <3>4. Total(rows, T) = rows[Pick(T)].amount + Total(rows, T \ {Pick(T)})
      BY <2>1, <2>3, TotalDef
    <3> QED BY <3>1, <3>3, <3>4
  <2> QED BY <2>2, <2>3
<1> HIDE DEF G
<1>2. \A T \in SUBSET S : T \in G
  BY <1>1, SubsetInduction
<1> QED BY <1>2 DEF G

\* Whichever row is taken out first, the total is the same.
LEMMA TakeOut ==
    ASSUME NEW rows, NEW S, IsFiniteSet(S), \A k \in S : rows[k].amount \in Nat
    PROVE  \A T \in SUBSET S : \A k \in T : Total(rows, T) = rows[k].amount + Total(rows, T \ {k})
<1> DEFINE G == {T \in SUBSET S : \A k \in T : Total(rows, T) = rows[k].amount + Total(rows, T \ {k})}
<1>1. ASSUME NEW T \in SUBSET S, \A U \in SUBSET T : U # T => U \in G
      PROVE  T \in G
  <2> SUFFICES ASSUME NEW k \in T
               PROVE  Total(rows, T) = rows[k].amount + Total(rows, T \ {k})
    OBVIOUS
  <2> DEFINE x == Pick(T)
  <2>1. x \in T /\ IsFiniteSet(T)
    BY FS_Subset DEF Pick
  <2>2. Total(rows, T) = rows[x].amount + Total(rows, T \ {x})
    BY <2>1, TotalDef
  <2>3. CASE x # k
    <3> HIDE DEF x
    <3>1. Total(rows, T \ {x}) = rows[k].amount + Total(rows, (T \ {x}) \ {k})
      <4>1. T \ {x} \in G
        BY <1>1, <2>1
      <4> QED BY <2>3, <4>1
    <3>2. Total(rows, T \ {k}) = rows[x].amount + Total(rows, (T \ {k}) \ {x})
      <4>1. T \ {k} \in G
        BY <1>1
      <4> QED BY <2>1, <2>3, <4>1
    <3>3. (T \ {x}) \ {k} = (T \ {k}) \ {x}
      OBVIOUS
    <3>4. Total(rows, (T \ {x}) \ {k}) \in Nat
      BY TotalNat
    <3>5. rows[x].amount \in Nat /\ rows[k].amount \in Nat
      BY <2>1
    <3>6. \A a, b, rest \in Nat : a + (b + rest) = b + (a + rest)
      OBVIOUS
    <3> DEFINE rest == Total(rows, (T \ {x}) \ {k})
               a == rows[x].amount
               b == rows[k].amount
    <3>7. Total(rows, T) = a + (b + rest) /\ Total(rows, T \ {k}) = a + rest
      BY <2>2, <3>1, <3>2, <3>3
    <3>8. a + (b + rest) = b + (a + rest)
      BY <3>4, <3>5, <3>6
    <3> QED BY <3>7, <3>8, Zenon
  <2> QED BY <2>2, <2>3
<1> HIDE DEF G
<1>2. \A T \in SUBSET S : T \in G
  BY <1>1, SubsetInduction
<1> QED BY <1>2 DEF G

\* The total depends on nothing but the amounts of the rows.
LEMMA SameTotal ==
    ASSUME NEW rows, NEW other, NEW S, IsFiniteSet(S),
           \A k \in S : rows[k].amount = other[k].amount
    PROVE  \A T \in SUBSET S : Total(rows, T) = Total(other, T)
<1> DEFINE G == {T \in SUBSET S : Total(rows, T) = Total(other, T)}
<1>1. ASSUME NEW T \in SUBSET S, \A U \in SUBSET T : U # T => U \in G
      PROVE  T \in G
  <2>1. IsFiniteSet(T)
    BY FS_Subset
  <2>2. CASE T = {}
    BY <2>1, <2>2, TotalDef
  <2>3. CASE T # {}
    <3>1. Pick(T) \in T
      BY <2>3 DEF Pick
    <3>2. Total(rows, T \ {Pick(T)}) = Total(other, T \ {Pick(T)})
      BY <1>1, <3>1
    <3>3. Total(rows, T) = rows[Pick(T)].amount + Total(rows, T \ {Pick(T)})
      BY <2>1, <2>3, TotalDef
    <3>4. Total(other, T) = other[Pick(T)].amount + Total(other, T \ {Pick(T)})
      BY <2>1, <2>3, TotalDef
    <3> QED BY <3>1, <3>2, <3>3, <3>4
  <2> QED BY <2>2, <2>3
<1> HIDE DEF G
<1>2. \A T \in SUBSET S : T \in G
  BY <1>1, SubsetInduction
<1> QED BY <1>2 DEF G

\* What one row adds to a set of rows.
Share(rows, S, k) == IF k \in S THEN rows[k].amount ELSE 0

\* When one row changes, or enters or leaves the set, the total changes by its share.
LEMMA OneRow ==
    ASSUME NEW rows, NEW other, NEW k, NEW S, NEW T, IsFiniteSet(S), IsFiniteSet(T),
           S \ {k} = T \ {k},
           \A l \in S \cup T : rows[l].amount \in Nat /\ other[l].amount \in Nat,
           \A l \in S \ {k} : other[l] = rows[l]
    PROVE  /\ Total(rows, S) \in Nat /\ Total(other, T) \in Nat
           /\ Total(other, T) + Share(rows, S, k) = Total(rows, S) + Share(other, T, k)
<1> DEFINE U == S \ {k}
<1>1. IsFiniteSet(U) /\ U \in SUBSET S /\ U \in SUBSET T
  BY FS_Subset
<1>2. Total(rows, S) \in Nat /\ Total(rows, U) \in Nat
  BY <1>1, TotalNat
<1>3. Total(other, T) \in Nat
  BY TotalNat
<1>4. Total(rows, U) = Total(other, U)
  BY <1>1, SameTotal
<1>5. Total(rows, S) = Share(rows, S, k) + Total(rows, U)
  <2>1. CASE k \in S
    BY <2>1, TakeOut DEF Share
  <2>2. CASE k \notin S
    <3>1. U = S
      BY <2>2
    <3>2. Total(rows, U) = Total(rows, S)
      BY <3>1
    <3>3. Share(rows, S, k) = 0
      BY <2>2 DEF Share
    <3> HIDE DEF U
    <3> QED BY <1>2, <3>2, <3>3
  <2> QED BY <2>1, <2>2
<1>6. Total(other, T) = Share(other, T, k) + Total(other, U)
  <2>1. CASE k \in T
    <3>1. Total(other, T) = other[k].amount + Total(other, T \ {k})
      BY <2>1, TakeOut
    <3> QED BY <2>1, <3>1 DEF Share
  <2>2. CASE k \notin T
    <3>1. U = T
      BY <2>2
    <3>2. Total(other, U) = Total(other, T)
      BY <3>1
    <3>3. Share(other, T, k) = 0
      BY <2>2 DEF Share
    <3> HIDE DEF U
    <3> QED BY <1>3, <3>2, <3>3
  <2> QED BY <2>1, <2>2
<1>7. Share(rows, S, k) \in Nat /\ Share(other, T, k) \in Nat
  BY DEF Share
<1> HIDE DEF U
<1> QED BY <1>2, <1>3, <1>4, <1>5, <1>6, <1>7
=============================================================================
