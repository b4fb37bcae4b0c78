-------------------------- MODULE Services_proofs --------------------------
(***************************************************************************)
(* What holds of the services beside the analysis: of one published claim  *)
(* for any number of publishers and ranges of evidence, of the monitoring  *)
(* of any number of channels and uploads, of the digests of any number of  *)
(* days whatever their sweeps and webhooks, and, with the captions of      *)
(* CaptionAttempts_proofs, of all of them side by side.                    *)
(***************************************************************************)
EXTENDS MCServices, CaptionAttempts_proofs, FiniteSetTheorems, WellFoundedInduction

-----------------------------------------------------------------------------
(* A published claim.                                                      *)

\* A publisher has a copy of the claim while it writes one, and writes ranges
\* that the copy cites.
CopiesInHand ==
    \A p \in Publishers :
      /\ publisher[p].pc \in {"reviews", "claim", "spans", "trim"} =>
           publisher[p].copy \in ClaimCopy
      /\ publisher[p].pc = "idle" => publisher[p].next = 1
      /\ publisher[p].pc \in {"reviews", "claim", "spans"} =>
           publisher[p].next <= publisher[p].copy.cites

ClaimInv == ClaimTypeOK /\ CopiesInHand /\ VerdictStands

-----------------------------------------------------------------------------
(* The statement that writes the row.                                      *)

\* The row that is written is well formed.
LEMMA MergedType ==
    ASSUME NEW row \in ClaimRow \cup {Unclaimed}, NEW level \in 0..3, NEW agreed \in BOOLEAN,
           NEW digest \in Digest, NEW verdict \in LastVerdict
    PROVE  /\ Merged(row, level, agreed, digest, verdict) \in ClaimRow \cup {Unclaimed}
           /\ Merged(row, level, agreed, digest, verdict).digest = digest
  BY DEF Merged, ClaimRow

\* A writer that claims L3 only for a verified digest leaves a row that agrees
\* with the verdict.
LEMMA MergedStands ==
    ASSUME NEW row \in ClaimRow \cup {Unclaimed}, NEW level \in 0..3, NEW agreed \in BOOLEAN,
           NEW digest \in Digest, NEW verdict \in LastVerdict,
           level = 3 => verdict = "verified"
    PROVE  LET new == Merged(row, level, agreed, digest, verdict)
           IN  /\ new.level = 3 => verdict = "verified"
               /\ verdict = "rejected" => new.level = 0 /\ new.verdict = "rejected"
  BY DEF Merged, ClaimRow

\* A row of the same evidence keeps its level, unless the verdict is a rejection
\* or the row claims a signature that is not the last word.
LEMMA MergedKeeps ==
    ASSUME NEW row \in ClaimRow, NEW level \in 0..3, NEW agreed \in BOOLEAN,
           NEW digest \in Digest, NEW verdict \in LastVerdict,
           row.digest = digest,
           row.level = 3 => verdict \in {"verified", "rejected"}
    PROVE  LET new == Merged(row, level, agreed, digest, verdict)
           IN  new.level >= row.level \/ new.verdict = "rejected"
  BY UnclaimedAssumption DEF Merged, ClaimRow

\* Only a verified digest is worth L3.
LEMMA LevelType ==
    ASSUME NEW agreed \in BOOLEAN, NEW verdict \in LastVerdict
    PROVE  /\ TrustLevel(agreed, verdict) \in 0..3
           /\ TrustLevel(agreed, verdict) = 3 => verdict = "verified"
  BY DEF TrustLevel, LastVerdict, Verdict

\* What a copy cites is a digest.
LEMMA CitedType ==
    ASSUME NEW copy \in ClaimCopy
    PROVE  Cited(copy) \in Digest
  BY ClaimAssumption DEF Cited, Digest, ClaimCopy

-----------------------------------------------------------------------------
\* There is no row, and nobody is at work.
LEMMA ClaimInitHolds == ClaimInit => ClaimInv
  BY ClaimAssumption
     DEF ClaimInit, ClaimInv, ClaimTypeOK, CopiesInHand, VerdictStands, Publisher,
         PublisherPc, IdlePublisher, LastVerdict, Verdict, Digest

\* A step of a publisher that leaves the row, the ranges and the reviews alone
\* keeps the invariant if the publisher it leaves behind is in order.
LEMMA PublisherMoves ==
    ASSUME ClaimInv, NEW p \in Publishers, NEW new \in Publisher,
           new.pc \in {"reviews", "claim", "spans", "trim"} => new.copy \in ClaimCopy,
           new.pc = "idle" => new.next = 1,
           new.pc \in {"reviews", "claim", "spans"} => new.next <= new.copy.cites,
           publisher' = [publisher EXCEPT ![p] = new],
           stored' \in Digest,
           record' \in ClaimRow \cup {Unclaimed}, signed' \in [Digest -> LastVerdict],
           VerdictStands'
    PROVE  ClaimInv'
  BY DEF ClaimInv, ClaimTypeOK, CopiesInHand

\* A review and the level that follows from it are written together, so the row
\* agrees with it.
LEMMA SignKeeps ==
    ASSUME ClaimInv, NEW verdict \in Verdict, SignReview(verdict)
    PROVE  ClaimInv'
<1>1. /\ record \in ClaimRow /\ stored \in Digest /\ record.agreed \in BOOLEAN
      /\ verdict \in LastVerdict
  BY DEF ClaimInv, ClaimTypeOK, SignReview, ClaimRow, LastVerdict
<1> DEFINE level == TrustLevel(record.agreed, verdict)
<1>2. level \in 0..3 /\ (level = 3 => verdict = "verified")
  BY <1>1, LevelType
<1> HIDE DEF level
<1>3. record' = Merged(record, level, record.agreed, stored, verdict)
  BY DEF SignReview, level
<1>4. record' \in ClaimRow \cup {Unclaimed} /\ record'.digest = stored
  BY <1>1, <1>2, <1>3, MergedType
<1>5. signed' \in [Digest -> LastVerdict] /\ signed'[stored] = verdict
  BY <1>1 DEF SignReview, ClaimInv, ClaimTypeOK
<1>6. /\ record'.level = 3 => verdict = "verified"
      /\ verdict = "rejected" => record'.level = 0 /\ record'.verdict = "rejected"
  BY <1>1, <1>2, <1>3, MergedStands
<1>7. VerdictStands'
  BY <1>4, <1>5, <1>6 DEF VerdictStands
<1> QED
  BY <1>4, <1>5, <1>7 DEF ClaimInv, ClaimTypeOK, CopiesInHand, SignReview

\* The row agrees with the reviews read under its lock, whatever the publisher
\* has read before.
LEMMA WriteKeeps ==
    ASSUME ClaimInv, NEW p \in Publishers, WriteClaim(p)
    PROVE  ClaimInv'
<1> DEFINE copy == publisher[p].copy
           digest == Cited(copy)
           verdict == signed[digest]
           level == publisher[p].level
<1>1. copy \in ClaimCopy /\ level \in 0..3 /\ publisher[p] \in Publisher
  BY DEF ClaimInv, ClaimTypeOK, CopiesInHand, WriteClaim, Publisher
<1>2. digest \in Digest /\ verdict \in LastVerdict /\ copy.agreed \in BOOLEAN
  BY <1>1, CitedType DEF ClaimInv, ClaimTypeOK, ClaimCopy
<1>3. CASE level = 3 /\ verdict # "verified"
  <2>1. record' = record /\ publisher' = [publisher EXCEPT ![p] = IdlePublisher]
        /\ stored' = stored /\ signed' = signed
    BY <1>3 DEF WriteClaim, Leave
  <2>2. IdlePublisher \in Publisher
    BY ClaimAssumption DEF IdlePublisher, Publisher, PublisherPc
  <2>3. VerdictStands'
    BY <2>1 DEF ClaimInv, VerdictStands
  <2> QED
    BY <2>1, <2>2, <2>3, PublisherMoves DEF IdlePublisher, ClaimInv, ClaimTypeOK
<1>4. CASE ~ (level = 3 /\ verdict # "verified")
  <2>1. /\ record' = Merged(record, level, copy.agreed, digest, verdict)
        /\ publisher' = [publisher EXCEPT ![p].pc = "spans"]
        /\ stored' = stored /\ signed' = signed
    BY <1>4 DEF WriteClaim, Proceed
  <2> HIDE DEF digest, verdict, level
  <2>2. record \in ClaimRow \cup {Unclaimed}
    BY DEF ClaimInv, ClaimTypeOK
  <2>3. record' \in ClaimRow \cup {Unclaimed} /\ record'.digest = digest
    BY <1>1, <1>2, <2>1, <2>2, MergedType
  <2>4. /\ record'.level = 3 => verdict = "verified"
        /\ verdict = "rejected" => record'.level = 0 /\ record'.verdict = "rejected"
    BY <1>1, <1>2, <1>4, <2>1, <2>2, MergedStands
  <2>5. VerdictStands'
    BY <2>1, <2>3, <2>4 DEF VerdictStands, verdict
  <2>6. PICK new \in Publisher : /\ publisher' = [publisher EXCEPT ![p] = new]
                                 /\ new = [publisher[p] EXCEPT !.pc = "spans"]
    BY <1>1, <2>1 DEF Publisher, PublisherPc, ClaimInv, ClaimTypeOK
  <2>7. new.copy \in ClaimCopy /\ new.next <= new.copy.cites /\ new.pc = "spans"
    BY <1>1, <2>6 DEF CopiesInHand, ClaimInv, WriteClaim, Publisher
  <2> QED
    BY <2>1, <2>3, <2>5, <2>6, <2>7, PublisherMoves DEF ClaimInv, ClaimTypeOK
<1> QED
  BY <1>3, <1>4

\* The steps of a publisher beside the writing of the row.
LEMMA StepKeeps ==
    ASSUME ClaimInv, NEW p \in Publishers, PublisherStep(p), ~ WriteClaim(p)
    PROVE  ClaimInv'
<1> USE DEF ClaimInv, ClaimTypeOK
<1>0. publisher[p] \in Publisher /\ IdlePublisher \in Publisher
  BY ClaimAssumption DEF IdlePublisher, Publisher, PublisherPc
<1>1. CASE BeginPublish(p)
  <2>1. PICK copy \in ClaimCopy \cup {Unclaimed} :
          publisher' = [publisher EXCEPT ![p].copy = copy,
                                         ![p].pc = IF copy = Unclaimed THEN "remove"
                                                   ELSE "reviews"]
    BY <1>1 DEF BeginPublish
  <2> DEFINE new == [publisher[p] EXCEPT !.copy = copy,
                                         !.pc = IF copy = Unclaimed THEN "remove"
                                                ELSE "reviews"]
  <2>2. new \in Publisher
    BY <1>0 DEF Publisher, PublisherPc
  <2>3. publisher[p].next = 1
    BY <1>1 DEF BeginPublish, CopiesInHand
  <2>4. new.next = 1 /\ new.copy = copy /\ (new.pc # "remove" => copy \in ClaimCopy)
        /\ new.pc \in {"remove", "reviews"}
    BY <1>0, <2>3 DEF Publisher
  <2>5. new.pc = "reviews" => new.next <= new.copy.cites
    BY <2>4 DEF ClaimCopy
  <2>6. publisher' = [publisher EXCEPT ![p] = new]
    BY <1>0, <2>1 DEF Publisher
  <2> HIDE DEF new
  <2> QED
    BY <1>1, <2>2, <2>4, <2>5, <2>6, PublisherMoves DEF BeginPublish, VerdictStands
<1>2. CASE ReadReviews(p)
  <2> DEFINE copy == publisher[p].copy
             level == TrustLevel(copy.agreed, signed[Cited(copy)])
             new == [publisher[p] EXCEPT !.pc = "claim", !.level = level]
  <2>1. copy \in ClaimCopy /\ publisher[p].next <= copy.cites
    BY <1>2 DEF ReadReviews, CopiesInHand
  <2>2. signed[Cited(copy)] \in LastVerdict /\ copy.agreed \in BOOLEAN
    BY <2>1, CitedType DEF ClaimCopy
  <2>3. level \in 0..3
    BY <2>2, LevelType
  <2>4. publisher' = [publisher EXCEPT ![p] = new]
    BY <1>0, <1>2 DEF ReadReviews, Publisher
  <2> HIDE DEF level
  <2>5. new \in Publisher /\ new.pc = "claim" /\ new.copy = copy
        /\ new.next = publisher[p].next
    BY <1>0, <2>3 DEF Publisher, PublisherPc
  <2> HIDE DEF new, copy
  <2> QED
    BY <1>2, <2>1, <2>4, <2>5, PublisherMoves DEF ReadReviews, VerdictStands
<1>3. CASE WriteSpan(p)
  <2> DEFINE n == publisher[p].next
             copy == publisher[p].copy
             new == [publisher[p] EXCEPT !.next = n + 1,
                                         !.pc = IF n = copy.cites THEN "trim" ELSE "spans"]
  <2>1. copy \in ClaimCopy /\ n \in 1..copy.cites
    BY <1>0, <1>3 DEF WriteSpan, CopiesInHand, Publisher, ClaimCopy
  <2>2. n \in Nat /\ n <= copy.cites /\ copy.cites \in Nat /\ copy.cites <= Ranges /\ n >= 1
    BY <2>1, ClaimAssumption DEF ClaimCopy
  <2>3. publisher' = [publisher EXCEPT ![p] = new]
    BY <1>0, <1>3 DEF WriteSpan, Publisher
  <2>4. stored' \in Digest
    BY <1>3, <2>1, <2>2, ClaimAssumption DEF WriteSpan, Digest
  <2>5. new.copy = copy /\ new.next = n + 1 /\ new.pc = (IF n = copy.cites THEN "trim" ELSE "spans")
    BY <1>0 DEF Publisher
  <2>6. n + 1 \in 1..(Ranges + 1) /\ (n # copy.cites => n + 1 <= copy.cites)
    BY <2>2, ClaimAssumption
  <2>7. new \in Publisher
    BY <1>0, <2>6 DEF Publisher, PublisherPc
  <2>8. /\ new.copy \in ClaimCopy /\ new.pc \in {"trim", "spans"}
        /\ new.pc = "spans" => new.next <= new.copy.cites
    BY <2>1, <2>5, <2>6
  <2>9. VerdictStands' /\ record' = record /\ signed' = signed
    BY <1>3 DEF WriteSpan, VerdictStands
  <2> HIDE DEF new, copy, n
  <2> QED
    BY <2>3, <2>4, <2>7, <2>8, <2>9, PublisherMoves
<1>4. CASE TrimSpans(p)
  <2>1. stored' \in Digest
    BY <1>4 DEF TrimSpans, Digest
  <2> QED
    BY <1>0, <1>4, <2>1, PublisherMoves DEF TrimSpans, Leave, IdlePublisher, VerdictStands
<1>5. CASE RemoveClaim(p)
  <2>1. VerdictStands'
    BY <1>5 DEF RemoveClaim, VerdictStands
  <2>2. CASE record = Unclaimed
    BY <1>0, <1>5, <2>1, <2>2, PublisherMoves DEF RemoveClaim, Leave, IdlePublisher
  <2>3. CASE record # Unclaimed
    <3> DEFINE new == [publisher[p] EXCEPT !.pc = "spansToo"]
    <3>1. new \in Publisher /\ new.pc = "spansToo"
      BY <1>0 DEF Publisher, PublisherPc
    <3>2. publisher' = [publisher EXCEPT ![p] = new]
      BY <1>0, <1>5, <2>3 DEF RemoveClaim, Proceed, Publisher
    <3> HIDE DEF new
    <3> QED
      BY <1>5, <2>1, <3>1, <3>2, PublisherMoves DEF RemoveClaim
  <2> QED
    BY <2>2, <2>3
<1>6. CASE RemoveSpans(p)
  BY <1>0, <1>6, PublisherMoves
     DEF RemoveSpans, Leave, IdlePublisher, VerdictStands, Digest
<1>7. CASE PublisherDies(p)
  BY <1>0, <1>7, PublisherMoves DEF PublisherDies, Leave, IdlePublisher, VerdictStands
<1> QED
  BY <1>1, <1>2, <1>3, <1>4, <1>5, <1>6, <1>7 DEF PublisherStep

\* Every step keeps the invariant.
LEMMA ClaimInvStep == ClaimInv /\ [ClaimNext]_claimVars => ClaimInv'
<1> SUFFICES ASSUME ClaimInv, [ClaimNext]_claimVars
             PROVE  ClaimInv'
  OBVIOUS
<1>1. ASSUME NEW verdict \in Verdict, SignReview(verdict)
      PROVE  ClaimInv'
  BY <1>1, SignKeeps
<1>2. ASSUME NEW p \in Publishers, PublisherStep(p)
      PROVE  ClaimInv'
  BY <1>2, WriteKeeps, StepKeeps
<1>3. CASE UNCHANGED claimVars
  BY <1>3 DEF claimVars, ClaimInv, ClaimTypeOK, CopiesInHand, VerdictStands
<1> QED
  BY <1>1, <1>2, <1>3 DEF ClaimNext

-----------------------------------------------------------------------------
(* The results.                                                            *)

\* The row, its ranges, its reviews and its publishers stay well formed.
THEOREM ClaimTypeCorrect == ClaimSpec => []ClaimTypeOK
<1>1. ClaimInv => ClaimTypeOK
  BY DEF ClaimInv
<1> QED
  BY ClaimInitHolds, ClaimInvStep, <1>1, PTL DEF ClaimSpec

\* Any number of publishers, with whatever copies and however long ago they have
\* read the reviews, leaves the last verdict on the row (WriteClaim).
THEOREM VerdictsStand == ClaimSpec => []VerdictStands
<1>1. ClaimInv => VerdictStands
  BY DEF ClaimInv
<1> QED
  BY ClaimInitHolds, ClaimInvStep, <1>1, PTL DEF ClaimSpec

\* And none of them takes a level from a row whose evidence it repeats, unless
\* the evidence was rejected (the CASE of the upsert, Merged).
THEOREM TrustIsKept == ClaimSpec => EarnedTrustKept
<1> DEFINE Kept == record # Unclaimed /\ record' # Unclaimed /\ record'.digest = record.digest
                     => record'.level >= record.level \/ record'.verdict = "rejected"
<1>1. ClaimInv /\ [ClaimNext]_claimVars => [Kept]_claimVars
  <2> SUFFICES ASSUME ClaimInv, ClaimNext,
                      record # Unclaimed, record' # Unclaimed, record'.digest = record.digest
               PROVE  record'.level >= record.level \/ record'.verdict = "rejected"
    OBVIOUS
  <2>1. record \in ClaimRow
    BY DEF ClaimInv, ClaimTypeOK
  <2>2. CASE record' = record
    BY <2>1, <2>2 DEF ClaimRow
  <2>3. ASSUME NEW verdict \in Verdict, SignReview(verdict)
        PROVE  record'.level >= record.level \/ record'.verdict = "rejected"
    <3>1. /\ record.agreed \in BOOLEAN /\ stored \in Digest /\ verdict \in LastVerdict
      BY <2>1 DEF ClaimRow, ClaimInv, ClaimTypeOK, LastVerdict
    <3> DEFINE level == TrustLevel(record.agreed, verdict)
    <3>2. level \in 0..3
      BY <3>1, LevelType
    <3> HIDE DEF level
    <3>3. record' = Merged(record, level, record.agreed, stored, verdict)
      BY <2>3 DEF SignReview, level
    <3>4. record.digest = stored
      BY <2>1, <3>1, <3>2, <3>3, MergedType
    <3> QED
      BY <2>1, <3>1, <3>2, <3>3, <3>4, MergedKeeps DEF Verdict
  <2>4. ASSUME NEW p \in Publishers, WriteClaim(p), record' # record
        PROVE  record'.level >= record.level \/ record'.verdict = "rejected"
    <3> DEFINE copy == publisher[p].copy
               digest == Cited(copy)
               verdict == signed[digest]
               level == publisher[p].level
    <3>1. copy \in ClaimCopy /\ level \in 0..3
      BY <2>4 DEF ClaimInv, ClaimTypeOK, CopiesInHand, WriteClaim, Publisher
    <3>2. digest \in Digest /\ verdict \in LastVerdict /\ copy.agreed \in BOOLEAN
      BY <3>1, CitedType DEF ClaimInv, ClaimTypeOK, ClaimCopy
    <3>3. record' = Merged(record, level, copy.agreed, digest, verdict)
      BY <2>4 DEF WriteClaim
    <3> HIDE DEF digest, level, copy
    <3>4. record.digest = digest
      BY <2>1, <3>1, <3>2, <3>3, MergedType
    <3>5. record.level = 3 => verdict = "verified"
      BY <3>4 DEF ClaimInv, VerdictStands
    <3> HIDE DEF verdict
    <3> QED
      BY <2>1, <3>1, <3>2, <3>3, <3>4, <3>5, MergedKeeps
  <2>5. ASSUME NEW p \in Publishers, PublisherStep(p), ~ WriteClaim(p)
        PROVE  record' = record
    BY <2>5 DEF PublisherStep, BeginPublish, ReadReviews, WriteSpan, TrimSpans, RemoveClaim,
                RemoveSpans, PublisherDies
  <2> QED
    BY <2>2, <2>3, <2>4, <2>5 DEF ClaimNext
<1> QED
  BY ClaimInitHolds, ClaimInvStep, <1>1, PTL DEF ClaimSpec, EarnedTrustKept

-----------------------------------------------------------------------------
(* The monitoring of channels.                                             *)

\* An upload without a run was not paid for.
UploadsInOrder ==
    \A u \in Uploads : bought[u] <= 1 /\ (upload[u] # "queued" => bought[u] = 0)

\* Once the timer has started the check of this occurrence, the document waits
\* at least for the next one.
OccurrenceInOrder ==
    ticked <= 1 /\ (ticked = 1 /\ monitor.enabled => monitor.wait >= Period - phase)

\* What is stored, and what was spent and started.
Books ==
    /\ monitor \in [enabled : BOOLEAN, wait : 0..Period]
    /\ checkLease \in 0..CheckTerm
    /\ channelRow \in [Channels -> Row]
    /\ upload \in [Uploads -> {"unseen", "found", "queued"}]
    /\ phase \in 0..(Period - 1)
    /\ bought \in [Uploads -> Nat]
    /\ ticked \in Nat
    /\ UploadsInOrder
    /\ OccurrenceInOrder

\* A check that has leave to queue is below the cap, and one that has queued
\* since the pause does not get leave again.
InOrder(x, enabled) ==
    /\ x.since <= 1
    /\ x.since = 1 => ~enabled /\ x.pc # "analyse" /\ x.kind = "check"
    /\ x.pc = "analyse" /\ x.kind = "check" => x.queued < MaxVideos

ChecksInOrder ==
    /\ check \in [Checks -> Check]
    /\ \A k \in Checks : InOrder(check[k], monitor.enabled)

MonitoringInv == Books /\ ChecksInOrder

-----------------------------------------------------------------------------
\* A check that is not under way, and the first step of one.
LEMMA IdleInOrder ==
    /\ IdleCheck \in Check
    /\ \A kind \in {"check", "sweep"}, enabled \in BOOLEAN :
         LET new == [IdleCheck EXCEPT !.pc = "list", !.kind = kind]
         IN  new \in Check /\ InOrder(new, enabled)
    /\ \A enabled \in BOOLEAN : InOrder(IdleCheck, enabled)
<1>1. NewRow \in Row /\ 0 \in 0..MaxVideos
  BY MonitoringAssumption DEF NewRow, Row
<1>2. IdleCheck \in Check
  BY <1>1 DEF IdleCheck, Check, CheckPc
<1>3. IdleCheck.since = 0 /\ IdleCheck.pc = "idle" /\ IdleCheck.kind = "check"
  BY DEF IdleCheck
<1>4. \A kind \in {"check", "sweep"} :
        LET new == [IdleCheck EXCEPT !.pc = "list", !.kind = kind]
        IN  new \in Check /\ new.since = 0 /\ new.pc = "list"
  BY <1>2, <1>3 DEF Check, CheckPc
<1> QED
  BY <1>2, <1>3, <1>4 DEF InOrder

\* Nothing is monitored, found or bought yet.
LEMMA MonitoringInitHolds == MonitoringInit => MonitoringInv
<1> SUFFICES ASSUME MonitoringInit PROVE MonitoringInv
  OBVIOUS
<1>0. /\ monitor = [enabled |-> FALSE, wait |-> 0] /\ checkLease = 0 /\ phase = 0 /\ ticked = 0
      /\ upload = [u \in Uploads |-> "unseen"] /\ bought = [u \in Uploads |-> 0]
  BY DEF MonitoringInit
<1>1. \A b \in BOOLEAN : [NewRow EXCEPT !.active = TRUE, !.auto = b] \in Row
  BY DEF Row, NewRow
<1>2. channelRow \in [Channels -> Row]
  <2> DEFINE start == {[NewRow EXCEPT !.active = TRUE, !.auto = b] : b \in BOOLEAN}
  <2>1. channelRow \in [Channels -> start]
    BY DEF MonitoringInit
  <2>2. start \subseteq Row
    BY <1>1
  <2> HIDE DEF start
  <2> QED
    BY <2>1, <2>2
<1>3. ChecksInOrder
  <2>1. check = [k \in Checks |-> IdleCheck] /\ monitor.enabled = FALSE
    BY DEF MonitoringInit
  <2> QED
    BY <2>1, IdleInOrder DEF ChecksInOrder
<1>4. monitor \in [enabled : BOOLEAN, wait : 0..Period] /\ ~monitor.enabled
      /\ checkLease \in 0..CheckTerm /\ phase \in 0..(Period - 1)
  BY <1>0, MonitoringAssumption
<1>5. UploadsInOrder /\ OccurrenceInOrder
  BY <1>0, <1>4 DEF UploadsInOrder, OccurrenceInOrder
<1>6. Books
  BY <1>0, <1>2, <1>4, <1>5 DEF Books
<1> QED
  BY <1>3, <1>6 DEF MonitoringInv

\* One check moves on, and the switch of the monitoring stays as it is.
LEMMA CheckGoesOn ==
    ASSUME ChecksInOrder, NEW k \in Checks, NEW new \in Check,
           check' = [check EXCEPT ![k] = new], InOrder(new, monitor.enabled),
           monitor'.enabled = monitor.enabled
    PROVE  ChecksInOrder'
  BY DEF ChecksInOrder

\* Steps that store nothing but the lease keep the books.
LEMMA BooksStay ==
    ASSUME Books, checkLease' \in 0..CheckTerm,
           UNCHANGED <<monitor, channelRow, upload, phase, bought, ticked>>
    PROVE  Books'
  BY DEF Books, UploadsInOrder, OccurrenceInOrder

\* A run is created for an upload that has none, with its row locked.
LEMMA AnalyseKeeps ==
    ASSUME Books, NEW u \in Uploads, Analyse(u),
           UNCHANGED <<monitor, checkLease, channelRow, phase, ticked>>
    PROVE  Books'
<1>1. upload' \in [Uploads -> {"unseen", "found", "queued"}]
  BY DEF Books, Analyse
<1>2. bought' = [bought EXCEPT ![u] = IF upload[u] = "found" THEN @ + 1 ELSE @]
      /\ upload' = [upload EXCEPT ![u] = "queued"]
  BY DEF Analyse
<1>3. bought' \in [Uploads -> Nat]
  BY <1>2 DEF Books
<1>4. UploadsInOrder'
  BY <1>2 DEF Books, UploadsInOrder
<1> QED
  BY <1>1, <1>3, <1>4 DEF Books, OccurrenceInOrder

-----------------------------------------------------------------------------
(* The steps of a check.                                                   *)

\* The claim stores the next occurrence with the lease.
LEMMA ClaimKeeps ==
    ASSUME MonitoringInv, NEW k \in Checks, NEW forced \in BOOLEAN, ClaimCheck(k, forced)
    PROVE  MonitoringInv'
<1> DEFINE new == [IdleCheck EXCEPT !.pc = "list", !.kind = "check"]
<1>0. IdleCheck.kind = "check" /\ IdleCheck \in Check
  BY IdleInOrder DEF IdleCheck
<1>1. new \in Check /\ \A b \in BOOLEAN : InOrder(new, b)
  BY IdleInOrder
<1>2. /\ monitor.enabled /\ (forced \/ monitor.wait = 0)
      /\ monitor' = [monitor EXCEPT !.wait = Period - phase]
      /\ check' = [check EXCEPT ![k] = new]
      /\ ticked' = IF forced THEN ticked ELSE ticked + 1
      /\ checkLease' = CheckTerm
      /\ UNCHANGED <<channelRow, upload, phase, bought>>
  <2>1. new = [IdleCheck EXCEPT !.pc = "list"]
    BY <1>0 DEF Check
  <2> QED
    BY <2>1 DEF ClaimCheck, NextOccurrence
<1> HIDE DEF new
<1>3. Period - phase \in 1..Period /\ phase' = phase /\ phase \in 0..(Period - 1)
  BY <1>2, MonitoringAssumption DEF MonitoringInv, Books
<1>4. monitor' \in [enabled : BOOLEAN, wait : 0..Period] /\ monitor'.wait = Period - phase
      /\ monitor'.enabled = monitor.enabled
  <2>1. monitor \in [enabled : BOOLEAN, wait : 0..Period] /\ Period - phase \in 0..Period
    BY <1>3, MonitoringAssumption DEF MonitoringInv, Books
  <2> QED
    BY <1>2, <2>1
<1>5. ticked' \in Nat /\ ticked' <= 1
  BY <1>2, <1>3 DEF MonitoringInv, Books, OccurrenceInOrder
<1>6. OccurrenceInOrder'
  BY <1>3, <1>4, <1>5 DEF OccurrenceInOrder
<1>7. checkLease' \in 0..CheckTerm
  BY <1>2, MonitoringAssumption
<1>8. Books'
  BY <1>2, <1>3, <1>4, <1>5, <1>6, <1>7 DEF MonitoringInv, Books, UploadsInOrder
<1> QED
  BY <1>1, <1>2, <1>4, <1>8, CheckGoesOn DEF MonitoringInv, Books

\* The steps of a check between its claim and its uploads.
LEMMA PullKeeps ==
    ASSUME MonitoringInv, NEW k \in Checks,
           \/ StartSweep(k) \/ ListChannels(k) \/ \E c \in Channels : StartPull(k, c)
           \/ Fetched(k) \/ WriteRow(k)
    PROVE  MonitoringInv'
<1> DEFINE old == check[k]
<1>0. old \in Check /\ InOrder(old, monitor.enabled) /\ Books /\ ChecksInOrder
  BY DEF MonitoringInv, ChecksInOrder
<1>1. CASE StartSweep(k)
  <2> DEFINE new == [IdleCheck EXCEPT !.pc = "list", !.kind = "sweep"]
  <2>1. new \in Check /\ InOrder(new, monitor.enabled)
    BY <1>0, IdleInOrder DEF Books
  <2>2. check' = [check EXCEPT ![k] = new]
    BY <1>1 DEF StartSweep
  <2> HIDE DEF new
  <2> QED
    BY <1>0, <1>1, <2>1, <2>2, CheckGoesOn, BooksStay DEF StartSweep, MonitoringInv, Books
<1>2. CASE ListChannels(k)
  <2>1. PICK due \in SUBSET Channels :
          check' = [check EXCEPT ![k].pc = "pull", ![k].todo = due,
                                 ![k].listed = {c \in due : channelRow[c].auto}]
    BY <1>2 DEF ListChannels
  <2> DEFINE new == [old EXCEPT !.pc = "pull", !.todo = due,
                                !.listed = {c \in due : channelRow[c].auto}]
  <2>2. new \in Check /\ InOrder(new, monitor.enabled)
    BY <1>0 DEF Check, CheckPc, InOrder
  <2>3. check' = [check EXCEPT ![k] = new]
    BY <1>0, <2>1 DEF ChecksInOrder, Check
  <2> HIDE DEF new
  <2> QED
    BY <1>0, <1>2, <2>2, <2>3, CheckGoesOn, BooksStay DEF ListChannels, MonitoringInv, Books
<1>3. ASSUME NEW c \in Channels, StartPull(k, c)
      PROVE  MonitoringInv'
  <2> DEFINE row == channelRow[c]
             new == [old EXCEPT !.todo = @ \ {c},
                                !.listed = IF row.active THEN @ ELSE @ \ {c},
                                !.pc = IF row.active THEN "fetch" ELSE "pull",
                                !.at = IF row.active THEN c ELSE Nobody,
                                !.copy = IF row.active THEN row ELSE NewRow]
  <2>1. row \in Row /\ NewRow \in Row
    BY <1>0 DEF Books, Row, NewRow
  <2> HIDE DEF row
  <2>2. new \in Check /\ InOrder(new, monitor.enabled)
    BY <1>0, <2>1 DEF Check, CheckPc, InOrder
  <2>3. check' = [check EXCEPT ![k] = new]
    BY <1>0, <1>3 DEF ChecksInOrder, Check, StartPull, row
  <2> HIDE DEF new
  <2> QED
    BY <1>0, <1>3, <2>2, <2>3, CheckGoesOn, BooksStay DEF StartPull, MonitoringInv, Books
<1>4. CASE Fetched(k)
  <2>1. PICK failed \in BOOLEAN : check' = [check EXCEPT ![k].pc = "write", ![k].failed = failed]
    BY <1>4 DEF Fetched
  <2>2. PICK found \in SUBSET Uploads :
          upload' = [u \in Uploads |-> IF u \in found /\ upload[u] = "unseen"
                                         THEN "found" ELSE upload[u]]
    BY <1>4 DEF Fetched
  <2> DEFINE new == [old EXCEPT !.pc = "write", !.failed = failed]
  <2>3. new \in Check /\ InOrder(new, monitor.enabled)
    BY <1>0 DEF Check, CheckPc, InOrder
  <2>4. check' = [check EXCEPT ![k] = new]
    BY <1>0, <2>1 DEF ChecksInOrder, Check
  <2>5. upload' \in [Uploads -> {"unseen", "found", "queued"}] /\ UploadsInOrder'
    BY <1>0, <1>4, <2>2 DEF Books, UploadsInOrder, Fetched
  <2>6. Books' /\ monitor'.enabled = monitor.enabled
    BY <1>0, <1>4, <2>5 DEF Books, Fetched, OccurrenceInOrder
  <2> HIDE DEF new
  <2> QED
    BY <1>0, <2>3, <2>4, <2>6, CheckGoesOn DEF MonitoringInv
<1>5. CASE WriteRow(k)
  <2> DEFINE new == [old EXCEPT !.pc = IF old.failed THEN "pull" ELSE "select",
                                !.at = IF old.failed THEN Nobody ELSE @,
                                !.listed = IF old.failed THEN @ \ {old.at} ELSE @,
                                !.failed = FALSE, !.copy = NewRow]
  <2>1. NewRow \in Row
    BY DEF Row, NewRow
  <2>2. new \in Check /\ InOrder(new, monitor.enabled)
    BY <1>0, <2>1 DEF Check, CheckPc, InOrder
  <2>3. check' = [check EXCEPT ![k] = new]
    BY <1>0, <1>5 DEF ChecksInOrder, Check, WriteRow
  <2>4. channelRow' \in [Channels -> Row]
    BY <1>0, <1>5 DEF WriteRow, Books, Check
  <2>5. Books' /\ monitor'.enabled = monitor.enabled
    BY <1>0, <1>5, <2>4 DEF Books, WriteRow, UploadsInOrder, OccurrenceInOrder
  <2> HIDE DEF new
  <2> QED
    BY <1>0, <2>2, <2>3, <2>5, CheckGoesOn DEF MonitoringInv
<1> QED
  BY <1>1, <1>2, <1>3, <1>4, <1>5

\* The steps that end a pull or a check, and the question before each upload.
LEMMA RestKeeps ==
    ASSUME MonitoringInv, NEW k \in Checks,
           SelectUploads(k) \/ AskLeave(k) \/ SweepDone(k) \/ Report(k) \/ ReleaseCheck(k)
             \/ CheckDies(k)
    PROVE  MonitoringInv'
<1> DEFINE old == check[k]
<1>0. old \in Check /\ InOrder(old, monitor.enabled) /\ Books /\ ChecksInOrder
      /\ checkLease' \in 0..CheckTerm
      /\ UNCHANGED <<monitor, channelRow, upload, phase, bought, ticked>>
  BY MonitoringAssumption
     DEF MonitoringInv, ChecksInOrder, Books, SelectUploads, AskLeave, SweepDone, Report, Go,
         ReleaseCheck, CheckDies
<1>1. Books' /\ monitor'.enabled = monitor.enabled
  BY <1>0, BooksStay
<1>2. CASE SelectUploads(k)
  <2>1. PICK some \in SUBSET Uploads :
          check' = [check EXCEPT ![k].pc = "ask", ![k].at = Nobody,
                                 ![k].listed = @ \ {old.at},
                                 ![k].left = IF old.at \in old.listed THEN some ELSE {}]
    BY <1>2 DEF SelectUploads
  <2> DEFINE new == [old EXCEPT !.pc = "ask", !.at = Nobody, !.listed = @ \ {old.at},
                                !.left = IF old.at \in old.listed THEN some ELSE {}]
  <2>2. new \in Check /\ InOrder(new, monitor.enabled)
    BY <1>0 DEF Check, CheckPc, InOrder
  <2>3. check' = [check EXCEPT ![k] = new]
    BY <1>0, <2>1 DEF ChecksInOrder, Check
  <2> HIDE DEF new
  <2> QED
    BY <1>0, <1>1, <2>2, <2>3, CheckGoesOn DEF MonitoringInv
<1>3. CASE AskLeave(k)
  <2>1. CASE old.left # {} /\ MayQueue(k)
    <3> DEFINE new == [old EXCEPT !.pc = "analyse"]
    <3>1. old.kind = "sweep" \/ (old.queued < MaxVideos /\ monitor.enabled)
      BY <2>1 DEF MayQueue
    <3>2. new \in Check /\ InOrder(new, monitor.enabled)
      BY <1>0, <3>1 DEF Check, CheckPc, InOrder
    <3>3. check' = [check EXCEPT ![k] = new]
      BY <1>0, <1>3, <2>1 DEF ChecksInOrder, Check, AskLeave, Go
    <3> HIDE DEF new
    <3> QED
      BY <1>0, <1>1, <3>2, <3>3, CheckGoesOn DEF MonitoringInv
  <2>2. CASE ~(old.left # {} /\ MayQueue(k))
    <3> DEFINE new == [old EXCEPT !.pc = "pull", !.left = {}]
    <3>1. new \in Check /\ InOrder(new, monitor.enabled)
      BY <1>0 DEF Check, CheckPc, InOrder
    <3>2. check' = [check EXCEPT ![k] = new]
      BY <1>0, <1>3, <2>2 DEF ChecksInOrder, Check, AskLeave
    <3> HIDE DEF new
    <3> QED
      BY <1>0, <1>1, <3>1, <3>2, CheckGoesOn DEF MonitoringInv
  <2> QED
    BY <2>1, <2>2
<1>4. CASE Report(k)
  <2> DEFINE new == [old EXCEPT !.pc = "release"]
  <2>1. new \in Check /\ InOrder(new, monitor.enabled)
    BY <1>0 DEF Check, CheckPc, InOrder
  <2>2. check' = [check EXCEPT ![k] = new]
    BY <1>0, <1>4 DEF ChecksInOrder, Check, Report, Go
  <2> HIDE DEF new
  <2> QED
    BY <1>0, <1>1, <2>1, <2>2, CheckGoesOn DEF MonitoringInv
<1>5. CASE SweepDone(k) \/ ReleaseCheck(k) \/ CheckDies(k)
  <2>1. check' = [check EXCEPT ![k] = IdleCheck]
    BY <1>5 DEF SweepDone, ReleaseCheck, CheckDies
  <2>2. IdleCheck \in Check /\ InOrder(IdleCheck, monitor.enabled)
    BY <1>0, IdleInOrder DEF Books
  <2> QED
    BY <1>0, <1>1, <2>1, <2>2, CheckGoesOn DEF MonitoringInv
<1> QED
  BY <1>2, <1>3, <1>4, <1>5

\* An upload for which leave was given: the run is counted for a check, and the
\* check asks again.
LEMMA QueueKeeps ==
    ASSUME MonitoringInv, NEW k \in Checks, AnalyseNext(k)
    PROVE  MonitoringInv'
<1> DEFINE old == check[k]
<1>0. old \in Check /\ InOrder(old, monitor.enabled) /\ Books /\ ChecksInOrder
      /\ old.pc = "analyse" /\ UNCHANGED <<monitor, checkLease, channelRow, phase, ticked>>
  BY DEF MonitoringInv, ChecksInOrder, AnalyseNext
<1>1. PICK u \in old.left :
        LET counts == upload[u] = "found" /\ old.kind = "check"
        IN  /\ Analyse(u)
            /\ check' = [check EXCEPT ![k].pc = "ask", ![k].left = @ \ {u},
                                      ![k].queued = IF counts THEN @ + 1 ELSE @,
                                      ![k].since = IF counts /\ ~monitor.enabled
                                                     THEN @ + 1 ELSE @]
  BY DEF AnalyseNext
<1>2. u \in Uploads
  BY <1>0, <1>1 DEF Check
<1>3. Books' /\ monitor'.enabled = monitor.enabled
  BY <1>0, <1>1, <1>2, AnalyseKeeps
<1> DEFINE counts == upload[u] = "found" /\ old.kind = "check"
           queued == IF counts THEN old.queued + 1 ELSE old.queued
           since == IF counts /\ ~monitor.enabled THEN old.since + 1 ELSE old.since
           new == [old EXCEPT !.pc = "ask", !.left = @ \ {u}, !.queued = queued, !.since = since]
<1>4. old.queued \in 0..MaxVideos /\ old.since \in 0..MaxVideos
      /\ (counts => old.queued < MaxVideos) /\ old.since = 0
  BY <1>0 DEF Check, InOrder
<1>5. queued \in 0..MaxVideos /\ since \in 0..MaxVideos /\ since <= 1
      /\ (since = 1 => ~monitor.enabled /\ old.kind = "check")
  BY <1>4, MonitoringAssumption
<1>6. check' = [check EXCEPT ![k] = new]
  BY <1>0, <1>1 DEF ChecksInOrder, Check
<1> HIDE DEF queued, since
<1>7. new \in Check /\ new.pc = "ask" /\ new.since = since /\ new.kind = old.kind
  BY <1>0, <1>5 DEF Check, CheckPc
<1>8. InOrder(new, monitor.enabled)
  BY <1>5, <1>7 DEF InOrder
<1> HIDE DEF new
<1> QED
  BY <1>0, <1>3, <1>6, <1>7, <1>8, CheckGoesOn DEF MonitoringInv

-----------------------------------------------------------------------------
(* The person and the clock.                                               *)

\* A new schedule begins with the next occurrence, and what was queued before it
\* does not count against a later pause.
LEMMA SaveKeeps ==
    ASSUME MonitoringInv, NEW enabled \in BOOLEAN, SaveMonitoring(enabled)
    PROVE  MonitoringInv'
<1>1. /\ monitor' = [enabled |-> enabled, wait |-> IF enabled THEN Period - phase ELSE 0]
      /\ check' = IF enabled THEN [k \in Checks |-> [check[k] EXCEPT !.since = 0]] ELSE check
      /\ UNCHANGED <<checkLease, channelRow, upload, phase, bought, ticked>>
  BY DEF SaveMonitoring, NextOccurrence
<1>2. Period - phase \in 0..Period /\ Books /\ ChecksInOrder /\ ticked <= 1
  BY MonitoringAssumption DEF MonitoringInv, Books, OccurrenceInOrder
<1>3. monitor' \in [enabled : BOOLEAN, wait : 0..Period] /\ monitor'.enabled = enabled
      /\ (enabled => monitor'.wait = Period - phase)
  BY <1>1, <1>2, MonitoringAssumption
<1>4. OccurrenceInOrder'
  BY <1>1, <1>2, <1>3 DEF OccurrenceInOrder
<1>5. Books'
  BY <1>1, <1>2, <1>3, <1>4 DEF Books, UploadsInOrder
<1>6. ASSUME NEW k \in Checks
      PROVE  check'[k] \in Check /\ InOrder(check'[k], enabled)
  <2>1. check[k] \in Check /\ InOrder(check[k], monitor.enabled)
    BY <1>2 DEF ChecksInOrder
  <2>2. CASE enabled
    <3>1. check'[k] = [check[k] EXCEPT !.since = 0]
      BY <1>1, <2>2
    <3>2. 0 \in 0..MaxVideos
      BY MonitoringAssumption
    <3> QED
      BY <2>1, <3>1, <3>2 DEF Check, InOrder
  <2>3. CASE ~enabled
    BY <1>1, <2>1, <2>3 DEF InOrder
  <2> QED
    BY <2>2, <2>3
<1>7. check' \in [Checks -> Check]
  <2>1. check' = [k \in Checks |-> check'[k]]
    BY <1>1, <1>2 DEF ChecksInOrder
  <2> QED
    BY <1>6, <2>1
<1> QED
  BY <1>3, <1>5, <1>6, <1>7 DEF MonitoringInv, ChecksInOrder

\* A moment passes, and with the last one the occurrence.
LEMMA TimeKeeps ==
    ASSUME MonitoringInv, TimePasses
    PROVE  MonitoringInv'
<1>1. /\ phase' = IF phase + 1 = Period THEN 0 ELSE phase + 1
      /\ monitor' = [monitor EXCEPT !.wait = Later(@)]
      /\ checkLease' = Later(checkLease)
      /\ ticked' = IF phase' = 0 THEN 0 ELSE ticked
      /\ UNCHANGED <<channelRow, upload, check, bought>>
  BY DEF TimePasses
<1>2. Books /\ ChecksInOrder /\ monitor \in [enabled : BOOLEAN, wait : 0..Period]
      /\ phase \in 0..(Period - 1) /\ checkLease \in 0..CheckTerm /\ ticked \in Nat
  BY DEF MonitoringInv, Books
<1>3. monitor' \in [enabled : BOOLEAN, wait : 0..Period] /\ monitor'.enabled = monitor.enabled
      /\ monitor'.wait >= monitor.wait - 1
  <2>1. Later(monitor.wait) \in 0..Period /\ Later(monitor.wait) >= monitor.wait - 1
    BY <1>2, MonitoringAssumption DEF Later
  <2> QED
    BY <1>1, <1>2, <2>1
<1>4. checkLease' \in 0..CheckTerm /\ phase' \in 0..(Period - 1) /\ ticked' \in Nat
  BY <1>1, <1>2, MonitoringAssumption DEF Later
<1>5. OccurrenceInOrder'
  <2>1. CASE phase + 1 = Period
    BY <1>1, <2>1 DEF OccurrenceInOrder
  <2>2. CASE phase + 1 # Period
    <3>1. phase' = phase + 1 /\ ticked' = ticked /\ ticked <= 1
      BY <1>1, <1>2, <2>2 DEF Books, OccurrenceInOrder
    <3>2. ticked = 1 /\ monitor.enabled => monitor.wait >= Period - phase
      BY <1>2 DEF Books, OccurrenceInOrder
    <3>3. monitor.wait \in Nat /\ monitor'.wait \in Nat /\ Period \in Nat /\ phase \in Nat
      BY <1>2, <1>3, MonitoringAssumption
    <3>4. ticked' = 1 /\ monitor'.enabled => monitor'.wait >= Period - phase'
      BY <1>3, <3>1, <3>2, <3>3
    <3> QED
      BY <3>1, <3>4 DEF OccurrenceInOrder
  <2> QED
    BY <2>1, <2>2
<1>6. Books'
  BY <1>1, <1>2, <1>3, <1>4, <1>5 DEF Books, UploadsInOrder
<1> QED
  BY <1>1, <1>2, <1>3, <1>6 DEF MonitoringInv, ChecksInOrder

\* Every step keeps the invariant.
LEMMA MonitoringInvStep == MonitoringInv /\ [MonitoringNext]_monitoringVars => MonitoringInv'
<1> SUFFICES ASSUME MonitoringInv, [MonitoringNext]_monitoringVars
             PROVE  MonitoringInv'
  OBVIOUS
<1>1. ASSUME NEW c \in Channels, NEW s \in Switches, SetSwitch(c, s)
      PROVE  MonitoringInv'
  <2>1. channelRow[c] \in Row /\ s \in {"auto", "active"}
    BY MonitoringAssumption DEF MonitoringInv, Books
  <2>2. [channelRow[c] EXCEPT ![s] = ~@] \in Row
    BY <2>1 DEF Row
  <2>3. channelRow' = [channelRow EXCEPT ![c] = [channelRow[c] EXCEPT ![s] = ~@]]
    BY <1>1 DEF SetSwitch
  <2>4. channelRow' \in [Channels -> Row]
    BY <2>2, <2>3 DEF MonitoringInv, Books
  <2> QED
    BY <1>1, <2>4 DEF SetSwitch, MonitoringInv, Books, ChecksInOrder, UploadsInOrder,
                      OccurrenceInOrder
<1>2. ASSUME NEW u \in Uploads, AnalyseByHand(u)
      PROVE  MonitoringInv'
  BY <1>2, AnalyseKeeps DEF AnalyseByHand, MonitoringInv, ChecksInOrder
<1>3. CASE UNCHANGED monitoringVars
  BY <1>3 DEF monitoringVars, MonitoringInv, Books, ChecksInOrder, UploadsInOrder,
              OccurrenceInOrder
<1> QED
  BY <1>1, <1>2, <1>3, ClaimKeeps, PullKeeps, RestKeeps, QueueKeeps, SaveKeeps, TimeKeeps
     DEF MonitoringNext, CheckStep

-----------------------------------------------------------------------------
(* The results.                                                            *)

\* The document, the rows and the checks stay well formed.
THEOREM MonitoringTypeCorrect == MonitoringSpec => []MonitoringTypeOK
<1>1. MonitoringInv => MonitoringTypeOK
  BY DEF MonitoringInv, Books, ChecksInOrder, MonitoringTypeOK
<1> QED
  BY MonitoringInitHolds, MonitoringInvStep, <1>1, PTL DEF MonitoringSpec

\* Whoever comes upon an upload, it gets one run (analyzeDiscovery).
THEOREM UploadsBoughtOnce == MonitoringSpec => []BoughtOnce
<1>1. MonitoringInv => BoughtOnce
  BY DEF MonitoringInv, Books, UploadsInOrder, BoughtOnce
<1> QED
  BY MonitoringInitHolds, MonitoringInvStep, <1>1, PTL DEF MonitoringSpec

\* After a pause each check under way queues at most the upload it had leave for
\* (canQueue of monitoringTick).
THEOREM PauseHolds == MonitoringSpec => []PauseStops
<1>1. MonitoringInv => PauseStops
  BY DEF MonitoringInv, ChecksInOrder, InOrder, PauseStops
<1> QED
  BY MonitoringInitHolds, MonitoringInvStep, <1>1, PTL DEF MonitoringSpec

\* The timer starts one check per occurrence, however checks die and leases pass
\* (the claim of monitoringTick).
THEOREM ScheduleHolds == MonitoringSpec => []OncePerOccurrence
<1>1. MonitoringInv => OncePerOccurrence
  BY DEF MonitoringInv, Books, OccurrenceInOrder, OncePerOccurrence
<1> QED
  BY MonitoringInitHolds, MonitoringInvStep, <1>1, PTL DEF MonitoringSpec

-----------------------------------------------------------------------------
(* The daily digest.                                                       *)

\* What a request to the provider may come to.
Outcomes == {"provider_accepted", "failed", "uncertain"}

\* A sweep that has a delivery in hand holds a copy of it, and there is one.
HasPreview(s) ==
    sweeper[s].pc \in {"claim", "post", "put", "replay"} =>
        /\ sweeper[s].at \in Days
        /\ Copy(s) # NoDelivery
        /\ delivery[sweeper[s].at] # NoDelivery
        /\ sweeper[s].pc = "put" => sweeper[s].outcome \in Outcomes

\* So it does of every delivery that it is to settle.
HasWaiting(s) ==
    \A d \in sweeper[s].todo : sweeper[s].copy[d] # NoDelivery /\ delivery[d] # NoDelivery

\* Mail goes out, and is told of, for deliveries that exist.
MailKnown ==
    /\ \A d \in mail : delivery[d] # NoDelivery
    /\ \A h \in Hooks : hook[h].event # NoDelivery =>
         hook[h].event \in Events /\ EventDay[hook[h].event] \in mail

HistoryTyped ==
    /\ posts \in [Days -> Nat]
    /\ replayed \subseteq Days
    /\ IsFiniteSet(recorded)

\* A sweep that has claimed a delivery, up to the end of its turn.
Sending(s, d) == sweeper[s].pc \in {"post", "put", "replay"} /\ sweeper[s].at = d

\* Nobody has claimed it: it does not exist, waits, or is ready.
Unsent(d) == delivery[d] = NoDelivery \/ delivery[d].status \in {"synthesizing", "preview_ready"}

\* What is so of a delivery that was never put back: while unsent it has no post
\* and no sweep, one sweep claims it and posts it once, and its events are shown
\* from their replay on.
SentByOne(d) ==
    /\ posts[d] <= 1
    /\ Unsent(d) => posts[d] = 0 /\ d \notin replayed /\ \A s \in Sweepers : ~Sending(s, d)
    /\ \A s, t \in Sweepers : Sending(s, d) /\ Sending(t, d) => s = t
    /\ \A s \in Sweepers : Sending(s, d) =>
         d \notin replayed /\ (sweeper[s].pc = "post" => posts[d] = 0)
    /\ d \in replayed =>
         /\ delivery[d].known
         /\ \A e \in recorded \ late : EventDay[e] = d => LatestShown(e)

DeliveryInv ==
    /\ DeliveryTypeOK /\ HistoryTyped /\ MailKnown
    /\ \A s \in Sweepers : HasPreview(s) /\ HasWaiting(s)
    /\ \A d \in Days \ putBack : SentByOne(d)

-----------------------------------------------------------------------------
\* The latest of the events that are retained is one of them, and no other is later.
LEMMA LatestIsRetained ==
    ASSUME DeliveryInv, NEW d \in Days, Retained(d) # {}
    PROVE  /\ Latest(d) \in Retained(d)
           /\ \A f \in Retained(d) : EventAt[f] <= EventAt[Latest(d)]
<1> DEFINE Top(T, e) == e \in T /\ \A f \in T : EventAt[f] <= EventAt[e]
           B == {T \in SUBSET Retained(d) : T # {} /\ \A e \in T : ~Top(T, e)}
<1>1. Retained(d) \subseteq Events /\ IsFiniteSet(Retained(d))
  <2>1. Retained(d) \subseteq recorded
    BY DEF Retained
  <2>2. recorded \subseteq Events /\ IsFiniteSet(recorded)
    BY DEF DeliveryInv, DeliveryTypeOK, HistoryTyped
  <2> QED BY <2>1, <2>2, FS_Subset
<1>2. \A e \in Retained(d) : EventAt[e] \in Nat
  BY <1>1, DeliveryAssumption
<1>3. B = {}
  <2> SUFFICES ASSUME B # {} PROVE FALSE
    OBVIOUS
  <2>1. IsWellFoundedOn(StrictSubsetOrdering(Retained(d)), SUBSET Retained(d))
    <3>1. FiniteSubsetsOf(Retained(d)) = SUBSET Retained(d)
      BY <1>1, FS_FiniteSubsetsOfFinite
    <3>2. IsWellFoundedOn(StrictSubsetOrdering(Retained(d)), FiniteSubsetsOf(Retained(d)))
      BY FS_StrictSubsetOrderingWellFounded
    <3> QED BY <3>1, <3>2, Zenon
  <2>2. PICK T \in B : \A U \in B : <<U, T>> \notin StrictSubsetOrdering(Retained(d))
    <3>1. B \subseteq SUBSET Retained(d)
      OBVIOUS
    <3> HIDE DEF B
    <3>2. \E T \in B : \A U \in B : ~ (<<U, T>> \in StrictSubsetOrdering(Retained(d)))
      BY <2>1, <3>1, WFMin
    <3> QED BY <3>2
  <2>3. PICK e \in T : TRUE
    OBVIOUS
  <2>4. T \ {e} \notin B
    <3>1. T \ {e} # T /\ T \ {e} \in SUBSET Retained(d) /\ T \in SUBSET Retained(d)
      OBVIOUS
    <3>2. <<T \ {e}, T>> \in StrictSubsetOrdering(Retained(d))
      BY <3>1 DEF StrictSubsetOrdering
    <3> QED BY <2>2, <3>2
  <2>5. CASE T = {e}
    BY <1>2, <2>3, <2>5
  <2>6. CASE T # {e}
    <3>1. T \ {e} # {}
      BY <2>3, <2>6
    <3>2. PICK f \in T \ {e} : Top(T \ {e}, f)
      BY <2>4, <3>1
    <3>3. \A g \in T : EventAt[g] \in Nat
      BY <1>2
    <3>4. CASE EventAt[e] <= EventAt[f]
      BY <3>2, <3>3, <3>4
    <3>5. CASE ~(EventAt[e] <= EventAt[f])
      BY <2>3, <3>2, <3>3, <3>5
    <3> QED BY <3>4, <3>5
  <2> QED BY <2>5, <2>6
<1>4. \E e \in Retained(d) : \A f \in Retained(d) : EventAt[f] <= EventAt[e]
  BY <1>3
<1> QED BY <1>4 DEF Latest

-----------------------------------------------------------------------------
\* What a step of one sweep has to see to, for all but the days' own accounts.
LEMMA SweepKeeps ==
    ASSUME DeliveryInv, NEW s \in Sweepers, NEW x \in Sweeper,
           sweeper' = [sweeper EXCEPT ![s] = x],
           delivery' \in [Days -> Document \cup {NoDelivery}],
           \A d \in Days : delivery[d] # NoDelivery => delivery'[d] # NoDelivery,
           synthesis' \in [Days -> {"none", "running", "completed", "failed", "needs_review"}],
           mail \subseteq mail', mail' \subseteq Days,
           \A d \in mail' : delivery'[d] # NoDelivery,
           hook' = hook, recorded' = recorded,
           posts' \in [Days -> Nat], replayed' \subseteq Days,
           x.pc \in {"claim", "post", "put", "replay"} =>
             x.at \in Days /\ x.copy[x.at] # NoDelivery /\ delivery'[x.at] # NoDelivery,
           x.pc = "put" => x.outcome \in Outcomes,
           \A d \in x.todo : x.copy[d] # NoDelivery /\ delivery'[d] # NoDelivery
    PROVE  /\ DeliveryTypeOK' /\ HistoryTyped' /\ MailKnown'
           /\ \A t \in Sweepers : HasPreview(t)' /\ HasWaiting(t)'
<1> USE DEF DeliveryInv, DeliveryTypeOK
<1>1. DeliveryTypeOK'
  OBVIOUS
<1>2. HistoryTyped'
  BY DEF HistoryTyped
<1>3. MailKnown'
  BY DEF MailKnown
<1>4. ASSUME NEW t \in Sweepers PROVE HasPreview(t)' /\ HasWaiting(t)'
  <2>1. CASE t = s
    <3>1. sweeper'[t] = x
      BY <2>1
    <3> QED BY <3>1 DEF HasPreview, HasWaiting, Copy
  <2>2. CASE t # s
    <3>1. sweeper'[t] = sweeper[t] /\ sweeper[t] \in Sweeper
      BY <2>2
    <3> QED BY <3>1 DEF HasPreview, HasWaiting, Copy, Sweeper
  <2> QED BY <2>1, <2>2
<1> QED BY <1>1, <1>2, <1>3, <1>4

\* A step leaves a day's account right when nobody comes to send its mail, a mail
\* once claimed stays so, and what is shown of it grows with what is recorded.
LEMMA DayKeeps ==
    ASSUME DeliveryInv, NEW d \in Days, SentByOne(d),
           \A s \in Sweepers : Sending(s, d)' =>
             Sending(s, d) /\ (sweeper'[s].pc = "post" => sweeper[s].pc = "post"),
           Unsent(d)' => Unsent(d),
           posts'[d] = posts[d],
           d \in replayed' =>
             /\ d \in replayed /\ delivery'[d].known = delivery[d].known
             /\ delivery'[d].eventAt >= delivery[d].eventAt
             /\ delivery[d].eventAt \in Nat /\ delivery'[d].eventAt \in Nat
             /\ \A e \in recorded' \ late' : EventDay[e] = d =>
                  (e \in Events /\ e \in recorded \ late) \/ delivery'[d].eventAt >= EventAt[e]
    PROVE  SentByOne(d)'
<1>1. \A e \in Events : EventAt[e] \in Nat
  BY DeliveryAssumption
<1> DEFINE S(s) == Sending(s, d)
           N(s) == Sending(s, d)'
           U == Unsent(d)
           V == Unsent(d)'
<1>2. /\ posts[d] <= 1
      /\ U => posts[d] = 0 /\ d \notin replayed /\ \A s \in Sweepers : ~S(s)
      /\ \A s, t \in Sweepers : S(s) /\ S(t) => s = t
      /\ \A s \in Sweepers : S(s) =>
           d \notin replayed /\ (sweeper[s].pc = "post" => posts[d] = 0)
      /\ d \in replayed =>
           /\ delivery[d].known
           /\ \A e \in recorded \ late : EventDay[e] = d => LatestShown(e)
  BY DEF SentByOne
<1>3. /\ \A s \in Sweepers : N(s) => S(s) /\ (sweeper'[s].pc = "post" => sweeper[s].pc = "post")
      /\ V => U
  OBVIOUS
<1>4. d \in replayed' =>
        /\ delivery'[d].known
        /\ \A e \in recorded' \ late' : EventDay[e] = d => delivery'[d].eventAt >= EventAt[e]
  BY <1>1, <1>2 DEF LatestShown
<1>5. /\ posts'[d] <= 1
      /\ V => posts'[d] = 0 /\ d \notin replayed' /\ \A s \in Sweepers : ~N(s)
      /\ \A s, t \in Sweepers : N(s) /\ N(t) => s = t
      /\ \A s \in Sweepers : N(s) =>
           d \notin replayed' /\ (sweeper'[s].pc = "post" => posts'[d] = 0)
  <2> HIDE DEF S, N, U, V
  <2> QED BY <1>2, <1>3
<1> QED BY <1>4, <1>5 DEF SentByOne, LatestShown

\* The date shown is a number, on every document.
LEMMA ShownIsDate ==
    ASSUME DeliveryInv, NEW d \in Days, delivery[d] # NoDelivery
    PROVE  delivery[d] \in Document /\ delivery[d].eventAt \in Nat
<1>1. delivery[d] \in Document
  BY DEF DeliveryInv, DeliveryTypeOK
<1> QED BY <1>1, DeliveryAssumption DEF Document

\* A day whose events were replayed has its document.
LEMMA ReplayedHasDocument ==
    ASSUME DeliveryInv, NEW d \in Days, SentByOne(d), d \in replayed
    PROVE  delivery[d] # NoDelivery
BY DEF SentByOne, Unsent

-----------------------------------------------------------------------------
\* A step of a sweep that changes no document and does not claim, post or replay.
LEMMA QuietSweep ==
    ASSUME DeliveryInv, NEW s \in Sweepers, NEW x \in Sweeper,
           sweeper' = [sweeper EXCEPT ![s] = x],
           x.pc \notin {"post", "put", "replay"},
           x.pc = "claim" =>
             x.at \in Days /\ x.copy[x.at] # NoDelivery /\ delivery[x.at] # NoDelivery,
           \A d \in x.todo : x.copy[d] # NoDelivery /\ delivery[d] # NoDelivery,
           UNCHANGED <<delivery, synthesis, mail, hook, recorded, history>>
    PROVE  DeliveryInv'
<1>1. /\ DeliveryTypeOK' /\ HistoryTyped' /\ MailKnown'
      /\ \A t \in Sweepers : HasPreview(t)' /\ HasWaiting(t)'
  <2> USE DEF DeliveryInv, DeliveryTypeOK, HistoryTyped, MailKnown, history
  <2> QED BY SweepKeeps
<1>2. ASSUME NEW d \in Days \ putBack' PROVE SentByOne(d)'
  <2>1. SentByOne(d)
    BY DEF DeliveryInv, history
  <2>2. \A t \in Sweepers : Sending(t, d)' =>
          Sending(t, d) /\ (sweeper'[t].pc = "post" => sweeper[t].pc = "post")
    BY DEF DeliveryInv, DeliveryTypeOK, Sending
  <2>3. Unsent(d)' => Unsent(d)
    BY DEF Unsent
  <2>4. d \in replayed => delivery[d].eventAt \in Nat
    BY <2>1, ShownIsDate, ReplayedHasDocument
  <2>5. \A e \in recorded : e \in Events
    BY DEF DeliveryInv, DeliveryTypeOK
  <2> QED BY <2>1, <2>2, <2>3, <2>4, <2>5, DayKeeps DEF history
<1> QED BY <1>1, <1>2 DEF DeliveryInv

\* The steps of that kind.
LEMMA QuietSweepSteps ==
    ASSUME DeliveryInv, NEW s \in Sweepers,
           \/ BeginDelivery(s) \/ NothingToPrepare(s) \/ ReadDeliveries(s)
           \/ NothingToSend(s) \/ (\E d \in Days : TakePreview(s, d)) \/ SweeperDies(s)
    PROVE  DeliveryInv'
<1>1. /\ sweeper \in [Sweepers -> Sweeper]
      /\ delivery \in [Days -> Document \cup {NoDelivery}]
      /\ HasPreview(s) /\ HasWaiting(s)
  BY DEF DeliveryInv, DeliveryTypeOK
<1>2. sweeper[s] \in Sweeper
  BY <1>1
<1>3. IdleSweeper \in Sweeper
  BY DEF IdleSweeper, Sweeper, SweeperPc, NoCopies, DeliveryStatus
<1>4. CASE BeginDelivery(s) \/ NothingToPrepare(s)
  <2>1. PICK pc \in {"prepare", "read"} : SweeperGo(s, pc)
    BY <1>4 DEF BeginDelivery, NothingToPrepare
  <2> DEFINE x == [sweeper[s] EXCEPT !.pc = pc]
  <2>2. x \in Sweeper /\ sweeper' = [sweeper EXCEPT ![s] = x]
    BY <1>2, <2>1 DEF Sweeper, SweeperPc, SweeperGo
  <2>3. x.pc = pc /\ x.todo = sweeper[s].todo /\ x.copy = sweeper[s].copy
    BY <1>2 DEF Sweeper
  <2>4. UNCHANGED <<delivery, synthesis, mail, hook, recorded, history>>
    BY <1>4 DEF BeginDelivery, NothingToPrepare
  <2> HIDE DEF x
  <2> QED BY <1>1, <2>2, <2>3, <2>4, QuietSweep DEF HasWaiting
<1>5. CASE ReadDeliveries(s)
  <2> DEFINE waiting == {d \in Days : HasStatus(d, "synthesizing")}
             x == [sweeper[s] EXCEPT !.pc = "settle", !.todo = waiting,
                     !.copy = [d \in Days |-> IF d \in waiting THEN delivery[d] ELSE NoDelivery]]
  <2>1. x \in Sweeper /\ sweeper' = [sweeper EXCEPT ![s] = x]
    BY <1>1, <1>2, <1>5 DEF ReadDeliveries, Sweeper, SweeperPc
  <2>2. x.pc = "settle" /\ x.todo = waiting
        /\ \A d \in waiting : x.copy[d] # NoDelivery /\ delivery[d] # NoDelivery
    BY <1>2 DEF Sweeper, HasStatus
  <2>3. UNCHANGED <<delivery, synthesis, mail, hook, recorded, history>>
    BY <1>5 DEF ReadDeliveries
  <2> HIDE DEF x, waiting
  <2> QED BY <2>1, <2>2, <2>3, QuietSweep
<1>6. CASE NothingToSend(s) \/ SweeperDies(s)
  <2>1. sweeper' = [sweeper EXCEPT ![s] = IdleSweeper]
    BY <1>6 DEF NothingToSend, SweeperDies, SweeperEnds
  <2>2. IdleSweeper.pc = "idle" /\ IdleSweeper.todo = {}
    BY DEF IdleSweeper
  <2>3. UNCHANGED <<delivery, synthesis, mail, hook, recorded, history>>
    BY <1>6 DEF NothingToSend, SweeperDies
  <2> QED BY <1>3, <2>1, <2>2, <2>3, QuietSweep
<1>7. ASSUME NEW d \in Days, TakePreview(s, d) PROVE DeliveryInv'
  <2> DEFINE x == [sweeper[s] EXCEPT !.pc = "claim", !.at = d, !.copy[d] = delivery[d]]
  <2>1. x \in Sweeper /\ sweeper' = [sweeper EXCEPT ![s] = x]
    BY <1>1, <1>2, <1>7 DEF TakePreview, Sweeper, SweeperPc
  <2>2. x.pc = "claim" /\ x.at = d /\ x.copy[d] = delivery[d] /\ x.todo = {}
    BY <1>2, <1>7 DEF Sweeper, TakePreview
  <2>3. UNCHANGED <<delivery, synthesis, mail, hook, recorded, history>>
        /\ delivery[d] # NoDelivery
    BY <1>7 DEF TakePreview, HasStatus
  <2> HIDE DEF x
  <2> QED BY <2>1, <2>2, <2>3, QuietSweep
<1> QED BY <1>4, <1>5, <1>6, <1>7

-----------------------------------------------------------------------------
\* A sweep prepares the digest of a day that has none.
LEMMA PrepareKeeps ==
    ASSUME DeliveryInv, NEW s \in Sweepers, NEW d \in Days, PrepareDigest(s, d)
    PROVE  DeliveryInv'
<1>1. /\ sweeper \in [Sweepers -> Sweeper] /\ sweeper[s] \in Sweeper
      /\ delivery \in [Days -> Document \cup {NoDelivery}]
      /\ HasPreview(s) /\ HasWaiting(s)
  BY DEF DeliveryInv, DeliveryTypeOK
<1> DEFINE x == [sweeper[s] EXCEPT !.pc = "read"]
<1>2. x \in Sweeper /\ sweeper' = [sweeper EXCEPT ![s] = x]
  BY <1>1 DEF PrepareDigest, Sweeper, SweeperPc, SweeperGo
<1>3. x.pc = "read" /\ x.todo = sweeper[s].todo /\ x.copy = sweeper[s].copy
  BY <1>1 DEF Sweeper
<1>4. PICK new \in {NewDelivery("synthesizing"), NewDelivery("preview_ready")} :
        delivery' = [delivery EXCEPT ![d] = new]
  BY DEF PrepareDigest, Put
<1>5. new \in Document /\ new # NoDelivery /\ new.status \in {"synthesizing", "preview_ready"}
  <2>1. PICK ready \in {"synthesizing", "preview_ready"} : new = NewDelivery(ready)
    OBVIOUS
  <2>2. new = [status |-> ready, known |-> FALSE, eventAt |-> 0]
    BY <2>1 DEF NewDelivery
  <2>3. new \in Document /\ new.status \in {"synthesizing", "preview_ready"}
    BY <2>2 DEF Document, DeliveryStatus
  <2> QED BY <2>3, NoDeliveryAssumption
<1>6. /\ synthesis' \in [Days -> {"none", "running", "completed", "failed", "needs_review"}]
      /\ UNCHANGED <<mail, hook, recorded, history>>
  BY DEF PrepareDigest, DeliveryInv, DeliveryTypeOK
<1>7. /\ DeliveryTypeOK' /\ HistoryTyped' /\ MailKnown'
      /\ \A t \in Sweepers : HasPreview(t)' /\ HasWaiting(t)'
  <2>1. /\ delivery' \in [Days -> Document \cup {NoDelivery}]
        /\ \A c \in Days : delivery[c] # NoDelivery => delivery'[c] # NoDelivery
    BY <1>1, <1>4, <1>5
  <2>2. \A c \in x.todo : x.copy[c] # NoDelivery /\ delivery'[c] # NoDelivery
    BY <1>1, <1>2, <1>3, <2>1 DEF HasWaiting, Sweeper
  <2>3. mail \subseteq mail' /\ mail' \subseteq Days /\ \A c \in mail' : delivery'[c] # NoDelivery
    BY <1>6, <2>1 DEF DeliveryInv, DeliveryTypeOK, MailKnown
  <2>4. posts' \in [Days -> Nat] /\ replayed' \subseteq Days /\ hook' = hook /\ recorded' = recorded
    BY <1>6 DEF DeliveryInv, HistoryTyped, history
  <2> HIDE DEF x
  <2> QED BY <1>2, <1>3, <1>6, <2>1, <2>2, <2>3, <2>4, SweepKeeps
<1>8. ASSUME NEW c \in Days \ putBack' PROVE SentByOne(c)'
  <2>1. SentByOne(c)
    BY <1>6 DEF DeliveryInv, history
  <2>2. \A t \in Sweepers : Sending(t, c)' =>
          Sending(t, c) /\ (sweeper'[t].pc = "post" => sweeper[t].pc = "post")
    BY <1>1, <1>2, <1>3 DEF Sending
  <2>3. Unsent(c)' => Unsent(c)
    BY <1>1, <1>4 DEF Unsent, PrepareDigest
  <2>4. c \in replayed => delivery[c].eventAt \in Nat /\ delivery'[c] = delivery[c]
    BY <1>1, <1>4, <2>1, ShownIsDate, ReplayedHasDocument DEF PrepareDigest
  <2>5. \A e \in recorded : e \in Events
    BY DEF DeliveryInv, DeliveryTypeOK
  <2> QED BY <1>6, <2>1, <2>2, <2>3, <2>4, <2>5, DayKeeps DEF history
<1> QED BY <1>7, <1>8 DEF DeliveryInv

\* A sweep settles a delivery: a document whose day was not put back was waiting.
LEMMA SettleKeeps ==
    ASSUME DeliveryInv, NEW s \in Sweepers, NEW d \in Days, SettleSynthesis(s, d)
    PROVE  DeliveryInv'
<1>1. /\ sweeper \in [Sweepers -> Sweeper] /\ sweeper[s] \in Sweeper
      /\ delivery \in [Days -> Document \cup {NoDelivery}]
      /\ HasPreview(s) /\ HasWaiting(s)
  BY DEF DeliveryInv, DeliveryTypeOK
<1> DEFINE x == [sweeper[s] EXCEPT !.todo = @ \ {d}, !.copy[d] = NoDelivery]
<1>2. x \in Sweeper /\ sweeper' = [sweeper EXCEPT ![s] = x]
  BY <1>1 DEF SettleSynthesis, Sweeper
<1>3. /\ x.pc = "settle" /\ sweeper[s].pc = "settle" /\ x.todo = sweeper[s].todo \ {d}
      /\ \A c \in Days \ {d} : x.copy[c] = sweeper[s].copy[c]
  BY <1>1 DEF SettleSynthesis, Sweeper
<1>4. /\ UNCHANGED <<synthesis, mail, hook, recorded, posts, replayed, late>>
      /\ putBack \subseteq putBack'
  BY DEF SettleSynthesis
<1> DEFINE new == [sweeper[s].copy[d] EXCEPT !.status = SynthesisOutcome(d)]
<1>5. \/ UNCHANGED <<delivery, putBack>>
      \/ /\ delivery' = [delivery EXCEPT ![d] = new]
         /\ putBack' = IF HasStatus(d, "synthesizing") THEN putBack ELSE putBack \cup {d}
  BY DEF SettleSynthesis, Put
<1>6. new \in Document /\ new # NoDelivery
  <2>1. sweeper[s].copy[d] \in Document
    BY <1>1 DEF SettleSynthesis, HasWaiting, Sweeper
  <2>2. SynthesisOutcome(d) \in DeliveryStatus
    BY DEF SynthesisOutcome, DeliveryStatus
  <2>3. new \in Document
    BY <2>1, <2>2 DEF Document
  <2> QED BY <2>3, NoDeliveryAssumption
<1> HIDE DEF new, x
<1>7. /\ delivery' \in [Days -> Document \cup {NoDelivery}]
      /\ \A c \in Days : delivery[c] # NoDelivery => delivery'[c] # NoDelivery
      /\ \A c \in Days \ {d} : delivery'[c] = delivery[c]
  BY <1>1, <1>5, <1>6
<1>8. /\ DeliveryTypeOK' /\ HistoryTyped' /\ MailKnown'
      /\ \A t \in Sweepers : HasPreview(t)' /\ HasWaiting(t)'
  <2>1. \A c \in x.todo : x.copy[c] # NoDelivery /\ delivery'[c] # NoDelivery
    BY <1>1, <1>2, <1>3, <1>7 DEF HasWaiting, Sweeper
  <2>2. mail \subseteq mail' /\ mail' \subseteq Days /\ \A c \in mail' : delivery'[c] # NoDelivery
    BY <1>4, <1>7 DEF DeliveryInv, DeliveryTypeOK, MailKnown
  <2>3. /\ posts' \in [Days -> Nat] /\ replayed' \subseteq Days /\ hook' = hook
        /\ recorded' = recorded
        /\ synthesis' \in [Days -> {"none", "running", "completed", "failed", "needs_review"}]
    BY <1>4 DEF DeliveryInv, DeliveryTypeOK, HistoryTyped
  <2> QED BY <1>2, <1>3, <1>7, <2>1, <2>2, <2>3, SweepKeeps
<1>9. ASSUME NEW c \in Days \ putBack' PROVE SentByOne(c)'
  <2>1. SentByOne(c)
    BY <1>4 DEF DeliveryInv
  <2>2. \A t \in Sweepers : Sending(t, c)' =>
          Sending(t, c) /\ (sweeper'[t].pc = "post" => sweeper[t].pc = "post")
    BY <1>1, <1>2, <1>3 DEF Sending
  <2>3. c = d => UNCHANGED delivery \/ Unsent(d)
    BY <1>5 DEF Unsent, HasStatus
  <2>4. Unsent(c)' => Unsent(c)
    BY <1>7, <2>3 DEF Unsent
  <2>5. c \in replayed => delivery[c].eventAt \in Nat /\ delivery'[c] = delivery[c]
    <3> SUFFICES ASSUME c \in replayed PROVE delivery[c].eventAt \in Nat /\ delivery'[c] = delivery[c]
      OBVIOUS
    <3>1. ~Unsent(c)
      BY <2>1 DEF SentByOne
    <3> QED BY <1>7, <2>1, <2>3, <3>1, ShownIsDate, ReplayedHasDocument
  <2>6. \A e \in recorded : e \in Events
    BY DEF DeliveryInv, DeliveryTypeOK
  <2> QED BY <1>4, <2>1, <2>2, <2>4, <2>5, <2>6, DayKeeps
<1> QED BY <1>8, <1>9 DEF DeliveryInv

-----------------------------------------------------------------------------
\* A sweep claims a preview that nobody has claimed.
LEMMA ClaimPreviewKeeps ==
    ASSUME DeliveryInv, NEW s \in Sweepers, ClaimPreview(s)
    PROVE  DeliveryInv'
<1> DEFINE d == sweeper[s].at
<1>1. /\ sweeper \in [Sweepers -> Sweeper] /\ sweeper[s] \in Sweeper
      /\ delivery \in [Days -> Document \cup {NoDelivery}]
      /\ HasPreview(s) /\ HasWaiting(s)
      /\ d \in Days /\ Copy(s) # NoDelivery /\ Copy(s) = sweeper[s].copy[d]
      /\ sweeper[s].pc = "claim"
  BY DEF DeliveryInv, DeliveryTypeOK, HasPreview, ClaimPreview, Copy
<1>2. UNCHANGED <<synthesis, mail, hook, recorded, history>>
  BY DEF ClaimPreview
<1>3. CASE ~HasStatus(d, "preview_ready")
  <2>1. sweeper' = [sweeper EXCEPT ![s] = IdleSweeper] /\ UNCHANGED delivery
    BY <1>3 DEF ClaimPreview, SweeperEnds
  <2>2. IdleSweeper.pc = "idle" /\ IdleSweeper.todo = {} /\ IdleSweeper \in Sweeper
    BY DEF IdleSweeper, Sweeper, SweeperPc, NoCopies, DeliveryStatus
  <2> QED BY <1>2, <2>1, <2>2, QuietSweep
<1>4. CASE HasStatus(d, "preview_ready")
  <2> DEFINE x == [sweeper[s] EXCEPT !.pc = "post"]
             new == [Copy(s) EXCEPT !.status = "sending"]
  <2>1. x \in Sweeper /\ sweeper' = [sweeper EXCEPT ![s] = x]
    BY <1>1, <1>4 DEF ClaimPreview, Sweeper, SweeperPc, SweeperGo
  <2>2. x.pc = "post" /\ x.at = d /\ x.todo = sweeper[s].todo /\ x.copy = sweeper[s].copy
    BY <1>1 DEF Sweeper
  <2>3. delivery' = [delivery EXCEPT ![d] = new]
    BY <1>4 DEF ClaimPreview, Put
  <2>4. new \in Document /\ new # NoDelivery /\ new.status = "sending"
    <3>1. Copy(s) \in Document
      BY <1>1 DEF Sweeper
    <3>2. new \in Document /\ new.status = "sending"
      BY <3>1 DEF Document, DeliveryStatus
    <3> QED BY <3>2, NoDeliveryAssumption
  <2> HIDE DEF new, x
  <2>5. /\ delivery' \in [Days -> Document \cup {NoDelivery}]
        /\ \A c \in Days : delivery[c] # NoDelivery => delivery'[c] # NoDelivery
        /\ \A c \in Days \ {d} : delivery'[c] = delivery[c]
        /\ delivery'[d] = new
    BY <1>1, <2>3, <2>4
  <2>6. /\ DeliveryTypeOK' /\ HistoryTyped' /\ MailKnown'
        /\ \A t \in Sweepers : HasPreview(t)' /\ HasWaiting(t)'
    <3>1. \A c \in x.todo : x.copy[c] # NoDelivery /\ delivery'[c] # NoDelivery
      BY <1>1, <2>1, <2>2, <2>5 DEF HasWaiting, Sweeper
    <3>2. mail \subseteq mail' /\ mail' \subseteq Days /\ \A c \in mail' : delivery'[c] # NoDelivery
      BY <1>2, <2>5 DEF DeliveryInv, DeliveryTypeOK, MailKnown
    <3>3. /\ posts' \in [Days -> Nat] /\ replayed' \subseteq Days /\ hook' = hook
          /\ recorded' = recorded
          /\ synthesis' \in [Days -> {"none", "running", "completed", "failed", "needs_review"}]
      BY <1>2 DEF DeliveryInv, DeliveryTypeOK, HistoryTyped, history
    <3>4. x.at \in Days /\ x.copy[x.at] # NoDelivery /\ delivery'[x.at] # NoDelivery
      BY <1>1, <2>2, <2>4, <2>5
    <3> QED BY <2>1, <2>2, <2>5, <3>1, <3>2, <3>3, <3>4, SweepKeeps
  <2>7. ASSUME NEW c \in Days \ putBack' PROVE SentByOne(c)'
    <3>1. SentByOne(c) /\ c \in Days
      BY <1>2 DEF DeliveryInv, history
    <3>2. CASE c # d
      <4>1. \A t \in Sweepers : Sending(t, c)' =>
              Sending(t, c) /\ (sweeper'[t].pc = "post" => sweeper[t].pc = "post")
        BY <1>1, <2>1, <2>2, <3>2 DEF Sending
      <4>2. Unsent(c)' => Unsent(c)
        BY <2>5, <3>2 DEF Unsent
      <4>3. c \in replayed => delivery[c].eventAt \in Nat /\ delivery'[c] = delivery[c]
        BY <2>5, <3>1, <3>2, ShownIsDate, ReplayedHasDocument
      <4>4. \A e \in recorded : e \in Events
        BY DEF DeliveryInv, DeliveryTypeOK
      <4> QED BY <1>2, <3>1, <4>1, <4>2, <4>3, <4>4, DayKeeps DEF history
    <3>3. CASE c = d
      <4>1. Unsent(c)
        BY <1>4, <3>3 DEF Unsent, HasStatus
      <4>2. posts[c] = 0 /\ c \notin replayed /\ \A t \in Sweepers : ~Sending(t, c)
        BY <3>1, <3>3, <4>1 DEF SentByOne
      <4>3. posts'[c] = 0 /\ c \notin replayed'
        BY <1>2, <4>2 DEF history
      <4>4. \A t \in Sweepers : Sending(t, c)' => t = s
        BY <1>1, <2>1, <4>2 DEF Sending
      <4>5. ~Unsent(c)'
        BY <2>4, <2>5, <3>3 DEF Unsent
      <4> QED BY <4>3, <4>4, <4>5 DEF SentByOne
    <3> QED BY <3>2, <3>3
  <2> QED BY <2>6, <2>7 DEF DeliveryInv
<1> QED BY <1>3, <1>4

\* A sweep posts a delivery for the first time, whatever comes of it.
LEMMA PostKeeps ==
    ASSUME DeliveryInv, NEW s \in Sweepers,
           PostAccepted(s) \/ PostRefused(s) \/ PostLost(s) \/ PostGarbled(s)
    PROVE  DeliveryInv'
<1>1. PICK d \in Days : d = sweeper[s].at
  BY DEF DeliveryInv, HasPreview, PostAccepted, PostRefused, PostLost, PostGarbled, Posted
<1>2. /\ sweeper \in [Sweepers -> Sweeper] /\ sweeper[s] \in Sweeper
      /\ delivery \in [Days -> Document \cup {NoDelivery}]
      /\ HasPreview(s) /\ HasWaiting(s)
      /\ sweeper[s].copy[d] # NoDelivery /\ delivery[d] # NoDelivery
      /\ sweeper[s].pc = "post"
  BY <1>1 DEF DeliveryInv, DeliveryTypeOK, HasPreview, Copy,
              PostAccepted, PostRefused, PostLost, PostGarbled, Posted
<1>3. /\ UNCHANGED <<delivery, synthesis, hook, recorded, putBack, replayed, late>>
      /\ posts' = [posts EXCEPT ![d] = @ + 1]
      /\ mail' \in {mail, mail \cup {d}}
  BY <1>1 DEF PostAccepted, PostRefused, PostLost, PostGarbled, Posted
<1>4. PICK x \in Sweeper : /\ sweeper' = [sweeper EXCEPT ![s] = x]
                           /\ \/ x.pc = "put" /\ x.outcome \in Outcomes /\ x.at = d
                                 /\ x.copy = sweeper[s].copy /\ x.todo = sweeper[s].todo
                              \/ x.pc = "idle" /\ x.todo = {}
  <2>1. CASE PostGarbled(s)
    <3>1. IdleSweeper.pc = "idle" /\ IdleSweeper.todo = {} /\ IdleSweeper \in Sweeper
      BY DEF IdleSweeper, Sweeper, SweeperPc, NoCopies, DeliveryStatus
    <3>2. sweeper' = [sweeper EXCEPT ![s] = IdleSweeper]
      BY <2>1 DEF PostGarbled, SweeperEnds
    <3> QED BY <3>1, <3>2
  <2>2. CASE \E outcome \in Outcomes : Posted(s, outcome)
    <3>1. PICK outcome \in Outcomes : Posted(s, outcome)
      BY <2>2
    <3> DEFINE y == [sweeper[s] EXCEPT !.pc = "put", !.outcome = outcome]
    <3>2. sweeper' = [sweeper EXCEPT ![s] = y]
      BY <1>2, <3>1 DEF Posted
    <3>3. /\ y \in Sweeper /\ y.pc = "put" /\ y.outcome = outcome /\ y.at = sweeper[s].at
          /\ y.copy = sweeper[s].copy /\ y.todo = sweeper[s].todo
      BY <1>2, <3>1 DEF Sweeper, SweeperPc, Outcomes, DeliveryStatus
    <3> QED BY <1>1, <3>1, <3>2, <3>3
  <2> QED BY <2>1, <2>2 DEF PostAccepted, PostRefused, PostLost, Outcomes
<1>5. /\ DeliveryTypeOK' /\ HistoryTyped' /\ MailKnown'
      /\ \A t \in Sweepers : HasPreview(t)' /\ HasWaiting(t)'
  <2>1. \A c \in x.todo : x.copy[c] # NoDelivery /\ delivery'[c] # NoDelivery
    BY <1>2, <1>3, <1>4 DEF HasWaiting
  <2>2. mail \subseteq mail' /\ mail' \subseteq Days /\ \A c \in mail' : delivery'[c] # NoDelivery
    BY <1>2, <1>3 DEF DeliveryInv, DeliveryTypeOK, MailKnown
  <2>3. /\ posts' \in [Days -> Nat] /\ replayed' \subseteq Days
        /\ synthesis' \in [Days -> {"none", "running", "completed", "failed", "needs_review"}]
    BY <1>3 DEF DeliveryInv, DeliveryTypeOK, HistoryTyped
  <2> QED BY <1>2, <1>3, <1>4, <2>1, <2>2, <2>3, SweepKeeps
<1>6. ASSUME NEW c \in Days \ putBack' PROVE SentByOne(c)'
  <2>1. SentByOne(c) /\ c \in Days
    BY <1>3 DEF DeliveryInv
  <2>2. \A t \in Sweepers : Sending(t, c)' =>
          Sending(t, c) /\ (sweeper'[t].pc = "post" => sweeper[t].pc = "post" /\ t # s)
    BY <1>1, <1>2, <1>4 DEF Sending
  <2>3. Unsent(c)' <=> Unsent(c)
    BY <1>3 DEF Unsent
  <2>4. CASE c # d
    <3>1. posts'[c] = posts[c]
      BY <1>3, <2>4 DEF DeliveryInv, HistoryTyped
    <3>2. c \in replayed => delivery[c].eventAt \in Nat
      BY <2>1, ShownIsDate, ReplayedHasDocument
    <3>3. \A e \in recorded : e \in Events
      BY DEF DeliveryInv, DeliveryTypeOK
    <3> QED BY <1>3, <2>1, <2>2, <2>3, <3>1, <3>2, <3>3, DayKeeps
  <2>5. CASE c = d
    <3>1. Sending(s, c) /\ sweeper[s].pc = "post"
      BY <1>1, <1>2, <2>5 DEF Sending
    <3>2. /\ posts[c] = 0 /\ c \notin replayed /\ ~Unsent(c)
          /\ \A t \in Sweepers : Sending(t, c) => t = s
      BY <2>1, <3>1 DEF SentByOne
    <3>3. posts'[c] = 1 /\ c \notin replayed' /\ ~Unsent(c)'
      BY <1>3, <2>3, <2>5, <3>2 DEF DeliveryInv, HistoryTyped
    <3> QED BY <2>2, <3>2, <3>3 DEF SentByOne
  <2> QED BY <2>4, <2>5
<1> QED BY <1>5, <1>6 DEF DeliveryInv

\* A sweep puts the outcome down: the delivery is not ready again.
LEMMA PutOutcomeKeeps ==
    ASSUME DeliveryInv, NEW s \in Sweepers, PutOutcome(s)
    PROVE  DeliveryInv'
<1>1. PICK d \in Days : d = sweeper[s].at
  BY DEF DeliveryInv, HasPreview, PutOutcome
<1>2. /\ sweeper \in [Sweepers -> Sweeper] /\ sweeper[s] \in Sweeper
      /\ delivery \in [Days -> Document \cup {NoDelivery}]
      /\ HasPreview(s) /\ HasWaiting(s)
      /\ sweeper[s].copy[d] # NoDelivery /\ delivery[d] # NoDelivery
      /\ sweeper[s].pc = "put" /\ sweeper[s].outcome \in Outcomes
  BY <1>1 DEF DeliveryInv, DeliveryTypeOK, HasPreview, Copy, PutOutcome
<1>3. UNCHANGED <<synthesis, mail, hook, recorded, history>>
  BY DEF PutOutcome
<1> DEFINE new == [sweeper[s].copy[d] EXCEPT !.status = sweeper[s].outcome,
                     !.known = (sweeper[s].outcome = "provider_accepted")]
<1>4. delivery' = [delivery EXCEPT ![d] = new]
  BY <1>1 DEF PutOutcome, Put, Copy
<1>5. new \in Document /\ new # NoDelivery /\ new.status \in Outcomes
  <2>1. sweeper[s].copy[d] \in Document
    BY <1>1, <1>2 DEF Sweeper
  <2>2. new \in Document /\ new.status \in Outcomes
    BY <1>2, <2>1 DEF Document, DeliveryStatus, Outcomes
  <2> QED BY <2>2, NoDeliveryAssumption
<1> HIDE DEF new
<1>6. PICK x \in Sweeper : /\ sweeper' = [sweeper EXCEPT ![s] = x]
                           /\ \/ x.pc = "replay" /\ x.at = d
                                 /\ x.copy = sweeper[s].copy /\ x.todo = sweeper[s].todo
                              \/ x.pc = "idle" /\ x.todo = {}
  <2>1. CASE sweeper[s].outcome # "provider_accepted"
    <3>1. IdleSweeper.pc = "idle" /\ IdleSweeper.todo = {} /\ IdleSweeper \in Sweeper
      BY DEF IdleSweeper, Sweeper, SweeperPc, NoCopies, DeliveryStatus
    <3>2. sweeper' = [sweeper EXCEPT ![s] = IdleSweeper]
      BY <2>1 DEF PutOutcome, SweeperEnds
    <3> QED BY <3>1, <3>2
  <2>2. CASE sweeper[s].outcome = "provider_accepted"
    <3> DEFINE y == [sweeper[s] EXCEPT !.pc = "replay"]
    <3>1. sweeper' = [sweeper EXCEPT ![s] = y]
      BY <1>2, <2>2 DEF PutOutcome, SweeperGo
    <3>2. /\ y \in Sweeper /\ y.pc = "replay" /\ y.at = sweeper[s].at
          /\ y.copy = sweeper[s].copy /\ y.todo = sweeper[s].todo
      BY <1>2 DEF Sweeper, SweeperPc
    <3> QED BY <1>1, <3>1, <3>2
  <2> QED BY <2>1, <2>2
<1>7. /\ delivery' \in [Days -> Document \cup {NoDelivery}]
      /\ \A c \in Days : delivery[c] # NoDelivery => delivery'[c] # NoDelivery
      /\ \A c \in Days \ {d} : delivery'[c] = delivery[c]
      /\ delivery'[d] = new
  BY <1>2, <1>4, <1>5
<1>8. /\ DeliveryTypeOK' /\ HistoryTyped' /\ MailKnown'
      /\ \A t \in Sweepers : HasPreview(t)' /\ HasWaiting(t)'
  <2>1. \A c \in x.todo : x.copy[c] # NoDelivery /\ delivery'[c] # NoDelivery
    BY <1>2, <1>6, <1>7 DEF HasWaiting, Sweeper
  <2>2. mail \subseteq mail' /\ mail' \subseteq Days /\ \A c \in mail' : delivery'[c] # NoDelivery
    BY <1>3, <1>7 DEF DeliveryInv, DeliveryTypeOK, MailKnown
  <2>3. /\ posts' \in [Days -> Nat] /\ replayed' \subseteq Days /\ hook' = hook
        /\ recorded' = recorded
        /\ synthesis' \in [Days -> {"none", "running", "completed", "failed", "needs_review"}]
    BY <1>3 DEF DeliveryInv, DeliveryTypeOK, HistoryTyped, history
  <2> QED BY <1>2, <1>5, <1>6, <1>7, <2>1, <2>2, <2>3, SweepKeeps
<1>9. ASSUME NEW c \in Days \ putBack' PROVE SentByOne(c)'
  <2>1. SentByOne(c) /\ c \in Days
    BY <1>3 DEF DeliveryInv, history
  <2>2. \A t \in Sweepers : Sending(t, c)' =>
          Sending(t, c) /\ (sweeper'[t].pc = "post" => sweeper[t].pc = "post")
    BY <1>1, <1>2, <1>6 DEF Sending
  <2>3. Unsent(c)' => Unsent(c)
    BY <1>5, <1>7 DEF Unsent, Outcomes
  <2>4. c \in replayed => c # d
    <3>1. c = d => Sending(s, c)
      BY <1>1, <1>2 DEF Sending
    <3> QED BY <2>1, <3>1 DEF SentByOne
  <2>5. c \in replayed => delivery[c].eventAt \in Nat /\ delivery'[c] = delivery[c]
    BY <1>7, <2>1, <2>4, ShownIsDate, ReplayedHasDocument
  <2>6. \A e \in recorded : e \in Events
    BY DEF DeliveryInv, DeliveryTypeOK
  <2> QED BY <1>3, <2>1, <2>2, <2>3, <2>5, <2>6, DayKeeps DEF history
<1> QED BY <1>8, <1>9 DEF DeliveryInv

-----------------------------------------------------------------------------
\* What an event does to a document: it stays a document, and known or not.
LEMMA EventApplied ==
    ASSUME DeliveryInv, NEW e \in Events, delivery[EventDay[e]] # NoDelivery,
           ApplyEvent(e), NotOlder(e)
    PROVE  /\ delivery' \in [Days -> Document \cup {NoDelivery}]
           /\ \A c \in Days : delivery[c] # NoDelivery => delivery'[c] # NoDelivery
           /\ \A c \in Days : Unsent(c)' => Unsent(c)
           /\ \A c \in Days : delivery[c] # NoDelivery =>
                /\ delivery'[c].known = delivery[c].known
                /\ delivery'[c].eventAt \in Nat /\ delivery[c].eventAt \in Nat
                /\ delivery'[c].eventAt >= delivery[c].eventAt
           /\ delivery'[EventDay[e]].eventAt = EventAt[e]
<1>1. delivery \in [Days -> Document \cup {NoDelivery}] /\ EventDay[e] \in Days /\ EventAt[e] \in Nat
  BY DeliveryAssumption DEF DeliveryInv, DeliveryTypeOK
<1>2. PICK d \in Days : d = EventDay[e]
  BY <1>1
<1>3. delivery[d] \in Document /\ delivery[d].eventAt \in Nat
  BY <1>2, ShownIsDate
<1>4. \A c \in Days : delivery[c] # NoDelivery => delivery[c].eventAt \in Nat
  BY ShownIsDate
<1> DEFINE new == [delivery[d] EXCEPT !.status = "event", !.eventAt = EventAt[e]]
<1>5. new \in Document /\ new # NoDelivery /\ new.status = "event" /\ new.eventAt = EventAt[e]
      /\ new.known = delivery[d].known
  <2>1. new \in Document /\ new.status = "event" /\ new.eventAt = EventAt[e]
        /\ new.known = delivery[d].known
    BY <1>3 DEF Document, DeliveryStatus
  <2> QED BY <2>1, NoDeliveryAssumption
<1>6. delivery' = [delivery EXCEPT ![d] = new] /\ delivery'[d] = new
  <2>1. delivery' = [delivery EXCEPT ![d] = new]
    BY <1>1, <1>2, <1>3 DEF ApplyEvent, Document
  <2> QED BY <1>1, <2>1
<1> HIDE DEF new
<1>7. EventAt[e] >= delivery[d].eventAt
  BY <1>2 DEF NotOlder
<1>8. \A c \in Days : c # d => delivery'[c] = delivery[c]
  BY <1>1, <1>6
<1>9. delivery' \in [Days -> Document \cup {NoDelivery}]
  BY <1>1, <1>5, <1>6
<1> QED BY <1>1, <1>2, <1>3, <1>4, <1>5, <1>6, <1>7, <1>8, <1>9 DEF Unsent

\* A sweep replays the retained events: what it ends with shows them all.
LEMMA ReplayKeeps ==
    ASSUME DeliveryInv, NEW s \in Sweepers, ReplayEvents(s)
    PROVE  DeliveryInv'
<1>1. PICK d \in Days : d = sweeper[s].at
  BY DEF DeliveryInv, HasPreview, ReplayEvents
<1>2. /\ sweeper \in [Sweepers -> Sweeper] /\ sweeper[s] \in Sweeper
      /\ delivery \in [Days -> Document \cup {NoDelivery}]
      /\ delivery[d] # NoDelivery /\ sweeper[s].pc = "replay"
      /\ recorded \subseteq Events
  BY <1>1 DEF DeliveryInv, DeliveryTypeOK, HasPreview, ReplayEvents
<1>3. /\ UNCHANGED <<synthesis, mail, hook, recorded, posts, putBack, late>>
      /\ sweeper' = [sweeper EXCEPT ![s] = IdleSweeper]
      /\ replayed' = IF delivery[d].known THEN replayed \cup {d} ELSE replayed
      /\ IF delivery[d].known /\ Retained(d) # {} /\ NotOlder(Latest(d))
           THEN ApplyEvent(Latest(d)) ELSE UNCHANGED delivery
  BY <1>1 DEF ReplayEvents, SweeperEnds
<1>4. IdleSweeper.pc = "idle" /\ IdleSweeper.todo = {} /\ IdleSweeper \in Sweeper
  BY DEF IdleSweeper, Sweeper, SweeperPc, NoCopies, DeliveryStatus
<1>5. Retained(d) # {} => Latest(d) \in Events /\ EventDay[Latest(d)] = d
  BY <1>2, LatestIsRetained DEF Retained
<1>6. /\ delivery' \in [Days -> Document \cup {NoDelivery}]
      /\ \A c \in Days : delivery[c] # NoDelivery => delivery'[c] # NoDelivery
      /\ \A c \in Days : Unsent(c)' => Unsent(c)
      /\ \A c \in Days : delivery[c] # NoDelivery =>
           /\ delivery'[c].known = delivery[c].known
           /\ delivery'[c].eventAt \in Nat /\ delivery[c].eventAt \in Nat
           /\ delivery'[c].eventAt >= delivery[c].eventAt
  <2>1. CASE UNCHANGED delivery
    BY <1>2, <2>1, ShownIsDate DEF Unsent
  <2>2. CASE Retained(d) # {} /\ NotOlder(Latest(d)) /\ ApplyEvent(Latest(d))
    BY <1>2, <1>5, <2>2, EventApplied
  <2> QED BY <1>3, <2>1, <2>2
<1>7. delivery[d].known =>
        \A e \in recorded : EventDay[e] = d => delivery'[d].eventAt >= EventAt[e]
  <2> SUFFICES ASSUME delivery[d].known, NEW e \in recorded, EventDay[e] = d
               PROVE  delivery'[d].eventAt >= EventAt[e]
    OBVIOUS
  <2>1. e \in Retained(d)
    BY DEF Retained
  <2>2. /\ Latest(d) \in Retained(d) /\ EventAt[e] <= EventAt[Latest(d)]
        /\ EventAt[e] \in Nat /\ EventAt[Latest(d)] \in Nat
    BY <1>2, <1>5, <2>1, LatestIsRetained, DeliveryAssumption
  <2>3. CASE NotOlder(Latest(d))
    <3>1. ApplyEvent(Latest(d))
      BY <1>3, <2>1, <2>3
    <3>2. delivery'[d].eventAt = EventAt[Latest(d)]
      BY <1>2, <1>5, <2>1, <2>3, <3>1, EventApplied
    <3> QED BY <2>2, <3>2
  <2>4. CASE ~NotOlder(Latest(d))
    <3>1. delivery' = delivery
      BY <1>3, <2>4
    <3>2. delivery[d].eventAt \in Nat
      BY <1>2, ShownIsDate
    <3> QED BY <1>5, <2>1, <2>2, <2>4, <3>1, <3>2 DEF NotOlder
  <2> QED BY <2>3, <2>4
<1>8. /\ DeliveryTypeOK' /\ HistoryTyped' /\ MailKnown'
      /\ \A t \in Sweepers : HasPreview(t)' /\ HasWaiting(t)'
  <2>1. mail \subseteq mail' /\ mail' \subseteq Days /\ \A c \in mail' : delivery'[c] # NoDelivery
    BY <1>3, <1>6 DEF DeliveryInv, DeliveryTypeOK, MailKnown
  <2>2. /\ posts' \in [Days -> Nat] /\ replayed' \subseteq Days /\ hook' = hook
        /\ recorded' = recorded
        /\ synthesis' \in [Days -> {"none", "running", "completed", "failed", "needs_review"}]
    BY <1>3 DEF DeliveryInv, DeliveryTypeOK, HistoryTyped
  <2> QED BY <1>3, <1>4, <1>6, <2>1, <2>2, SweepKeeps
<1>9. ASSUME NEW c \in Days \ putBack' PROVE SentByOne(c)'
  <2>1. SentByOne(c) /\ c \in Days
    BY <1>3 DEF DeliveryInv
  <2>2. \A t \in Sweepers : Sending(t, c)' =>
          Sending(t, c) /\ t # s /\ (sweeper'[t].pc = "post" => sweeper[t].pc = "post")
    BY <1>2, <1>3, <1>4 DEF Sending
  <2>3. CASE c # d \/ d \notin replayed'
    <3>1. c \in replayed' => c \in replayed
      BY <1>3, <2>3
    <3>2. c \in replayed => delivery[c] # NoDelivery
      BY <2>1, ReplayedHasDocument
    <3> QED BY <1>2, <1>3, <1>6, <2>1, <2>2, <3>1, <3>2, DayKeeps
  <2>4. CASE c = d /\ d \in replayed'
    <3>1. Sending(s, c)
      BY <1>1, <1>2, <2>4 DEF Sending
    <3>2. /\ posts[c] <= 1 /\ c \notin replayed /\ ~Unsent(c)
          /\ \A t \in Sweepers : Sending(t, c) => t = s
      BY <2>1, <3>1 DEF SentByOne
    <3>3. delivery[d].known
      BY <1>3, <2>4, <3>2
    <3>4. ~Unsent(c)' /\ posts'[c] <= 1 /\ \A t \in Sweepers : ~Sending(t, c)'
      BY <1>3, <1>6, <2>2, <3>2
    <3>5. /\ delivery'[c].known
          /\ \A e \in recorded' : EventDay[e] = c => delivery'[c].eventAt >= EventAt[e]
      BY <1>2, <1>3, <1>6, <1>7, <2>4, <3>3
    <3> QED BY <3>4, <3>5 DEF SentByOne, LatestShown
  <2> QED BY <2>3, <2>4
<1> QED BY <1>8, <1>9 DEF DeliveryInv

-----------------------------------------------------------------------------
\* A webhook reads, fails, or commits the event it carries.
LEMMA HookKeeps ==
    ASSUME DeliveryInv, NEW h \in Hooks,
           (\E e \in Events : HookReads(h, e)) \/ HookCommits(h) \/ HookFails(h)
    PROVE  DeliveryInv'
<1>1. /\ delivery \in [Days -> Document \cup {NoDelivery}]
      /\ hook \in [Hooks -> [event : Events \cup {NoDelivery}, matched : BOOLEAN]]
      /\ recorded \subseteq Events /\ mail \subseteq Days
      /\ MailKnown
  BY DEF DeliveryInv, DeliveryTypeOK
<1>2. UNCHANGED <<synthesis, sweeper, mail, posts, putBack, replayed>>
  BY DEF HookReads, HookCommits, HookFails, history
<1>3. PICK y \in [event : Events \cup {NoDelivery}, matched : BOOLEAN] :
        /\ hook' = [hook EXCEPT ![h] = y]
        /\ y.event # NoDelivery => y.event \in Events /\ EventDay[y.event] \in mail
  <2>1. CASE HookCommits(h) \/ HookFails(h)
    <3>1. hook' = [hook EXCEPT ![h] = IdleHook]
      BY <2>1 DEF HookCommits, HookFails
    <3>2. IdleHook \in [event : Events \cup {NoDelivery}, matched : BOOLEAN]
          /\ IdleHook.event = NoDelivery
      BY DEF IdleHook
    <3> QED BY <3>1, <3>2
  <2>2. ASSUME NEW e \in Events, HookReads(h, e)
        PROVE  \E y \in [event : Events \cup {NoDelivery}, matched : BOOLEAN] :
                 /\ hook' = [hook EXCEPT ![h] = y]
                 /\ y.event # NoDelivery => y.event \in Events /\ EventDay[y.event] \in mail
    <3> DEFINE z == [event |-> e, matched |-> delivery[EventDay[e]].known]
    <3>1. delivery[EventDay[e]].known \in BOOLEAN
      BY <1>1, <2>2 DEF HookReads, MailKnown, Document
    <3>2. z \in [event : Events \cup {NoDelivery}, matched : BOOLEAN]
      BY <3>1
    <3>3. hook' = [hook EXCEPT ![h] = z] /\ z.event = e /\ EventDay[e] \in mail
      BY <2>2 DEF HookReads
    <3> HIDE DEF z
    <3> QED BY <3>2, <3>3
  <2> QED BY <2>1, <2>2
<1>4. /\ recorded' \subseteq Events /\ IsFiniteSet(recorded')
      /\ recorded \subseteq recorded'
  <2>1. IsFiniteSet(recorded)
    BY DEF DeliveryInv, HistoryTyped
  <2>2. CASE UNCHANGED recorded
    BY <1>1, <2>1, <2>2
  <2>3. CASE HookCommits(h)
    <3>1. recorded' = recorded \cup {hook[h].event} /\ hook[h].event \in Events
      BY <1>1, <2>3 DEF HookCommits, MailKnown
    <3> QED BY <1>1, <2>1, <3>1, FS_AddElement
  <2> QED BY <2>2, <2>3 DEF HookReads, HookFails
<1>5. PICK e \in Events \cup {NoDelivery} :
        /\ \/ UNCHANGED <<delivery, recorded, late>>
           \/ HookCommits(h) /\ e = hook[h].event /\ e \in Events
              /\ delivery[EventDay[e]] # NoDelivery /\ EventDay[e] \in Days
  <2>1. CASE HookCommits(h)
    BY <1>1, <2>1 DEF HookCommits, MailKnown
  <2>2. CASE UNCHANGED <<delivery, recorded, late>>
    BY <2>2
  <2> QED BY <2>1, <2>2 DEF HookReads, HookFails, history
<1>6. /\ delivery' \in [Days -> Document \cup {NoDelivery}]
      /\ \A c \in Days : delivery[c] # NoDelivery => delivery'[c] # NoDelivery
      /\ \A c \in Days : Unsent(c)' => Unsent(c)
      /\ \A c \in Days : delivery[c] # NoDelivery =>
           /\ delivery'[c].known = delivery[c].known
           /\ delivery'[c].eventAt \in Nat /\ delivery[c].eventAt \in Nat
           /\ delivery'[c].eventAt >= delivery[c].eventAt
  <2>1. CASE UNCHANGED delivery
    BY <1>1, <2>1, ShownIsDate DEF Unsent
  <2>2. CASE ~UNCHANGED delivery
    <3>1. HookCommits(h) /\ e = hook[h].event /\ e \in Events /\ delivery[EventDay[e]] # NoDelivery
      BY <1>5, <2>2
    <3>2. ApplyEvent(e) /\ NotOlder(e)
      BY <2>2, <3>1 DEF HookCommits
    <3> QED BY <3>1, <3>2, EventApplied
  <2> QED BY <2>1, <2>2
<1>7. ASSUME NEW c \in Days \ putBack', c \in replayed, NEW f \in recorded' \ late', EventDay[f] = c
      PROVE  f \in recorded \ late \/ delivery'[c].eventAt >= EventAt[f]
  <2>1. CASE UNCHANGED <<delivery, recorded, late>>
    BY <1>7, <2>1
  <2>2. CASE HookCommits(h) /\ e = hook[h].event /\ e \in Events
             /\ delivery[EventDay[e]] # NoDelivery /\ EventDay[e] \in Days
    <3>1. recorded' = recorded \cup {e} /\ late \subseteq late'
      BY <2>2 DEF HookCommits
    <3>2. CASE f \in recorded
      BY <3>1, <3>2
    <3>3. CASE f \notin recorded
      <4>1. f = e
        BY <3>1, <3>3
      <4>2. delivery[c].known
        <5>1. SentByOne(c)
          BY <1>2 DEF DeliveryInv
        <5> QED BY <1>7, <5>1 DEF SentByOne
      <4>3. hook[h].matched
        BY <1>7, <2>2, <3>3, <4>1, <4>2 DEF HookCommits
      <4>4. CASE NotOlder(e)
        <5>1. ApplyEvent(e)
          BY <2>2, <3>3, <4>1, <4>3, <4>4 DEF HookCommits
        <5>2. delivery'[c].eventAt = EventAt[e]
          BY <1>7, <2>2, <4>1, <4>4, <5>1, EventApplied
        <5> QED BY <2>2, <4>1, <5>2, DeliveryAssumption
      <4>5. CASE ~NotOlder(e)
        <5>1. delivery' = delivery
          BY <2>2, <4>5 DEF HookCommits
        <5>2. delivery[c].eventAt \in Nat /\ EventAt[e] \in Nat
          BY <1>7, <2>2, <4>1, ShownIsDate, DeliveryAssumption
        <5> QED BY <1>7, <4>1, <4>5, <5>1, <5>2 DEF NotOlder
      <4> QED BY <4>4, <4>5
    <3> QED BY <3>2, <3>3
  <2> QED BY <1>5, <2>1, <2>2
<1>8. DeliveryTypeOK' /\ HistoryTyped'
  BY <1>1, <1>2, <1>3, <1>4, <1>6 DEF DeliveryInv, DeliveryTypeOK, HistoryTyped
<1>9. MailKnown'
  BY <1>1, <1>2, <1>3, <1>6 DEF MailKnown
<1>10. ASSUME NEW t \in Sweepers PROVE HasPreview(t)' /\ HasWaiting(t)'
  <2>1. HasPreview(t) /\ HasWaiting(t) /\ sweeper[t].todo \subseteq Days
    BY DEF DeliveryInv, DeliveryTypeOK, Sweeper
  <2> QED BY <1>2, <1>6, <2>1 DEF HasPreview, HasWaiting, Copy
<1>11. ASSUME NEW c \in Days \ putBack' PROVE SentByOne(c)'
  <2>1. SentByOne(c) /\ c \in Days
    BY <1>2 DEF DeliveryInv
  <2>2. \A t \in Sweepers : Sending(t, c)' =>
          Sending(t, c) /\ (sweeper'[t].pc = "post" => sweeper[t].pc = "post")
    BY <1>2 DEF Sending
  <2>3. c \in replayed => delivery[c] # NoDelivery
    BY <2>1, ReplayedHasDocument
  <2>4. \A f \in recorded' : f \in Events
    BY <1>4
  <2> QED BY <1>2, <1>6, <1>7, <2>1, <2>2, <2>3, <2>4, DayKeeps
<1> QED BY <1>8, <1>9, <1>10, <1>11 DEF DeliveryInv

\* A briefing run ends, or is tried again: no delivery changes.
LEMMA SynthesisKeeps ==
    ASSUME DeliveryInv, NEW d \in Days, SynthesisMoves(d)
    PROVE  DeliveryInv'
<1>1. UNCHANGED <<delivery, sweeper, mail, hook, recorded, history>>
  BY DEF SynthesisMoves
<1>2. synthesis' \in [Days -> {"none", "running", "completed", "failed", "needs_review"}]
  BY DEF SynthesisMoves, DeliveryInv, DeliveryTypeOK
<1> QED BY <1>1, <1>2 DEF DeliveryInv, DeliveryTypeOK, HistoryTyped, MailKnown, HasPreview,
             HasWaiting, Copy, SentByOne, Sending, Unsent, LatestShown, history

-----------------------------------------------------------------------------
\* No mail has gone out at first.
LEMMA DeliveryInitHolds == DeliveryInit => DeliveryInv
<1> SUFFICES ASSUME DeliveryInit PROVE DeliveryInv
  OBVIOUS
<1>1. IdleSweeper \in Sweeper /\ IdleSweeper.pc = "idle" /\ IdleSweeper.todo = {}
  BY DEF IdleSweeper, Sweeper, SweeperPc, NoCopies, DeliveryStatus
<1>2. IdleHook \in [event : Events \cup {NoDelivery}, matched : BOOLEAN]
      /\ IdleHook.event = NoDelivery
  BY DEF IdleHook
<1>3. DeliveryTypeOK
  BY <1>1, <1>2 DEF DeliveryInit, DeliveryTypeOK
<1>4. HistoryTyped /\ MailKnown
  BY <1>2, FS_EmptySet DEF DeliveryInit, HistoryTyped, MailKnown
<1>5. \A s \in Sweepers : HasPreview(s) /\ HasWaiting(s)
  BY <1>1 DEF DeliveryInit, HasPreview, HasWaiting
<1>6. \A d \in Days : SentByOne(d)
  BY <1>1 DEF DeliveryInit, SentByOne, Sending, Unsent
<1> QED BY <1>3, <1>4, <1>5, <1>6 DEF DeliveryInv

\* Every step keeps the invariant.
LEMMA DeliveryInvStep == DeliveryInv /\ [DeliveryNext]_deliveryVars => DeliveryInv'
<1> SUFFICES ASSUME DeliveryInv, [DeliveryNext]_deliveryVars PROVE DeliveryInv'
  OBVIOUS
<1>1. ASSUME NEW s \in Sweepers, SweeperStep(s) PROVE DeliveryInv'
  <2>1. CASE \/ BeginDelivery(s) \/ NothingToPrepare(s) \/ ReadDeliveries(s)
             \/ NothingToSend(s) \/ (\E d \in Days : TakePreview(s, d)) \/ SweeperDies(s)
    BY <2>1, QuietSweepSteps
  <2>2. CASE \E d \in Days : PrepareDigest(s, d)
    BY <2>2, PrepareKeeps
  <2>3. CASE \E d \in Days : SettleSynthesis(s, d)
    BY <2>3, SettleKeeps
  <2>4. CASE ClaimPreview(s)
    BY <2>4, ClaimPreviewKeeps
  <2>5. CASE PostAccepted(s) \/ PostRefused(s) \/ PostLost(s) \/ PostGarbled(s)
    BY <2>5, PostKeeps
  <2>6. CASE PutOutcome(s)
    BY <2>6, PutOutcomeKeeps
  <2>7. CASE ReplayEvents(s)
    BY <2>7, ReplayKeeps
  <2> QED BY <1>1, <2>1, <2>2, <2>3, <2>4, <2>5, <2>6, <2>7 DEF SweeperStep
<1>2. ASSUME NEW h \in Hooks,
             (\E e \in Events : HookReads(h, e)) \/ HookCommits(h) \/ HookFails(h)
      PROVE  DeliveryInv'
  BY <1>2, HookKeeps
<1>3. ASSUME NEW d \in Days, SynthesisMoves(d) PROVE DeliveryInv'
  BY <1>3, SynthesisKeeps
<1>4. CASE UNCHANGED deliveryVars
  BY <1>4 DEF deliveryVars, DeliveryInv, DeliveryTypeOK, HistoryTyped, MailKnown, HasPreview,
       HasWaiting, Copy, SentByOne, Sending, Unsent, LatestShown, history
<1> QED BY <1>1, <1>2, <1>3, <1>4 DEF DeliveryNext

\* The invariant is one of the specification.
LEMMA DeliveryInvariance == DeliverySpec => []DeliveryInv
BY DeliveryInitHolds, DeliveryInvStep, PTL DEF DeliverySpec

\* Documents, sweeps and webhook requests are what the code takes them for:
\* whatever is merged into a delivery, it remains one.
THEOREM DeliveryTypeCorrect == DeliverySpec => []DeliveryTypeOK
<1>1. DeliveryInv => DeliveryTypeOK
  BY DEF DeliveryInv
<1> QED BY <1>1, DeliveryInvariance, PTL

\* A digest is posted at most once, however sweeps overlap and die, unless an old
\* copy of its delivery was put back.
THEOREM DigestPostedOnce == DeliverySpec => []PostedOnce
<1>1. DeliveryInv => PostedOnce
  BY DEF DeliveryInv, SentByOne, PostedOnce
<1> QED BY <1>1, DeliveryInvariance, PTL

\* However the events of a mail come, early, late, twice or out of order, its
\* delivery shows the latest of them once the retained ones were replayed.
THEOREM OutcomesKept == DeliverySpec => []OutcomeKept
<1>1. DeliveryInv => OutcomeKept
  <2> SUFFICES ASSUME DeliveryInv, NEW e \in recorded \ late, EventDay[e] \in replayed \ putBack
               PROVE  LatestShown(e)
    BY DEF OutcomeKept
  <2>1. EventDay[e] \in Days
    BY DEF DeliveryInv, HistoryTyped
  <2>2. SentByOne(EventDay[e])
    BY <2>1 DEF DeliveryInv
  <2> QED BY <2>2 DEF SentByOne
<1> QED BY <1>1, DeliveryInvariance, PTL

-----------------------------------------------------------------------------
(* The services side by side.                                              *)

\* A behaviour of them all is one of each.
LEMMA ServicesApart == ServicesSpec => CaptionSpec /\ MonitoringSpec /\ DeliverySpec /\ ClaimSpec
<1>1. ServicesInit => CaptionInit /\ MonitoringInit /\ DeliveryInit /\ ClaimInit
  BY DEF ServicesInit
<1>2. [ServicesNext]_serviceVars => [CaptionNext]_captionVars
  BY DEF ServicesNext, serviceVars, CaptionsGo, MonitoringGoes, DeliveryGoes, ClaimsGo
<1>3. [ServicesNext]_serviceVars => [MonitoringNext]_monitoringVars
  BY DEF ServicesNext, serviceVars, CaptionsGo, MonitoringGoes, DeliveryGoes, ClaimsGo
<1>4. [ServicesNext]_serviceVars => [DeliveryNext]_deliveryVars
  BY DEF ServicesNext, serviceVars, CaptionsGo, MonitoringGoes, DeliveryGoes, ClaimsGo
<1>5. [ServicesNext]_serviceVars => [ClaimNext]_claimVars
  BY DEF ServicesNext, serviceVars, CaptionsGo, MonitoringGoes, DeliveryGoes, ClaimsGo
<1> QED BY <1>1, <1>2, <1>3, <1>4, <1>5, PTL
        DEF ServicesSpec, CaptionSpec, MonitoringSpec, DeliverySpec, ClaimSpec

\* Whatever the services do, every document of theirs remains what its schema says.
THEOREM ServiceTypesCorrect == ServicesSpec => []ServiceTypesOK
BY ServicesApart, CaptionTypeCorrect, MonitoringTypeCorrect, DeliveryTypeCorrect,
   ClaimTypeCorrect, PTL DEF ServiceTypesOK
=============================================================================
