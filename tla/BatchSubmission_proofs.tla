----------------------- MODULE BatchSubmission_proofs -----------------------
(***************************************************************************)
(* A batch request that the provider accepted keeps its money, for every   *)
(* number of submitters, pollers and stages, and through every crash, lost *)
(* lease, lost reply and overwritten record.                               *)
(***************************************************************************)
EXTENDS BatchSubmission, Ledger_proofs

-----------------------------------------------------------------------------
(* The inductive invariant.                                                *)

\* A submitter that has reserved, and has not yet left.
Committed(c) == submitter[c].pc \in {"creating", "naming", "rejecting", "failing",
                                     "marking", "recording"}

\* Each of them is on a row of its own, which was not submitted before it
\* creates the batch, nor if its creation was rejected.
SubmittersApart ==
    /\ \A c \in Submitters :
         /\ Committed(c) \/ submitter[c].pc = "replaying" => Mine(c) \in Calls
         /\ Committed(c) => call[Mine(c)].status # "absent"
         /\ submitter[c].pc \in {"creating", "rejecting"} => provider[Mine(c)] = "none"
         /\ submitter[c].pc = "creating" => Mine(c) \in Counted
    /\ \A c, d \in Submitters : Committed(c) /\ Committed(d) /\ Mine(c) = Mine(d) => c = d

\* A poller gives back only what the provider has failed.
PollersKnow ==
    \A p \in Pollers :
      /\ poller[p].pc # "idle" => poller[p].stage \in Stages
      /\ poller[p].pc \notin {"idle", "reading"} => Polled(p) \in Calls
      /\ poller[p].pc = "releasing" => provider[Polled(p)] = "failed"

\* A resource name belongs to a row, and only rows are submitted.
RowsBehind ==
    /\ \A s \in Stages : record[s].named => record[s].call \in Calls
    /\ \A k \in Calls : call[k].status = "absent" => provider[k] = "none"

BatchInv == BatchTypeOK /\ AcceptedIsCounted /\ SubmittersApart /\ PollersKnow /\ RowsBehind

-----------------------------------------------------------------------------
\* Nobody has submitted, and the books are empty.
LEMMA BatchInitially == Init => BatchInv
<1> SUFFICES ASSUME Init PROVE BatchInv
  OBVIOUS
<1> USE DEF Init, LedgerInit
<1>1. NoRecord \in Record /\ NoCall \in Call
  BY LedgerAssumption DEF NoRecord, Record, NoCall, Call, CallStatus, LedgerAssumption
<1>2. NoSubmitter \in Submitter /\ NoPoller \in Poller
  BY <1>1 DEF NoSubmitter, Submitter, NoPoller, Poller
<1>3. BatchTypeOK
  BY <1>1, <1>2, BatchAssumption DEF BatchTypeOK, BatchAssumption, Fate, Job
<1>4. AcceptedIsCounted /\ RowsBehind
  BY DEF AcceptedIsCounted, RowsBehind, NoRecord
<1>5. SubmittersApart /\ PollersKnow
  BY DEF SubmittersApart, PollersKnow, Committed, NoSubmitter, NoPoller
<1> QED  BY <1>3, <1>4, <1>5 DEF BatchInv

-----------------------------------------------------------------------------
(* What the parts of the actions write is well formed.                     *)

SubmitterPcs == {"idle", "looking", "replaying", "reading", "reserving", "creating",
                 "naming", "rejecting", "failing", "marking", "recording"}
PollerPcs    == {"idle", "reading", "fetching", "completing", "releasing", "marking",
                 "recording", "doubting"}

\* What stands for the lack of a record, a submitter or a poller has the type.
LEMMA EmptyRows ==
    /\ NoRecord \in Record /\ NoSubmitter \in Submitter /\ NoPoller \in Poller
BY DEF NoRecord, Record, NoSubmitter, Submitter, NoPoller, Poller

\* A submitter that goes on keeps its copy, and the others are as they were.
LEMMA GoMoves ==
    ASSUME BatchTypeOK, NEW c \in Submitters, NEW pc \in SubmitterPcs, Go(c, pc)
    PROVE  /\ submitter' \in [Submitters -> Submitter]
           /\ submitter'[c].pc = pc /\ submitter'[c].copy = submitter[c].copy
           /\ \A d \in Submitters \ {c} : submitter'[d] = submitter[d]
<1>1. [submitter[c] EXCEPT !.pc = pc] \in Submitter
  BY DEF BatchTypeOK, Submitter, SubmitterPcs
<1>2. submitter[c] \in Submitter
  BY DEF BatchTypeOK
<1> QED  BY <1>1, <1>2 DEF BatchTypeOK, Go, Submitter

\* A submitter that leaves holds nothing.
LEMMA LeaveMoves ==
    ASSUME BatchTypeOK, NEW c \in Submitters, Leave(c)
    PROVE  /\ submitter' \in [Submitters -> Submitter]
           /\ submitter'[c].pc = "idle"
           /\ \A d \in Submitters \ {c} : submitter'[d] = submitter[d]
BY EmptyRows DEF BatchTypeOK, Leave, NoSubmitter

\* A put changes one record, to a copy about the same attempt.
LEMMA PutWrites ==
    ASSUME BatchTypeOK, NEW s, NEW copy \in Record,
           NEW status \in {"submitting", "pending", "completed", "failed", "uncertain"},
           Put(s, copy, status)
    PROVE  /\ record' \in [Stages -> Record]
           /\ \A t \in Stages : \/ record'[t] = record[t]
                                \/ record'[t].named = copy.named /\ record'[t].call = copy.call
<1> DEFINE row == [copy EXCEPT !.status = status]
<1>1. row \in Record /\ row.named = copy.named /\ row.call = copy.call
  BY DEF Record
<1>2. record' = [record EXCEPT ![s] = row]
  BY DEF Put
<1> HIDE DEF row
<1>3. record \in [Stages -> Record]
  BY DEF BatchTypeOK
<1>4. record' \in [Stages -> Record]
  BY <1>1, <1>2, <1>3
<1>5. \A t \in Stages : record'[t] = IF t = s THEN row ELSE record[t]
  BY <1>2, <1>3
<1>6. ASSUME NEW t \in Stages
      PROVE  \/ record'[t] = record[t]
             \/ record'[t].named = copy.named /\ record'[t].call = copy.call
  <2>1. CASE t = s
    BY <1>1, <1>5, <2>1
  <2>2. CASE t # s
    BY <1>5, <2>2
  <2> QED  BY <2>1, <2>2
<1> QED  BY <1>4, <1>6

\* Scheduling a poll leaves jobs well formed.
LEMMA ScheduleType ==
    ASSUME BatchTypeOK, NEW s, Schedule(s)
    PROVE  job' \in [Stages -> Job]
<1>1. CASE s \in Stages
  <2>1. [job[s] EXCEPT !.status = "queued"] \in Job
    BY <1>1 DEF BatchTypeOK, Job
  <2> QED  BY <2>1 DEF BatchTypeOK, Schedule
<1>2. CASE s \notin Stages
  BY <1>2 DEF BatchTypeOK, Schedule
<1> QED  BY <1>1, <1>2

\* A poller that goes on keeps its copy, and the others are as they were.
LEMMA StepMoves ==
    ASSUME BatchTypeOK, NEW p \in Pollers, NEW pc \in PollerPcs, Step(p, pc)
    PROVE  /\ poller' \in [Pollers -> Poller]
           /\ poller'[p].pc = pc
           /\ poller'[p].copy = poller[p].copy /\ poller'[p].stage = poller[p].stage
           /\ \A q \in Pollers \ {p} : poller'[q] = poller[q]
<1>1. [poller[p] EXCEPT !.pc = pc] \in Poller
  BY DEF BatchTypeOK, Poller, PollerPcs
<1>2. poller[p] \in Poller
  BY DEF BatchTypeOK
<1> QED  BY <1>1, <1>2 DEF BatchTypeOK, Step, Poller

\* A poller that ends holds nothing, whether or not the job was still its own.
LEMMA EndPollMoves ==
    ASSUME BatchTypeOK, NEW p \in Pollers, NEW status \in {"queued", "completed", "failed"},
           EndPoll(p, status)
    PROVE  /\ poller' \in [Pollers -> Poller] /\ job' \in [Stages -> Job]
           /\ poller'[p].pc = "idle"
           /\ \A q \in Pollers \ {p} : poller'[q] = poller[q]
<1>1. [status |-> status, owner |-> None] \in Job
  BY DEF Job
<1> QED  BY <1>1, EmptyRows DEF BatchTypeOK, EndPoll, NoPoller

\* The parts of the invariant a step leaves alone with the variables it leaves alone.
LEMMA SubmitterOnly ==
    ASSUME BatchInv, UNCHANGED <<call, record, provider, poller>>,
           BatchTypeOK', SubmittersApart'
    PROVE  BatchInv'
BY DEF BatchInv, AcceptedIsCounted, Counted, PollersKnow, Polled, RowsBehind

\* A step of a poller that writes neither record nor row.
LEMMA PollerOnly ==
    ASSUME BatchInv, UNCHANGED <<call, record, provider, submitter>>,
           BatchTypeOK', PollersKnow'
    PROVE  BatchInv'
BY DEF BatchInv, AcceptedIsCounted, Counted, SubmittersApart, Committed, Mine, RowsBehind

\* The books are kept, and nothing else that the invariant reads has changed.
LEMMA BooksKept ==
    ASSUME BatchInv, KeepsBooks(Calls), UNCHANGED provider
    PROVE  /\ AcceptedIsCounted'
           /\ \A k \in Calls : call'[k].status = "absent" => provider'[k] = "none"
BY DEF BatchInv, BatchTypeOK, KeepsBooks, AcceptedIsCounted, RowsBehind

-----------------------------------------------------------------------------
(* Every step of a submitter keeps the invariant.                          *)

\* A submitter that begins is on no attempt yet.
LEMMA BeginStep ==
    ASSUME BatchInv, NEW c \in Submitters, NEW s \in Stages, Begin(c, s)
    PROVE  BatchInv'
<1> DEFINE new == [NoSubmitter EXCEPT !.pc = "looking", !.stage = s]
<1>1. new \in Submitter /\ new.pc = "looking"
  BY DEF NoSubmitter, NoRecord, Submitter, Record
<1>2. submitter' = [submitter EXCEPT ![c] = new]
  BY DEF Begin
<1> HIDE DEF new
<1>3. BatchTypeOK'
  BY <1>1, <1>2 DEF Begin, BatchInv, BatchTypeOK
<1>4. SubmittersApart'
  BY <1>1, <1>2 DEF Begin, BatchInv, BatchTypeOK, SubmittersApart, Committed, Counted, Mine
<1> QED  BY <1>3, <1>4, SubmitterOnly DEF Begin

\* An earlier answer is found by the submitter that will replay it, and no attempt
\* is taken up.
LEMMA LookStep ==
    ASSUME BatchInv, NEW c \in Submitters, Look(c)
    PROVE  BatchInv'
<1> USE DEF Look, BatchInv, BatchTypeOK
<1>1. CASE Go(c, "reading")
  <2>1. BatchTypeOK'
    BY <1>1, GoMoves DEF SubmitterPcs
  <2>2. SubmittersApart'
    BY <1>1, GoMoves DEF SubmitterPcs, SubmittersApart, Committed, Counted, Mine
  <2> QED  BY <2>1, <2>2, SubmitterOnly
<1>2. CASE Leave(c)
  <2>1. BatchTypeOK'
    BY <1>2, LeaveMoves
  <2>2. SubmittersApart'
    BY <1>2, LeaveMoves DEF SubmittersApart, Committed, Counted, Mine
  <2> QED  BY <2>1, <2>2, SubmitterOnly
<1>3. CASE \E newest \in Calls :
             submitter' = [submitter EXCEPT ![c].pc = "replaying",
                                           ![c].copy = [NoRecord EXCEPT !.call = newest]]
  <2>1. PICK newest \in Calls :
          submitter' = [submitter EXCEPT ![c].pc = "replaying",
                                           ![c].copy = [NoRecord EXCEPT !.call = newest]]
    BY <1>3
  <2> DEFINE copy == [NoRecord EXCEPT !.call = newest]
             new  == [[submitter[c] EXCEPT !.pc = "replaying"] EXCEPT !.copy = copy]
  <2>2. submitter' = [submitter EXCEPT ![c] = new]
    BY <2>1
  <2>3. new \in Submitter /\ new.pc = "replaying" /\ new.copy.call = newest
    BY EmptyRows DEF Submitter, Record
  <2> HIDE DEF new
  <2>4. BatchTypeOK'
    BY <2>2, <2>3
  <2>5. SubmittersApart'
    BY <2>2, <2>3 DEF SubmittersApart, Committed, Counted, Mine
  <2> QED  BY <2>4, <2>5, SubmitterOnly
<1> QED  BY <1>1, <1>2, <1>3

\* A replay settles a row whose answer was retained, so the money stays counted.
LEMMA ReplayStep ==
    ASSUME BatchInv, NEW c \in Submitters, Replay(c)
    PROVE  BatchInv'
<1> USE DEF Replay, BatchInv, BatchTypeOK, At
<1>1. Mine(c) \in Calls
  BY DEF SubmittersApart
<1>2. KeepsBooks(Calls)
  <2> DEFINE price == IF provider[Mine(c)] = "priced" THEN Price ELSE None
  <2>1. price \in Charges
    BY BatchAssumption DEF BatchAssumption, Charges
  <2> QED  BY <1>1, <2>1, SettleKeeps
<1>3. BatchTypeOK'
  BY <1>2, LeaveMoves DEF KeepsBooks
<1>4. SubmittersApart'
  BY <1>2, LeaveMoves DEF SubmittersApart, Committed, Mine, KeepsBooks
<1>5. AcceptedIsCounted' /\ RowsBehind'
  BY <1>2, BooksKept DEF RowsBehind
<1> QED  BY <1>3, <1>4, <1>5 DEF PollersKnow, Polled

\* Whatever the record says, its reader is on no attempt.
LEMMA ReadRecordStep ==
    ASSUME BatchInv, NEW c \in Submitters, ReadRecord(c)
    PROVE  BatchInv'
<1> USE DEF ReadRecord, BatchInv, BatchTypeOK
<1>1. CASE Go(c, "reserving")
  <2>1. BatchTypeOK'
    BY <1>1, GoMoves DEF SubmitterPcs
  <2>2. SubmittersApart'
    BY <1>1, GoMoves DEF SubmitterPcs, SubmittersApart, Committed, Counted, Mine
  <2> QED  BY <2>1, <2>2, SubmitterOnly
<1>2. CASE Leave(c)
  <2>1. BatchTypeOK'
    BY <1>2, LeaveMoves
  <2>2. SubmittersApart'
    BY <1>2, LeaveMoves DEF SubmittersApart, Committed, Counted, Mine
  <2> QED  BY <2>1, <2>2, SubmitterOnly
<1> QED  BY <1>1, <1>2

\* The fresh row belongs to nobody and was never submitted.
LEMMA IntendStep ==
    ASSUME BatchInv, NEW c \in Submitters, Intend(c)
    PROVE  BatchInv'
<1> USE DEF BatchInv, BatchTypeOK
<1>1. PICK k \in Calls :
        /\ Reserve(k, submitter[c].stage)
        /\ Put(submitter[c].stage, [status |-> "submitting", call |-> k, named |-> FALSE],
               "submitting")
        /\ submitter' = [submitter EXCEPT ![c].pc = "creating",
               ![c].copy = [status |-> "submitting", call |-> k, named |-> FALSE]]
  BY DEF Intend
<1> DEFINE intent == [status |-> "submitting", call |-> k, named |-> FALSE]
           new    == [[submitter[c] EXCEPT !.pc = "creating"] EXCEPT !.copy = intent]
<1>2. UNCHANGED <<normalized, provider, late, job, poller, lapses, crashes, errors>>
  BY DEF Intend
<1>3. intent \in Record /\ intent.call = k /\ ~intent.named
  BY DEF Record
<1>4. new \in Submitter /\ new.pc = "creating" /\ new.copy.call = k
  BY <1>3 DEF Submitter
<1>5. submitter' = [submitter EXCEPT ![c] = new]
  BY <1>1
<1>6. KeepsBooks(Calls)
  <2>1. submitter[c].stage \in Stages \cup {None}
    BY DEF Submitter
  <2> QED  BY <1>1, <2>1, ReserveKeeps
<1>7. call[k].status = "absent" /\ call'[k].status = "reserved"
  BY <1>1 DEF Reserve
<1>8. /\ record' \in [Stages -> Record]
      /\ \A t \in Stages : record'[t].named => record[t].named /\ record'[t].call = record[t].call
  BY <1>1, <1>3, PutWrites
<1> HIDE DEF new, intent
<1>9. BatchTypeOK'
  BY <1>2, <1>4, <1>5, <1>6, <1>8 DEF KeepsBooks
<1>10. SubmittersApart'
  BY <1>2, <1>4, <1>5, <1>6, <1>7 DEF SubmittersApart, Committed, Counted, Mine, KeepsBooks, RowsBehind
<1>11. AcceptedIsCounted' /\ RowsBehind'
  BY <1>2, <1>6, <1>8, BooksKept DEF RowsBehind
<1> QED  BY <1>2, <1>9, <1>10, <1>11 DEF PollersKnow, Polled

\* A refused reservation takes nothing.
LEMMA RefuseStep ==
    ASSUME BatchInv, NEW c \in Submitters, Refuse(c)
    PROVE  BatchInv'
<1> USE DEF Refuse, BatchInv, BatchTypeOK
<1>1. BatchTypeOK'
  BY LeaveMoves
<1>2. SubmittersApart'
  BY LeaveMoves DEF SubmittersApart, Committed, Counted, Mine
<1> QED  BY <1>1, <1>2, SubmitterOnly

\* The provider hears of a row that is reserved; whether it accepted is known to
\* the one submitter.
LEMMA CreateStep ==
    ASSUME BatchInv, NEW c \in Submitters, Create(c)
    PROVE  BatchInv'
<1> USE DEF Create, At, BatchInv, BatchTypeOK
<1>1. Mine(c) \in Calls /\ provider[Mine(c)] = "none" /\ Mine(c) \in Counted
  BY DEF SubmittersApart, Committed
<1>2. CASE UNCHANGED provider
  <2>1. PICK pc \in {"rejecting", "marking"} : Go(c, pc)
    BY <1>1, <1>2 DEF Fate
  <2>2. BatchTypeOK'
    BY <1>2, <2>1, GoMoves DEF SubmitterPcs
  <2>3. SubmittersApart'
    BY <1>2, <2>1, GoMoves DEF SubmitterPcs, SubmittersApart, Committed, Counted, Mine
  <2> QED  BY <1>2, <2>2, <2>3, SubmitterOnly
<1>3. CASE provider' = [provider EXCEPT ![Mine(c)] = "running"]
  <2>1. /\ submitter' \in [Submitters -> Submitter]
        /\ submitter'[c].pc \in {"naming", "marking"} /\ Mine(c)' = Mine(c)
        /\ \A d \in Submitters \ {c} : submitter'[d] = submitter[d]
    <3>1. CASE Go(c, "marking")
      BY <3>1, GoMoves DEF SubmitterPcs, Mine
    <3>2. CASE submitter' = [submitter EXCEPT ![c].pc = "naming",
                                              ![c].copy = [@ EXCEPT !.named = TRUE]]
      <4> DEFINE copy == [submitter[c].copy EXCEPT !.named = TRUE]
                 new  == [[submitter[c] EXCEPT !.pc = "naming"] EXCEPT !.copy = copy]
      <4>1. submitter' = [submitter EXCEPT ![c] = new]
        BY <3>2
      <4>2. new \in Submitter /\ new.pc = "naming" /\ new.copy.call = Mine(c)
        BY DEF Submitter, Record, Mine
      <4> HIDE DEF new
      <4> QED  BY <4>1, <4>2 DEF Mine
    <3> QED  BY <1>1, <1>3, <3>1, <3>2
  <2>2. /\ provider' \in [Calls -> Fate] /\ provider'[Mine(c)] = "running"
        /\ \A k \in Calls \ {Mine(c)} : provider'[k] = provider[k]
    BY <1>1, <1>3 DEF Fate
  <2>3. BatchTypeOK'
    BY <2>1, <2>2
  <2>4. AcceptedIsCounted' /\ RowsBehind'
    BY <1>1, <2>2 DEF AcceptedIsCounted, RowsBehind, Counted
  <2>5. \A d \in Submitters \ {c} : Committed(d) => Mine(d) \in Calls \ {Mine(c)}
    BY DEF SubmittersApart, Committed
  <2>6. SubmittersApart'
    <3>1. \A d \in Submitters : Mine(d)' = Mine(d) /\ (Committed(d)' => Committed(d))
      BY <2>1 DEF Mine, Committed
    <3>2. \A d \in Submitters : submitter'[d].pc \in {"creating", "rejecting", "replaying"}
                               => d # c /\ submitter'[d].pc = submitter[d].pc
      BY <2>1
    <3>3. \A d \in Submitters : submitter'[d].pc \in {"creating", "rejecting"}
                               => provider'[Mine(d)] = "none"
      BY <2>2, <2>5, <3>2 DEF SubmittersApart, Committed
    <3> HIDE DEF Create, BatchInv, BatchTypeOK
    <3> QED  BY <3>1, <3>2, <3>3 DEF BatchInv, SubmittersApart, Counted, Create
  <2>7. PollersKnow'
    BY <1>1, <2>2 DEF PollersKnow, Polled
  <2> QED  BY <2>3, <2>4, <2>6, <2>7
<1> QED  BY <1>1, <1>2, <1>3

\* The name of the accepted request is put by the submitter that sent it.
LEMMA NameStep ==
    ASSUME BatchInv, NEW c \in Submitters, Name(c)
    PROVE  BatchInv'
<1> USE DEF Name, At, BatchInv, BatchTypeOK
<1>1. submitter[c].copy \in Record /\ Mine(c) \in Calls
  BY DEF Submitter, SubmittersApart, Committed
<1>2. BatchTypeOK'
  <2>1. submitter[c].stage \in Stages \cup {None}
    BY DEF Submitter
  <2> QED  BY <1>1, <2>1, PutWrites, ScheduleType, LeaveMoves
<1>3. SubmittersApart'
  BY LeaveMoves DEF SubmittersApart, Committed, Counted, Mine
<1>4. RowsBehind'
  BY <1>1, PutWrites DEF RowsBehind, Mine
<1> QED  BY <1>2, <1>3, <1>4 DEF AcceptedIsCounted, Counted, PollersKnow, Polled

\* A lost name leaves the row reserved.
LEMMA NameFailsStep ==
    ASSUME BatchInv, NEW c \in Submitters, NameFails(c)
    PROVE  BatchInv'
<1> USE DEF NameFails, At, BatchInv, BatchTypeOK
<1>1. BatchTypeOK'
  BY GoMoves, BatchAssumption DEF SubmitterPcs, BatchAssumption
<1>2. SubmittersApart'
  BY GoMoves DEF SubmitterPcs, SubmittersApart, Committed, Counted, Mine
<1> QED  BY <1>1, <1>2, SubmitterOnly

\* What is given back was rejected, and is this submitter's alone.
LEMMA RejectStep ==
    ASSUME BatchInv, NEW c \in Submitters, Reject(c)
    PROVE  BatchInv'
<1> USE DEF Reject, At, BatchInv, BatchTypeOK
<1>1. Mine(c) \in Calls /\ provider[Mine(c)] = "none"
  BY DEF SubmittersApart, Committed
<1>2. KeepsBooks(Calls \ {Mine(c)})
  BY <1>1, ReleaseKeeps
<1>3. BatchTypeOK'
  BY <1>2, GoMoves DEF SubmitterPcs, KeepsBooks
<1>4. SubmittersApart'
  BY <1>1, <1>2, GoMoves DEF SubmitterPcs, SubmittersApart, Committed, Mine, KeepsBooks
<1>5. AcceptedIsCounted' /\ RowsBehind'
  BY <1>1, <1>2 DEF AcceptedIsCounted, RowsBehind, KeepsBooks
<1> QED  BY <1>3, <1>4, <1>5 DEF PollersKnow, Polled

\* The record of a rejected request is about the row that was given back.
LEMMA PutFailedStep ==
    ASSUME BatchInv, NEW c \in Submitters, PutFailed(c)
    PROVE  BatchInv'
<1> USE DEF PutFailed, At, BatchInv, BatchTypeOK
<1>1. submitter[c].copy \in Record /\ Mine(c) \in Calls
  BY DEF Submitter, SubmittersApart, Committed
<1>2. BatchTypeOK'
  BY <1>1, PutWrites, LeaveMoves
<1>3. SubmittersApart'
  BY LeaveMoves DEF SubmittersApart, Committed, Counted, Mine
<1>4. RowsBehind'
  BY <1>1, PutWrites DEF RowsBehind, Mine
<1> QED  BY <1>2, <1>3, <1>4 DEF AcceptedIsCounted, Counted, PollersKnow, Polled

\* An uncertain record gives no money back.
LEMMA PutUncertainStep ==
    ASSUME BatchInv, NEW c \in Submitters, PutUncertain(c)
    PROVE  BatchInv'
<1> USE DEF PutUncertain, At, BatchInv, BatchTypeOK
<1>1. submitter[c].copy \in Record /\ Mine(c) \in Calls
  BY DEF Submitter, SubmittersApart, Committed
<1>2. BatchTypeOK'
  BY <1>1, PutWrites, LeaveMoves
<1>3. SubmittersApart'
  BY LeaveMoves DEF SubmittersApart, Committed, Counted, Mine
<1>4. RowsBehind'
  BY <1>1, PutWrites DEF RowsBehind, Mine
<1> QED  BY <1>2, <1>3, <1>4 DEF AcceptedIsCounted, Counted, PollersKnow, Polled

\* An uncertain row stays counted.
LEMMA MarkUncertainStep ==
    ASSUME BatchInv, NEW c \in Submitters, MarkUncertain(c)
    PROVE  BatchInv'
<1> USE DEF MarkUncertain, At, BatchInv, BatchTypeOK
<1>1. Mine(c) \in Calls
  BY DEF SubmittersApart, Committed
<1>2. KeepsBooks(Calls)
  BY <1>1, MarkUnknownKeeps
<1>3. BatchTypeOK'
  BY <1>2, GoMoves DEF SubmitterPcs, KeepsBooks
<1>4. SubmittersApart'
  BY <1>2, GoMoves DEF SubmitterPcs, SubmittersApart, Committed, Mine, KeepsBooks
<1>5. AcceptedIsCounted' /\ RowsBehind'
  BY <1>2, BooksKept DEF RowsBehind
<1> QED  BY <1>3, <1>4, <1>5 DEF PollersKnow, Polled

\* A submitter that lost its lease still knows what it knew.
LEMMA LoseLeaseStep ==
    ASSUME BatchInv, NEW c \in Submitters, LoseLease(c)
    PROVE  BatchInv'
<1> USE DEF LoseLease, BatchInv, BatchTypeOK
<1>1. [submitter[c] EXCEPT !.stale = TRUE] \in Submitter
  BY DEF Submitter
<1>2. \A d \in Submitters : /\ submitter'[d].pc = submitter[d].pc
                            /\ submitter'[d].copy = submitter[d].copy
  BY DEF Submitter
<1>3. BatchTypeOK'
  BY <1>1, BatchAssumption DEF BatchAssumption
<1>4. SubmittersApart'
  BY <1>2 DEF SubmittersApart, Committed, Counted, Mine
<1> QED  BY <1>3, <1>4, SubmitterOnly

\* A dead submitter knows nothing, and its row stays as it is.
LEMMA CrashSubmitterStep ==
    ASSUME BatchInv, NEW c \in Submitters, CrashSubmitter(c)
    PROVE  BatchInv'
<1> USE DEF CrashSubmitter, BatchInv, BatchTypeOK
<1>1. BatchTypeOK'
  BY LeaveMoves, BatchAssumption DEF BatchAssumption
<1>2. SubmittersApart'
  BY LeaveMoves DEF SubmittersApart, Committed, Counted, Mine
<1> QED  BY <1>1, <1>2, SubmitterOnly

-----------------------------------------------------------------------------
(* Every step of a poller keeps the invariant.                             *)

\* A poller that starts has read no record yet.
LEMMA StartPollStep ==
    ASSUME BatchInv, NEW p \in Pollers, NEW s \in Stages, StartPoll(p, s)
    PROVE  BatchInv'
<1> USE DEF StartPoll, BatchInv, BatchTypeOK
<1> DEFINE new == [[NoPoller EXCEPT !.pc = "reading"] EXCEPT !.stage = s]
           row == [status |-> "running", owner |-> p]
<1>1. new \in Poller /\ new.pc = "reading" /\ new.stage = s /\ row \in Job
  BY EmptyRows DEF NoPoller, Poller, Job
<1>2. poller' = [poller EXCEPT ![p] = new] /\ job' = [job EXCEPT ![s] = row]
  BY DEF NoPoller
<1>3. lapses' \in 0..MaxLapses
  BY BatchAssumption DEF BatchAssumption
<1> HIDE DEF new, row
<1>4. BatchTypeOK'
  BY <1>1, <1>2, <1>3
<1>5. PollersKnow'
  BY <1>1, <1>2 DEF PollersKnow, Polled
<1> QED  BY <1>4, <1>5, PollerOnly

\* A copy is only worked on if its record has a name, hence a row.
LEMMA ReadPollStep ==
    ASSUME BatchInv, NEW p \in Pollers, ReadPoll(p)
    PROVE  BatchInv'
<1> USE DEF ReadPoll, BatchInv, BatchTypeOK
<1> DEFINE now == record[poller[p].stage]
<1>1. CASE \E status \in {"completed", "failed"} : EndPoll(p, status)
  <2>1. BatchTypeOK'
    BY <1>1, EndPollMoves
  <2>2. PollersKnow'
    BY <1>1, EndPollMoves DEF PollersKnow, Polled
  <2> QED  BY <2>1, <2>2, PollerOnly
<1>2. CASE now.named /\ UNCHANGED job
           /\ poller' = [poller EXCEPT ![p].pc = "fetching", ![p].copy = now]
  <2> DEFINE new == [[poller[p] EXCEPT !.pc = "fetching"] EXCEPT !.copy = now]
  <2>1. poller[p].stage \in Stages /\ now \in Record /\ now.call \in Calls
    BY <1>2 DEF PollersKnow, RowsBehind
  <2>2. new \in Poller /\ new.pc = "fetching" /\ new.copy = now /\ new.stage \in Stages
    BY <2>1 DEF Poller
  <2>3. poller' = [poller EXCEPT ![p] = new]
    BY <1>2
  <2> HIDE DEF new, now
  <2>4. BatchTypeOK'
    BY <1>2, <2>2, <2>3
  <2>5. PollersKnow'
    BY <2>1, <2>2, <2>3 DEF PollersKnow, Polled
  <2> QED  BY <2>4, <2>5, PollerOnly
<1> QED  BY <1>1, <1>2

\* A poller sees what the provider answers; only a failure sends it to give money
\* back.
LEMMA FetchStep ==
    ASSUME BatchInv, NEW p \in Pollers, Fetch(p)
    PROVE  BatchInv'
<1> USE DEF Fetch, BatchInv, BatchTypeOK
<1>1. Polled(p) \in Calls
  BY DEF PollersKnow
<1>2. CASE EndPoll(p, "queued")
  <2>1. BatchTypeOK'
    BY <1>2, EndPollMoves
  <2>2. PollersKnow'
    BY <1>2, EndPollMoves DEF PollersKnow, Polled
  <2> QED  BY <2>1, <2>2, PollerOnly
<1>3. CASE UNCHANGED job /\ \E pc \in {"completing", "releasing", "marking"} :
             Step(p, pc) /\ (pc = "releasing" => provider[Polled(p)] = "failed")
  <2>1. PICK pc \in {"completing", "releasing", "marking"} :
          Step(p, pc) /\ (pc = "releasing" => provider[Polled(p)] = "failed")
    BY <1>3
  <2>2. BatchTypeOK'
    BY <1>3, <2>1, StepMoves DEF PollerPcs
  <2>3. PollersKnow'
    BY <1>1, <2>1, StepMoves DEF PollersKnow, Polled, PollerPcs
  <2> QED  BY <2>2, <2>3, PollerOnly
<1> QED  BY <1>2, <1>3 DEF Response

\* A poll without an answer decides nothing.
LEMMA UnreachableStep ==
    ASSUME BatchInv, NEW p \in Pollers, Unreachable(p)
    PROVE  BatchInv'
<1> USE DEF Unreachable, BatchInv, BatchTypeOK
<1>1. BatchTypeOK'
  BY EndPollMoves
<1>2. PollersKnow'
  BY EndPollMoves DEF PollersKnow, Polled
<1> QED  BY <1>1, <1>2, PollerOnly

\* A doubtful answer leaves the row counted.
LEMMA DoubtStep ==
    ASSUME BatchInv, NEW p \in Pollers, Doubt(p)
    PROVE  BatchInv'
<1> USE DEF Doubt, BatchInv, BatchTypeOK
<1>1. BatchTypeOK'
  BY StepMoves, BatchAssumption DEF PollerPcs, BatchAssumption
<1>2. PollersKnow'
  BY StepMoves DEF PollersKnow, Polled, PollerPcs
<1> QED  BY <1>1, <1>2, PollerOnly

\* A completed answer is settled, at its price or at the estimate.
LEMMA CompleteStep ==
    ASSUME BatchInv, NEW p \in Pollers, Complete(p)
    PROVE  BatchInv'
<1> USE DEF Complete, BatchInv, BatchTypeOK
<1>1. Polled(p) \in Calls /\ poller[p].copy \in Record
  BY DEF PollersKnow, Poller
<1>2. KeepsBooks(Calls)
  <2> DEFINE price == IF provider[Polled(p)] = "priced" THEN Price ELSE call[Polled(p)].amount
  <2>1. price \in Charges
    BY <1>1, BatchAssumption DEF BatchAssumption, Charges, Call
  <2> QED  BY <1>1, <2>1, SettleKeeps
<1>3. BatchTypeOK'
  BY <1>1, <1>2, PutWrites, EndPollMoves DEF KeepsBooks
<1>4. AcceptedIsCounted'
  BY <1>2, BooksKept
<1>5. SubmittersApart'
  BY <1>2 DEF SubmittersApart, Committed, Mine, KeepsBooks
<1>6. PollersKnow'
  BY EndPollMoves DEF PollersKnow, Polled
<1>7. RowsBehind'
  BY <1>1, <1>2, PutWrites, BooksKept DEF RowsBehind, Polled
<1> QED  BY <1>3, <1>4, <1>5, <1>6, <1>7

\* What is given back has failed at the provider: it is neither counted as
\* accepted nor about to be submitted.
LEMMA GiveBackStep ==
    ASSUME BatchInv, NEW p \in Pollers, GiveBack(p)
    PROVE  BatchInv'
<1> USE DEF GiveBack, BatchInv, BatchTypeOK
<1>1. /\ Polled(p) \in Calls /\ provider[Polled(p)] = "failed"
      /\ poller[p].copy \in Record
  BY DEF PollersKnow, Poller
<1>2. KeepsBooks(Calls \ {Polled(p)})
  BY <1>1, ReleaseKeeps
<1>3. BatchTypeOK'
  BY <1>1, <1>2, PutWrites, EndPollMoves DEF KeepsBooks
<1>4. AcceptedIsCounted'
  BY <1>1, <1>2 DEF AcceptedIsCounted, KeepsBooks
<1>5. SubmittersApart'
  BY <1>1, <1>2 DEF SubmittersApart, Committed, Mine, KeepsBooks
<1>6. PollersKnow'
  BY EndPollMoves DEF PollersKnow, Polled
<1>7. RowsBehind'
  BY <1>1, <1>2, PutWrites DEF RowsBehind, Polled, KeepsBooks
<1> QED  BY <1>3, <1>4, <1>5, <1>6, <1>7

\* A row that was polled too long, or ended without an answer, stays counted.
LEMMA MarkPolledStep ==
    ASSUME BatchInv, NEW p \in Pollers, MarkPolled(p)
    PROVE  BatchInv'
<1> USE DEF MarkPolled, BatchInv, BatchTypeOK
<1>1. Polled(p) \in Calls
  BY DEF PollersKnow
<1>2. KeepsBooks(Calls)
  BY <1>1, MarkUnknownKeeps
<1>3. \/ EndPoll(p, "failed")
      \/ Step(p, "recording") /\ UNCHANGED job
  OBVIOUS
<1>4. BatchTypeOK'
  BY <1>2, <1>3, EndPollMoves, StepMoves DEF KeepsBooks, PollerPcs
<1>5. AcceptedIsCounted' /\ RowsBehind'
  BY <1>2, BooksKept DEF RowsBehind
<1>6. SubmittersApart'
  BY <1>2 DEF SubmittersApart, Committed, Mine, KeepsBooks
<1>7. PollersKnow'
  BY <1>1, <1>3, EndPollMoves, StepMoves DEF PollersKnow, Polled, PollerPcs
<1> QED  BY <1>4, <1>5, <1>6, <1>7

\* Its record is about the row polled.
LEMMA RecordPolledStep ==
    ASSUME BatchInv, NEW p \in Pollers, RecordPolled(p)
    PROVE  BatchInv'
<1> USE DEF RecordPolled, BatchInv, BatchTypeOK
<1>1. Polled(p) \in Calls /\ poller[p].copy \in Record
  BY DEF PollersKnow, Poller
<1>2. BatchTypeOK'
  BY <1>1, PutWrites, EndPollMoves
<1>3. PollersKnow'
  BY EndPollMoves DEF PollersKnow, Polled
<1>4. RowsBehind'
  BY <1>1, PutWrites DEF RowsBehind, Polled
<1> QED  BY <1>2, <1>3, <1>4 DEF AcceptedIsCounted, SubmittersApart, Committed, Counted, Mine

\* The record of a doubtful answer is about the row polled.
LEMMA PutDoubtStep ==
    ASSUME BatchInv, NEW p \in Pollers, PutDoubt(p)
    PROVE  BatchInv'
<1> USE DEF PutDoubt, BatchInv, BatchTypeOK
<1>1. Polled(p) \in Calls /\ poller[p].copy \in Record
  BY DEF PollersKnow, Poller
<1>2. KeepsBooks(Calls)
  BY <1>1, MarkUnknownKeeps
<1>3. UNCHANGED record \/ Put(poller[p].stage, poller[p].copy, "uncertain")
  OBVIOUS
<1>4. BatchTypeOK'
  BY <1>1, <1>2, <1>3, PutWrites, EndPollMoves DEF KeepsBooks
<1>5. AcceptedIsCounted'
  BY <1>2, BooksKept
<1>6. SubmittersApart'
  BY <1>2 DEF SubmittersApart, Committed, Mine, KeepsBooks
<1>7. PollersKnow'
  BY EndPollMoves DEF PollersKnow, Polled
<1>8. RowsBehind'
  BY <1>1, <1>2, <1>3, PutWrites, BooksKept DEF RowsBehind, Polled
<1> QED  BY <1>4, <1>5, <1>6, <1>7, <1>8

\* A poll that throws fails its job and touches no row.
LEMMA PollErrorStep ==
    ASSUME BatchInv, NEW p \in Pollers, PollError(p)
    PROVE  BatchInv'
<1> USE DEF PollError, BatchInv, BatchTypeOK
<1>1. BatchTypeOK'
  BY EndPollMoves, BatchAssumption DEF BatchAssumption
<1>2. PollersKnow'
  BY EndPollMoves DEF PollersKnow, Polled
<1> QED  BY <1>1, <1>2, PollerOnly

\* A dead poller knows nothing, and its job stays with its lease.
LEMMA CrashPollerStep ==
    ASSUME BatchInv, NEW p \in Pollers, CrashPoller(p)
    PROVE  BatchInv'
<1> USE DEF CrashPoller, BatchInv, BatchTypeOK
<1>1. BatchTypeOK'
  BY EmptyRows, BatchAssumption DEF BatchAssumption
<1>2. PollersKnow'
  BY DEF PollersKnow, Polled, NoPoller
<1> QED  BY <1>1, <1>2, PollerOnly

-----------------------------------------------------------------------------
(* The scheduler, the provider and time.                                   *)

\* Scheduling touches neither rows nor records.
LEMMA SchedulePendingStep ==
    ASSUME BatchInv, NEW s \in Stages, SchedulePending(s)
    PROVE  BatchInv'
<1> USE DEF SchedulePending, BatchInv, BatchTypeOK
<1>1. BatchTypeOK'
  BY ScheduleType
<1> QED  BY <1>1, PollerOnly DEF PollersKnow, Polled

\* The provider's final answer to an accepted request leaves it counted.
LEMMA FinishStep ==
    ASSUME BatchInv, NEW k \in Calls, Finish(k)
    PROVE  BatchInv'
<1> USE DEF Finish, BatchInv, BatchTypeOK
<1>1. PICK fate \in Response \cup {"failed", "missing"} :
        provider' = [provider EXCEPT ![k] = fate]
  OBVIOUS
<1>2. BatchTypeOK'
  BY <1>1 DEF Fate
<1>3. AcceptedIsCounted' /\ RowsBehind'
  BY <1>1 DEF AcceptedIsCounted, RowsBehind, Counted
<1>4. SubmittersApart'
  BY <1>1 DEF SubmittersApart, Committed, Counted, Mine
<1>5. PollersKnow'
  BY <1>1 DEF PollersKnow, Polled
<1> QED  BY <1>2, <1>3, <1>4, <1>5

\* The end of the polling window only tells the pollers.
LEMMA WindowEndsStep ==
    ASSUME BatchInv, NEW k \in Calls, WindowEnds(k)
    PROVE  BatchInv'
<1> USE DEF WindowEnds, BatchInv, BatchTypeOK
<1>1. BatchTypeOK'
  OBVIOUS
<1> QED  BY <1>1, PollerOnly DEF PollersKnow, Polled

-----------------------------------------------------------------------------
\* Every step of submitters, pollers, the scheduler and the provider keeps the
\* invariant.
LEMMA BatchStep == BatchInv /\ [Next]_vars => BatchInv'
<1> SUFFICES ASSUME BatchInv, [Next]_vars PROVE BatchInv'
  OBVIOUS
<1>1. ASSUME NEW c \in Submitters, Submit(c) PROVE BatchInv'
  BY <1>1, LookStep, ReplayStep, ReadRecordStep, IntendStep, RefuseStep, CreateStep,
     NameStep, RejectStep, PutFailedStep, MarkUncertainStep, PutUncertainStep DEF Submit
<1>2. ASSUME NEW p \in Pollers, Poll(p) PROVE BatchInv'
  BY <1>2, ReadPollStep, FetchStep, CompleteStep, GiveBackStep, MarkPolledStep,
     RecordPolledStep, PutDoubtStep DEF Poll
<1>3. CASE UNCHANGED vars
  BY <1>3 DEF vars, BatchInv, BatchTypeOK, AcceptedIsCounted, SubmittersApart, Committed, Counted, Mine, PollersKnow, Polled, RowsBehind
<1>4. CASE Next
  BY <1>1, <1>2, <1>4, BeginStep, NameFailsStep, LoseLeaseStep, CrashSubmitterStep,
     StartPollStep, UnreachableStep, DoubtStep, PollErrorStep, CrashPollerStep,
     SchedulePendingStep, FinishStep, WindowEndsStep DEF Next
<1> QED  BY <1>3, <1>4

\* The invariant holds in every state, through every failure of the model.
THEOREM BatchInvariant == Spec => []BatchInv
<1> QED  BY BatchInitially, BatchStep, PTL DEF Spec

\* Rows, records, jobs and workers stay well formed.
THEOREM BatchTypeCorrect == Spec => []BatchTypeOK
<1>1. BatchInv => BatchTypeOK
  BY DEF BatchInv
<1> QED  BY <1>1, BatchInvariant, PTL

\* A request that the provider accepted and has not failed is in the books:
\* whatever is lost on the way, its reservation is never given back.
THEOREM AcceptedStaysCounted == Spec => []AcceptedIsCounted
<1>1. BatchInv => AcceptedIsCounted
  BY DEF BatchInv
<1> QED  BY <1>1, BatchInvariant, PTL

-----------------------------------------------------------------------------
(* One submission for each stage, and what a completed record says.  The    *)
(* invariant above says what is true through every loss; this one says what *)
(* rows, records, submitters and pollers know of each other, and what they  *)
(* know on top of that as long as no lease was lost under a living worker.  *)

Polling(p) == poller[p].pc \notin {"idle", "reading"}

\* A row of a stage has been recorded, and is not empty.
RowTold(k) ==
    /\ call[k].status = "absent" <=> call[k].stage = None
    /\ call[k].status = "absent" => k \notin normalized
    /\ call[k].status = "released" => call[k].amount = 0
    /\ call[k].stage # None => record[call[k].stage].status # "absent"

\* A record is about a row of its stage, if there is one.
RecordTold(s) ==
    /\ record[s].status # "absent" => record[s].call \in Calls /\ call[record[s].call].stage = s
    /\ record[s].named => record[s].status # "absent"

SubmitterTold(c) ==
    /\ submitter[c].pc # "idle" => submitter[c].stage \in Stages
    /\ Committed(c) \/ submitter[c].pc = "replaying" => call[Mine(c)].stage = submitter[c].stage

PollerTold(p) ==
    Polling(p) => /\ call[Polled(p)].stage = poller[p].stage
                  /\ record[poller[p].stage].status # "absent"

RowsTold ==
    /\ \A k \in Calls : RowTold(k)
    /\ \A s \in Stages : RecordTold(s)
    /\ \A c \in Submitters : SubmitterTold(c)
    /\ \A p \in Pollers : PollerTold(p)

\* A submitter alone with its stage: nothing is recorded of it before the intent, and
\* nothing else after it.  There is nothing to replay: what completed was settled.
SubmitterKept(c) ==
    /\ ~submitter[c].stale /\ submitter[c].pc # "replaying"
    /\ submitter[c].pc = "reserving" => record[submitter[c].stage].status = "absent"
    /\ Committed(c) => /\ record[submitter[c].stage].status = "submitting"
                       /\ ~record[submitter[c].stage].named

SubmittersAlone ==
    \A c, d \in Submitters :
      submitter[c].pc # "idle" /\ submitter[d].stage = submitter[c].stage => c = d

\* A poller has the job, and its copy is what the record says.
PollerKept(p) ==
    /\ poller[p].pc # "idle" => job[poller[p].stage] = [status |-> "running", owner |-> p]
    /\ Polling(p) => /\ record[poller[p].stage] = poller[p].copy /\ poller[p].copy.named
                     /\ poller[p].copy.status \notin {"completed", "failed"}

\* Answers that can be replayed are paid for and recorded as completed, and no others.
RowKept(k) ==
    k \in normalized => /\ call[k].status = "completed"
                        /\ record[call[k].stage].status = "completed"

RecordKept(s) == record[s].status = "completed" => record[s].call \in normalized

OneAttempt ==
    \A j, k \in Calls : call[j].stage # None /\ call[j].stage = call[k].stage => j = k

LeasesKept ==
    /\ \A c \in Submitters : SubmitterKept(c)
    /\ \A p \in Pollers : PollerKept(p)
    /\ \A k \in Calls : RowKept(k)
    /\ \A s \in Stages : RecordKept(s)
    /\ SubmittersAlone /\ OneAttempt

Told == RowsTold /\ (lapses = 0 => LeasesKept)

\* Nobody has been told anything.
LEMMA ToldInitially == Init => Told
<1> SUFFICES ASSUME Init PROVE Told
  OBVIOUS
<1> USE DEF Init, LedgerInit, NoCall, NoRecord, NoSubmitter, NoPoller
<1>1. RowsTold
  BY DEF RowsTold, RowTold, RecordTold, SubmitterTold, PollerTold, Committed, Polling
<1>2. LeasesKept
  BY DEF LeasesKept, SubmitterKept, SubmittersAlone, PollerKept, RowKept, RecordKept, OneAttempt,
         Committed, Polling
<1> QED  BY <1>1, <1>2 DEF Told

\* No row changes hands, and no row that can be replayed is decided again.
RowsHeld ==
    /\ \A k \in Calls : /\ call'[k].stage = call[k].stage
                        /\ call'[k].status = "absent" <=> call[k].status = "absent"
                        /\ call'[k].status = "released" => call'[k].amount = 0
    /\ lapses = 0 => \A k \in Calls : k \in normalized => call'[k].status = call[k].status

\* What one submitter does, without a reservation, as the others see it.
LEMMA SubmitterGoes ==
    ASSUME BatchInv, BatchInv', Told, RowsHeld, NEW c \in Submitters,
           UNCHANGED <<normalized, poller, lapses>>,
           \A d \in Submitters \ {c} : submitter'[d] = submitter[d],
           \A s \in Stages : s # submitter[c].stage => record'[s] = record[s],
           \A s \in Stages : s = submitter[c].stage =>
             \/ record'[s] = record[s]
             \/ /\ Committed(c) /\ record'[s].call = Mine(c)
                /\ record'[s].status \notin {"absent", "completed"},
           \A s \in Stages : job[s].status = "running" => job'[s] = job[s],
           SubmitterTold(c)', lapses = 0 => SubmitterKept(c)',
           \A d \in Submitters \ {c} :
             lapses = 0 /\ (submitter[d].pc # "idle" \/ submitter'[c].pc # "idle")
               => submitter[d].stage # submitter'[c].stage
    PROVE  Told'
<1>1. /\ \A k \in Calls : RowTold(k) /\ call[k] \in Call
      /\ \A s \in Stages : RecordTold(s)
      /\ \A d \in Submitters : SubmitterTold(d)
      /\ \A p \in Pollers : PollerTold(p)
  BY DEF Told, RowsTold, BatchInv, BatchTypeOK
<1>2. \A s \in Stages : record[s].status # "absent" => record'[s].status # "absent"
  OBVIOUS
<1>3. ASSUME NEW k \in Calls
      PROVE  RowTold(k)'
  <2>1. call[k].stage \in Stages \cup {None}
    BY <1>1 DEF Call
  <2> QED  BY <1>1, <1>2, <2>1 DEF RowTold, RowsHeld
<1>4. ASSUME NEW s \in Stages
      PROVE  RecordTold(s)'
  <2>1. CASE record'[s] = record[s]
    BY <1>1, <2>1 DEF RecordTold, RowsHeld
  <2>2. CASE /\ s = submitter[c].stage /\ Committed(c) /\ record'[s].call = Mine(c)
             /\ record'[s].status # "absent"
    BY <1>1, <2>2 DEF RecordTold, RowsHeld, SubmitterTold, BatchInv, SubmittersApart
  <2> QED  BY <2>1, <2>2
<1>5. ASSUME NEW d \in Submitters
      PROVE  SubmitterTold(d)'
  <2>1. CASE d = c
    BY <2>1
  <2>2. CASE d # c
    BY <1>1, <2>2 DEF SubmitterTold, RowsHeld, Committed, Mine, BatchInv, SubmittersApart
  <2> QED  BY <2>1, <2>2
<1>6. ASSUME NEW p \in Pollers
      PROVE  PollerTold(p)'
  <2>1. Polling(p) => poller[p].stage \in Stages /\ Polled(p) \in Calls
    BY DEF Polling, BatchInv, PollersKnow
  <2> QED  BY <1>1, <1>2, <2>1 DEF PollerTold, RowsHeld, Polling, Polled
<1>7. ASSUME lapses = 0
      PROVE  LeasesKept'
  <2>1. /\ \A d \in Submitters : SubmitterKept(d)
        /\ \A p \in Pollers : PollerKept(p)
        /\ \A k \in Calls : RowKept(k)
        /\ \A s \in Stages : RecordKept(s)
        /\ SubmittersAlone /\ OneAttempt
    BY <1>7 DEF Told, LeasesKept
  <2>2. ASSUME NEW s \in Stages, record'[s] # record[s]
        PROVE  /\ s = submitter[c].stage /\ submitter[c].pc # "idle" /\ record[s].status = "submitting"
               /\ ~record[s].named /\ record'[s].status # "completed"
    BY <2>1, <2>2 DEF SubmitterKept, Committed
  <2>3. ASSUME NEW d \in Submitters
        PROVE  SubmitterKept(d)'
    <3>1. CASE d = c
      BY <1>7, <3>1
    <3>2. CASE d # c
      <4>1. submitter'[d] = submitter[d] /\ SubmitterKept(d) /\ SubmitterTold(d)
        BY <1>1, <2>1, <3>2
      <4>2. submitter[d].pc # "idle" => record'[submitter[d].stage] = record[submitter[d].stage]
        BY <2>1, <2>2, <3>2, <4>1 DEF SubmittersAlone, SubmitterTold
      <4> QED  BY <4>1, <4>2 DEF SubmitterKept, Committed
    <3> QED  BY <3>1, <3>2
  <2>4. ASSUME NEW p \in Pollers
        PROVE  PollerKept(p)'
    <3>1. PollerKept(p) /\ (poller[p].pc # "idle" => poller[p].stage \in Stages)
      BY <2>1 DEF BatchInv, PollersKnow
    <3>2. poller[p].pc # "idle" => job'[poller[p].stage] = job[poller[p].stage]
      BY <3>1 DEF PollerKept
    <3>3. Polling(p) => record'[poller[p].stage] = record[poller[p].stage]
      BY <2>2, <3>1 DEF PollerKept, Polling
    <3> QED  BY <3>1, <3>2, <3>3 DEF PollerKept, Polling
  <2>5. ASSUME NEW k \in Calls
        PROVE  RowKept(k)'
    <3>1. k \in normalized => call[k].stage \in Stages
      BY <1>1 DEF RowTold, Call
    <3> QED  BY <1>7, <2>1, <2>2, <3>1 DEF RowKept, RowsHeld
  <2>6. \A s \in Stages : RecordKept(s)'
    BY <2>1, <2>2 DEF RecordKept
  <2>7. SubmittersAlone'
    BY <1>7, <2>1 DEF SubmittersAlone
  <2>8. OneAttempt'
    BY <2>1 DEF OneAttempt, RowsHeld
  <2> QED  BY <2>3, <2>4, <2>5, <2>6, <2>7, <2>8 DEF LeasesKept
<1> QED  BY <1>3, <1>4, <1>5, <1>6, <1>7 DEF Told, RowsTold

\* What one poller does, as the others see it.
LEMMA PollerGoes ==
    ASSUME BatchInv, BatchInv', Told, RowsHeld, NEW p \in Pollers, NEW t \in Stages,
           UNCHANGED submitter, lapses' = 0 => lapses = 0,
           \A q \in Pollers \ {p} : poller'[q] = poller[q],
           \A s \in Stages \ {t} : record'[s] = record[s] /\ job'[s] = job[s],
           \/ record'[t] = record[t] /\ normalized' = normalized
           \/ /\ Polling(p) /\ poller[p].stage = t /\ record'[t].call = Polled(p)
              /\ record'[t].status # "absent"
              /\ record'[t].status = "completed" => Polled(p) \in normalized'
              /\ \/ normalized' = normalized
                 \/ /\ normalized' = normalized \cup {Polled(p)}
                    /\ call'[Polled(p)].status = "completed"
                    /\ record'[t].status = "completed",
           lapses' = 0 => \A q \in Pollers \ {p} : poller[q].pc # "idle" => poller[q].stage # t,
           PollerTold(p)', lapses' = 0 => PollerKept(p)'
    PROVE  Told'
<1>1. /\ \A k \in Calls : RowTold(k) /\ call[k] \in Call
      /\ \A s \in Stages : RecordTold(s)
      /\ \A d \in Submitters : SubmitterTold(d)
      /\ \A q \in Pollers : PollerTold(q)
  BY DEF Told, RowsTold, BatchInv, BatchTypeOK
<1>2. \A s \in Stages : record[s].status # "absent" => record'[s].status # "absent"
  OBVIOUS
<1>3. Polling(p) => /\ poller[p].stage \in Stages /\ Polled(p) \in Calls
                    /\ call[Polled(p)].stage = poller[p].stage
  BY <1>1 DEF Polling, BatchInv, PollersKnow, PollerTold
<1>4. \A k \in Calls : k \in normalized' => k \in normalized \/ (Polling(p) /\ k = Polled(p))
  OBVIOUS
<1>5. None \notin Stages
  BY LedgerAssumption DEF LedgerAssumption
<1>6. ASSUME NEW k \in Calls
      PROVE  RowTold(k)'
  <2>1. call[k].stage \in Stages \cup {None}
    BY <1>1 DEF Call
  <2> QED  BY <1>1, <1>2, <1>3, <1>4, <1>5, <2>1 DEF RowTold, RowsHeld
<1>7. ASSUME NEW s \in Stages
      PROVE  RecordTold(s)'
  <2>1. CASE record'[s] = record[s]
    BY <1>1, <2>1 DEF RecordTold, RowsHeld
  <2>2. CASE /\ s = t /\ Polling(p) /\ poller[p].stage = t /\ record'[t].call = Polled(p)
             /\ record'[t].status # "absent"
    BY <1>3, <2>2 DEF RecordTold, RowsHeld
  <2> QED  BY <2>1, <2>2
<1>8. ASSUME NEW d \in Submitters
      PROVE  SubmitterTold(d)'
  BY <1>1 DEF SubmitterTold, RowsHeld, Committed, Mine, BatchInv, SubmittersApart
<1>9. ASSUME NEW q \in Pollers
      PROVE  PollerTold(q)'
  <2>1. CASE q = p
    BY <2>1
  <2>2. CASE q # p
    <3>1. Polling(q) => poller[q].stage \in Stages /\ Polled(q) \in Calls
      BY DEF Polling, BatchInv, PollersKnow
    <3> QED  BY <1>1, <1>2, <2>2, <3>1 DEF PollerTold, RowsHeld, Polling, Polled
  <2> QED  BY <2>1, <2>2
<1>10. ASSUME lapses' = 0
       PROVE  LeasesKept'
  <2>1. /\ \A d \in Submitters : SubmitterKept(d)
        /\ \A q \in Pollers : PollerKept(q)
        /\ \A k \in Calls : RowKept(k)
        /\ \A s \in Stages : RecordKept(s)
        /\ SubmittersAlone /\ OneAttempt
    BY <1>10 DEF Told, LeasesKept
  <2>2. ASSUME NEW s \in Stages, record'[s] # record[s] \/ normalized' # normalized
        PROVE  /\ Polling(p) /\ poller[p].stage = t /\ record[t].named
               /\ record[t].status \notin {"absent", "completed"}
    <3>1. Polling(p) /\ poller[p].stage = t
      BY <2>2
    <3> QED  BY <1>1, <2>1, <3>1 DEF PollerKept, PollerTold
  <2>3. ASSUME NEW d \in Submitters
        PROVE  SubmitterKept(d)'
    <3>1. SubmitterKept(d) /\ SubmitterTold(d)
      BY <1>1, <2>1
    <3>2. Committed(d) \/ submitter[d].pc = "reserving" =>
            record'[submitter[d].stage] = record[submitter[d].stage]
      BY <2>2, <3>1 DEF SubmitterKept, SubmitterTold, Committed
    <3> QED  BY <3>1, <3>2 DEF SubmitterKept, Committed
  <2>4. ASSUME NEW q \in Pollers
        PROVE  PollerKept(q)'
    <3>1. CASE q = p
      BY <1>10, <3>1
    <3>2. CASE q # p
      <4>1. /\ PollerKept(q) /\ poller'[q] = poller[q]
            /\ poller[q].pc # "idle" => poller[q].stage \in Stages \ {t}
        BY <1>10, <2>1, <3>2 DEF BatchInv, PollersKnow
      <4> QED  BY <4>1 DEF PollerKept, Polling
    <3> QED  BY <3>1, <3>2
  <2>5. ASSUME NEW k \in Calls
        PROVE  RowKept(k)'
    <3>1. CASE k \in normalized
      <4>1. call[k].stage \in Stages
        BY <1>1, <3>1 DEF RowTold, Call
      <4>2. record'[call[k].stage] = record[call[k].stage]
        BY <2>1, <2>2, <3>1, <4>1 DEF RowKept
      <4> QED  BY <1>10, <2>1, <3>1, <4>2 DEF RowKept, RowsHeld
    <3>2. CASE k \notin normalized /\ k \in normalized'
      BY <1>3, <3>2 DEF RowKept, RowsHeld
    <3> QED  BY <3>1, <3>2 DEF RowKept
  <2>6. ASSUME NEW s \in Stages
        PROVE  RecordKept(s)'
    <3>1. normalized \subseteq normalized'
      OBVIOUS
    <3> QED  BY <2>1, <3>1 DEF RecordKept
  <2>7. SubmittersAlone'
    BY <2>1 DEF SubmittersAlone
  <2>8. OneAttempt'
    BY <2>1 DEF OneAttempt, RowsHeld
  <2> QED  BY <2>3, <2>4, <2>5, <2>6, <2>7, <2>8 DEF LeasesKept
<1> QED  BY <1>6, <1>7, <1>8, <1>9, <1>10 DEF Told, RowsTold

-----------------------------------------------------------------------------
(* Every step keeps what was told.                                         *)

\* A step that writes no row.
LEMMA RowsUntouched ==
    ASSUME BatchInv, Told, UNCHANGED call
    PROVE  RowsHeld
BY DEF RowsHeld, Told, RowsTold, RowTold

\* A step that writes one row over.
LEMMA OneRowWritten ==
    ASSUME BatchInv, Told, NEW k \in Calls, Rewrites(k), call[k].status # "absent",
           lapses = 0 => k \notin normalized \/ call'[k].status = call[k].status
    PROVE  RowsHeld
BY DEF RowsHeld, Rewrites, Told, RowsTold, RowTold

\* A submitter that leaves, or stays at its stage, is still alone with it.
LEMMA StillAlone ==
    ASSUME BatchInv, Told, NEW c \in Submitters,
           \/ submitter'[c] = NoSubmitter
           \/ submitter[c].pc # "idle" /\ submitter'[c].stage = submitter[c].stage
    PROVE  \A d \in Submitters \ {c} :
             lapses = 0 /\ (submitter[d].pc # "idle" \/ submitter'[c].pc # "idle")
               => submitter[d].stage # submitter'[c].stage
<1> SUFFICES ASSUME NEW d \in Submitters \ {c}, lapses = 0,
                    submitter[d].pc # "idle" \/ submitter'[c].pc # "idle"
             PROVE  submitter[d].stage # submitter'[c].stage
  OBVIOUS
<1>1. SubmittersAlone /\ SubmitterTold(d)
  BY DEF Told, RowsTold, LeasesKept
<1>2. None \notin Stages
  BY LedgerAssumption DEF LedgerAssumption
<1>3. CASE submitter'[c] = NoSubmitter
  BY <1>1, <1>2, <1>3 DEF SubmitterTold, NoSubmitter
<1>4. CASE submitter[c].pc # "idle" /\ submitter'[c].stage = submitter[c].stage
  BY <1>1, <1>4 DEF SubmittersAlone
<1> QED  BY <1>3, <1>4

\* What a submitter on no attempt is told.
LEMMA GoneOrLooking ==
    ASSUME NEW c \in Submitters,
           submitter'[c].pc \in {"idle", "looking", "reading"},
           submitter'[c].pc # "idle" => submitter'[c].stage \in Stages,
           ~submitter'[c].stale
    PROVE  SubmitterTold(c)' /\ SubmitterKept(c)'
BY DEF SubmitterTold, SubmitterKept, Committed

\* A submitter that leaves, having written at most its own row and record.
LEMMA SubmitterLeaves ==
    ASSUME BatchInv, BatchInv', Told, RowsHeld, NEW c \in Submitters, Leave(c),
           UNCHANGED <<normalized, poller, lapses>>,
           \A s \in Stages : s # submitter[c].stage => record'[s] = record[s],
           \A s \in Stages : s = submitter[c].stage =>
             \/ record'[s] = record[s]
             \/ /\ Committed(c) /\ record'[s].call = Mine(c)
                /\ record'[s].status \notin {"absent", "completed"},
           \A s \in Stages : job[s].status = "running" => job'[s] = job[s]
    PROVE  Told'
<1>1. /\ submitter'[c] = NoSubmitter
      /\ \A d \in Submitters \ {c} : submitter'[d] = submitter[d]
  BY DEF Leave, BatchInv, BatchTypeOK
<1>2. SubmitterTold(c)' /\ SubmitterKept(c)'
  BY <1>1, GoneOrLooking DEF NoSubmitter
<1>3. \A d \in Submitters \ {c} :
        lapses = 0 /\ (submitter[d].pc # "idle" \/ submitter'[c].pc # "idle")
          => submitter[d].stage # submitter'[c].stage
  BY <1>1, StillAlone
<1> QED  BY <1>1, <1>2, <1>3, SubmitterGoes

\* A submitter that goes on without a record, having written at most its own row.
LEMMA SubmitterStays ==
    ASSUME BatchInv, BatchInv', Told, RowsHeld, NEW c \in Submitters,
           UNCHANGED <<record, normalized, poller, job, lapses>>,
           \A d \in Submitters \ {c} : submitter'[d] = submitter[d],
           submitter[c].pc # "idle", submitter'[c].stage = submitter[c].stage,
           SubmitterTold(c)', lapses = 0 => SubmitterKept(c)'
    PROVE  Told'
<1>1. \A d \in Submitters \ {c} :
        lapses = 0 /\ (submitter[d].pc # "idle" \/ submitter'[c].pc # "idle")
          => submitter[d].stage # submitter'[c].stage
  BY StillAlone
<1> QED  BY <1>1, SubmitterGoes

\* A submitter that goes to its next step as it is.
LEMMA Goes ==
    ASSUME BatchInv, NEW c \in Submitters, NEW pc \in SubmitterPcs, Go(c, pc)
    PROVE  /\ submitter'[c] = [submitter[c] EXCEPT !.pc = pc]
           /\ submitter'[c].pc = pc /\ submitter'[c].stage = submitter[c].stage
           /\ submitter'[c].stale = submitter[c].stale /\ submitter'[c].copy = submitter[c].copy
           /\ \A d \in Submitters \ {c} : submitter'[d] = submitter[d]
<1>1. submitter[c] \in Submitter /\ submitter \in [Submitters -> Submitter]
  BY DEF BatchInv, BatchTypeOK
<1>2. /\ submitter'[c] = [submitter[c] EXCEPT !.pc = pc]
      /\ \A d \in Submitters \ {c} : submitter'[d] = submitter[d]
  BY <1>1 DEF Go
<1> QED  BY <1>1, <1>2 DEF Submitter

\* A committed submitter that goes on is still committed to the same row.
LEMMA CommittedGoes ==
    ASSUME BatchInv, BatchInv', Told, RowsHeld, NEW c \in Submitters, NEW pc \in SubmitterPcs,
           Go(c, pc), Committed(c), Committed(c)',
           UNCHANGED <<record, normalized, poller, job, lapses>>
    PROVE  Told'
<1>1. /\ submitter'[c].pc = pc /\ submitter'[c].stage = submitter[c].stage
      /\ submitter'[c].stale = submitter[c].stale /\ submitter'[c].copy = submitter[c].copy
      /\ \A d \in Submitters \ {c} : submitter'[d] = submitter[d]
  BY Goes
<1>2. SubmitterTold(c) /\ (lapses = 0 => SubmitterKept(c)) /\ Mine(c) \in Calls
  BY DEF Told, RowsTold, LeasesKept, BatchInv, SubmittersApart
<1>3. SubmitterTold(c)'
  BY <1>1, <1>2 DEF SubmitterTold, Committed, Mine, RowsHeld
<1>4. lapses = 0 => SubmitterKept(c)'
  BY <1>1, <1>2 DEF SubmitterKept, Committed
<1>5. submitter[c].pc # "idle"
  BY DEF Committed
<1> QED  BY <1>1, <1>3, <1>4, <1>5, SubmitterStays

\* While no lease was lost, a committed submitter's row has no answer yet.
LEMMA Unanswered ==
    ASSUME BatchInv, Told, NEW c \in Submitters, Committed(c), lapses = 0
    PROVE  Mine(c) \notin normalized
<1>1. /\ SubmitterTold(c) /\ SubmitterKept(c) /\ Mine(c) \in Calls
      /\ \A k \in Calls : RowKept(k)
  BY DEF Told, RowsTold, LeasesKept, BatchInv, SubmittersApart
<1> QED  BY <1>1 DEF SubmitterTold, SubmitterKept, RowKept

\* The row of a submitter at work, and a poller's, is not empty.
LEMMA RowsInUse ==
    ASSUME BatchInv, Told
    PROVE  /\ \A c \in Submitters : Committed(c) \/ submitter[c].pc = "replaying" =>
                Mine(c) \in Calls /\ call[Mine(c)].status # "absent"
           /\ \A p \in Pollers : Polling(p) =>
                /\ Polled(p) \in Calls /\ call[Polled(p)].status # "absent"
                /\ poller[p].stage \in Stages
<1>1. None \notin Stages
  BY LedgerAssumption DEF LedgerAssumption
<1>2. ASSUME NEW c \in Submitters, Committed(c) \/ submitter[c].pc = "replaying"
      PROVE  Mine(c) \in Calls /\ call[Mine(c)].status # "absent"
  <2>1. Mine(c) \in Calls /\ submitter[c].pc # "idle"
    BY <1>2 DEF BatchInv, SubmittersApart, Committed
  <2> QED  BY <1>1, <1>2, <2>1 DEF Told, RowsTold, RowTold, SubmitterTold
<1>3. ASSUME NEW p \in Pollers, Polling(p)
      PROVE  /\ Polled(p) \in Calls /\ call[Polled(p)].status # "absent"
             /\ poller[p].stage \in Stages
  <2>1. Polled(p) \in Calls /\ poller[p].stage \in Stages
    BY <1>3 DEF BatchInv, PollersKnow, Polling
  <2> QED  BY <1>1, <1>3, <2>1 DEF Told, RowsTold, RowTold, PollerTold
<1> QED  BY <1>2, <1>3

\* A submitter begins alone: whoever is at its stage has lost a lease.
LEMMA BeginTells ==
    ASSUME BatchInv, BatchInv', Told, NEW c \in Submitters, NEW s \in Stages, Begin(c, s)
    PROVE  Told'
<1> DEFINE new == [NoSubmitter EXCEPT !.pc = "looking", !.stage = s]
<1>1. new.pc = "looking" /\ new.stage = s /\ new.stale = FALSE
  BY DEF NoSubmitter
<1>2. /\ submitter'[c] = new /\ \A d \in Submitters \ {c} : submitter'[d] = submitter[d]
      /\ UNCHANGED <<call, record, normalized, job, poller, lapses>>
      /\ \A d \in Submitters : submitter[d].stage = s => submitter[d].stale
  BY DEF Begin, BatchInv, BatchTypeOK
<1> HIDE DEF new
<1>3. SubmitterTold(c)' /\ SubmitterKept(c)'
  BY <1>1, <1>2, GoneOrLooking
<1>4. lapses = 0 => \A d \in Submitters : submitter[d].stage # s
  BY <1>2 DEF Told, LeasesKept, SubmitterKept
<1>5. RowsHeld
  BY <1>2, RowsUntouched
<1> QED  BY <1>1, <1>2, <1>3, <1>4, <1>5, SubmitterGoes

\* There is nothing to replay that is not paid for already.
LEMMA LookTells ==
    ASSUME BatchInv, BatchInv', Told, NEW c \in Submitters, Look(c)
    PROVE  Told'
<1>1. /\ UNCHANGED <<call, record, normalized, job, poller, lapses>>
      /\ submitter[c].pc = "looking" /\ submitter[c] \in Submitter
      /\ submitter \in [Submitters -> Submitter]
  BY DEF Look, At, BatchInv, BatchTypeOK
<1>2. RowsHeld
  BY <1>1, RowsUntouched
<1>3. SubmitterTold(c) /\ (lapses = 0 => SubmitterKept(c) /\ \A k \in Calls : RowKept(k))
  BY DEF Told, RowsTold, LeasesKept
<1>4. CASE Go(c, "reading")
  <2>1. /\ submitter'[c].pc = "reading" /\ submitter'[c].stage = submitter[c].stage
        /\ submitter'[c].stale = submitter[c].stale
        /\ \A d \in Submitters \ {c} : submitter'[d] = submitter[d]
    BY <1>4, Goes DEF SubmitterPcs
  <2>2. SubmitterTold(c)' /\ (lapses = 0 => SubmitterKept(c)')
    BY <1>1, <1>3, <2>1 DEF SubmitterTold, SubmitterKept, Committed
  <2> QED  BY <1>1, <1>2, <2>1, <2>2, SubmitterStays
<1>5. CASE Leave(c)
  BY <1>1, <1>2, <1>5, SubmitterLeaves
<1>6. CASE \E newest \in Calls :
             /\ call[newest].stage = submitter[c].stage /\ newest \in normalized
             /\ call[newest].status # "completed"
             /\ submitter' = [submitter EXCEPT ![c].pc = "replaying",
                                           ![c].copy = [NoRecord EXCEPT !.call = newest]]
  <2>1. PICK newest \in Calls :
          /\ call[newest].stage = submitter[c].stage /\ newest \in normalized
          /\ call[newest].status # "completed"
          /\ submitter' = [submitter EXCEPT ![c].pc = "replaying",
                                        ![c].copy = [NoRecord EXCEPT !.call = newest]]
    BY <1>6
  <2> DEFINE copy == [NoRecord EXCEPT !.call = newest]
             new  == [[submitter[c] EXCEPT !.pc = "replaying"] EXCEPT !.copy = copy]
  <2>2. submitter' = [submitter EXCEPT ![c] = new]
    BY <1>1, <2>1
  <2>3. new.pc = "replaying" /\ new.copy.call = newest /\ new.stage = submitter[c].stage
    BY <1>1, EmptyRows DEF Submitter, Record
  <2> HIDE DEF new
  <2>4. submitter'[c] = new /\ \A d \in Submitters \ {c} : submitter'[d] = submitter[d]
    BY <1>1, <2>2
  <2>5. SubmitterTold(c)'
    BY <1>1, <1>3, <2>1, <2>3, <2>4 DEF SubmitterTold, Committed, Mine
  <2>6. lapses # 0
    BY <1>3, <2>1 DEF RowKept
  <2> QED  BY <1>1, <1>2, <2>3, <2>4, <2>5, <2>6, SubmitterStays
<1> QED  BY <1>4, <1>5, <1>6 DEF Look, Attempts

\* A replay, after a lease that was lost, decides a row of its stage again.
LEMMA ReplayTells ==
    ASSUME BatchInv, BatchInv', Told, NEW c \in Submitters, Replay(c)
    PROVE  Told'
<1> DEFINE price == IF provider[Mine(c)] = "priced" THEN Price ELSE None
<1>1. /\ UNCHANGED <<record, normalized, job, poller, lapses>> /\ Leave(c)
      /\ submitter[c].pc = "replaying" /\ Settle(Mine(c), price)
      /\ call \in [Calls -> Call]
  BY DEF Replay, At, BatchInv, BatchTypeOK
<1>2. Mine(c) \in Calls /\ call[Mine(c)].status # "absent"
  BY <1>1, RowsInUse
<1>3. price \in Charges
  BY BatchAssumption DEF BatchAssumption, Charges
<1> HIDE DEF price
<1>4. call[Mine(c)].status = "released" => call[Mine(c)].amount = 0
  BY <1>2 DEF Told, RowsTold, RowTold
<1>5. Rewrites(Mine(c))
  BY <1>1, <1>2, <1>3, <1>4, SettleRewrites
<1>6. lapses # 0
  BY <1>1 DEF Told, LeasesKept, SubmitterKept
<1>7. RowsHeld
  BY <1>2, <1>5, <1>6, OneRowWritten
<1> QED  BY <1>1, <1>7, SubmitterLeaves

\* Only a stage without a record is reserved for.
LEMMA ReadRecordTells ==
    ASSUME BatchInv, BatchInv', Told, NEW c \in Submitters, ReadRecord(c)
    PROVE  Told'
<1>1. /\ UNCHANGED <<call, record, normalized, job, poller, lapses>>
      /\ submitter[c].pc = "reading"
  BY DEF ReadRecord, At
<1>2. RowsHeld
  BY <1>1, RowsUntouched
<1>3. CASE Leave(c)
  BY <1>1, <1>2, <1>3, SubmitterLeaves
<1>4. CASE Go(c, "reserving") /\ record[submitter[c].stage].status = "absent"
  <2>1. /\ submitter'[c].pc = "reserving" /\ submitter'[c].stage = submitter[c].stage
        /\ submitter'[c].stale = submitter[c].stale
        /\ \A d \in Submitters \ {c} : submitter'[d] = submitter[d]
    BY <1>4, Goes DEF SubmitterPcs
  <2>2. SubmitterTold(c) /\ (lapses = 0 => SubmitterKept(c))
    BY DEF Told, RowsTold, LeasesKept
  <2>3. SubmitterTold(c)' /\ (lapses = 0 => SubmitterKept(c)')
    BY <1>1, <1>4, <2>1, <2>2 DEF SubmitterTold, SubmitterKept, Committed
  <2> QED  BY <1>1, <1>2, <2>1, <2>3, SubmitterStays
<1> QED  BY <1>3, <1>4 DEF ReadRecord

\* A refused reservation leaves no trace.
LEMMA RefuseTells ==
    ASSUME BatchInv, BatchInv', Told, NEW c \in Submitters, Refuse(c)
    PROVE  Told'
<1>1. UNCHANGED <<call, record, normalized, job, poller, lapses>> /\ Leave(c)
  BY DEF Refuse
<1>2. RowsHeld
  BY <1>1, RowsUntouched
<1> QED  BY <1>1, <1>2, SubmitterLeaves

\* The request goes out, or seems to.
LEMMA CreateTells ==
    ASSUME BatchInv, BatchInv', Told, NEW c \in Submitters, Create(c)
    PROVE  Told'
<1>1. /\ UNCHANGED <<call, record, normalized, job, poller, lapses>>
      /\ submitter[c].pc = "creating" /\ submitter[c] \in Submitter
      /\ submitter \in [Submitters -> Submitter] /\ Committed(c)
  BY DEF Create, At, BatchInv, BatchTypeOK, Committed
<1>2. RowsHeld
  BY <1>1, RowsUntouched
<1>3. CASE Go(c, "rejecting") \/ Go(c, "marking")
  <2>1. PICK pc \in {"rejecting", "marking"} : Go(c, pc)
    BY <1>3
  <2>2. Committed(c)'
    BY <2>1, Goes DEF Committed, SubmitterPcs
  <2> QED  BY <1>1, <1>2, <2>1, <2>2, CommittedGoes DEF SubmitterPcs
<1>4. CASE submitter' = [submitter EXCEPT ![c].pc = "naming", ![c].copy = [@ EXCEPT !.named = TRUE]]
  <2> DEFINE copy == [submitter[c].copy EXCEPT !.named = TRUE]
             new  == [[submitter[c] EXCEPT !.pc = "naming"] EXCEPT !.copy = copy]
  <2>1. submitter' = [submitter EXCEPT ![c] = new]
    BY <1>1, <1>4
  <2>2. /\ new.pc = "naming" /\ new.copy.call = Mine(c) /\ new.stage = submitter[c].stage
        /\ new.stale = submitter[c].stale
    BY <1>1 DEF Submitter, Record, Mine
  <2> HIDE DEF new
  <2>3. submitter'[c] = new /\ \A d \in Submitters \ {c} : submitter'[d] = submitter[d]
    BY <1>1, <2>1
  <2>4. SubmitterTold(c) /\ (lapses = 0 => SubmitterKept(c))
    BY DEF Told, RowsTold, LeasesKept
  <2>5. SubmitterTold(c)' /\ (lapses = 0 => SubmitterKept(c)')
    BY <1>1, <2>2, <2>3, <2>4 DEF SubmitterTold, SubmitterKept, Committed, Mine
  <2> QED  BY <1>1, <1>2, <2>2, <2>3, <2>5, SubmitterStays
<1> QED  BY <1>3, <1>4 DEF Create

\* The transaction of the name fails.
LEMMA NameFailsTells ==
    ASSUME BatchInv, BatchInv', Told, NEW c \in Submitters, NameFails(c)
    PROVE  Told'
<1>1. /\ UNCHANGED <<call, record, normalized, job, poller, lapses>>
      /\ Go(c, "marking") /\ Committed(c)
  BY DEF NameFails, At, Committed
<1>2. RowsHeld
  BY <1>1, RowsUntouched
<1>3. Committed(c)'
  BY <1>1, Goes DEF Committed, SubmitterPcs
<1> QED  BY <1>1, <1>2, <1>3, CommittedGoes DEF SubmitterPcs

\* What a writer puts is its copy under another status.
LEMMA PutRecords ==
    ASSUME BatchInv, NEW s, NEW copy \in Record,
           NEW status \in {"submitting", "pending", "completed", "failed", "uncertain"},
           Put(s, copy, status)
    PROVE  /\ \A t \in Stages : t # s => record'[t] = record[t]
           /\ \A t \in Stages : t = s => /\ record'[t].status = status
                                         /\ record'[t].call = copy.call
                                         /\ record'[t].named = copy.named
<1> DEFINE row == [copy EXCEPT !.status = status]
<1>1. row.status = status /\ row.call = copy.call /\ row.named = copy.named
  BY DEF Record
<1>2. record' = [record EXCEPT ![s] = row] /\ record \in [Stages -> Record]
  BY DEF Put, BatchInv, BatchTypeOK
<1> QED  BY <1>1, <1>2

\* A committed submitter's last put.
LEMMA LastPut ==
    ASSUME BatchInv, BatchInv', Told, NEW c \in Submitters, Committed(c), Leave(c),
           NEW status \in {"pending", "failed", "uncertain"},
           Put(submitter[c].stage, submitter[c].copy, status),
           UNCHANGED <<call, normalized, poller, lapses>>,
           \A s \in Stages : job[s].status = "running" => job'[s] = job[s]
    PROVE  Told'
<1>1. submitter[c].copy \in Record
  BY DEF BatchInv, BatchTypeOK, Submitter
<1>2. /\ \A t \in Stages : t # submitter[c].stage => record'[t] = record[t]
      /\ \A t \in Stages : t = submitter[c].stage => /\ record'[t].status = status
                                                     /\ record'[t].call = Mine(c)
  BY <1>1, PutRecords DEF Mine
<1>3. RowsHeld
  BY RowsUntouched
<1> QED  BY <1>2, <1>3, SubmitterLeaves

\* The name is put, and the poll scheduled.
LEMMA NameTells ==
    ASSUME BatchInv, BatchInv', Told, NEW c \in Submitters, Name(c)
    PROVE  Told'
<1>1. /\ Committed(c) /\ Leave(c) /\ Put(submitter[c].stage, submitter[c].copy, "pending")
      /\ UNCHANGED <<call, normalized, poller, lapses>>
  BY DEF Name, At, Committed
<1>2. \A s \in Stages : job[s].status = "running" => job'[s] = job[s]
  BY DEF Name, Schedule, BatchInv, BatchTypeOK
<1> QED  BY <1>1, <1>2, LastPut

\* Failures and doubts are put.
LEMMA PutTells ==
    ASSUME BatchInv, BatchInv', Told, NEW c \in Submitters, PutFailed(c) \/ PutUncertain(c)
    PROVE  Told'
<1>1. /\ Committed(c) /\ Leave(c) /\ UNCHANGED <<call, normalized, job, poller, lapses>>
      /\ \E status \in {"failed", "uncertain"} :
           Put(submitter[c].stage, submitter[c].copy, status)
  BY DEF PutFailed, PutUncertain, At, Committed
<1> QED  BY <1>1, LastPut

\* The row of a rejected request is given back.
LEMMA RejectTells ==
    ASSUME BatchInv, BatchInv', Told, NEW c \in Submitters, Reject(c)
    PROVE  Told'
<1>1. /\ UNCHANGED <<record, normalized, job, poller, lapses>>
      /\ Committed(c) /\ Release(Mine(c)) /\ Go(c, "failing") /\ call \in [Calls -> Call]
  BY DEF Reject, At, Committed, BatchInv, BatchTypeOK
<1>2. Mine(c) \in Calls /\ call[Mine(c)].status # "absent"
  BY <1>1, RowsInUse
<1>3. Rewrites(Mine(c))
  BY <1>1, <1>2, ReleaseRewrites
<1>4. RowsHeld
  BY <1>1, <1>2, <1>3, Unanswered, OneRowWritten
<1>5. Committed(c)'
  BY <1>1, Goes DEF Committed, SubmitterPcs
<1> QED  BY <1>1, <1>4, <1>5, CommittedGoes DEF SubmitterPcs

\* The row of a request nobody knows the fate of is marked.
LEMMA MarkUncertainTells ==
    ASSUME BatchInv, BatchInv', Told, NEW c \in Submitters, MarkUncertain(c)
    PROVE  Told'
<1>1. /\ UNCHANGED <<record, normalized, job, poller, lapses>>
      /\ Committed(c) /\ MarkUnknown(Mine(c), FALSE) /\ Go(c, "recording")
      /\ call \in [Calls -> Call]
  BY DEF MarkUncertain, At, Committed, BatchInv, BatchTypeOK
<1>2. Mine(c) \in Calls /\ call[Mine(c)].status # "absent"
  BY <1>1, RowsInUse
<1>3. call[Mine(c)].status = "released" => call[Mine(c)].amount = 0
  BY <1>2 DEF Told, RowsTold, RowTold
<1>4. Rewrites(Mine(c))
  BY <1>1, <1>2, <1>3, MarkRewrites
<1>5. RowsHeld
  BY <1>1, <1>2, <1>4, Unanswered, OneRowWritten
<1>6. Committed(c)'
  BY <1>1, Goes DEF Committed, SubmitterPcs
<1> QED  BY <1>1, <1>5, <1>6, CommittedGoes DEF SubmitterPcs

\* A submitter that dies.
LEMMA CrashSubmitterTells ==
    ASSUME BatchInv, BatchInv', Told, NEW c \in Submitters, CrashSubmitter(c)
    PROVE  Told'
<1>1. UNCHANGED <<call, record, normalized, job, poller, lapses>> /\ Leave(c)
  BY DEF CrashSubmitter
<1>2. RowsHeld
  BY <1>1, RowsUntouched
<1> QED  BY <1>1, <1>2, SubmitterLeaves

\* The reservation is the stage's first: what came before it would be on record.
LEMMA IntendTells ==
    ASSUME BatchInv, BatchInv', Told, NEW c \in Submitters, Intend(c)
    PROVE  Told'
<1> DEFINE s == submitter[c].stage
<1>1. /\ UNCHANGED <<normalized, job, poller, lapses>> /\ submitter[c].pc = "reserving"
      /\ submitter[c] \in Submitter /\ submitter \in [Submitters -> Submitter]
      /\ record \in [Stages -> Record] /\ call \in [Calls -> Call]
  BY DEF Intend, At, BatchInv, BatchTypeOK
<1>2. PICK k \in Calls :
        /\ Reserve(k, s)
        /\ Put(s, [status |-> "submitting", call |-> k, named |-> FALSE], "submitting")
        /\ submitter' = [submitter EXCEPT ![c].pc = "creating",
               ![c].copy = [status |-> "submitting", call |-> k, named |-> FALSE]]
  BY DEF Intend
<1> DEFINE intent == [status |-> "submitting", call |-> k, named |-> FALSE]
           new    == [[submitter[c] EXCEPT !.pc = "creating"] EXCEPT !.copy = intent]
           row    == [status |-> "reserved", stage |-> s, amount |-> Estimate, due |-> FALSE]
<1>3. intent \in Record /\ intent.call = k /\ ~intent.named
  BY DEF Record
<1>4. /\ new.pc = "creating" /\ new.copy.call = k /\ new.stage = s
      /\ new.stale = submitter[c].stale
  BY <1>1, <1>3 DEF Submitter
<1>5. submitter' = [submitter EXCEPT ![c] = new]
  BY <1>1, <1>2
<1>6. call' = [call EXCEPT ![k] = row] /\ call[k].status = "absent"
  BY <1>2 DEF Reserve
<1>7. row.status = "reserved" /\ row.stage = s
  OBVIOUS
<1>8. /\ \A t \in Stages : t # s => record'[t] = record[t]
      /\ \A t \in Stages : t = s => /\ record'[t].status = "submitting"
                                    /\ record'[t].call = k /\ ~record'[t].named
  BY <1>2, <1>3, PutRecords
<1> HIDE DEF new, intent, row
<1>9. submitter'[c] = new /\ \A d \in Submitters \ {c} : submitter'[d] = submitter[d]
  BY <1>1, <1>5
<1>10. call'[k] = row /\ \A l \in Calls \ {k} : call'[l] = call[l]
  BY <1>1, <1>6
<1>11. /\ \A l \in Calls : RowTold(l)
       /\ \A t \in Stages : RecordTold(t)
       /\ \A d \in Submitters : SubmitterTold(d)
       /\ \A p \in Pollers : PollerTold(p)
  BY DEF Told, RowsTold
<1>12. s \in Stages /\ None \notin Stages /\ call[k].stage = None /\ k \notin normalized
  BY <1>1, <1>6, <1>11, LedgerAssumption DEF LedgerAssumption, SubmitterTold, RowTold
<1>13. \A t \in Stages : record[t].status # "absent" => record'[t].status # "absent"
  BY <1>8
<1>14. ASSUME NEW l \in Calls
       PROVE  RowTold(l)'
  <2>1. CASE l = k
    BY <1>1, <1>7, <1>8, <1>10, <1>12, <2>1 DEF RowTold
  <2>2. CASE l # k
    <3>1. call[l].stage \in Stages \cup {None}
      BY <1>1 DEF Call
    <3> QED  BY <1>1, <1>10, <1>11, <1>13, <2>2, <3>1 DEF RowTold
  <2> QED  BY <2>1, <2>2
<1>15. ASSUME NEW t \in Stages
       PROVE  RecordTold(t)'
  <2>1. CASE t = s
    BY <1>7, <1>8, <1>10, <2>1 DEF RecordTold
  <2>2. CASE t # s
    BY <1>8, <1>10, <1>11, <1>12, <2>2 DEF RecordTold
  <2> QED  BY <2>1, <2>2
<1>16. ASSUME NEW d \in Submitters
       PROVE  SubmitterTold(d)'
  <2>1. CASE d = c
    BY <1>4, <1>7, <1>9, <1>10, <1>12, <2>1 DEF SubmitterTold, Mine
  <2>2. CASE d # c
    BY <1>9, <1>10, <1>11, <1>12, <2>2
       DEF SubmitterTold, Committed, Mine, BatchInv, SubmittersApart
  <2> QED  BY <2>1, <2>2
<1>17. ASSUME NEW p \in Pollers
       PROVE  PollerTold(p)'
  <2>1. Polling(p) => poller[p].stage \in Stages /\ Polled(p) \in Calls
    BY DEF Polling, BatchInv, PollersKnow
  <2> QED  BY <1>1, <1>10, <1>11, <1>12, <1>13, <2>1 DEF PollerTold, Polling, Polled
<1>18. ASSUME lapses = 0
       PROVE  LeasesKept'
  <2>1. /\ \A d \in Submitters : SubmitterKept(d)
        /\ \A p \in Pollers : PollerKept(p)
        /\ \A l \in Calls : RowKept(l)
        /\ \A t \in Stages : RecordKept(t)
        /\ SubmittersAlone /\ OneAttempt
    BY <1>18 DEF Told, LeasesKept
  <2>2. record[s].status = "absent"
    BY <1>1, <2>1 DEF SubmitterKept
  <2>3. ASSUME NEW d \in Submitters
        PROVE  SubmitterKept(d)'
    <3>1. CASE d = c
      BY <1>4, <1>8, <1>9, <1>12, <2>1, <3>1 DEF SubmitterKept, Committed
    <3>2. CASE d # c
      <4>1. submitter[d].pc # "idle" => submitter[d].stage # s /\ submitter[d].stage \in Stages
        BY <1>1, <1>11, <2>1, <3>2 DEF SubmittersAlone, SubmitterTold
      <4> QED  BY <1>8, <1>9, <2>1, <3>2, <4>1 DEF SubmitterKept, Committed
    <3> QED  BY <3>1, <3>2
  <2>4. ASSUME NEW p \in Pollers
        PROVE  PollerKept(p)'
    <3>1. Polling(p) => poller[p].stage \in Stages /\ poller[p].stage # s
      BY <1>11, <2>2 DEF Polling, BatchInv, PollersKnow, PollerTold
    <3> QED  BY <1>1, <1>8, <2>1, <3>1 DEF PollerKept, Polling
  <2>5. ASSUME NEW l \in Calls
        PROVE  RowKept(l)'
    <3>1. l \in normalized => l # k /\ call[l].stage \in Stages /\ call[l].stage # s
      BY <1>1, <1>11, <1>12, <2>1, <2>2 DEF RowKept, RowTold, Call
    <3> QED  BY <1>1, <1>8, <1>10, <2>1, <3>1 DEF RowKept
  <2>6. ASSUME NEW t \in Stages
        PROVE  RecordKept(t)'
    BY <1>1, <1>8, <2>1 DEF RecordKept
  <2>7. SubmittersAlone'
    BY <1>1, <1>4, <1>9, <2>1 DEF SubmittersAlone
  <2>8. OneAttempt'
    <3>1. \A l \in Calls : call[l].stage # s
      BY <1>11, <1>12, <2>2 DEF RowTold
    <3> QED  BY <1>7, <1>10, <2>1, <3>1 DEF OneAttempt
  <2> QED  BY <2>3, <2>4, <2>5, <2>6, <2>7, <2>8 DEF LeasesKept
<1> QED  BY <1>1, <1>14, <1>15, <1>16, <1>17, <1>18 DEF Told, RowsTold

\* After a lost lease only what is always true remains.
LEMMA LoseLeaseTells ==
    ASSUME BatchInv, BatchInv', Told, NEW c \in Submitters, LoseLease(c)
    PROVE  Told'
<1>1. /\ UNCHANGED <<call, record, normalized, poller>> /\ lapses' # 0
      /\ submitter \in [Submitters -> Submitter]
      /\ submitter' = [submitter EXCEPT ![c].stale = TRUE]
  BY BatchAssumption DEF BatchAssumption, LoseLease, BatchInv, BatchTypeOK
<1>2. ASSUME NEW d \in Submitters
      PROVE  /\ submitter'[d].pc = submitter[d].pc /\ submitter'[d].stage = submitter[d].stage
             /\ submitter'[d].copy = submitter[d].copy
  <2>1. submitter[d] \in Submitter
    BY <1>1
  <2>2. submitter'[d] = IF d = c THEN [submitter[d] EXCEPT !.stale = TRUE] ELSE submitter[d]
    BY <1>1
  <2> QED  BY <2>1, <2>2 DEF Submitter
<1>3. RowsTold'
  BY <1>1, <1>2 DEF Told, RowsTold, RowTold, RecordTold, SubmitterTold, Committed, Mine,
                    PollerTold, Polling, Polled
<1> QED  BY <1>1, <1>3 DEF Told

\* While no lease was lost, a poller that is at work is alone with its stage.
LEMMA PollerAlone ==
    ASSUME BatchInv, Told, NEW p \in Pollers, poller[p].pc # "idle", lapses = 0
    PROVE  \A q \in Pollers \ {p} : poller[q].pc # "idle" => poller[q].stage # poller[p].stage
<1> SUFFICES ASSUME NEW q \in Pollers \ {p}, poller[q].pc # "idle",
                    poller[q].stage = poller[p].stage
             PROVE  FALSE
  OBVIOUS
<1>1. PollerKept(p) /\ PollerKept(q)
  BY DEF Told, LeasesKept
<1>2. job[poller[p].stage].owner = p /\ job[poller[q].stage].owner = q
  BY <1>1 DEF PollerKept
<1> QED  BY <1>2

\* While no lease was lost, the row that is polled has no answer yet.
LEMMA PolledUnanswered ==
    ASSUME BatchInv, Told, NEW p \in Pollers, Polling(p), lapses = 0
    PROVE  Polled(p) \notin normalized
<1>1. /\ PollerTold(p) /\ PollerKept(p) /\ Polled(p) \in Calls
      /\ \A k \in Calls : RowKept(k)
  BY DEF Told, RowsTold, LeasesKept, BatchInv, PollersKnow, Polling
<1> QED  BY <1>1 DEF PollerTold, PollerKept, RowKept

\* A poller that ends, having written at most its row and its record.
LEMMA PollEnds ==
    ASSUME BatchInv, BatchInv', Told, RowsHeld, NEW p \in Pollers, poller[p].pc # "idle",
           NEW status \in {"queued", "completed", "failed"}, EndPoll(p, status),
           UNCHANGED <<submitter, lapses>>,
           \A s \in Stages : s # poller[p].stage => record'[s] = record[s],
           \/ record' = record /\ normalized' = normalized
           \/ /\ Polling(p) /\ record'[poller[p].stage].call = Polled(p)
              /\ record'[poller[p].stage].status # "absent"
              /\ record'[poller[p].stage].status = "completed" => Polled(p) \in normalized'
              /\ \/ normalized' = normalized
                 \/ /\ normalized' = normalized \cup {Polled(p)}
                    /\ call'[Polled(p)].status = "completed"
                    /\ record'[poller[p].stage].status = "completed"
    PROVE  Told'
<1> DEFINE t == poller[p].stage
<1>1. t \in Stages /\ poller \in [Pollers -> Poller] /\ job \in [Stages -> Job]
  BY DEF BatchInv, BatchTypeOK, PollersKnow
<1>2. /\ poller'[p] = NoPoller /\ \A q \in Pollers \ {p} : poller'[q] = poller[q]
      /\ \A s \in Stages \ {t} : job'[s] = job[s]
  BY <1>1 DEF EndPoll
<1>3. PollerTold(p)' /\ PollerKept(p)'
  BY <1>2 DEF PollerTold, PollerKept, Polling, NoPoller
<1>4. lapses' = 0 => \A q \in Pollers \ {p} : poller[q].pc # "idle" => poller[q].stage # t
  BY PollerAlone
<1> HIDE DEF t
<1> QED  BY <1>1, <1>2, <1>3, <1>4, PollerGoes DEF t

\* A poller that ends without having written anything.
LEMMA PollEndsQuietly ==
    ASSUME BatchInv, BatchInv', Told, NEW p \in Pollers, poller[p].pc # "idle",
           NEW status \in {"queued", "completed", "failed"}, EndPoll(p, status),
           UNCHANGED <<call, record, normalized, submitter, lapses>>
    PROVE  Told'
<1>1. RowsHeld
  BY RowsUntouched
<1> QED  BY <1>1, PollEnds

\* A poller that goes on, having written at most its row.
LEMMA PollGoesOn ==
    ASSUME BatchInv, BatchInv', Told, RowsHeld, NEW p \in Pollers, Polling(p),
           NEW pc \in PollerPcs \ {"idle", "reading"}, Step(p, pc),
           UNCHANGED <<record, normalized, job, submitter, lapses>>
    PROVE  Told'
<1> DEFINE t == poller[p].stage
<1>1. t \in Stages /\ poller[p].pc # "idle" /\ Polled(p) \in Calls
  BY DEF BatchInv, PollersKnow, Polling
<1>2. /\ poller'[p].pc = pc /\ poller'[p].copy = poller[p].copy /\ poller'[p].stage = t
      /\ \A q \in Pollers \ {p} : poller'[q] = poller[q]
  BY StepMoves DEF BatchInv
<1>3. PollerTold(p) /\ (lapses = 0 => PollerKept(p))
  BY DEF Told, RowsTold, LeasesKept
<1>4. PollerTold(p)'
  BY <1>1, <1>2, <1>3 DEF PollerTold, Polling, Polled, RowsHeld
<1>5. lapses = 0 => PollerKept(p)'
  BY <1>1, <1>2, <1>3 DEF PollerKept, Polling
<1>6. lapses' = 0 => \A q \in Pollers \ {p} : poller[q].pc # "idle" => poller[q].stage # t
  BY <1>1, PollerAlone
<1> HIDE DEF t
<1> QED  BY <1>1, <1>2, <1>4, <1>5, <1>6, PollerGoes

\* A poller takes the job: nobody is at work on it, or a lease is lost.
LEMMA StartPollTells ==
    ASSUME BatchInv, BatchInv', Told, NEW p \in Pollers, NEW s \in Stages, StartPoll(p, s)
    PROVE  Told'
<1> DEFINE new == [[NoPoller EXCEPT !.pc = "reading"] EXCEPT !.stage = s]
           row == [status |-> "running", owner |-> p]
<1>1. new.pc = "reading" /\ new.stage = s
  BY DEF NoPoller
<1>2. /\ poller' = [poller EXCEPT ![p] = new] /\ job' = [job EXCEPT ![s] = row]
      /\ poller \in [Pollers -> Poller] /\ job \in [Stages -> Job] /\ lapses \in Nat
      /\ UNCHANGED <<call, record, normalized, submitter>>
  BY BatchAssumption DEF BatchAssumption, StartPoll, NoPoller, BatchInv, BatchTypeOK
<1> HIDE DEF new
<1>3. /\ poller'[p] = new /\ \A q \in Pollers \ {p} : poller'[q] = poller[q]
      /\ job'[s] = row /\ \A t \in Stages \ {s} : job'[t] = job[t]
  BY <1>2
<1>4. RowsHeld
  BY <1>2, RowsUntouched
<1>5. lapses' = 0 => lapses = 0
  BY <1>2 DEF StartPoll
<1>6. ASSUME lapses' = 0, NEW q \in Pollers \ {p}, poller[q].pc # "idle"
      PROVE  poller[q].stage # s
  <2>1. PollerKept(q)
    BY <1>5, <1>6 DEF Told, LeasesKept
  <2>2. SUFFICES ASSUME poller[q].stage = s PROVE FALSE
    OBVIOUS
  <2>3. job[s].status = "running" /\ job[s].owner = q
    BY <1>6, <2>1, <2>2 DEF PollerKept
  <2>4. lapses' = lapses + 1
    BY <2>2, <2>3 DEF StartPoll
  <2> QED  BY <1>2, <1>6, <2>4
<1>7. PollerTold(p)' /\ PollerKept(p)'
  BY <1>1, <1>3 DEF PollerTold, PollerKept, Polling
<1> QED  BY <1>2, <1>3, <1>4, <1>5, <1>6, <1>7, PollerGoes

\* The record is read: it is decided, or nameless, or the poller's copy from now on.
LEMMA ReadPollTells ==
    ASSUME BatchInv, BatchInv', Told, NEW p \in Pollers, ReadPoll(p)
    PROVE  Told'
<1> DEFINE t == poller[p].stage
           now == record[t]
<1>1. /\ UNCHANGED <<call, record, normalized, submitter, lapses>>
      /\ poller[p].pc = "reading" /\ t \in Stages
      /\ poller \in [Pollers -> Poller] /\ poller[p] \in Poller
  BY DEF ReadPoll, BatchInv, BatchTypeOK, PollersKnow
<1>2. CASE \E status \in {"completed", "failed"} : EndPoll(p, status)
  BY <1>1, <1>2, PollEndsQuietly
<1>3. CASE /\ now.named /\ now.status \notin {"completed", "failed"} /\ UNCHANGED job
           /\ poller' = [poller EXCEPT ![p].pc = "fetching", ![p].copy = now]
  <2> DEFINE new == [[poller[p] EXCEPT !.pc = "fetching"] EXCEPT !.copy = now]
  <2>1. new.pc = "fetching" /\ new.copy = now /\ new.stage = t
    BY <1>1 DEF Poller
  <2>2. poller' = [poller EXCEPT ![p] = new]
    BY <1>1, <1>3
  <2> HIDE DEF new
  <2>3. poller'[p] = new /\ \A q \in Pollers \ {p} : poller'[q] = poller[q]
    BY <1>1, <2>2
  <2>4. RowsHeld
    BY <1>1, RowsUntouched
  <2>5. RecordTold(t) /\ (lapses = 0 => PollerKept(p))
    BY <1>1 DEF Told, RowsTold, LeasesKept
  <2>6. PollerTold(p)'
    BY <1>1, <1>3, <2>1, <2>3, <2>5 DEF PollerTold, RecordTold, Polled
  <2>7. lapses = 0 => PollerKept(p)'
    BY <1>1, <1>3, <2>1, <2>3, <2>5 DEF PollerKept
  <2>8. lapses' = 0 => \A q \in Pollers \ {p} : poller[q].pc # "idle" => poller[q].stage # t
    BY <1>1, PollerAlone
  <2> HIDE DEF t
  <2> QED  BY <1>1, <1>3, <2>3, <2>4, <2>6, <2>7, <2>8, PollerGoes
<1> QED  BY <1>2, <1>3 DEF ReadPoll

\* What the provider has to say sends the poller on, or back into the queue.
LEMMA FetchTells ==
    ASSUME BatchInv, BatchInv', Told, NEW p \in Pollers, Fetch(p) \/ Unreachable(p) \/ Doubt(p)
    PROVE  Told'
<1>1. /\ UNCHANGED <<call, record, normalized, submitter, lapses>>
      /\ Polling(p) /\ poller[p].pc # "idle"
  BY DEF Fetch, Unreachable, Doubt, Polling
<1>2. CASE EndPoll(p, "queued")
  BY <1>1, <1>2, PollEndsQuietly
<1>3. CASE UNCHANGED job /\ \E pc \in {"completing", "releasing", "marking", "doubting"} : Step(p, pc)
  BY <1>1, <1>3, RowsUntouched, PollGoesOn DEF PollerPcs
<1> QED  BY <1>2, <1>3 DEF Fetch, Unreachable, Doubt

\* The answer, its price and the record in one transaction.
LEMMA CompleteTells ==
    ASSUME BatchInv, BatchInv', Told, NEW p \in Pollers, Complete(p)
    PROVE  Told'
<1> DEFINE k == Polled(p)
           price == IF provider[k] = "priced" THEN Price ELSE call[k].amount
<1>1. /\ Polling(p) /\ poller[p].pc # "idle" /\ UNCHANGED <<submitter, lapses>>
      /\ normalized' = normalized \cup {k} /\ Settle(k, price)
      /\ Put(poller[p].stage, poller[p].copy, "completed") /\ EndPoll(p, "completed")
      /\ call \in [Calls -> Call] /\ poller[p].copy \in Record
  BY DEF Complete, Polling, BatchInv, BatchTypeOK, Poller
<1>2. k \in Calls /\ call[k].status # "absent" /\ poller[p].stage \in Stages
  BY <1>1, RowsInUse
<1>3. price \in Charges /\ price # None
  BY <1>1, <1>2, BatchAssumption, LedgerAssumption
     DEF BatchAssumption, LedgerAssumption, Charges, Call
<1>4. call[k].status = "released" => call[k].amount = 0
  BY <1>2 DEF Told, RowsTold, RowTold
<1> HIDE DEF price
<1>5. Rewrites(k) /\ call'[k].status = "completed"
  BY <1>1, <1>2, <1>3, <1>4, SettleRewrites
<1>6. RowsHeld
  BY <1>1, <1>2, <1>5, PolledUnanswered, OneRowWritten
<1>7. /\ \A s \in Stages : s # poller[p].stage => record'[s] = record[s]
      /\ record'[poller[p].stage].status = "completed" /\ record'[poller[p].stage].call = k
  BY <1>1, <1>2, PutRecords DEF Polled
<1> QED  BY <1>1, <1>5, <1>6, <1>7, PollEnds

\* A failed request's row is given back.
LEMMA GiveBackTells ==
    ASSUME BatchInv, BatchInv', Told, NEW p \in Pollers, GiveBack(p)
    PROVE  Told'
<1> DEFINE k == Polled(p)
<1>1. /\ Polling(p) /\ poller[p].pc # "idle" /\ UNCHANGED <<normalized, submitter, lapses>>
      /\ Release(k)
      /\ Put(poller[p].stage, poller[p].copy, "failed") /\ EndPoll(p, "completed")
      /\ call \in [Calls -> Call] /\ poller[p].copy \in Record
  BY DEF GiveBack, Polling, BatchInv, BatchTypeOK, Poller
<1>2. k \in Calls /\ call[k].status # "absent" /\ poller[p].stage \in Stages
  BY <1>1, RowsInUse
<1>3. Rewrites(k)
  BY <1>1, <1>2, ReleaseRewrites
<1>4. RowsHeld
  BY <1>1, <1>2, <1>3, PolledUnanswered, OneRowWritten
<1>5. /\ \A s \in Stages : s # poller[p].stage => record'[s] = record[s]
      /\ record'[poller[p].stage].status = "failed" /\ record'[poller[p].stage].call = k
  BY <1>1, <1>2, PutRecords DEF Polled
<1> QED  BY <1>1, <1>4, <1>5, PollEnds

\* The marking of a row by its poller.
LEMMA PolledMarked ==
    ASSUME BatchInv, Told, NEW p \in Pollers, Polling(p), MarkUnknown(Polled(p), FALSE)
    PROVE  RowsHeld
<1>1. Polled(p) \in Calls /\ call[Polled(p)].status # "absent" /\ call \in [Calls -> Call]
  BY RowsInUse DEF BatchInv, BatchTypeOK
<1>2. call[Polled(p)].status = "released" => call[Polled(p)].amount = 0
  BY <1>1 DEF Told, RowsTold, RowTold
<1>3. Rewrites(Polled(p))
  BY <1>1, <1>2, MarkRewrites
<1> QED  BY <1>1, <1>3, PolledUnanswered, OneRowWritten

\* A row that was polled too long is marked.
LEMMA MarkPolledTells ==
    ASSUME BatchInv, BatchInv', Told, NEW p \in Pollers, MarkPolled(p)
    PROVE  Told'
<1>1. /\ Polling(p) /\ poller[p].pc # "idle"
      /\ UNCHANGED <<record, normalized, submitter, lapses>>
      /\ MarkUnknown(Polled(p), FALSE)
      /\ EndPoll(p, "failed") \/ (Step(p, "recording") /\ UNCHANGED job)
  BY DEF MarkPolled, Polling
<1>2. RowsHeld
  BY <1>1, PolledMarked
<1>3. CASE EndPoll(p, "failed")
  BY <1>1, <1>2, <1>3, PollEnds
<1>4. CASE Step(p, "recording") /\ UNCHANGED job
  BY <1>1, <1>2, <1>4, PollGoesOn DEF PollerPcs
<1> QED  BY <1>1, <1>3, <1>4

\* The doubt is put, with the marking or after it.
LEMMA DoubtTells ==
    ASSUME BatchInv, BatchInv', Told, NEW p \in Pollers, RecordPolled(p) \/ PutDoubt(p)
    PROVE  Told'
<1>1. /\ Polling(p) /\ poller[p].pc # "idle" /\ UNCHANGED <<normalized, submitter, lapses>>
      /\ UNCHANGED call \/ MarkUnknown(Polled(p), FALSE)
      /\ UNCHANGED record \/ Put(poller[p].stage, poller[p].copy, "uncertain")
      /\ EndPoll(p, "failed") /\ poller[p].copy \in Record
  BY DEF RecordPolled, PutDoubt, Polling, BatchInv, BatchTypeOK, Poller
<1>2. RowsHeld
  BY <1>1, PolledMarked, RowsUntouched
<1>3. CASE UNCHANGED record
  BY <1>1, <1>2, <1>3, PollEnds
<1>4. CASE Put(poller[p].stage, poller[p].copy, "uncertain")
  <2>1. /\ \A s \in Stages : s # poller[p].stage => record'[s] = record[s]
        /\ record'[poller[p].stage].status = "uncertain"
        /\ record'[poller[p].stage].call = Polled(p)
    BY <1>1, <1>4, RowsInUse, PutRecords DEF Polled
  <2> QED  BY <1>1, <1>2, <2>1, PollEnds
<1> QED  BY <1>1, <1>3, <1>4

\* A poll that throws, and a poller that dies.
LEMMA PollStopsTells ==
    ASSUME BatchInv, BatchInv', Told, NEW p \in Pollers, PollError(p) \/ CrashPoller(p)
    PROVE  Told'
<1>1. poller[p].pc # "idle" /\ UNCHANGED <<call, record, normalized, submitter, lapses>>
  BY DEF PollError, CrashPoller
<1>2. CASE PollError(p)
  BY <1>1, <1>2, PollEndsQuietly DEF PollError
<1>3. CASE CrashPoller(p)
  <2> DEFINE t == poller[p].stage
  <2>1. t \in Stages /\ poller \in [Pollers -> Poller] /\ UNCHANGED job
    BY <1>1, <1>3 DEF CrashPoller, BatchInv, BatchTypeOK, PollersKnow
  <2>2. poller'[p] = NoPoller /\ \A q \in Pollers \ {p} : poller'[q] = poller[q]
    BY <1>3, <2>1 DEF CrashPoller
  <2>3. PollerTold(p)' /\ PollerKept(p)'
    BY <2>2 DEF PollerTold, PollerKept, Polling, NoPoller
  <2>4. lapses' = 0 => \A q \in Pollers \ {p} : poller[q].pc # "idle" => poller[q].stage # t
    BY <1>1, PollerAlone
  <2>5. RowsHeld
    BY <1>1, RowsUntouched
  <2> HIDE DEF t
  <2> QED  BY <1>1, <2>1, <2>2, <2>3, <2>4, <2>5, PollerGoes
<1> QED  BY <1>2, <1>3

\* Steps that write neither rows nor records, and move nobody.
LEMMA NobodyMoves ==
    ASSUME BatchInv, Told, UNCHANGED <<call, record, normalized, submitter, poller, lapses>>,
           \A s \in Stages : job[s].status = "running" => job'[s] = job[s]
    PROVE  Told'
<1>1. RowsTold'
  BY DEF Told, RowsTold, RowTold, RecordTold, SubmitterTold, Committed, Mine, PollerTold, Polling,
         Polled
<1>2. ASSUME lapses = 0
      PROVE  LeasesKept'
  <2>1. LeasesKept
    BY <1>2 DEF Told
  <2>2. ASSUME NEW p \in Pollers
        PROVE  PollerKept(p)'
    <3>1. PollerKept(p) /\ (poller[p].pc # "idle" => poller[p].stage \in Stages)
      BY <2>1 DEF LeasesKept, BatchInv, PollersKnow
    <3>2. poller[p].pc # "idle" => job'[poller[p].stage] = job[poller[p].stage]
      BY <3>1 DEF PollerKept
    <3> QED  BY <3>1, <3>2 DEF PollerKept, Polling
  <2>3. /\ \A c \in Submitters : SubmitterKept(c)'
        /\ \A k \in Calls : RowKept(k)'
        /\ \A s \in Stages : RecordKept(s)'
        /\ SubmittersAlone' /\ OneAttempt'
    BY <2>1 DEF LeasesKept, SubmitterKept, Committed, RowKept, RecordKept, SubmittersAlone,
                OneAttempt
  <2> QED  BY <2>2, <2>3 DEF LeasesKept
<1> QED  BY <1>1, <1>2 DEF Told

\* Every step keeps what was told.
LEMMA ToldStep == BatchInv /\ BatchInv' /\ Told /\ [Next]_vars => Told'
<1> SUFFICES ASSUME BatchInv, BatchInv', Told, [Next]_vars PROVE Told'
  OBVIOUS
<1>1. ASSUME NEW c \in Submitters, Submit(c) PROVE Told'
  BY <1>1, LookTells, ReplayTells, ReadRecordTells, IntendTells, RefuseTells, CreateTells,
     NameTells, RejectTells, PutTells, MarkUncertainTells DEF Submit
<1>2. ASSUME NEW p \in Pollers, Poll(p) PROVE Told'
  BY <1>2, ReadPollTells, FetchTells, CompleteTells, GiveBackTells, MarkPolledTells,
     DoubtTells DEF Poll
<1>3. CASE UNCHANGED vars
  BY <1>3, NobodyMoves DEF vars
<1>4. ASSUME NEW s \in Stages, SchedulePending(s) PROVE Told'
  BY <1>4, NobodyMoves DEF SchedulePending, Schedule, BatchInv, BatchTypeOK
<1>5. ASSUME NEW k \in Calls, Finish(k) \/ WindowEnds(k) PROVE Told'
  BY <1>5, NobodyMoves DEF Finish, WindowEnds
<1>6. CASE Next
  BY <1>1, <1>2, <1>4, <1>5, <1>6, BeginTells, NameFailsTells, LoseLeaseTells,
     CrashSubmitterTells, StartPollTells, FetchTells, PollStopsTells DEF Next
<1> QED  BY <1>3, <1>6

\* What was told holds in every state.
LEMMA ToldInvariant == Spec => []Told
<1>1. Spec => [](BatchInv /\ Told)
  BY BatchInitially, BatchStep, ToldInitially, ToldStep, PTL DEF Spec
<1> QED  BY <1>1, PTL

\* Whatever dies on the way, the provider gets a stage's request once, unless a queue
\* lease is lost under a living worker: the intent is on record before the request goes.
THEOREM StageSubmittedOnce == Spec => []SubmittedOnce
<1>1. Told => SubmittedOnce
  <2> SUFFICES ASSUME Told, lapses = 0, NEW s \in Stages
               PROVE  Cardinality({k \in Attempts(s) : provider[k] # "none"}) <= 1
    BY DEF SubmittedOnce
  <2> DEFINE S == {k \in Attempts(s) : provider[k] # "none"}
  <2>1. None \notin Stages
    BY LedgerAssumption DEF LedgerAssumption
  <2>2. \A j, k \in S : j = k
    BY <2>1 DEF Told, LeasesKept, OneAttempt, Attempts
  <2>3. S = {} \/ \E k : S = {k}
    BY <2>2
  <2>4. S = {} => Cardinality(S) = 0
    BY FS_EmptySet
  <2>5. \A k : S = {k} => Cardinality(S) = 1
    BY FS_Singleton
  <2> HIDE DEF S
  <2> QED  BY <2>3, <2>4, <2>5 DEF S
<1> QED  BY <1>1, ToldInvariant, PTL

\* A record that says completed names a row that is paid for and can be replayed,
\* unless a queue lease is lost under a living worker.
THEOREM CompletedStaysPaid == Spec => []CompletedIsPaid
<1>1. Told => CompletedIsPaid
  BY DEF Told, RowsTold, RecordTold, LeasesKept, RecordKept, RowKept, CompletedIsPaid
<1> QED  BY <1>1, ToldInvariant, PTL
=============================================================================
