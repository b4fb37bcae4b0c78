---------------------------- MODULE AnalysisStages ----------------------------
(***************************************************************************)
(* The stages of one analysis: step() of pipeline.ts, and what processNext *)
(* of runner.ts saves when a step returns or throws.                       *)
(*                                                                         *)
(* A step works on a copy of the run that is saved when it ends, also when *)
(* it throws; a worker that dies leaves the run as it was.  What survives  *)
(* it are the answers in the call ledger, the frozen requests and the rows *)
(* of the record, so these change while a step is under way.  A provider   *)
(* answers the calls of a step in any order, or not at all: a call without *)
(* an answer when its step ends is one that failed.                        *)
(*                                                                         *)
(* Items are what is extracted: claims, key points and mentions.  Whether  *)
(* an item is well formed or in a foreign language is fixed.               *)
(***************************************************************************)
EXTENDS Integers, Sequences, FiniteSets, SequencesExt, FiniteSetsExt

CONSTANTS
    Items, SegmentOf,          \* SegmentOf: item -> the source segment it is in
    Flawed, Foreign,           \* items that fail validateClaim; that need English
    FirstPlan,                 \* extractionChunks: <<first, last>> segments, in order
    SplitAbove, MaxRepairs,    \* a chunk of more segments is split, so many times
    Windows,                   \* the recall windows: a sequence of segment sets
    RecallBatch,               \* windows of one step
    PartOf, CritiqueParts,     \* PartOf: item -> its part of the transcript, for the critic
    MaxTries,                  \* MAX_AUDIT_RETRIES
    MaxBlips,                  \* MAX_TRANSIENT_RETRIES
    TimedWindows,              \* windows of a transcription by the model
    MaxFaults, MaxRetries      \* bounds: failures, and retries by an operator

ASSUME AnalysisAssumption ==
    /\ Flawed \subseteq Items /\ Foreign \subseteq Items
    /\ PartOf \in [Items -> 1..CritiqueParts]
    /\ FirstPlan \in Seq(Nat \X Nat) /\ FirstPlan # <<>>
    /\ \A s \in 1..FirstPlan[Len(FirstPlan)][2] :
         \E n \in DOMAIN FirstPlan : s \in FirstPlan[n][1]..FirstPlan[n][2]
    /\ SplitAbove \in Nat \ {0} /\ MaxRepairs \in Nat
    /\ Windows \in Seq(SUBSET Nat)
    /\ MaxTries \in Nat /\ MaxBlips \in Nat /\ RecallBatch \in Nat \ {0}

VARIABLES
    analysis,   \* the run as it is saved
    frozen,     \* extractionRequest documents: a chunk, and the key it is asked under
    inventory,  \* the frozen recall inventory: {} until there is one
    drafts,     \* the ledger's answers to extractions
    finds,      \* the ledger's answers to recall requests
    verdicts,   \* the ledger's answers to critiques
    hand,       \* the completed copy, while its rows are being written; or {}
    rows,       \* the items of the run in the record
    faults, retries,
    caused      \* history: an error, not a temporary one, failed a step

analysisVars == <<analysis, frozen, inventory, drafts, finds, verdicts, hand, rows,
                  faults, retries, caused>>

ItemStatus == {"absent", "pending", "flawed", "accepted", "rejected", "withheld"}

Stage == {"metadata", "source", "source-window", "asr-source", "synthesis", "translate",
          "critique", "publish", "complete"}

Answer == {"complete", "truncated", "unreadable"}

\* `overlapping`: the run has an auditedExecutionPlan, with recallOverlap and
\* checkedFindings.
AnalysisInit ==
    /\ \E overlapping \in BOOLEAN :
       analysis = [overlapping |-> overlapping, stage |-> "metadata", status |-> "queued",
                   heard |-> 0, plan |-> FirstPlan, next |-> 1, repairs |-> 0,
                   item |-> [i \in Items |-> "absent"], english |-> {}, tries |-> 0,
                   recalled |-> 0, checked |-> FALSE, blips |-> 0]
    /\ frozen = {} /\ inventory = {}
    /\ drafts = {} /\ finds = {} /\ verdicts = {}
    /\ hand = {} /\ rows = {}
    /\ faults = 0 /\ retries = 0 /\ caused = FALSE

-----------------------------------------------------------------------------
(* How a step ends.                                                        *)

InStage(stage) == analysis.status = "queued" /\ analysis.stage = stage /\ hand = {}

ledger == <<drafts, finds, verdicts>>

Save(copy) ==
    /\ analysis' = copy
    /\ UNCHANGED <<frozen, inventory, ledger, hand, rows, faults, retries, caused>>

GoTo(stage) == Save([analysis EXCEPT !.stage = stage])

\* An error that comes back however often the step is run.
Throw(copy) ==
    /\ analysis' = [copy EXCEPT !.status = "failed"]
    /\ hand' = {}
    /\ caused' = TRUE
    /\ UNCHANGED <<frozen, inventory, ledger, rows, faults, retries>>

\* A call or a query fails: a database that cannot be reached is tried again a
\* few times, and anything else fails the run.  What the step changed so far
\* is saved either way.
Fail(copy) ==
    /\ faults < MaxFaults
    /\ faults' = faults + 1
    /\ \/ /\ copy.blips < MaxBlips
          /\ analysis' = [copy EXCEPT !.blips = @ + 1, !.status = "queued"]
          /\ UNCHANGED caused
       \/ /\ analysis' = [copy EXCEPT !.status = "failed"]
          /\ caused' = TRUE
    /\ hand' = {}
    /\ UNCHANGED <<frozen, inventory, ledger, rows, retries>>

-----------------------------------------------------------------------------
(* The source.                                                             *)

FetchMetadata ==
    /\ InStage("metadata")
    /\ \E stage \in {"source", "asr-source"} : GoTo(stage)

\* A transcript that covers the video; windows of a long one to transcribe; or
\* the audio, which is transcribed elsewhere.
FindSource ==
    /\ InStage("source")
    /\ \E stage \in {"synthesis", "source-window", "asr-source"} : GoTo(stage)

TranscribeWindow ==
    /\ InStage("source-window")
    /\ analysis.heard < TimedWindows - 1
    /\ Save([analysis EXCEPT !.heard = @ + 1])

LastWindow ==
    /\ InStage("source-window")
    /\ analysis.heard >= TimedWindows - 1
    /\ Save([analysis EXCEPT !.heard = 0, !.stage = "synthesis"])

\* windowedAsrStep, left out here: it ends with a source.
TranscribeAudio ==
    /\ InStage("asr-source")
    /\ GoTo("synthesis")

\* No captions and no transcription of audio, or timestamps with a gap: a
\* person has to supply a transcript.
NeedsReview ==
    /\ \/ InStage("source") \/ InStage("asr-source")
       \/ InStage("source-window") /\ analysis.heard >= TimedWindows - 1
    /\ Save([analysis EXCEPT !.status = "needs_review"])

SourceFails ==
    /\ \E stage \in {"metadata", "source", "source-window", "asr-source"} : InStage(stage)
    /\ Fail(analysis)

-----------------------------------------------------------------------------
(* Extraction, chunk by chunk.                                             *)

Remaining == analysis.next..Len(analysis.plan)

\* The stage name and the payload tell of the chunk's number, of how many
\* there are, and of the repairs.
CurrentKey(n) == <<n, Len(analysis.plan), analysis.repairs>>

\* `Freeze each chunk's original request before fanout.`
FreezeRequest(n) ==
    /\ InStage("synthesis") /\ n \in Remaining
    /\ \A f \in frozen : f.chunk # analysis.plan[n]
    /\ frozen' = frozen \cup {[chunk |-> analysis.plan[n], key |-> CurrentKey(n)]}
    /\ UNCHANGED <<analysis, inventory, ledger, hand, rows, faults, retries, caused>>

\* Mutant: a request is made up again at every step.
FreshKeys(n) == {CurrentKey(n)}

RequestKeys(n) == {f.key : f \in {g \in frozen : g.chunk = analysis.plan[n]}}

DraftOf(n) == {d \in drafts : d.chunk = analysis.plan[n] /\ d.key \in RequestKeys(n)}

Said(n, kind) == \E d \in DraftOf(n) : d.kind = kind

InChunk(c) == {i \in Items : SegmentOf[i] \in c[1]..c[2]}

AnswerExtraction(n) ==
    /\ InStage("synthesis") /\ n \in Remaining
    /\ DraftOf(n) = {}
    /\ \E key \in RequestKeys(n), kind \in Answer, found \in SUBSET InChunk(analysis.plan[n]) :
         /\ kind # "complete" => found = {}
         /\ drafts' = drafts \cup {[chunk |-> analysis.plan[n], key |-> key,
                                    kind |-> kind, found |-> found]}
    /\ UNCHANGED <<analysis, frozen, inventory, finds, verdicts, hand, rows, faults,
                   retries, caused>>

\* What the drafts of the plan have found.
Extracted ==
    UNION {d.found : d \in UNION {DraftOf(n) : n \in 1..Len(analysis.plan)}}

NewItem(i) == IF i \in Flawed THEN "flawed" ELSE "pending"

WithItems(copy, found) ==
    [copy EXCEPT !.item = [i \in Items |-> IF i \in found /\ copy.item[i] = "absent"
                                             THEN NewItem(i) ELSE copy.item[i]]]

\* pendingTranslations decides between the two stages.
Untranslated(copy) == {i \in Foreign : copy.item[i] # "absent"} \ copy.english

ToCritique(copy) ==
    [copy EXCEPT !.stage = IF Untranslated(copy) # {} THEN "translate" ELSE "critique"]

\* The first of the remaining drafts is applied, whatever the others are.
TakeDraft ==
    /\ InStage("synthesis")
    /\ Said(analysis.next, "complete")
    /\ LET taken == [analysis EXCEPT !.next = @ + 1]
       IN  IF analysis.next < Len(analysis.plan) THEN Save(taken)
           ELSE Save(ToCritique(WithItems(taken, Extracted)))

Length(c) == c[2] - c[1] + 1

Splits(n) == /\ Said(n, "truncated")
             /\ Length(analysis.plan[n]) > SplitAbove
             /\ analysis.repairs < MaxRepairs

\* Mutant: the cue in the middle is in neither half.
HalvesApart(c) == LET middle == c[1] + (Length(c) + 1) \div 2 - 1
                  IN  <<<<c[1], middle - 1>>, <<middle + 1, c[2]>>>>

Halves(c) == LET middle == c[1] + (Length(c) + 1) \div 2 - 1
             IN  <<<<c[1], middle>>, <<middle + 1, c[2]>>>>

SplitChunk ==
    /\ InStage("synthesis")
    /\ Splits(analysis.next)
    /\ LET n == analysis.next
           plan == analysis.plan
       IN  Save([analysis EXCEPT !.plan = SubSeq(plan, 1, n - 1) \o Halves(plan[n])
                                            \o SubSeq(plan, n + 1, Len(plan)),
                                 !.repairs = @ + 1])

\* The first call failed, or a later one did with an account error.
SynthesisFails ==
    /\ InStage("synthesis")
    /\ \E n \in Remaining : DraftOf(n) = {}
    /\ Fail(analysis)

\* A truncated answer that cannot be split, and one that does not parse, are
\* replayed from the ledger ever after.
SynthesisStuck ==
    /\ InStage("synthesis")
    /\ DraftOf(analysis.next) # {}
    /\ ~Said(analysis.next, "complete") /\ ~Splits(analysis.next)
    /\ Throw(analysis)

Translate ==
    /\ InStage("translate")
    /\ Save([analysis EXCEPT !.stage = "critique",
                             !.english = @ \cup Untranslated(analysis)])

TranslateFails == InStage("translate") /\ Fail(analysis)

-----------------------------------------------------------------------------
(* The critic, and the search for what was missed.                         *)

Pending(copy) == {i \in Items : copy.item[i] = "pending"}

Batch(p) == {i \in Pending(analysis) : PartOf[i] = p}

Asked == {p \in 1..CritiqueParts : Batch(p) # {}}

\* The ledger's answer to the critique of a part: the request names the items
\* and the number of repairs.
VerdictsOn(p) == {v \in verdicts : v.batch = Batch(p) /\ v.tries = analysis.tries}

AnswerCritique(p) ==
    /\ InStage("critique") /\ p \in Asked
    /\ VerdictsOn(p) = {}
    /\ \E of \in [Batch(p) -> {"accepted", "rejected", "missing"}] :
         verdicts' = verdicts \cup {[batch |-> Batch(p), tries |-> analysis.tries, of |-> of]}
    /\ UNCHANGED <<analysis, frozen, inventory, drafts, finds, hand, rows, faults,
                   retries, caused>>

\* The copy with the verdicts of these parts; an item without one is pending.
Judged(parts) ==
    LET given(i) == {v.of[i] : v \in {w \in VerdictsOn(PartOf[i]) : i \in w.batch}}
    IN  [analysis EXCEPT !.item =
           [i \in Items |-> IF i \in Pending(analysis) /\ PartOf[i] \in parts
                               /\ given(i) \cap {"accepted", "rejected"} # {}
                              THEN CHOOSE s \in given(i) : TRUE ELSE analysis.item[i]]]

Withhold(copy) ==
    [copy EXCEPT !.item = [i \in Items |-> IF copy.item[i] = "pending" THEN "withheld"
                                           ELSE copy.item[i]]]

\* Items the critic has skipped are asked again, and in the end withheld.
AskAgain(copy) == Pending(copy) # {} /\ copy.tries < MaxTries

Audited(copy) ==
    IF AskAgain(copy) THEN [copy EXCEPT !.tries = @ + 1]
                      ELSE [Withhold(copy) EXCEPT !.stage = "publish"]

\* prepareDiscovery beside the critique, or the publish stage, freezes what the
\* recall is told of the items found so far.
Discovering == analysis.overlapping /\ ~analysis.checked /\ Asked # {}

Recalling == \/ InStage("critique") /\ Discovering
             \/ InStage("publish") /\ ~analysis.checked

FreezeInventory ==
    /\ Recalling /\ inventory = {}
    /\ inventory' = {analysis.item}
    /\ UNCHANGED <<analysis, frozen, ledger, hand, rows, faults, retries, caused>>

WindowBatch ==
    LET from == IF analysis.stage = "critique" THEN 0 ELSE analysis.recalled
    IN  (from + 1)..Min({from + RecallBatch, Len(Windows)})

FindOf(w) == {f \in finds : f.window = w /\ f.known \in inventory}

AnswerRecall(w) ==
    /\ Recalling /\ w \in WindowBatch
    /\ FindOf(w) = {}
    /\ \E known \in inventory, found \in SUBSET {i \in Items : SegmentOf[i] \in Windows[w]} :
         finds' = finds \cup {[window |-> w, known |-> known, found |-> found]}
    /\ UNCHANGED <<analysis, frozen, inventory, drafts, verdicts, hand, rows, faults,
                   retries, caused>>

Searched == inventory # {} /\ \A w \in WindowBatch : FindOf(w) # {}

NothingToAudit ==
    /\ InStage("critique") /\ Asked = {}
    /\ GoTo("publish")

CritiqueEnds ==
    /\ InStage("critique") /\ Asked # {}
    /\ \A p \in Asked : VerdictsOn(p) # {}
    /\ Discovering => Searched
    /\ Save(Audited(Judged(Asked)))

\* `finally` rethrows what discovery threw, after the copy has moved on.
DiscoveryFails ==
    /\ InStage("critique") /\ Discovering /\ ~Searched
    /\ \A p \in Asked : VerdictsOn(p) # {}
    /\ Fail(Audited(Judged(Asked)))

\* checkpointCheckedFindings saves the copy ahead of its change of stage, and
\* then the worker dies.
DiesAfterCheckpoint ==
    /\ InStage("critique") /\ analysis.overlapping /\ Asked # {}
    /\ \A p \in Asked : VerdictsOn(p) # {}
    /\ ~AskAgain(Judged(Asked))
    /\ Save(Withhold(Judged(Asked)))

\* The verdicts of the parts ahead of the one that failed are kept.
CritiqueFails ==
    /\ InStage("critique")
    /\ \E p \in Asked :
         /\ VerdictsOn(p) = {}
         /\ \A q \in Asked : q < p => VerdictsOn(q) # {}
         /\ Fail(Judged({q \in Asked : q < p}))

-----------------------------------------------------------------------------
(* Publication.                                                            *)

\* The finds of the windows up to w, applied in order.
WithWindows(w) ==
    LET found == UNION {f.found : f \in UNION {FindOf(v) : v \in 1..w}}
    IN  [WithItems(analysis, found) EXCEPT !.recalled = w, !.checked = (w = Len(Windows))]

\* Mutant: what the recall has added is published as it is.
TakeWindowsUnread ==
    /\ InStage("publish") /\ ~analysis.checked /\ Searched
    /\ Save(WithWindows(Max({analysis.recalled} \cup WindowBatch)))

\* The copy once every window of this step is in: back to the critic, if
\* anything is new, or on to the record.
TakeWindows ==
    /\ InStage("publish") /\ ~analysis.checked /\ Searched
    /\ LET copy == WithWindows(Max({analysis.recalled} \cup WindowBatch))
       IN  /\ ~copy.checked \/ Pending(copy) # {}
           /\ Save(IF copy.checked THEN ToCritique(copy) ELSE copy)

BeginPublication ==
    /\ InStage("publish")
    /\ \/ analysis.checked
       \/ Searched /\ Max({analysis.recalled} \cup WindowBatch) = Len(Windows)
    /\ LET copy == IF analysis.checked THEN analysis ELSE WithWindows(Len(Windows))
       IN  /\ analysis.checked \/ Pending(copy) = {}
           /\ hand' = {[copy EXCEPT !.status = "completed", !.stage = "complete"]}
    /\ UNCHANGED <<analysis, frozen, inventory, ledger, rows, faults, retries, caused>>

\* An overlapped recall takes no window unless it has all of the step's.
RecallFails ==
    /\ InStage("publish") /\ ~analysis.checked /\ ~Searched
    /\ IF analysis.overlapping \/ inventory = {} THEN Fail(analysis)
       ELSE \E w \in WindowBatch :
              /\ FindOf(w) = {}
              /\ \A v \in WindowBatch : v < w => FindOf(v) # {}
              /\ Fail(WithWindows(w - 1))

\* writeRunRows: the accepted items, and no row of an earlier pass.
WriteRows ==
    /\ \E copy \in hand :
         LET accepted == {i \in Items : copy.item[i] = "accepted"}
         IN  rows # accepted /\ rows' = accepted
    /\ UNCHANGED <<analysis, frozen, inventory, ledger, hand, faults, retries, caused>>

FinishRun ==
    /\ \E copy \in hand :
         /\ rows = {i \in Items : copy.item[i] = "accepted"}
         /\ analysis' = copy
    /\ hand' = {}
    /\ UNCHANGED <<frozen, inventory, ledger, rows, faults, retries, caused>>

\* The rows or the research brief cannot be written: the copy, which is marked
\* complete by now, is saved.
PublicationFails == \E copy \in hand : Fail(copy)

DiesPublishing ==
    /\ hand # {}
    /\ hand' = {}
    /\ faults < MaxFaults /\ faults' = faults + 1
    /\ UNCHANGED <<analysis, frozen, inventory, ledger, rows, retries, caused>>

\* `Unknown processing stage.`
UnknownStage ==
    /\ InStage("complete")
    /\ analysis' = [analysis EXCEPT !.status = "failed"]
    /\ UNCHANGED <<frozen, inventory, ledger, hand, rows, faults, retries, caused>>

-----------------------------------------------------------------------------
(* The operator.                                                           *)

Requeue(copy) ==
    /\ analysis.status = "failed" /\ retries < MaxRetries
    /\ retries' = retries + 1
    /\ analysis' = [copy EXCEPT !.status = "queued"]
    /\ UNCHANGED <<frozen, inventory, ledger, hand, rows, faults, caused>>

RetryRun == Requeue(analysis)

\* continueAfterAuditFailure: another name for the critique of what is left.
RecoverAudit ==
    /\ analysis.stage = "critique" /\ analysis.tries < MaxTries
    /\ Requeue([analysis EXCEPT !.tries = @ + 1])

-----------------------------------------------------------------------------
ProviderAnswers ==
    \/ \E n \in Remaining : AnswerExtraction(n)
    \/ \E p \in 1..CritiqueParts : AnswerCritique(p)
    \/ \E w \in 1..Len(Windows) : AnswerRecall(w)

StepGoesOn ==
    \/ FetchMetadata \/ FindSource \/ TranscribeWindow \/ LastWindow \/ TranscribeAudio
    \/ NeedsReview
    \/ \E n \in Remaining : FreezeRequest(n)
    \/ TakeDraft \/ SplitChunk \/ SynthesisStuck \/ Translate
    \/ NothingToAudit \/ CritiqueEnds \/ FreezeInventory
    \/ TakeWindows \/ BeginPublication \/ WriteRows \/ FinishRun \/ UnknownStage

StepFails ==
    \/ SourceFails \/ SynthesisFails \/ TranslateFails \/ CritiqueFails \/ DiscoveryFails
    \/ DiesAfterCheckpoint \/ RecallFails \/ PublicationFails \/ DiesPublishing

AnalysisNext == ProviderAnswers \/ StepGoesOn \/ StepFails \/ RetryRun \/ RecoverAudit

AnalysisSpec == AnalysisInit /\ [][AnalysisNext]_analysisVars

(* Workers come back to a run that is queued, and provider calls are bounded *)
(* by timeouts, after which they have failed.                                *)
FairAnalysis == AnalysisSpec /\ WF_analysisVars(ProviderAnswers \/ StepGoesOn)

-----------------------------------------------------------------------------
(* Properties.                                                             *)

AnalysisTypeOK ==
    /\ analysis.stage \in Stage
    /\ analysis.status \in {"queued", "failed", "needs_review", "completed"}
    /\ analysis.item \in [Items -> ItemStatus]
    /\ analysis.next \in 1..(Len(analysis.plan) + 1)
    /\ analysis.recalled \in 0..Len(Windows)
    /\ rows \subseteq Items /\ Cardinality(hand) <= 1 /\ Cardinality(inventory) <= 1

\* No passage is bought twice: neither the extraction of a chunk, when a chunk
\* before it is split or its step is run again (`completed siblings must retain
\* their original stage key ... so replay never purchases them again`), nor the
\* recall of a window, when the critique it ran beside has failed half way.
PassageBoughtOnce ==
    /\ \A d, e \in drafts : d.chunk = e.chunk => d = e
    /\ \A f, g \in finds : f.window = g.window => f = g

\* Nothing that was paid for is lost: a completed analysis accounts for every
\* item of every answer it applied, and has read every segment of the source,
\* through splits, partial failures and retries.
NothingLost ==
    analysis.status = "completed" =>
      /\ \A s \in 1..FirstPlan[Len(FirstPlan)][2] :
           \E d \in drafts : d.kind = "complete" /\ s \in d.chunk[1]..d.chunk[2]
      /\ \A w \in 1..Len(Windows) : \E f \in finds : f.window = w
      /\ \A x \in drafts \cup finds : \A i \in x.found : analysis.item[i] # "absent"

\* Nothing is published unread: a completed analysis has a verdict, a flaw or a
\* reason for being withheld for each item, those of the recall included, and
\* its rows are the accepted ones.
PublishedIsAudited ==
    analysis.status = "completed" =>
      /\ Pending(analysis) = {}
      /\ rows = {i \in Items : analysis.item[i] = "accepted"}
      /\ \A i \in rows : \E v \in verdicts : i \in v.batch /\ v.of[i] = "accepted"

\* Whatever the providers answer, the analysis comes to an end: splits, repeated
\* questions and the second round after the recall do not go on for ever.
AnalysisEnded == analysis.status # "queued"

\* `A database that could not be reached is not the run's fault`: a run fails
\* for an error that was not temporary, or for one temporary error too many.
FailsForACause == analysis.status = "failed" => caused
=============================================================================
