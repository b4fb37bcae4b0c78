-------------------------- MODULE Analysis_proofs --------------------------
(***************************************************************************)
(* What holds of the stages of an analysis for any number of items, chunks *)
(* and windows, whatever the providers answer and wherever a step fails:   *)
(* no passage is bought twice, nothing that was paid for is lost, and      *)
(* nothing is published unread.                                            *)
(***************************************************************************)
EXTENDS AnalysisStages, SequenceTheorems, FiniteSetTheorems, TLAPS

-----------------------------------------------------------------------------
(* The invariant.                                                          *)

RunCopy == [overlapping : BOOLEAN, stage : Stage,
            status : {"queued", "failed", "needs_review", "completed"},
            heard : Int, plan : Seq(Nat \X Nat), next : Nat, repairs : Nat,
            item : [Items -> ItemStatus], english : SUBSET Items, tries : Nat,
            recalled : 0..Len(Windows), checked : BOOLEAN, blips : Nat]

\* The stages ahead of the extraction, and those after it.
Ahead == {"metadata", "source", "source-window", "asr-source"}

After == {"translate", "critique", "publish", "complete"}

\* The segments of the source.
Source == 1..FirstPlan[Len(FirstPlan)][2]

\* A request is frozen once, and the ledger has one answer to it at most.
Answers ==
    /\ \A f, g \in frozen : f.chunk = g.chunk => f = g
    /\ \A d \in drafts : /\ \E f \in frozen : f.chunk = d.chunk /\ f.key = d.key
                         /\ d.found \subseteq Items
                         /\ d.kind # "complete" => d.found = {}
    /\ \A d, e \in drafts : d.chunk = e.chunk => d = e
    /\ inventory = {} \/ \E known \in inventory : inventory = {known}
    /\ \A f \in finds : /\ f.window \in 1..Len(Windows)
                        /\ f.known \in inventory
                        /\ f.found \subseteq Items
    /\ \A f, g \in finds : f.window = g.window => f = g
    /\ \A v \in verdicts : v.of \in [v.batch -> {"accepted", "rejected", "missing"}]
    /\ \A v, w \in verdicts : v.batch = w.batch /\ v.tries = w.tries => v = w

\* How far the extraction is: each segment is in a chunk of the plan, the chunks
\* that were taken are answered, and no answered chunk was split.
Extracting(copy) ==
    /\ copy.next \in 1..Len(copy.plan) + 1 /\ Len(copy.plan) > 0
    /\ copy.stage \in Ahead => copy.next = 1
    /\ copy.stage = "synthesis" => copy.next <= Len(copy.plan)
    /\ copy.stage \in After => copy.next = Len(copy.plan) + 1
    /\ \A s \in Source : \E n \in 1..Len(copy.plan) : s \in copy.plan[n][1]..copy.plan[n][2]
    /\ \A n \in 1..copy.next - 1 :
         \E d \in drafts : d.chunk = copy.plan[n] /\ d.kind = "complete"
    /\ \A d \in drafts : d.kind = "complete" =>
         \E n \in 1..Len(copy.plan) : copy.plan[n] = d.chunk

\* What the copy has taken in of the answers is in it, and has its reason.
TakenIn(copy) ==
    /\ copy.stage \in After => \A d \in drafts : \A i \in d.found : copy.item[i] # "absent"
    /\ copy.checked => copy.recalled = Len(Windows)
    /\ \A w \in 1..copy.recalled : \E f \in finds : f.window = w
    /\ \A f \in finds : f.window <= copy.recalled =>
         \A i \in f.found : copy.item[i] # "absent"
    /\ \A i \in Items : copy.item[i] = "accepted" =>
         \E v \in verdicts : i \in v.batch /\ v.of[i] = "accepted"
    /\ copy.stage = "publish" /\ copy.checked => Pending(copy) = {}
    /\ copy.stage = "complete" => copy.checked /\ Pending(copy) = {}

Sound(copy) == copy \in RunCopy /\ Extracting(copy) /\ TakenIn(copy)

AcceptedOf(copy) == {i \in Items : copy.item[i] = "accepted"}

AnalysisInv ==
    /\ Answers
    /\ Sound(analysis)
    /\ \/ hand = {}
       \/ \E done : /\ hand = {done} /\ Sound(done)
                    /\ done.stage = "complete" /\ done.status = "completed"
                    /\ analysis.status = "queued" /\ analysis.stage = "publish"
    /\ rows \subseteq Items
    /\ analysis.status = "completed" =>
         hand = {} /\ analysis.stage = "complete" /\ rows = AcceptedOf(analysis)

-----------------------------------------------------------------------------
(* Copies of the run.                                                      *)

\* A sound copy stays sound whatever its status.
LEMMA StatusIsFree ==
  ASSUME NEW c, Sound(c), NEW s \in {"queued", "failed", "needs_review", "completed"}
  PROVE  Sound([c EXCEPT !.status = s])
<1> PICK d : d = [c EXCEPT !.status = s] OBVIOUS
<1>1. d \in RunCopy BY DEF Sound, RunCopy
<1>2. /\ d.stage = c.stage /\ d.plan = c.plan /\ d.next = c.next /\ d.item = c.item
      /\ d.checked = c.checked /\ d.recalled = c.recalled
  BY DEF Sound, RunCopy
<1>3. Extracting(d) BY <1>2 DEF Sound, Extracting
<1>4. TakenIn(d) BY <1>2 DEF Sound, TakenIn, Pending
<1> QED BY <1>1, <1>3, <1>4 DEF Sound

\* And however many temporary errors it has met.
LEMMA BlipsAreFree ==
  ASSUME NEW c, Sound(c), NEW n \in Nat
  PROVE  Sound([c EXCEPT !.blips = n])
<1> PICK d : d = [c EXCEPT !.blips = n] OBVIOUS
<1>1. d \in RunCopy BY DEF Sound, RunCopy
<1>2. /\ d.stage = c.stage /\ d.plan = c.plan /\ d.next = c.next /\ d.item = c.item
      /\ d.checked = c.checked /\ d.recalled = c.recalled
  BY DEF Sound, RunCopy
<1>3. Extracting(d) BY <1>2 DEF Sound, Extracting
<1>4. TakenIn(d) BY <1>2 DEF Sound, TakenIn, Pending
<1> QED BY <1>1, <1>3, <1>4 DEF Sound

\* A run that is saved from a sound copy, outside of a publication.
LEMMA SavedIsSound ==
  ASSUME AnalysisInv, NEW c, Sound(c), c.status # "completed",
         analysis' = c, hand' = {}, UNCHANGED <<frozen, inventory, ledger, rows>>
  PROVE  AnalysisInv'
<1>1. Answers' BY DEF AnalysisInv, Answers, ledger
<1>2. Sound(c)' BY DEF Sound, Extracting, TakenIn, Pending, ledger
<1> QED BY <1>1, <1>2 DEF AnalysisInv

\* What a step saves when it returns.
LEMMA SaveKeeps ==
  ASSUME AnalysisInv, hand = {}, NEW c, Sound(c), c.status # "completed", Save(c)
  PROVE  AnalysisInv'
BY SavedIsSound DEF Save

\* What the runner saves when a step throws.
LEMMA FailKeeps ==
  ASSUME AnalysisInv, NEW c, Sound(c), Fail(c)
  PROVE  AnalysisInv'
<1>1. c \in RunCopy BY DEF Sound
<1>2. ASSUME analysis' = [c EXCEPT !.blips = @ + 1, !.status = "queued"]
      PROVE  AnalysisInv'
  <2> PICK b : b = [c EXCEPT !.blips = c.blips + 1] OBVIOUS
  <2> PICK d : d = [b EXCEPT !.status = "queued"] OBVIOUS
  <2>1. c.blips + 1 \in Nat BY <1>1 DEF RunCopy
  <2>2. Sound(b) BY <2>1, BlipsAreFree
  <2>3. Sound(d) BY <2>2, StatusIsFree
  <2>4. b \in RunCopy BY <2>2 DEF Sound
  <2>5. d.status = "queued" BY <2>4 DEF RunCopy
  <2>6. analysis' = d BY <1>1, <1>2 DEF RunCopy
  <2> QED BY <2>3, <2>5, <2>6, SavedIsSound DEF Fail
<1>3. ASSUME analysis' = [c EXCEPT !.status = "failed"]
      PROVE  AnalysisInv'
  <2> PICK d : d = [c EXCEPT !.status = "failed"] OBVIOUS
  <2>1. Sound(d) BY StatusIsFree
  <2>2. d.status = "failed" BY <1>1 DEF RunCopy
  <2> QED BY <1>3, <2>1, <2>2, SavedIsSound DEF Fail
<1> QED BY <1>2, <1>3 DEF Fail

\* An operator's retry, too.
LEMMA RequeueKeeps ==
  ASSUME AnalysisInv, NEW c, Sound(c), Requeue(c)
  PROVE  AnalysisInv'
<1> PICK d : d = [c EXCEPT !.status = "queued"] OBVIOUS
<1>1. Sound(d) BY StatusIsFree
<1>2. d.status = "queued" BY DEF Sound, RunCopy
<1>3. hand = {} BY DEF AnalysisInv, Requeue
<1> QED BY <1>1, <1>2, <1>3, SavedIsSound DEF Requeue

\* A step is at a stage only while the run is queued and not being published.
LEMMA AtStage ==
  ASSUME AnalysisInv, NEW s, InStage(s)
  PROVE  /\ hand = {} /\ Sound(analysis) /\ analysis \in RunCopy
         /\ analysis.stage = s /\ analysis.status = "queued"
BY DEF AnalysisInv, InStage, Sound

-----------------------------------------------------------------------------
(* The source, and what changes nothing but the stage.                     *)

\* Until the extraction begins, a step may go anywhere up to it.
LEMMA AheadStep ==
  ASSUME AnalysisInv, NEW s \in Ahead, InStage(s), NEW n \in Int,
         NEW t \in Ahead \cup {"synthesis"},
         NEW c, c = [analysis EXCEPT !.heard = n, !.stage = t]
  PROVE  Sound(c) /\ c.status = "queued"
<1>1. analysis \in RunCopy /\ Sound(analysis) /\ analysis.stage = s
      /\ analysis.status = "queued"
  BY AtStage
<1>2. t \in Stage BY DEF Ahead, Stage
<1>3. c \in RunCopy
  <2> PICK b : b = [analysis EXCEPT !.heard = n] OBVIOUS
  <2>1. b \in RunCopy BY <1>1 DEF RunCopy
  <2>2. c = [b EXCEPT !.stage = t] BY <1>1 DEF RunCopy
  <2> QED BY <1>2, <2>1, <2>2 DEF RunCopy
<1>4. /\ c.stage = t /\ c.plan = analysis.plan /\ c.next = analysis.next
      /\ c.item = analysis.item /\ c.checked = analysis.checked
      /\ c.recalled = analysis.recalled /\ c.status = "queued"
  BY <1>1 DEF RunCopy
<1>5. Extracting(c) BY <1>1, <1>4 DEF Sound, Extracting, Ahead, After
<1>6. TakenIn(c) BY <1>1, <1>4 DEF Sound, TakenIn, Pending, Ahead, After
<1> QED BY <1>3, <1>4, <1>5, <1>6 DEF Sound

\* The steps that look for a source and transcribe it.
LEMMA SourceSteps ==
  ASSUME AnalysisInv,
         \/ FetchMetadata \/ FindSource \/ TranscribeWindow \/ LastWindow
         \/ TranscribeAudio
  PROVE  AnalysisInv'
<1>1. ASSUME NEW s \in Ahead, InStage(s), NEW n \in Int, NEW t \in Ahead \cup {"synthesis"},
             Save([analysis EXCEPT !.heard = n, !.stage = t])
      PROVE  AnalysisInv'
  <2> PICK c : c = [analysis EXCEPT !.heard = n, !.stage = t] OBVIOUS
  <2>1. Sound(c) /\ c.status = "queued" BY <1>1, AheadStep
  <2>2. hand = {} BY <1>1, AtStage
  <2> QED BY <1>1, <2>1, <2>2, SaveKeeps
<1>2. ASSUME NEW s \in Ahead, InStage(s), NEW t \in Ahead \cup {"synthesis"}, GoTo(t)
      PROVE  AnalysisInv'
  <2>1. analysis \in RunCopy BY <1>2, AtStage
  <2>2. [analysis EXCEPT !.stage = t] = [analysis EXCEPT !.heard = analysis.heard, !.stage = t]
    BY <2>1 DEF RunCopy
  <2>3. analysis.heard \in Int BY <2>1 DEF RunCopy
  <2> QED BY <1>1, <1>2, <2>2, <2>3 DEF GoTo
<1>3. CASE FetchMetadata BY <1>2, <1>3 DEF FetchMetadata, Ahead
<1>4. CASE FindSource BY <1>2, <1>4 DEF FindSource, Ahead
<1>5. CASE TranscribeAudio BY <1>2, <1>5 DEF TranscribeAudio, Ahead
<1>6. CASE TranscribeWindow
  <2>1. analysis \in RunCopy /\ InStage("source-window")
        /\ analysis.stage = "source-window" /\ Save([analysis EXCEPT !.heard = @ + 1])
    BY <1>6, AtStage DEF TranscribeWindow
  <2> PICK n : n = analysis.heard + 1 OBVIOUS
  <2>2. n \in Int BY <2>1 DEF RunCopy
  <2>3. [analysis EXCEPT !.heard = @ + 1]
          = [analysis EXCEPT !.heard = n, !.stage = "source-window"]
    BY <2>1 DEF RunCopy
  <2>4. Save([analysis EXCEPT !.heard = n, !.stage = "source-window"]) BY <2>1, <2>3
  <2>5. "source-window" \in Ahead BY DEF Ahead
  <2> QED BY <1>1, <2>1, <2>2, <2>4, <2>5
<1>7. CASE LastWindow
  <2>1. /\ InStage("source-window")
        /\ Save([analysis EXCEPT !.heard = 0, !.stage = "synthesis"])
    BY <1>7 DEF LastWindow
  <2> PICK n : n = 0 OBVIOUS
  <2>2. Save([analysis EXCEPT !.heard = n, !.stage = "synthesis"]) BY <2>1
  <2>3. n \in Int OBVIOUS
  <2>4. "source-window" \in Ahead BY DEF Ahead
  <2> QED BY <1>1, <2>1, <2>2, <2>3, <2>4
<1> QED BY <1>3, <1>4, <1>5, <1>6, <1>7

\* A person is asked for a transcript.
LEMMA ReviewStep == AnalysisInv /\ NeedsReview => AnalysisInv'
<1> SUFFICES ASSUME AnalysisInv, NeedsReview PROVE AnalysisInv' OBVIOUS
<1> PICK c : c = [analysis EXCEPT !.status = "needs_review"] OBVIOUS
<1>1. hand = {} /\ Sound(analysis) /\ analysis \in RunCopy
  BY AtStage DEF NeedsReview
<1>2. Sound(c) BY <1>1, StatusIsFree
<1>3. c.status = "needs_review" BY <1>1 DEF RunCopy
<1> QED BY <1>1, <1>2, <1>3, SaveKeeps DEF NeedsReview

\* The steps that fail and have changed nothing.
LEMMA PlainFailures ==
  ASSUME AnalysisInv, SourceFails \/ SynthesisFails \/ TranslateFails
  PROVE  AnalysisInv'
<1> PICK c : c = analysis OBVIOUS
<1>1. Sound(c) BY DEF AnalysisInv
<1> QED BY <1>1, FailKeeps DEF SourceFails, SynthesisFails, TranslateFails

\* The steps that fail whenever they are run.
LEMMA LastingFailures ==
  ASSUME AnalysisInv, SynthesisStuck \/ UnknownStage
  PROVE  AnalysisInv'
<1> PICK c : c = [analysis EXCEPT !.status = "failed"] OBVIOUS
<1>1. Sound(analysis) /\ hand = {} /\ analysis \in RunCopy
  BY AtStage DEF SynthesisStuck, UnknownStage
<1>2. Sound(c) BY <1>1, StatusIsFree
<1>3. c.status = "failed" BY <1>1 DEF RunCopy
<1> QED BY <1>1, <1>2, <1>3, SavedIsSound DEF SynthesisStuck, UnknownStage, Throw

\* The operator's two ways to run it again.
LEMMA OperatorSteps == AnalysisInv /\ (RetryRun \/ RecoverAudit) => AnalysisInv'
<1> SUFFICES ASSUME AnalysisInv, RetryRun \/ RecoverAudit PROVE AnalysisInv' OBVIOUS
<1>1. Sound(analysis) /\ analysis \in RunCopy BY DEF AnalysisInv, Sound
<1>2. CASE RetryRun
  <2> PICK c : c = analysis OBVIOUS
  <2> QED BY <1>1, <1>2, RequeueKeeps DEF RetryRun
<1>3. CASE RecoverAudit
  <2> PICK c : c = [analysis EXCEPT !.tries = analysis.tries + 1] OBVIOUS
  <2>1. c \in RunCopy
    <3>1. analysis.tries + 1 \in Nat BY <1>1 DEF RunCopy
    <3> QED BY <1>1, <3>1 DEF RunCopy
  <2>2. /\ c.stage = analysis.stage /\ c.plan = analysis.plan /\ c.next = analysis.next
        /\ c.item = analysis.item /\ c.checked = analysis.checked
        /\ c.recalled = analysis.recalled
    BY <1>1 DEF RunCopy
  <2>3. Extracting(c) BY <1>1, <2>2 DEF Sound, Extracting
  <2>4. TakenIn(c) BY <1>1, <2>2 DEF Sound, TakenIn, Pending
  <2>5. Sound(c) BY <2>1, <2>3, <2>4 DEF Sound
  <2> QED BY <1>3, <2>5, RequeueKeeps DEF RecoverAudit
<1> QED BY <1>2, <1>3

-----------------------------------------------------------------------------
(* The extraction.                                                         *)

\* The drafts of a chunk are the ledger's answers for it: an answer was asked
\* for under the frozen key.
LEMMA DraftsOfChunk ==
  ASSUME Answers, NEW n
  PROVE  DraftOf(n) = {d \in drafts : d.chunk = analysis.plan[n]}
BY DEF Answers, DraftOf, RequestKeys

\* A request is frozen before it is sent.
LEMMA FreezeRequestStep ==
  ASSUME AnalysisInv, NEW n \in Remaining, FreezeRequest(n)
  PROVE  AnalysisInv'
<1> PICK f : f = [chunk |-> analysis.plan[n], key |-> CurrentKey(n)] OBVIOUS
<1>1. f.chunk = analysis.plan[n] OBVIOUS
<1>2. frozen' = frozen \cup {f} /\ \A g \in frozen : g.chunk # f.chunk
  BY <1>1 DEF FreezeRequest
<1>3. /\ UNCHANGED <<analysis, inventory, drafts, finds, verdicts, hand, rows>>
  BY DEF FreezeRequest, ledger
<1>4. Answers' BY <1>2, <1>3 DEF AnalysisInv, Answers
<1>5. \A c : Sound(c) => Sound(c)' BY <1>3 DEF Sound, Extracting, TakenIn, Pending
<1>6. Sound(analysis)' BY <1>3, <1>5 DEF AnalysisInv
<1> QED BY <1>3, <1>4, <1>5, <1>6 DEF AnalysisInv

\* An answer to a request that has none.
LEMMA AnswerExtractionStep ==
  ASSUME AnalysisInv, NEW n \in Remaining, AnswerExtraction(n)
  PROVE  AnalysisInv'
<1> USE DEF AnalysisInv
<1>1. /\ hand = {} /\ Sound(analysis) /\ analysis \in RunCopy
      /\ analysis.stage = "synthesis" /\ analysis.status = "queued"
  BY AtStage DEF AnswerExtraction
<1>2. UNCHANGED <<analysis, frozen, inventory, finds, verdicts, hand, rows>>
  BY DEF AnswerExtraction
<1>3. PICK d : /\ drafts' = drafts \cup {d} /\ d.chunk = analysis.plan[n]
               /\ d.key \in RequestKeys(n) /\ d.found \subseteq Items
               /\ d.kind # "complete" => d.found = {}
  <2>1. PICK key \in RequestKeys(n), kind \in Answer, found \in SUBSET InChunk(analysis.plan[n]) :
          /\ kind # "complete" => found = {}
          /\ drafts' = drafts \cup {[chunk |-> analysis.plan[n], key |-> key,
                                     kind |-> kind, found |-> found]}
    BY DEF AnswerExtraction
  <2>2. found \subseteq Items BY <2>1 DEF InChunk
  <2> PICK d : d = [chunk |-> analysis.plan[n], key |-> key, kind |-> kind, found |-> found]
    OBVIOUS
  <2>3. d.chunk = analysis.plan[n] /\ d.key = key /\ d.kind = kind /\ d.found = found
    OBVIOUS
  <2> QED BY <2>1, <2>2, <2>3
<1>4. \A e \in drafts : e.chunk # d.chunk
  BY <1>3, DraftsOfChunk DEF AnswerExtraction
<1>5. \E f \in frozen : f.chunk = d.chunk /\ f.key = d.key
  BY <1>3 DEF RequestKeys
<1>6. Answers'
  <2>1. \A e, f \in drafts' : e.chunk = f.chunk => e = f
    BY <1>3, <1>4 DEF Answers
  <2>2. \A e \in drafts' : /\ \E f \in frozen : f.chunk = e.chunk /\ f.key = e.key
                           /\ e.found \subseteq Items
                           /\ e.kind # "complete" => e.found = {}
    BY <1>3, <1>5 DEF Answers
  <2> QED BY <1>2, <2>1, <2>2 DEF Answers
<1>7. n \in 1..Len(analysis.plan)
  BY <1>1 DEF Remaining, Sound, Extracting, RunCopy
<1>8. Extracting(analysis)'
  BY <1>1, <1>2, <1>3, <1>7 DEF Sound, Extracting
<1>9. TakenIn(analysis)'
  BY <1>1, <1>2, <1>3 DEF Sound, TakenIn, Pending, After
<1>10. Sound(analysis)' BY <1>1, <1>2, <1>8, <1>9 DEF Sound
<1> QED BY <1>1, <1>2, <1>6, <1>10

\* A draft that is complete is taken in; with the last one come all items.
LEMMA TakeDraftStep == AnalysisInv /\ TakeDraft => AnalysisInv'
<1> SUFFICES ASSUME AnalysisInv, TakeDraft PROVE AnalysisInv' OBVIOUS
<1>1. /\ hand = {} /\ Sound(analysis) /\ analysis \in RunCopy
      /\ analysis.stage = "synthesis" /\ analysis.status = "queued" /\ Answers
  BY AtStage DEF TakeDraft, AnalysisInv
<1>2. \E d \in drafts : d.chunk = analysis.plan[analysis.next] /\ d.kind = "complete"
  BY DEF TakeDraft, Said, DraftOf
<1> PICK n : n = analysis.next OBVIOUS
<1> PICK t : t = [analysis EXCEPT !.next = n + 1] OBVIOUS
<1>3. n \in 1..Len(analysis.plan) BY <1>1 DEF Sound, Extracting, RunCopy
<1>4. n + 1 \in Nat BY <1>3
<1>5. t \in RunCopy /\ t.next = n + 1 BY <1>1, <1>4 DEF RunCopy
<1>6. /\ t.stage = "synthesis" /\ t.plan = analysis.plan /\ t.status = "queued"
      /\ t.item = analysis.item /\ t.checked = analysis.checked
      /\ t.recalled = analysis.recalled /\ t.english = analysis.english
  BY <1>1 DEF RunCopy
<1>7. Len(analysis.plan) \in Nat BY <1>1 DEF RunCopy
<1>8. \A m \in 1..n : \E d \in drafts : d.chunk = analysis.plan[m] /\ d.kind = "complete"
  BY <1>1, <1>2, <1>3, <1>7 DEF Sound, Extracting
<1>9. CASE n < Len(analysis.plan)
  <2>1. Save(t) BY <1>9 DEF TakeDraft
  <2>2. Extracting(t)
    BY <1>1, <1>3, <1>5, <1>6, <1>7, <1>8, <1>9 DEF Sound, Extracting, Ahead, After
  <2>3. TakenIn(t) BY <1>1, <1>6 DEF Sound, TakenIn, Pending, After
  <2> QED BY <1>1, <1>5, <1>6, <2>1, <2>2, <2>3, SaveKeeps DEF Sound
<1>10. CASE ~(n < Len(analysis.plan))
  <2>1. n = Len(analysis.plan) BY <1>3, <1>7, <1>10
  <2> PICK w : w = WithItems(t, Extracted) OBVIOUS
  <2> PICK c : c = ToCritique(w) OBVIOUS
  <2>2. Save(c) BY <1>10 DEF TakeDraft
  <2>3. /\ w \in RunCopy /\ w.plan = t.plan /\ w.next = t.next /\ w.status = t.status
        /\ w.checked = t.checked /\ w.recalled = t.recalled
        /\ w.item = [i \in Items |-> IF i \in Extracted /\ t.item[i] = "absent"
                                       THEN NewItem(i) ELSE t.item[i]]
    <3>1. [i \in Items |-> IF i \in Extracted /\ t.item[i] = "absent"
                             THEN NewItem(i) ELSE t.item[i]] \in [Items -> ItemStatus]
      BY <1>5 DEF RunCopy, NewItem, ItemStatus
    <3> QED BY <1>5, <3>1 DEF WithItems, RunCopy
  <2>4. /\ c \in RunCopy /\ c.stage \in {"translate", "critique"}
        /\ c.plan = w.plan /\ c.next = w.next /\ c.status = w.status
        /\ c.checked = w.checked /\ c.recalled = w.recalled /\ c.item = w.item
    <3>1. PICK s \in {"translate", "critique"} : c = [w EXCEPT !.stage = s] BY DEF ToCritique
    <3>2. s \in Stage BY <3>1 DEF Stage
    <3> QED BY <2>3, <3>1, <3>2 DEF RunCopy
  <2>5. \A d \in drafts : \A i \in d.found : i \in Items /\ c.item[i] # "absent"
    <3> SUFFICES ASSUME NEW d \in drafts, NEW i \in d.found
                 PROVE  i \in Items /\ c.item[i] # "absent"
      OBVIOUS
    <3>1. i \in Items /\ d.kind = "complete" BY <1>1 DEF Answers
    <3>2. PICK m \in 1..Len(analysis.plan) : analysis.plan[m] = d.chunk
      BY <1>1, <3>1 DEF Sound, Extracting
    <3>3. d \in DraftOf(m) BY <1>1, <3>2, DraftsOfChunk
    <3>4. i \in Extracted BY <3>2, <3>3 DEF Extracted
    <3> QED BY <2>3, <2>4, <3>1, <3>4 DEF NewItem
  <2>6. \A i \in Items : /\ t.item[i] # "absent" => c.item[i] = t.item[i]
                         /\ c.item[i] = "accepted" => t.item[i] = "accepted"
    BY <2>3, <2>4 DEF NewItem
  <2>7. Extracting(c)
    <3>1. c.plan = analysis.plan /\ c.next = n + 1 /\ n + 1 = Len(c.plan) + 1
      BY <1>5, <1>6, <2>1, <2>3, <2>4
    <3>2. c.next - 1 = n /\ c.next \in 1..Len(c.plan) + 1 /\ Len(c.plan) > 0
      BY <1>3, <1>7, <2>1, <3>1
    <3>3. /\ c.stage \in Ahead => c.next = 1
          /\ c.stage = "synthesis" => c.next <= Len(c.plan)
      BY <2>4 DEF Ahead
    <3>4. \A m \in 1..c.next - 1 :
             \E d \in drafts : d.chunk = c.plan[m] /\ d.kind = "complete"
      BY <1>8, <3>1, <3>2
    <3>5. /\ \A s \in Source : \E m \in 1..Len(c.plan) : s \in c.plan[m][1]..c.plan[m][2]
          /\ \A d \in drafts : d.kind = "complete" =>
               \E m \in 1..Len(c.plan) : c.plan[m] = d.chunk
      BY <1>1, <3>1 DEF Sound, Extracting
    <3>6. c.next = Len(c.plan) + 1 BY <3>1
    <3> QED BY <3>2, <3>3, <3>4, <3>5, <3>6 DEF Extracting
  <2>8. TakenIn(c)
    <3>1. \A f \in finds : f.window <= c.recalled => \A i \in f.found : c.item[i] # "absent"
      BY <1>1, <1>6, <2>3, <2>4, <2>6 DEF Sound, TakenIn, Answers
    <3>2. \A i \in Items : c.item[i] = "accepted" =>
             \E v \in verdicts : i \in v.batch /\ v.of[i] = "accepted"
      BY <1>1, <1>6, <2>6 DEF Sound, TakenIn
    <3> QED BY <1>1, <1>6, <2>3, <2>4, <2>5, <3>1, <3>2 DEF Sound, TakenIn
  <2> QED BY <1>1, <1>6, <2>2, <2>3, <2>4, <2>7, <2>8, SaveKeeps DEF Sound
<1> QED BY <1>9, <1>10

\* A plan with the chunk n replaced by others.
Spliced(p, n, h) == SubSeq(p, 1, n - 1) \o h \o SubSeq(p, n + 1, Len(p))

\* Where the chunks of a plan are, once one of them was replaced by two.
LEMMA Replaced ==
  ASSUME NEW S, NEW p \in Seq(S), NEW n \in 1..Len(p), NEW h \in Seq(S), Len(h) = 2,
         NEW q, q = Spliced(p, n, h)
  PROVE  /\ q \in Seq(S) /\ Len(q) = Len(p) + 1
         /\ \A m \in 1..n - 1 : q[m] = p[m]
         /\ q[n] = h[1] /\ q[n + 1] = h[2]
         /\ \A m \in n + 1..Len(p) : q[m + 1] = p[m]
<1>a. PICK a : a = SubSeq(p, 1, n - 1) OBVIOUS
<1>b. PICK b : b = SubSeq(p, n + 1, Len(p)) OBVIOUS
<1>c. PICK ah : ah = a \o h OBVIOUS
<1>d. q = ah \o b BY <1>a, <1>b, <1>c DEF Spliced
<1> PICK l : l = Len(p) OBVIOUS
<1>1. n \in Int /\ l \in Nat /\ n >= 1 /\ n <= l OBVIOUS
<1>2. /\ a \in Seq(S) /\ Len(a) = n - 1 /\ \A m \in 1..n - 1 : a[m] = p[m]
  <2>1. \A m \in 1..n - 1 : p[m] \in S BY <1>1
  <2>2. /\ a \in Seq(S) /\ Len(a) = (IF 1 <= n - 1 THEN n - 1 - 1 + 1 ELSE 0)
        /\ \A m \in 1..(n - 1) - 1 + 1 : a[m] = p[1 + m - 1]
    BY <1>1, <1>a, <2>1, SubSeqProperties
  <2> QED BY <1>1, <2>2
<1>3. /\ b \in Seq(S) /\ Len(b) = l - n /\ \A m \in 1..l - n : b[m] = p[n + m]
  <2>1. \A m \in n + 1..l : p[m] \in S BY <1>1
  <2>2. /\ b \in Seq(S) /\ Len(b) = (IF n + 1 <= l THEN l - (n + 1) + 1 ELSE 0)
        /\ \A m \in 1..l - (n + 1) + 1 : b[m] = p[(n + 1) + m - 1]
    BY <1>1, <1>b, <2>1, SubSeqProperties
  <2> QED BY <1>1, <2>2
<1>4. /\ ah \in Seq(S) /\ Len(ah) = n + 1
      /\ \A m \in 1..n + 1 : ah[m] = IF m <= n - 1 THEN a[m] ELSE h[m - (n - 1)]
  <2>1. /\ ah \in Seq(S) /\ Len(ah) = Len(a) + Len(h)
        /\ \A m \in 1..Len(a) + Len(h) :
             ah[m] = IF m <= Len(a) THEN a[m] ELSE h[m - Len(a)]
    BY <1>2, <1>c, ConcatProperties
  <2>2. Len(a) + Len(h) = n + 1 BY <1>1, <1>2
  <2> QED BY <1>2, <2>1, <2>2
<1>5. /\ q \in Seq(S) /\ Len(q) = l + 1
      /\ \A m \in 1..l + 1 : q[m] = IF m <= n + 1 THEN ah[m] ELSE b[m - (n + 1)]
  <2>1. /\ q \in Seq(S) /\ Len(q) = Len(ah) + Len(b)
        /\ \A m \in 1..Len(ah) + Len(b) :
             q[m] = IF m <= Len(ah) THEN ah[m] ELSE b[m - Len(ah)]
    <3>1. ah \in Seq(S) /\ b \in Seq(S) BY <1>3, <1>4
    <3> QED BY <1>d, <3>1, ConcatProperties
  <2>2. Len(ah) + Len(b) = l + 1 BY <1>1, <1>3, <1>4
  <2> QED BY <1>4, <2>1, <2>2
<1>6. \A m \in 1..n - 1 : q[m] = p[m] BY <1>1, <1>2, <1>4, <1>5
<1>7. q[n] = h[1] /\ q[n + 1] = h[2]
  <2>1. n \in 1..n + 1 /\ n + 1 \in 1..n + 1 /\ ~(n <= n - 1) /\ ~(n + 1 <= n - 1)
        /\ n - (n - 1) = 1 /\ n + 1 - (n - 1) = 2
    BY <1>1
  <2>2. ah[n] = h[1] /\ ah[n + 1] = h[2] BY <1>4, <2>1
  <2> QED BY <1>1, <1>5, <2>2
<1>8. ASSUME NEW m \in n + 1..l PROVE q[m + 1] = p[m]
  <2>1. m + 1 \in 1..l + 1 /\ ~(m + 1 <= n + 1) /\ (m + 1) - (n + 1) = m - n
        /\ m - n \in 1..l - n /\ n + (m - n) = m
    BY <1>1
  <2>2. q[m + 1] = b[m - n] BY <1>5, <2>1
  <2> QED BY <1>3, <2>1, <2>2
<1> QED BY <1>5, <1>6, <1>7, <1>8

\* Every segment of a chunk is in one of its halves.
LEMMA HalvesCover ==
  ASSUME NEW c \in Nat \X Nat, Length(c) > 1
  PROVE  /\ Halves(c) \in Seq(Nat \X Nat) /\ Len(Halves(c)) = 2
         /\ \A s \in c[1]..c[2] : \/ s \in Halves(c)[1][1]..Halves(c)[1][2]
                                  \/ s \in Halves(c)[2][1]..Halves(c)[2][2]
<1> PICK k : k = c[1] + (Length(c) + 1) \div 2 - 1 OBVIOUS
<1>1. c[1] \in Nat /\ c[2] \in Nat OBVIOUS
<1>2. k \in Nat
  <2>1. Length(c) + 1 \in Nat /\ Length(c) + 1 > 2 BY <1>1 DEF Length
  <2>2. (Length(c) + 1) \div 2 \in Nat /\ (Length(c) + 1) \div 2 >= 1 BY <2>1
  <2> QED BY <1>1, <2>2
<1>3. Halves(c) = <<<<c[1], k>>, <<k + 1, c[2]>>>> BY DEF Halves
<1> QED BY <1>1, <1>2, <1>3

\* A chunk that was too long is replaced by its halves; the answers of the
\* others stay theirs.
LEMMA SplitChunkStep == AnalysisInv /\ SplitChunk => AnalysisInv'
<1> SUFFICES ASSUME AnalysisInv, SplitChunk PROVE AnalysisInv' OBVIOUS
<1>1. /\ hand = {} /\ Sound(analysis) /\ analysis \in RunCopy
      /\ analysis.stage = "synthesis" /\ analysis.status = "queued" /\ Answers
  BY AtStage DEF SplitChunk, AnalysisInv
<1> PICK n : n = analysis.next OBVIOUS
<1> PICK p : p = analysis.plan OBVIOUS
<1>q. PICK q : q = Spliced(p, n, Halves(p[n])) OBVIOUS
<1>c. PICK c : c = [analysis EXCEPT !.plan = q, !.repairs = analysis.repairs + 1] OBVIOUS
<1>2. n \in 1..Len(p) /\ p \in Seq(Nat \X Nat) /\ Len(p) \in Nat
  BY <1>1 DEF Sound, Extracting, RunCopy
<1>3. p[n] \in Nat \X Nat /\ Length(p[n]) > 1
  <2>1. p[n] \in Nat \X Nat BY <1>2
  <2>2. Length(p[n]) > SplitAbove BY DEF SplitChunk, Splits
  <2>3. Length(p[n]) \in Int BY <2>1 DEF Length
  <2> QED BY <2>1, <2>2, <2>3, AnalysisAssumption
<1> PICK h : h = Halves(p[n]) OBVIOUS
<1>4. /\ h \in Seq(Nat \X Nat) /\ Len(h) = 2
      /\ \A s \in p[n][1]..p[n][2] : \/ s \in h[1][1]..h[1][2]
                                     \/ s \in h[2][1]..h[2][2]
  BY <1>3, HalvesCover
<1>5. /\ q \in Seq(Nat \X Nat) /\ Len(q) = Len(p) + 1
      /\ \A m \in 1..n - 1 : q[m] = p[m]
      /\ q[n] = h[1] /\ q[n + 1] = h[2]
      /\ \A m \in n + 1..Len(p) : q[m + 1] = p[m]
  <2>1. q = Spliced(p, n, h) BY <1>q
  <2>2. PICK S : S = Nat \X Nat OBVIOUS
  <2>3. h \in Seq(S) /\ Len(h) = 2 /\ p \in Seq(S) /\ n \in 1..Len(p)
    BY <1>2, <1>4, <2>2
  <2>4. q \in Seq(S) /\ Len(q) = Len(p) + 1 BY <2>1, <2>3, Replaced
  <2>5. \A m \in 1..n - 1 : q[m] = p[m] BY <2>1, <2>3, Replaced
  <2>6. q[n] = h[1] /\ q[n + 1] = h[2] BY <2>1, <2>3, Replaced
  <2>7. \A m \in n + 1..Len(p) : q[m + 1] = p[m] BY <2>1, <2>3, Replaced
  <2> QED BY <2>2, <2>4, <2>5, <2>6, <2>7
<1> PICK l : l = Len(p) OBVIOUS
<1>l. n \in Int /\ l \in Nat /\ n >= 1 /\ n <= l /\ Len(q) = l + 1
  <2>1. Len(q) = Len(p) + 1 BY <1>5
  <2> QED BY <1>2, <2>1
<1>6. /\ c \in RunCopy /\ c.plan = q /\ c.next = n /\ c.status = "queued"
      /\ c.stage = "synthesis" /\ c.checked = analysis.checked
      /\ c.recalled = analysis.recalled /\ c.item = analysis.item
  <2>1. analysis.repairs + 1 \in Nat BY <1>1 DEF RunCopy
  <2>2. q \in Seq(Nat \X Nat) BY <1>5
  <2> PICK r \in Nat : r = analysis.repairs + 1 BY <2>1
  <2>3. c = [analysis EXCEPT !.plan = q, !.repairs = r] BY <1>c
  <2> QED BY <1>1, <2>2, <2>3 DEF RunCopy
<1>7. Save(c) BY <1>q, <1>c DEF SplitChunk, Spliced
<1>8. \A m \in 1..Len(p) : m # n => \E k \in 1..Len(q) : q[k] = p[m]
  <2> SUFFICES ASSUME NEW m \in 1..Len(p), m # n
               PROVE  \E k \in 1..Len(q) : q[k] = p[m]
    OBVIOUS
  <2>1. CASE m < n
    <3>1. m \in 1..n - 1 /\ m \in 1..Len(q) BY <1>l, <2>1
    <3> QED BY <1>5, <3>1
  <2>2. CASE m > n
    <3>1. m + 1 \in 1..Len(q) /\ m \in n + 1..Len(p) BY <1>l, <2>2
    <3> QED BY <1>5, <3>1
  <2> QED BY <1>l, <2>1, <2>2
<1>9. \A s \in Source : \E k \in 1..Len(q) : s \in q[k][1]..q[k][2]
  <2> SUFFICES ASSUME NEW s \in Source
               PROVE  \E k \in 1..Len(q) : s \in q[k][1]..q[k][2]
    OBVIOUS
  <2>1. PICK m \in 1..Len(p) : s \in p[m][1]..p[m][2]
    BY <1>1 DEF Sound, Extracting
  <2>2. CASE m # n BY <1>8, <2>1, <2>2
  <2>3. CASE m = n
    <3>1. n \in 1..Len(q) /\ n + 1 \in 1..Len(q) BY <1>l
    <3>2. s \in q[n][1]..q[n][2] \/ s \in q[n + 1][1]..q[n + 1][2]
      BY <1>4, <1>5, <2>1, <2>3
    <3> QED BY <3>1, <3>2
  <2> QED BY <2>2, <2>3
<1>10. \A d \in drafts : d.kind = "complete" => \E k \in 1..Len(q) : q[k] = d.chunk
  <2> SUFFICES ASSUME NEW d \in drafts, d.kind = "complete"
               PROVE  \E k \in 1..Len(q) : q[k] = d.chunk
    OBVIOUS
  <2>1. PICK m \in 1..Len(p) : p[m] = d.chunk BY <1>1 DEF Sound, Extracting
  <2>2. PICK e \in drafts : e.chunk = p[n] /\ e.kind = "truncated"
    BY DEF SplitChunk, Splits, Said, DraftOf
  <2>3. m # n BY <1>1, <2>1, <2>2 DEF Answers
  <2> QED BY <1>8, <2>1, <2>3
<1>11. \A m \in 1..n - 1 : \E d \in drafts : d.chunk = q[m] /\ d.kind = "complete"
  BY <1>1, <1>5 DEF Sound, Extracting
<1>12. Extracting(c)
  <2>1. c.next \in 1..Len(c.plan) + 1 /\ Len(c.plan) > 0 /\ c.next <= Len(c.plan)
    <3>1. c.next = n /\ Len(c.plan) = l + 1 BY <1>6, <1>l
    <3> QED BY <1>l, <3>1
  <2>2. ~(c.stage \in Ahead) /\ ~(c.stage \in After) BY <1>6 DEF Ahead, After
  <2> QED BY <1>6, <1>9, <1>10, <1>11, <2>1, <2>2 DEF Extracting
<1>13. TakenIn(c) BY <1>1, <1>6 DEF Sound, TakenIn, Pending, After
<1> QED BY <1>1, <1>6, <1>7, <1>12, <1>13, SaveKeeps DEF Sound

\* Items in another language get their English text.
LEMMA TranslateStep == AnalysisInv /\ Translate => AnalysisInv'
<1> SUFFICES ASSUME AnalysisInv, Translate PROVE AnalysisInv' OBVIOUS
<1>1. /\ hand = {} /\ Sound(analysis) /\ analysis \in RunCopy
      /\ analysis.stage = "translate" /\ analysis.status = "queued"
  BY AtStage DEF Translate
<1> PICK e : e = analysis.english \cup Untranslated(analysis) OBVIOUS
<1> PICK c : c = [analysis EXCEPT !.stage = "critique", !.english = e] OBVIOUS
<1>2. e \in SUBSET Items
  BY <1>1, AnalysisAssumption DEF RunCopy, Untranslated
<1>3. /\ c \in RunCopy /\ c.plan = analysis.plan /\ c.next = analysis.next
      /\ c.status = "queued" /\ c.stage = "critique" /\ c.checked = analysis.checked
      /\ c.recalled = analysis.recalled /\ c.item = analysis.item
  BY <1>1, <1>2 DEF RunCopy, Stage
<1>4. Save(c) BY DEF Translate
<1>5. Extracting(c) BY <1>1, <1>3 DEF Sound, Extracting, Ahead, After
<1>6. TakenIn(c) BY <1>1, <1>3 DEF Sound, TakenIn, Pending, After
<1> QED BY <1>1, <1>3, <1>4, <1>5, <1>6, SaveKeeps DEF Sound

-----------------------------------------------------------------------------
(* The critic.                                                             *)

\* A copy further on than the run: no item is taken away, none is accepted
\* without a verdict, none is left undecided for the publication, and the items
\* of the windows it has taken are in it.
LEMMA FurtherOn ==
  ASSUME Answers, Sound(analysis), analysis.stage \in After,
         NEW c \in RunCopy, c.stage \in {"translate", "critique", "publish"},
         c.plan = analysis.plan, c.next = analysis.next,
         c.checked => c.recalled = Len(Windows),
         \A w \in 1..c.recalled : \E f \in finds : f.window = w,
         \A f \in finds : f.window <= c.recalled => \A i \in f.found : c.item[i] # "absent",
         \A i \in Items : analysis.item[i] # "absent" => c.item[i] # "absent",
         \A i \in Items : c.item[i] = "accepted" =>
           \/ analysis.item[i] = "accepted"
           \/ \E v \in verdicts : i \in v.batch /\ v.of[i] = "accepted",
         c.stage = "publish" /\ c.checked => Pending(c) = {}
  PROVE  Sound(c)
<1>1. Extracting(c) BY DEF Sound, Extracting, After, Ahead
<1>2. \A d \in drafts : \A i \in d.found : c.item[i] # "absent"
  BY DEF Sound, TakenIn, Answers
<1>3. \A i \in Items : c.item[i] = "accepted" =>
        \E v \in verdicts : i \in v.batch /\ v.of[i] = "accepted"
  BY DEF Sound, TakenIn
<1>4. TakenIn(c) BY <1>2, <1>3 DEF TakenIn
<1> QED BY <1>1, <1>4 DEF Sound

\* The same, where no window was taken.
LEMMA NoWindowTaken ==
  ASSUME Answers, Sound(analysis), analysis.stage \in After,
         NEW c \in RunCopy, c.stage \in {"translate", "critique", "publish"},
         c.plan = analysis.plan, c.next = analysis.next,
         c.checked = analysis.checked, c.recalled = analysis.recalled,
         \A i \in Items : analysis.item[i] # "absent" => c.item[i] # "absent",
         \A i \in Items : c.item[i] = "accepted" =>
           \/ analysis.item[i] = "accepted"
           \/ \E v \in verdicts : i \in v.batch /\ v.of[i] = "accepted",
         c.stage = "publish" => Pending(c) = {}
  PROVE  Sound(c)
<1>1. /\ c.checked => c.recalled = Len(Windows)
      /\ \A w \in 1..c.recalled : \E f \in finds : f.window = w
  BY DEF Sound, TakenIn
<1>2. \A f \in finds : f.window <= c.recalled => \A i \in f.found : c.item[i] # "absent"
  BY DEF Sound, TakenIn, Answers
<1> QED BY <1>1, <1>2, FurtherOn

\* The parts with something to ask are all there are.
LEMMA AskedIsAll ==
  ASSUME analysis \in RunCopy, Asked = {} PROVE Pending(analysis) = {}
BY AnalysisAssumption DEF Asked, Batch, Pending

\* The verdicts that a copy takes in, of whatever parts, are the critic's.
LEMMA JudgedItems ==
  ASSUME Answers, analysis \in RunCopy, NEW parts, NEW c, c = Judged(parts)
  PROVE  /\ c \in RunCopy
         /\ \A i \in Items :
              \/ c.item[i] = analysis.item[i]
              \/ /\ c.item[i] \in {"accepted", "rejected"}
                 /\ analysis.item[i] = "pending"
                 /\ c.item[i] = "accepted" =>
                      \E v \in verdicts : i \in v.batch /\ v.of[i] = "accepted"
         /\ c.stage = analysis.stage /\ c.status = analysis.status
         /\ c.plan = analysis.plan /\ c.next = analysis.next
         /\ c.checked = analysis.checked /\ c.recalled = analysis.recalled
         /\ c.tries = analysis.tries
<1> DEFINE given(i) == {v.of[i] : v \in {w \in VerdictsOn(PartOf[i]) : i \in w.batch}}
           Status(i) == IF i \in Pending(analysis) /\ PartOf[i] \in parts
                           /\ given(i) \cap {"accepted", "rejected"} # {}
                          THEN CHOOSE s \in given(i) : TRUE ELSE analysis.item[i]
<1>1. c = [analysis EXCEPT !.item = [i \in Items |-> Status(i)]] BY DEF Judged
<1>2. ASSUME NEW i \in Items
      PROVE  \/ Status(i) = analysis.item[i]
             \/ /\ Status(i) \in {"accepted", "rejected"}
                /\ analysis.item[i] = "pending"
                /\ Status(i) = "accepted" =>
                     \E v \in verdicts : i \in v.batch /\ v.of[i] = "accepted"
  <2>1. CASE ~(/\ i \in Pending(analysis) /\ PartOf[i] \in parts
               /\ given(i) \cap {"accepted", "rejected"} # {})
    <3> HIDE DEF given
    <3> QED BY <2>1
  <2>2. CASE /\ i \in Pending(analysis) /\ PartOf[i] \in parts
             /\ given(i) \cap {"accepted", "rejected"} # {}
    <3>1. PICK v \in VerdictsOn(PartOf[i]) : i \in v.batch /\ v.of[i] \in {"accepted", "rejected"}
      BY <2>2
    <3>2. v \in verdicts /\ \A w \in VerdictsOn(PartOf[i]) : w = v
      BY <3>1 DEF Answers, VerdictsOn
    <3>3. v.of[i] \in given(i) /\ \A s \in given(i) : s = v.of[i] BY <3>1, <3>2
    <3> HIDE DEF given
    <3>4. (CHOOSE s \in given(i) : TRUE) = v.of[i] BY <3>3
    <3>5. Status(i) = v.of[i] BY <2>2, <3>4
    <3>6. analysis.item[i] = "pending" BY <2>2 DEF Pending
    <3> HIDE DEF Status
    <3> QED BY <3>1, <3>2, <3>5, <3>6
  <2> QED BY <2>1, <2>2
<1> HIDE DEF Status
<1>i. PICK items : items = [i \in Items |-> Status(i)] OBVIOUS
<1>3. items \in [Items -> ItemStatus]
  <2>1. \A i \in Items : analysis.item[i] \in ItemStatus BY DEF RunCopy
  <2>2. \A i \in Items : Status(i) \in ItemStatus BY <1>2, <2>1 DEF ItemStatus
  <2> QED BY <1>i, <2>2
<1>4. c = [analysis EXCEPT !.item = items] BY <1>1, <1>i
<1>5. c \in RunCopy /\ c.item = items BY <1>3, <1>4 DEF RunCopy
<1>6. \A i \in Items : c.item[i] = Status(i) BY <1>5, <1>i
<1>7. /\ c.stage = analysis.stage /\ c.status = analysis.status
      /\ c.plan = analysis.plan /\ c.next = analysis.next
      /\ c.checked = analysis.checked /\ c.recalled = analysis.recalled
      /\ c.tries = analysis.tries
  BY <1>4 DEF RunCopy
<1> QED BY <1>2, <1>5, <1>6, <1>7

\* What is left undecided in the end is withheld.
LEMMA WithholdItems ==
  ASSUME NEW c \in RunCopy, NEW h, h = Withhold(c)
  PROVE  /\ h \in RunCopy /\ Pending(h) = {}
         /\ \A i \in Items : \/ h.item[i] = c.item[i]
                             \/ h.item[i] = "withheld" /\ c.item[i] = "pending"
         /\ h.stage = c.stage /\ h.status = c.status /\ h.plan = c.plan
         /\ h.next = c.next /\ h.checked = c.checked /\ h.recalled = c.recalled
<1>i. PICK items : items = [i \in Items |-> IF c.item[i] = "pending" THEN "withheld"
                                            ELSE c.item[i]]
  OBVIOUS
<1>1. items \in [Items -> ItemStatus] BY <1>i DEF RunCopy, ItemStatus
<1>2. h = [c EXCEPT !.item = items] BY <1>i DEF Withhold
<1>3. h \in RunCopy /\ h.item = items BY <1>1, <1>2 DEF RunCopy
<1>4. \A i \in Items : h.item[i] = IF c.item[i] = "pending" THEN "withheld" ELSE c.item[i]
  BY <1>3, <1>i
<1>5. /\ h.stage = c.stage /\ h.status = c.status /\ h.plan = c.plan
      /\ h.next = c.next /\ h.checked = c.checked /\ h.recalled = c.recalled
  BY <1>2 DEF RunCopy
<1> QED BY <1>3, <1>4, <1>5 DEF Pending

\* The copy of a step of the critic is sound, whichever parts it has read and
\* however it goes on.
LEMMA CriticIsSound ==
  ASSUME AnalysisInv, InStage("critique"), NEW parts,
         NEW c, c \in {Judged(parts), Withhold(Judged(parts)), Audited(Judged(parts))}
  PROVE  Sound(c) /\ c.status = "queued"
<1>1. /\ Sound(analysis) /\ analysis \in RunCopy /\ Answers
      /\ analysis.stage = "critique" /\ analysis.status = "queued"
  BY AtStage DEF AnalysisInv
<1>j. PICK j : j = Judged(parts) OBVIOUS
<1>h. PICK h : h = Withhold(j) OBVIOUS
<1>2. /\ j \in RunCopy
      /\ \A i \in Items :
           \/ j.item[i] = analysis.item[i]
           \/ /\ j.item[i] \in {"accepted", "rejected"}
              /\ analysis.item[i] = "pending"
              /\ j.item[i] = "accepted" =>
                   \E v \in verdicts : i \in v.batch /\ v.of[i] = "accepted"
      /\ j.stage = "critique" /\ j.status = "queued"
      /\ j.plan = analysis.plan /\ j.next = analysis.next
      /\ j.checked = analysis.checked /\ j.recalled = analysis.recalled
  BY <1>1, <1>j, JudgedItems
<1>3. /\ h \in RunCopy /\ Pending(h) = {}
      /\ \A i \in Items : \/ h.item[i] = j.item[i]
                          \/ h.item[i] = "withheld" /\ j.item[i] = "pending"
      /\ h.stage = j.stage /\ h.status = j.status /\ h.plan = j.plan
      /\ h.next = j.next /\ h.checked = j.checked /\ h.recalled = j.recalled
  BY <1>2, <1>h, WithholdItems
<1>4. analysis.stage \in After BY <1>1 DEF After
<1>5. Sound(j)
  <2>1. \A i \in Items : analysis.item[i] # "absent" => j.item[i] # "absent" BY <1>2
  <2>2. \A i \in Items : j.item[i] = "accepted" =>
          \/ analysis.item[i] = "accepted"
          \/ \E v \in verdicts : i \in v.batch /\ v.of[i] = "accepted"
    BY <1>2
  <2> QED BY <1>1, <1>2, <1>4, <2>1, <2>2, NoWindowTaken
<1>6. \A i \in Items : /\ analysis.item[i] # "absent" => h.item[i] # "absent"
                       /\ h.item[i] = "accepted" => 
                            \/ analysis.item[i] = "accepted"
                            \/ \E v \in verdicts : i \in v.batch /\ v.of[i] = "accepted"
  BY <1>2, <1>3
<1>7. Sound(h) BY <1>1, <1>2, <1>3, <1>4, <1>6, NoWindowTaken
<1>8. ASSUME c = [j EXCEPT !.tries = @ + 1] PROVE Sound(c) /\ c.status = "queued"
  <2>1. j.tries + 1 \in Nat BY <1>2 DEF RunCopy
  <2>2. c \in RunCopy BY <1>2, <1>8, <2>1 DEF RunCopy
  <2>3. /\ c.item = j.item /\ c.stage = j.stage /\ c.status = j.status
        /\ c.plan = j.plan /\ c.next = j.next
        /\ c.checked = j.checked /\ c.recalled = j.recalled
    BY <1>2, <1>8 DEF RunCopy
  <2>4. Extracting(c) BY <1>5, <2>3 DEF Sound, Extracting
  <2>5. TakenIn(c) BY <1>5, <2>3 DEF Sound, TakenIn, Pending
  <2> QED BY <1>2, <2>2, <2>3, <2>4, <2>5 DEF Sound
<1>9. ASSUME c = [h EXCEPT !.stage = "publish"] PROVE Sound(c) /\ c.status = "queued"
  <2>1. c \in RunCopy BY <1>3, <1>9 DEF RunCopy, Stage
  <2>2. /\ c.item = h.item /\ c.stage = "publish" /\ c.status = h.status
        /\ c.plan = h.plan /\ c.next = h.next
        /\ c.checked = h.checked /\ c.recalled = h.recalled
    BY <1>3, <1>9 DEF RunCopy
  <2>3. Pending(c) = {} BY <1>3, <2>2 DEF Pending
  <2>4. Sound(c) BY <1>1, <1>2, <1>3, <1>4, <1>6, <2>1, <2>2, <2>3, NoWindowTaken
  <2> QED BY <1>2, <1>3, <2>2, <2>4
<1>10. CASE c = Judged(parts) BY <1>2, <1>5, <1>10, <1>j
<1>11. CASE c = Withhold(Judged(parts)) BY <1>2, <1>3, <1>7, <1>11, <1>j, <1>h
<1>12. CASE c = Audited(Judged(parts)) BY <1>8, <1>9, <1>12, <1>j, <1>h DEF Audited
<1> QED BY <1>10, <1>11, <1>12

\* The critique of what is left, whether it ends, fails half way or dies.
LEMMA CritiqueSteps ==
  ASSUME AnalysisInv, CritiqueEnds \/ DiscoveryFails \/ DiesAfterCheckpoint \/ CritiqueFails
  PROVE  AnalysisInv'
<1>1. CASE CritiqueEnds
  <2> PICK c : c = Audited(Judged(Asked)) OBVIOUS
  <2>1. InStage("critique") /\ Save(c) BY <1>1 DEF CritiqueEnds
  <2>2. Sound(c) /\ c.status = "queued" BY <2>1, CriticIsSound
  <2> QED BY <2>1, <2>2, AtStage, SaveKeeps
<1>2. CASE DiscoveryFails
  <2> PICK c : c = Audited(Judged(Asked)) OBVIOUS
  <2>1. InStage("critique") /\ Fail(c) BY <1>2 DEF DiscoveryFails
  <2>2. Sound(c) BY <2>1, CriticIsSound
  <2> QED BY <2>1, <2>2, FailKeeps
<1>3. CASE DiesAfterCheckpoint
  <2> PICK c : c = Withhold(Judged(Asked)) OBVIOUS
  <2>1. InStage("critique") /\ Save(c) BY <1>3 DEF DiesAfterCheckpoint
  <2>2. Sound(c) /\ c.status = "queued" BY <2>1, CriticIsSound
  <2> QED BY <2>1, <2>2, AtStage, SaveKeeps
<1>4. CASE CritiqueFails
  <2>1. PICK p \in Asked : Fail(Judged({q \in Asked : q < p})) BY <1>4 DEF CritiqueFails
  <2> PICK c : c = Judged({q \in Asked : q < p}) OBVIOUS
  <2>2. InStage("critique") BY <1>4 DEF CritiqueFails
  <2>3. Sound(c) BY <2>2, CriticIsSound
  <2> QED BY <2>1, <2>3, FailKeeps
<1> QED BY <1>1, <1>2, <1>3, <1>4

\* Nothing is left for the critic.
LEMMA NothingToAuditStep == AnalysisInv /\ NothingToAudit => AnalysisInv'
<1> SUFFICES ASSUME AnalysisInv, NothingToAudit PROVE AnalysisInv' OBVIOUS
<1>1. /\ hand = {} /\ Sound(analysis) /\ analysis \in RunCopy /\ Answers
      /\ analysis.stage = "critique" /\ analysis.status = "queued"
  BY AtStage DEF NothingToAudit, AnalysisInv
<1> PICK c : c = [analysis EXCEPT !.stage = "publish"] OBVIOUS
<1>2. /\ c \in RunCopy /\ c.plan = analysis.plan /\ c.next = analysis.next
      /\ c.status = "queued" /\ c.stage = "publish" /\ c.checked = analysis.checked
      /\ c.recalled = analysis.recalled /\ c.item = analysis.item
  BY <1>1 DEF RunCopy, Stage
<1>3. Pending(c) = {} BY <1>1, <1>2, AskedIsAll DEF NothingToAudit, Pending
<1>4. analysis.stage \in After BY <1>1 DEF After
<1>5. Sound(c) BY <1>1, <1>2, <1>3, <1>4, NoWindowTaken
<1>6. Save(c) BY DEF NothingToAudit, GoTo
<1> QED BY <1>1, <1>2, <1>5, <1>6, SaveKeeps

\* The critic's answers for a part.
LEMMA AnswerCritiqueStep ==
  ASSUME AnalysisInv, NEW p \in 1..CritiqueParts, AnswerCritique(p)
  PROVE  AnalysisInv'
<1> USE DEF AnalysisInv
<1>1. /\ hand = {} /\ Sound(analysis) /\ analysis.stage = "critique"
      /\ analysis.status = "queued"
  BY AtStage DEF AnswerCritique
<1>2. UNCHANGED <<analysis, frozen, inventory, drafts, finds, hand, rows>>
  BY DEF AnswerCritique
<1>3. PICK v : /\ verdicts' = verdicts \cup {v} /\ v.batch = Batch(p)
               /\ v.tries = analysis.tries
               /\ v.of \in [v.batch -> {"accepted", "rejected", "missing"}]
  <2>1. PICK of \in [Batch(p) -> {"accepted", "rejected", "missing"}] :
          verdicts' = verdicts \cup {[batch |-> Batch(p), tries |-> analysis.tries, of |-> of]}
    BY DEF AnswerCritique
  <2> PICK v : v = [batch |-> Batch(p), tries |-> analysis.tries, of |-> of] OBVIOUS
  <2>2. v.batch = Batch(p) /\ v.tries = analysis.tries /\ v.of = of OBVIOUS
  <2> QED BY <2>1, <2>2
<1>4. \A w \in verdicts : ~(w.batch = v.batch /\ w.tries = v.tries)
  BY <1>3 DEF AnswerCritique, VerdictsOn
<1>5. \A w, u \in verdicts' : w.batch = u.batch /\ w.tries = u.tries => w = u
  BY <1>3, <1>4 DEF Answers
<1>6. \A w \in verdicts' : w.of \in [w.batch -> {"accepted", "rejected", "missing"}]
  BY <1>3 DEF Answers
<1>7. Answers' BY <1>2, <1>5, <1>6 DEF Answers
<1>8. Sound(analysis)'
  <2>1. Extracting(analysis)' BY <1>1, <1>2 DEF Sound, Extracting
  <2>2. TakenIn(analysis)' BY <1>1, <1>2, <1>3 DEF Sound, TakenIn, Pending
  <2> QED BY <1>1, <1>2, <2>1, <2>2 DEF Sound
<1> QED BY <1>1, <1>2, <1>7, <1>8

-----------------------------------------------------------------------------
(* The recall.                                                             *)

\* What the recall is told of is frozen once.
LEMMA FreezeInventoryStep == AnalysisInv /\ FreezeInventory => AnalysisInv'
<1> SUFFICES ASSUME AnalysisInv, FreezeInventory PROVE AnalysisInv' OBVIOUS
<1> USE DEF AnalysisInv
<1>1. hand = {} /\ Sound(analysis) /\ analysis.status = "queued"
  BY AtStage DEF FreezeInventory, Recalling
<1>2. /\ UNCHANGED <<analysis, frozen, drafts, finds, verdicts, hand, rows>>
      /\ inventory = {} /\ inventory' = {analysis.item}
  BY DEF FreezeInventory, ledger
<1>3. Answers' BY <1>2 DEF Answers
<1>4. Sound(analysis)' BY <1>1, <1>2 DEF Sound, Extracting, TakenIn, Pending
<1> QED BY <1>1, <1>2, <1>3, <1>4

\* An answer for a window that has none: none that was taken is without.
LEMMA AnswerRecallStep ==
  ASSUME AnalysisInv, NEW w \in 1..Len(Windows), AnswerRecall(w)
  PROVE  AnalysisInv'
<1> USE DEF AnalysisInv
<1>1. /\ hand = {} /\ Sound(analysis) /\ analysis \in RunCopy
      /\ analysis.status = "queued"
  BY AtStage DEF AnswerRecall, Recalling
<1>2. UNCHANGED <<analysis, frozen, inventory, drafts, verdicts, hand, rows>>
  BY DEF AnswerRecall
<1>3. PICK f : /\ finds' = finds \cup {f} /\ f.window = w /\ f.known \in inventory
               /\ f.found \subseteq Items
  <2>1. PICK known \in inventory, found \in SUBSET {i \in Items : SegmentOf[i] \in Windows[w]} :
          finds' = finds \cup {[window |-> w, known |-> known, found |-> found]}
    BY DEF AnswerRecall
  <2>2. found \subseteq Items BY <2>1
  <2> PICK f : f = [window |-> w, known |-> known, found |-> found] OBVIOUS
  <2>3. f.window = w /\ f.known = known /\ f.found = found OBVIOUS
  <2> QED BY <2>1, <2>2, <2>3
<1>4. \A g \in finds : g.window # w BY DEF Answers, AnswerRecall, FindOf
<1>5. Answers'
  <2>1. \A g, h \in finds' : g.window = h.window => g = h BY <1>3, <1>4 DEF Answers
  <2>2. \A g \in finds' : /\ g.window \in 1..Len(Windows) /\ g.known \in inventory
                          /\ g.found \subseteq Items
    BY <1>3 DEF Answers
  <2> QED BY <1>2, <2>1, <2>2 DEF Answers
<1>6. analysis.recalled < w
  <2>1. analysis.recalled \in Nat /\ w \in Nat /\ w >= 1 BY <1>1 DEF RunCopy
  <2>2. CASE w <= analysis.recalled
    <3>1. w \in 1..analysis.recalled BY <2>1, <2>2
    <3> QED BY <1>1, <1>4, <3>1 DEF Sound, TakenIn
  <2> QED BY <2>1, <2>2
<1>7. Sound(analysis)'
  <2>1. Extracting(analysis)' BY <1>1, <1>2 DEF Sound, Extracting
  <2>2. \A v \in 1..analysis.recalled : \E g \in finds' : g.window = v
    BY <1>1, <1>3 DEF Sound, TakenIn
  <2>3. \A g \in finds' : g.window <= analysis.recalled =>
          \A i \in g.found : analysis.item[i] # "absent"
    <3>1. ~(f.window <= analysis.recalled) BY <1>1, <1>3, <1>6 DEF RunCopy
    <3> QED BY <1>1, <1>3, <3>1 DEF Sound, TakenIn
  <2>4. TakenIn(analysis)' BY <1>1, <1>2, <2>2, <2>3 DEF Sound, TakenIn, Pending
  <2> QED BY <1>1, <1>2, <2>1, <2>4 DEF Sound
<1> QED BY <1>1, <1>2, <1>5, <1>7

\* How far a step of the publication would take the recall.
LEMMA Reach ==
  ASSUME analysis \in RunCopy, analysis.stage = "publish"
  PROVE  \E m \in analysis.recalled..Len(Windows) :
           /\ WindowBatch = (analysis.recalled + 1)..m
           /\ Max({analysis.recalled} \cup WindowBatch) = m
<1> PICK r : r = analysis.recalled OBVIOUS
<1> PICK l : l = Len(Windows) OBVIOUS
<1>1. r \in Nat /\ l \in Nat /\ r <= l
  BY AnalysisAssumption DEF RunCopy
<1>2. PICK a \in Nat : a = r + RecallBatch /\ a > r
  <2>1. RecallBatch \in Nat /\ RecallBatch > 0 BY AnalysisAssumption
  <2> QED BY <1>1, <2>1
<1>m. PICK m : m = Min({a, l}) OBVIOUS
<1>3. m \in Nat /\ r <= m /\ m <= l
  <2>1. \E x \in {a, l} : \A y \in {a, l} : x <= y
    <3>1. CASE a <= l BY <1>1, <1>2, <3>1
    <3>2. CASE ~(a <= l) BY <1>1, <1>2, <3>2
    <3> QED BY <3>1, <3>2
  <2>2. m = CHOOSE x \in {a, l} : \A y \in {a, l} : x <= y BY <1>m DEF Min
  <2>3. m \in {a, l} /\ \A y \in {a, l} : m <= y BY <2>1, <2>2
  <2> QED BY <1>1, <1>2, <2>3
<1>4. WindowBatch = (r + 1)..m BY <1>2, <1>m DEF WindowBatch
<1>x. PICK x : x = Max({r} \cup ((r + 1)..m)) OBVIOUS
<1>5. x = m
  <2> PICK S : S = {r} \cup ((r + 1)..m) OBVIOUS
  <2>1. m \in S /\ \A y \in S : y \in Int /\ m >= y BY <1>1, <1>3
  <2>2. x = CHOOSE z \in S : \A y \in S : z >= y BY <1>x DEF Max
  <2>3. x \in S /\ \A y \in S : x >= y BY <2>1, <2>2
  <2>4. x \in Int /\ m \in Int /\ x >= m /\ m >= x BY <1>3, <2>1, <2>3
  <2> QED BY <2>4
<1>6. m \in r..l BY <1>1, <1>3
<1>7. Max({analysis.recalled} \cup WindowBatch) = m BY <1>x, <1>4, <1>5
<1> QED BY <1>4, <1>6, <1>7

\* What a copy is that has taken the windows up to w.
Taken(c, w) ==
    /\ c \in RunCopy /\ c.stage = "publish" /\ c.status = "queued"
    /\ c.plan = analysis.plan /\ c.next = analysis.next
    /\ c.checked = (w = Len(Windows)) /\ c.recalled = w
    /\ \A v \in 1..c.recalled : \E f \in finds : f.window = v
    /\ \A f \in finds : f.window <= c.recalled => \A i \in f.found : c.item[i] # "absent"
    /\ \A i \in Items : analysis.item[i] # "absent" => c.item[i] # "absent"
    /\ \A i \in Items : c.item[i] = "accepted" => analysis.item[i] = "accepted"

\* Once each of them has an answer.
LEMMA WindowsTaken ==
  ASSUME AnalysisInv, InStage("publish"), NEW w \in analysis.recalled..Len(Windows),
         \A v \in (analysis.recalled + 1)..w : FindOf(v) # {},
         NEW c, c = WithWindows(w)
  PROVE  Taken(c, w)
<1>1. /\ Sound(analysis) /\ analysis \in RunCopy /\ Answers
      /\ analysis.stage = "publish" /\ analysis.status = "queued"
  BY AtStage DEF AnalysisInv
<1>f. PICK found : found = UNION {f.found : f \in UNION {FindOf(v) : v \in 1..w}} OBVIOUS
<1>i. PICK items : items = [i \in Items |-> IF i \in found /\ analysis.item[i] = "absent"
                                             THEN NewItem(i) ELSE analysis.item[i]]
  OBVIOUS
<1>2. items \in [Items -> ItemStatus] BY <1>1, <1>i DEF RunCopy, NewItem, ItemStatus
<1>3. PICK k \in BOOLEAN : k = (w = Len(Windows)) OBVIOUS
<1>a. PICK b : b = [analysis EXCEPT !.item = items] OBVIOUS
<1>4. b = WithItems(analysis, found) BY <1>a, <1>i DEF WithItems
<1>5. /\ b \in RunCopy /\ b.item = items /\ b.stage = "publish" /\ b.status = "queued"
      /\ b.plan = analysis.plan /\ b.next = analysis.next
  BY <1>1, <1>2, <1>a DEF RunCopy
<1>6. c = [b EXCEPT !.recalled = w, !.checked = k]
  BY <1>3, <1>4, <1>f DEF WithWindows
<1>7. w \in 0..Len(Windows) /\ w \in Nat
  BY <1>1 DEF RunCopy
<1>8. /\ c \in RunCopy /\ c.item = items /\ c.stage = "publish" /\ c.status = "queued"
      /\ c.plan = analysis.plan /\ c.next = analysis.next
      /\ c.checked = k /\ c.recalled = w
  <2>1. PICK d : d = [b EXCEPT !.recalled = w] OBVIOUS
  <2>2. d \in RunCopy /\ d.item = b.item /\ d.stage = b.stage /\ d.status = b.status
        /\ d.plan = b.plan /\ d.next = b.next /\ d.recalled = w
    BY <1>5, <1>7, <2>1 DEF RunCopy
  <2>3. c = [d EXCEPT !.checked = k] BY <1>6, <2>1
  <2>4. c \in RunCopy /\ c.item = d.item /\ c.stage = d.stage /\ c.status = d.status
        /\ c.plan = d.plan /\ c.next = d.next /\ c.recalled = d.recalled /\ c.checked = k
    BY <2>2, <2>3 DEF RunCopy
  <2> QED BY <1>5, <2>2, <2>4
<1>9. \A i \in Items : c.item[i] = IF i \in found /\ analysis.item[i] = "absent"
                                     THEN NewItem(i) ELSE analysis.item[i]
  BY <1>8, <1>i
<1>10. \A v \in 1..w : \E f \in finds : f.window = v
  <2> SUFFICES ASSUME NEW v \in 1..w PROVE \E f \in finds : f.window = v OBVIOUS
  <2>1. analysis.recalled \in Nat BY <1>1 DEF RunCopy
  <2>2. CASE v <= analysis.recalled
    <3>1. v \in 1..analysis.recalled BY <1>7, <2>1, <2>2
    <3> QED BY <1>1, <3>1 DEF Sound, TakenIn
  <2>3. CASE ~(v <= analysis.recalled)
    <3>1. v \in (analysis.recalled + 1)..w BY <1>7, <2>1, <2>3
    <3> QED BY <3>1 DEF FindOf
  <2> QED BY <2>2, <2>3
<1>11. ASSUME NEW f \in finds, f.window <= w, NEW i \in f.found
       PROVE  c.item[i] # "absent"
  <2>1. f.window \in 1..w /\ i \in Items BY <1>1, <1>7, <1>11 DEF Answers
  <2>2. f \in FindOf(f.window) BY <1>1 DEF Answers, FindOf
  <2>3. i \in found BY <1>f, <2>1, <2>2
  <2> QED BY <1>9, <2>1, <2>3 DEF NewItem
<1>12. \A i \in Items : /\ analysis.item[i] # "absent" => c.item[i] # "absent"
                        /\ c.item[i] = "accepted" => analysis.item[i] = "accepted"
  BY <1>9 DEF NewItem
<1> QED BY <1>3, <1>8, <1>10, <1>11, <1>12 DEF Taken

-----------------------------------------------------------------------------
(* The publication.                                                        *)

\* The windows of a step are taken in, and what is new goes to the critic.
LEMMA TakeWindowsStep == AnalysisInv /\ TakeWindows => AnalysisInv'
<1> SUFFICES ASSUME AnalysisInv, TakeWindows PROVE AnalysisInv' OBVIOUS
<1>1. InStage("publish") /\ Searched BY DEF TakeWindows
<1>2. /\ hand = {} /\ Sound(analysis) /\ analysis \in RunCopy /\ Answers
      /\ analysis.stage = "publish" /\ analysis.status = "queued"
  BY <1>1, AtStage DEF AnalysisInv
<1>3. PICK m \in analysis.recalled..Len(Windows) :
        /\ WindowBatch = (analysis.recalled + 1)..m
        /\ Max({analysis.recalled} \cup WindowBatch) = m
  BY <1>2, Reach
<1>4. \A v \in (analysis.recalled + 1)..m : FindOf(v) # {}
  BY <1>1, <1>3 DEF Searched
<1>b. PICK b : b = WithWindows(m) OBVIOUS
<1>5. Taken(b, m) BY <1>1, <1>4, <1>b, WindowsTaken
<1>6. Save(IF b.checked THEN ToCritique(b) ELSE b) BY <1>3, <1>b DEF TakeWindows
<1>7. analysis.stage \in After BY <1>2 DEF After
<1>8. CASE ~b.checked
  <2>1. Sound(b) BY <1>2, <1>5, <1>7, <1>8, FurtherOn DEF Taken
  <2>2. Save(b) /\ b.status = "queued" BY <1>5, <1>6, <1>8 DEF Taken
  <2> QED BY <1>2, <2>1, <2>2, SaveKeeps
<1>9. CASE b.checked
  <2>c. PICK c : c = ToCritique(b) OBVIOUS
  <2>1. PICK s \in {"translate", "critique"} : c = [b EXCEPT !.stage = s]
    BY <2>c DEF ToCritique
  <2>2. s \in Stage BY <2>1 DEF Stage
  <2>3. /\ c \in RunCopy /\ c.stage = s /\ c.status = "queued" /\ c.item = b.item
        /\ c.plan = b.plan /\ c.next = b.next
        /\ c.checked = b.checked /\ c.recalled = b.recalled
    BY <1>5, <2>1, <2>2 DEF RunCopy, Taken
  <2>4. /\ c.checked => c.recalled = Len(Windows)
        /\ c.plan = analysis.plan /\ c.next = analysis.next
        /\ \A v \in 1..c.recalled : \E f \in finds : f.window = v
        /\ \A f \in finds : f.window <= c.recalled => \A i \in f.found : c.item[i] # "absent"
        /\ \A i \in Items : analysis.item[i] # "absent" => c.item[i] # "absent"
        /\ \A i \in Items : c.item[i] = "accepted" => analysis.item[i] = "accepted"
    BY <1>5, <2>3 DEF Taken
  <2>5. Sound(c) BY <1>2, <1>7, <2>1, <2>3, <2>4, FurtherOn
  <2> QED BY <1>2, <1>6, <1>9, <2>c, <2>3, <2>5, SaveKeeps
<1> QED BY <1>8, <1>9

\* The recall fails; what it has found window by window is kept.
LEMMA RecallFailsStep == AnalysisInv /\ RecallFails => AnalysisInv'
<1> SUFFICES ASSUME AnalysisInv, RecallFails PROVE AnalysisInv' OBVIOUS
<1>1. InStage("publish") /\ ~analysis.checked BY DEF RecallFails
<1>2. /\ Sound(analysis) /\ analysis \in RunCopy /\ Answers
      /\ analysis.stage = "publish" /\ analysis.status = "queued"
  BY <1>1, AtStage DEF AnalysisInv
<1>3. CASE Fail(analysis)
  <2> PICK c : c = analysis OBVIOUS
  <2> QED BY <1>2, <1>3, FailKeeps
<1>4. ASSUME NEW w \in WindowBatch, \A v \in WindowBatch : v < w => FindOf(v) # {},
             Fail(WithWindows(w - 1))
      PROVE  AnalysisInv'
  <2>1. PICK m \in analysis.recalled..Len(Windows) :
          /\ WindowBatch = (analysis.recalled + 1)..m
          /\ Max({analysis.recalled} \cup WindowBatch) = m
    BY <1>2, Reach
  <2>u. PICK u : u = w - 1 OBVIOUS
  <2>2. analysis.recalled \in Nat /\ Len(Windows) \in Nat
    BY <1>2, AnalysisAssumption DEF RunCopy
  <2>3. /\ u \in analysis.recalled..Len(Windows) /\ u # Len(Windows)
        /\ \A v \in (analysis.recalled + 1)..u : v \in WindowBatch /\ v < w
    BY <1>4, <2>1, <2>2, <2>u
  <2>4. \A v \in (analysis.recalled + 1)..u : FindOf(v) # {} BY <1>4, <2>3
  <2>c. PICK c : c = WithWindows(u) OBVIOUS
  <2>5. Taken(c, u) BY <1>1, <2>3, <2>4, <2>c, WindowsTaken
  <2>6. analysis.stage \in After BY <1>2 DEF After
  <2>7. ~c.checked BY <2>3, <2>5 DEF Taken
  <2>8. Sound(c) BY <1>2, <2>5, <2>6, <2>7, FurtherOn DEF Taken
  <2>9. Fail(c) BY <1>4, <2>u, <2>c
  <2> QED BY <2>8, <2>9, FailKeeps
<1> QED BY <1>3, <1>4 DEF RecallFails

\* A copy that may be published: everything was searched and decided.
LEMMA BeginPublicationStep == AnalysisInv /\ BeginPublication => AnalysisInv'
<1> SUFFICES ASSUME AnalysisInv, BeginPublication PROVE AnalysisInv' OBVIOUS
<1>1. InStage("publish") BY DEF BeginPublication
<1>2. /\ hand = {} /\ Sound(analysis) /\ analysis \in RunCopy /\ Answers
      /\ analysis.stage = "publish" /\ analysis.status = "queued"
  BY <1>1, AtStage DEF AnalysisInv
<1>b. PICK b : b = IF analysis.checked THEN analysis ELSE WithWindows(Len(Windows)) OBVIOUS
<1>3. hand' = {[b EXCEPT !.status = "completed", !.stage = "complete"]}
      /\ (analysis.checked \/ Pending(b) = {})
  BY <1>b DEF BeginPublication
<1>4. Sound(b) /\ b \in RunCopy /\ b.stage = "publish" /\ b.checked /\ Pending(b) = {}
  <2>1. CASE analysis.checked
    BY <1>2, <1>b, <2>1 DEF Sound, TakenIn
  <2>2. CASE ~analysis.checked
    <3>l. PICK l : l = Len(Windows) OBVIOUS
    <3>1. PICK m \in analysis.recalled..Len(Windows) :
            /\ WindowBatch = (analysis.recalled + 1)..m
            /\ Max({analysis.recalled} \cup WindowBatch) = m
      BY <1>2, Reach
    <3>2. m = l /\ Searched BY <2>2, <3>1, <3>l DEF BeginPublication
    <3>3. l \in analysis.recalled..Len(Windows) BY <3>1, <3>2
    <3>4. \A v \in (analysis.recalled + 1)..l : FindOf(v) # {}
      BY <3>1, <3>2 DEF Searched
    <3>5. b = WithWindows(l) BY <1>b, <2>2, <3>l
    <3>6. Taken(b, l) BY <1>1, <3>3, <3>4, <3>5, WindowsTaken
    <3>7. b.checked /\ b.recalled = Len(Windows) BY <3>6, <3>l DEF Taken
    <3>8. Pending(b) = {} BY <1>3, <2>2
    <3>9. analysis.stage \in After BY <1>2 DEF After
    <3>10. Sound(b) BY <1>2, <3>6, <3>7, <3>8, <3>9, FurtherOn DEF Taken
    <3> QED BY <3>6, <3>7, <3>8, <3>10 DEF Taken
  <2> QED BY <2>1, <2>2
<1>c. PICK c : c = [b EXCEPT !.status = "completed", !.stage = "complete"] OBVIOUS
<1>5. /\ c \in RunCopy /\ c.stage = "complete" /\ c.status = "completed"
      /\ c.plan = b.plan /\ c.next = b.next /\ c.item = b.item
      /\ c.checked = b.checked /\ c.recalled = b.recalled
  BY <1>4, <1>c DEF RunCopy, Stage
<1>6. Extracting(c) BY <1>4, <1>5 DEF Sound, Extracting, Ahead, After
<1>7. TakenIn(c) BY <1>4, <1>5 DEF Sound, TakenIn, Pending, After
<1>8. hand' = {c} /\ Sound(c) BY <1>3, <1>5, <1>6, <1>7, <1>c DEF Sound
<1>9. UNCHANGED <<analysis, frozen, inventory, drafts, finds, verdicts, rows>>
  BY DEF BeginPublication, ledger
<1>10. Sound(c)' /\ Sound(analysis)'
  BY <1>2, <1>8, <1>9 DEF Sound, Extracting, TakenIn, Pending
<1>11. Answers' BY <1>2, <1>9 DEF Answers
<1> QED BY <1>2, <1>5, <1>8, <1>9, <1>10, <1>11 DEF AnalysisInv

\* The steps of a publication: the rows, the end of the run, and what may go
\* wrong between the two.
LEMMA PublicationSteps ==
  ASSUME AnalysisInv, WriteRows \/ FinishRun \/ PublicationFails \/ DiesPublishing
  PROVE  AnalysisInv'
<1>1. hand # {} BY DEF WriteRows, FinishRun, PublicationFails, DiesPublishing
<1>2. PICK done : /\ hand = {done} /\ Sound(done)
                  /\ done.stage = "complete" /\ done.status = "completed"
  BY <1>1 DEF AnalysisInv
<1>3. analysis.status = "queued" /\ analysis.stage = "publish" BY <1>1 DEF AnalysisInv
<1>4. CASE WriteRows
  <2>1. rows' \subseteq Items /\ UNCHANGED <<analysis, frozen, inventory, drafts, finds,
                                              verdicts, hand>>
    BY <1>4 DEF WriteRows, ledger
  <2>2. Answers' BY <2>1 DEF AnalysisInv, Answers
  <2>3. Sound(analysis)' /\ Sound(done)'
    BY <1>2, <2>1 DEF AnalysisInv, Sound, Extracting, TakenIn, Pending
  <2> QED BY <1>2, <1>3, <2>1, <2>2, <2>3 DEF AnalysisInv
<1>5. CASE FinishRun
  <2>1. /\ analysis' = done /\ hand' = {} /\ rows = AcceptedOf(done)
        /\ UNCHANGED <<frozen, inventory, drafts, finds, verdicts, rows>>
    BY <1>2, <1>5 DEF FinishRun, ledger, AcceptedOf
  <2>2. Answers' BY <2>1 DEF AnalysisInv, Answers
  <2>3. Sound(done)' BY <1>2, <2>1 DEF Sound, Extracting, TakenIn, Pending
  <2>4. AcceptedOf(analysis)' = AcceptedOf(done) BY <2>1 DEF AcceptedOf
  <2> QED BY <1>2, <2>1, <2>2, <2>3, <2>4 DEF AnalysisInv
<1>6. CASE PublicationFails
  <2>1. Fail(done) BY <1>2, <1>6 DEF PublicationFails
  <2> QED BY <1>2, <2>1, FailKeeps
<1>7. CASE DiesPublishing
  <2>1. hand' = {} /\ UNCHANGED <<analysis, frozen, inventory, drafts, finds, verdicts, rows>>
    BY <1>7 DEF DiesPublishing, ledger
  <2>2. Answers' BY <2>1 DEF AnalysisInv, Answers
  <2>3. Sound(analysis)'
    BY <2>1 DEF AnalysisInv, Sound, Extracting, TakenIn, Pending
  <2> QED BY <1>3, <2>1, <2>2, <2>3 DEF AnalysisInv
<1> QED BY <1>4, <1>5, <1>6, <1>7

-----------------------------------------------------------------------------
(* What follows for every behaviour.                                       *)

\* A run that was not begun is sound.
LEMMA AnalysisBegins == AnalysisInit => AnalysisInv
<1> SUFFICES ASSUME AnalysisInit PROVE AnalysisInv OBVIOUS
<1>1. Answers BY DEF AnalysisInit, Answers
<1>p. PICK p : p = FirstPlan OBVIOUS
<1>i. PICK items : items = [i \in Items |-> "absent"] OBVIOUS
<1>2. /\ p \in Seq(Nat \X Nat) /\ Len(p) \in Nat /\ Len(p) > 0 /\ DOMAIN p = 1..Len(p)
  <2>1. p \in Seq(Nat \X Nat) /\ p # <<>> BY <1>p, AnalysisAssumption
  <2> QED BY <2>1
<1>3. items \in [Items -> ItemStatus] BY <1>i DEF ItemStatus
<1>4. PICK o \in BOOLEAN :
        analysis = [overlapping |-> o, stage |-> "metadata", status |-> "queued",
                    heard |-> 0, plan |-> p, next |-> 1, repairs |-> 0,
                    item |-> items, english |-> {}, tries |-> 0,
                    recalled |-> 0, checked |-> FALSE, blips |-> 0]
  BY <1>p, <1>i DEF AnalysisInit
<1>5. 0 \in 0..Len(Windows) BY AnalysisAssumption
<1>6. analysis \in RunCopy BY <1>2, <1>3, <1>4, <1>5 DEF RunCopy, Stage
<1>7. /\ analysis.stage = "metadata" /\ analysis.status = "queued" /\ analysis.plan = p
      /\ analysis.next = 1 /\ analysis.item = items /\ analysis.recalled = 0
      /\ analysis.checked = FALSE
  BY <1>4
<1>8. drafts = {} /\ finds = {} /\ hand = {} /\ rows = {} BY DEF AnalysisInit
<1>9. Extracting(analysis)
  <2>1. \A s \in Source : \E n \in 1..Len(p) : s \in p[n][1]..p[n][2]
    BY <1>2, <1>p, AnalysisAssumption DEF Source
  <2>2. analysis.next \in 1..Len(analysis.plan) + 1 /\ Len(analysis.plan) > 0
        /\ analysis.next <= Len(analysis.plan)
    BY <1>2, <1>7
  <2>3. ~(analysis.stage \in After) BY <1>7 DEF After
  <2>4. \A n \in 1..analysis.next - 1 : FALSE BY <1>7
  <2> QED BY <1>7, <1>8, <2>1, <2>2, <2>3, <2>4 DEF Extracting
<1>10. TakenIn(analysis)
  <2>1. \A w \in 1..analysis.recalled : FALSE BY <1>7
  <2>2. \A i \in Items : analysis.item[i] = "absent" BY <1>7, <1>i
  <2> QED BY <1>7, <1>8, <2>1, <2>2 DEF TakenIn, After
<1> QED BY <1>1, <1>6, <1>7, <1>8, <1>9, <1>10 DEF AnalysisInv, Sound

\* Every step keeps the invariant.
LEMMA AnalysisStep == AnalysisInv /\ [AnalysisNext]_analysisVars => AnalysisInv'
<1> SUFFICES ASSUME AnalysisInv, [AnalysisNext]_analysisVars PROVE AnalysisInv' OBVIOUS
<1>1. CASE UNCHANGED analysisVars
  <2>1. UNCHANGED <<analysis, frozen, inventory, drafts, finds, verdicts, hand, rows>>
    BY <1>1 DEF analysisVars
  <2>2. Answers' BY <2>1 DEF AnalysisInv, Answers
  <2>3. \A c : Sound(c) => Sound(c)'
    BY <2>1 DEF Sound, Extracting, TakenIn, Pending
  <2>4. Sound(analysis)' BY <2>1, <2>3 DEF AnalysisInv
  <2>5. AcceptedOf(analysis)' = AcceptedOf(analysis) BY <2>1 DEF AcceptedOf
  <2> QED BY <2>1, <2>2, <2>3, <2>4, <2>5 DEF AnalysisInv
<1>2. CASE ProviderAnswers
  BY <1>2, AnswerExtractionStep, AnswerCritiqueStep, AnswerRecallStep DEF ProviderAnswers
<1>3. CASE StepGoesOn
  BY <1>3, SourceSteps, ReviewStep, FreezeRequestStep, TakeDraftStep, SplitChunkStep,
     LastingFailures, TranslateStep, NothingToAuditStep, CritiqueSteps,
     FreezeInventoryStep, TakeWindowsStep, BeginPublicationStep, PublicationSteps
     DEF StepGoesOn
<1>4. CASE StepFails
  BY <1>4, PlainFailures, CritiqueSteps, RecallFailsStep, PublicationSteps DEF StepFails
<1>5. CASE RetryRun \/ RecoverAudit BY <1>5, OperatorSteps
<1> QED BY <1>1, <1>2, <1>3, <1>4, <1>5 DEF AnalysisNext

\* The invariant of the proof.
LEMMA AnalysisInvariance == AnalysisSpec => []AnalysisInv
BY AnalysisBegins, AnalysisStep, PTL DEF AnalysisSpec

\* Nothing, or one thing.
LEMMA OneAtMost ==
  ASSUME NEW S, S = {} \/ \E x : S = {x} PROVE Cardinality(S) <= 1
<1>1. CASE S = {}
  <2>1. Cardinality(S) = 0 BY <1>1, FS_EmptySet
  <2> QED BY <2>1
<1>2. ASSUME NEW x, S = {x} PROVE Cardinality(S) <= 1
  <2>1. Cardinality(S) = 1 BY <1>2, FS_Singleton
  <2> QED BY <2>1
<1> QED BY <1>1, <1>2

\* The run stays what its schema says, with one copy in hand and one inventory
\* at most.
THEOREM AnalysisTypeCorrect == AnalysisSpec => []AnalysisTypeOK
<1>1. AnalysisInv => AnalysisTypeOK
  <2> SUFFICES ASSUME AnalysisInv PROVE AnalysisTypeOK OBVIOUS
  <2>1. analysis \in RunCopy BY DEF AnalysisInv, Sound
  <2>2. analysis.next \in 1..(Len(analysis.plan) + 1)
    BY DEF AnalysisInv, Sound, Extracting
  <2>3. Cardinality(hand) <= 1
    <3>1. hand = {} \/ \E done : hand = {done} BY DEF AnalysisInv
    <3> QED BY <3>1, OneAtMost
  <2>4. Cardinality(inventory) <= 1
    <3>1. inventory = {} \/ \E known : inventory = {known} BY DEF AnalysisInv, Answers
    <3> QED BY <3>1, OneAtMost
  <2>5. rows \subseteq Items BY DEF AnalysisInv
  <2>6. /\ analysis.stage \in Stage /\ analysis.item \in [Items -> ItemStatus]
        /\ analysis.status \in {"queued", "failed", "needs_review", "completed"}
        /\ analysis.recalled \in 0..Len(Windows)
    BY <2>1 DEF RunCopy
  <2> QED BY <2>2, <2>3, <2>4, <2>5, <2>6 DEF AnalysisTypeOK
<1> QED BY <1>1, AnalysisInvariance, PTL

\* Frozen requests and the ledger together: however chunks are split and steps
\* run again, no chunk is extracted twice and no window recalled twice.
THEOREM PassagesBoughtOnce == AnalysisSpec => []PassageBoughtOnce
<1>1. AnalysisInv => PassageBoughtOnce BY DEF AnalysisInv, Answers, PassageBoughtOnce
<1> QED BY <1>1, AnalysisInvariance, PTL

\* A completed run has read its whole source and has every item that an answer
\* it paid for has found.
THEOREM PaidWorkIsKept == AnalysisSpec => []NothingLost
<1>1. AnalysisInv => NothingLost
  <2> SUFFICES ASSUME AnalysisInv, analysis.status = "completed" PROVE NothingLost
    BY DEF NothingLost
  <2>1. /\ Extracting(analysis) /\ TakenIn(analysis) /\ Answers
        /\ analysis \in RunCopy /\ analysis.stage = "complete"
    BY DEF AnalysisInv, Sound
  <2>2. analysis.stage \in After BY <2>1 DEF After
  <2>3. analysis.next = Len(analysis.plan) + 1 /\ Len(analysis.plan) \in Nat
    BY <2>1, <2>2 DEF Extracting, RunCopy
  <2>4. \A n \in 1..Len(analysis.plan) :
          \E d \in drafts : d.chunk = analysis.plan[n] /\ d.kind = "complete"
    BY <2>1, <2>3 DEF Extracting
  <2>5. \A s \in 1..FirstPlan[Len(FirstPlan)][2] :
          \E d \in drafts : d.kind = "complete" /\ s \in d.chunk[1]..d.chunk[2]
    <3> SUFFICES ASSUME NEW s \in Source
                 PROVE  \E d \in drafts : d.kind = "complete" /\ s \in d.chunk[1]..d.chunk[2]
      BY DEF Source
    <3>1. PICK n \in 1..Len(analysis.plan) : s \in analysis.plan[n][1]..analysis.plan[n][2]
      BY <2>1 DEF Extracting
    <3> QED BY <2>4, <3>1
  <2>6. analysis.recalled = Len(Windows) BY <2>1 DEF TakenIn
  <2>7. \A w \in 1..Len(Windows) : \E f \in finds : f.window = w
    BY <2>1, <2>6 DEF TakenIn
  <2>8. \A d \in drafts : \A i \in d.found : analysis.item[i] # "absent"
    BY <2>1, <2>2 DEF TakenIn
  <2>9. \A f \in finds : \A i \in f.found : analysis.item[i] # "absent"
    <3>1. Len(Windows) \in Nat BY AnalysisAssumption
    <3>2. \A f \in finds : f.window <= analysis.recalled
      BY <2>1, <2>6, <3>1 DEF Answers
    <3> QED BY <2>1, <3>2 DEF TakenIn
  <2> QED BY <2>5, <2>7, <2>8, <2>9 DEF NothingLost
<1> QED BY <1>1, AnalysisInvariance, PTL

\* The rows of a completed run are its accepted items, each of them accepted by
\* the critic, and no item was left undecided.
THEOREM WhatIsPublishedIsAudited == AnalysisSpec => []PublishedIsAudited
<1>1. AnalysisInv => PublishedIsAudited
  <2> SUFFICES ASSUME AnalysisInv, analysis.status = "completed" PROVE PublishedIsAudited
    BY DEF PublishedIsAudited
  <2>1. TakenIn(analysis) /\ analysis.stage = "complete" /\ rows = AcceptedOf(analysis)
    BY DEF AnalysisInv, Sound
  <2> QED BY <2>1 DEF TakenIn, PublishedIsAudited, AcceptedOf
<1> QED BY <1>1, AnalysisInvariance, PTL
=============================================================================
