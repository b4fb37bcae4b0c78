------------------------------ MODULE MCAnalysis ------------------------------
(* What one step of an analysis is subject to: the stages, the hearing of a  *)
(* video clip by clip, the submission of a stage as a batch, the admission   *)
(* that the calls of a critique share, and the slots of the provider.  They  *)
(* share no state, so each is checked by itself: a behaviour is one of the   *)
(* part that `part` names, and the others stay as they began.                *)
EXTENDS BatchSubmission, AnalysisStages, WindowedTranscription, SharedAdmission,
        ProviderSlots, TLC

CONSTANTS
    s1, r1,                        \* one stage of one run, in batch mode
    i1, i2,                        \* two items, in different segments and parts
    d1, d2, d3, k1, k2,            \* three lanes of discovery, two of critique
    discovery, critique,
    Parts                          \* the parts to check

OneStage == s1 :> r1

ItemSegment   == i1 :> 1 @@ i2 :> 3
ItemPart      == i1 :> 1 @@ i2 :> 2
ThreeSegments == <<<<1, 2>>, <<3, 3>>>>
TwoWindows    == <<{1, 2}, {3}>>

LaneGroup == (d1 :> discovery @@ d2 :> discovery @@ d3 :> discovery
              @@ k1 :> critique @@ k2 :> critique)
LaneItems == discovery :> 5 @@ critique :> 3

VARIABLE part

partVars == <<part, vars, analysisVars, audioVars, admissionVars, slotVars>>

PartInit ==
    /\ part \in Parts
    /\ Init /\ AnalysisInit /\ AudioInit /\ AdmissionInit /\ SlotsInit
    /\ part # "stages" => analysis.overlapping
    /\ part # "clips" => audio.stage = "asr-source"

BatchGoes     == part = "batch" /\ Next
                 /\ UNCHANGED <<part, analysisVars, audioVars, admissionVars, slotVars>>
StagesGo      == part = "stages" /\ AnalysisNext
                 /\ UNCHANGED <<part, vars, audioVars, admissionVars, slotVars>>
ClipsGo       == part = "clips" /\ AudioStep
                 /\ UNCHANGED <<part, vars, analysisVars, admissionVars, slotVars>>
AdmissionGoes == part = "admission" /\ AdmissionNext
                 /\ UNCHANGED <<part, vars, analysisVars, audioVars, slotVars>>
SlotsGo       == part = "slots" /\ SlotsNext
                 /\ UNCHANGED <<part, vars, analysisVars, audioVars, admissionVars>>

PartNext == BatchGoes \/ StagesGo \/ ClipsGo \/ AdmissionGoes \/ SlotsGo

PartSpec == PartInit /\ [][PartNext]_partVars

(* The fairness of each part, for the behaviours that are its own.         *)
BatchFairness ==
    /\ \A c \in Submitters : WF_vars(part = "batch" /\ Submit(c))
    /\ \A p \in Pollers : WF_vars(part = "batch" /\ Poll(p))
    /\ \A s \in Stages :
         /\ WF_vars(part = "batch" /\ \E p \in Pollers : StartPoll(p, s))
         /\ WF_vars(part = "batch" /\ SchedulePending(s))
    /\ \A k \in Calls : WF_vars(part = "batch" /\ WindowEnds(k))

StagesFairness == WF_analysisVars(part = "stages" /\ (ProviderAnswers \/ StepGoesOn))

ClipsFairness == WF_audioVars(part = "clips" /\ AudioStep)

AdmissionFairness ==
    \A l \in Lanes :
      WF_admissionVars(part = "admission" /\ (\/ LaneEnds(l) \/ Enqueue(l) \/ Admit(l)
                                              \/ Resume(l) \/ Return(l)))

SlotsFairness ==
    /\ WF_slotVars(part = "slots" /\ SlotTime)
    /\ \A c \in SlotCallers : /\ WF_slotVars(part = "slots" /\ (Acquire(c) \/ TurnAway(c)))
                              /\ WF_slotVars(part = "slots" /\ Heartbeat(c))

FairPartSpec ==
    /\ PartSpec
    /\ BatchFairness /\ StagesFairness /\ ClipsFairness /\ AdmissionFairness /\ SlotsFairness

-----------------------------------------------------------------------------
\* Every variable of every part has its type.
PartTypesOK ==
    BatchTypeOK /\ AnalysisTypeOK /\ AudioTypeOK /\ AdmissionTypeOK /\ SlotTypeOK

\* Every part comes to rest: the analysis ends whatever the providers answer,
\* and so does the hearing of a video, whatever is heard in its clips;
\* no lane waits for ever unless a call has failed fatally, and a caller of the
\* provider gets a slot or gives up.
ComesToRest ==
    <>[](/\ part = "stages" => AnalysisEnded
         /\ part = "clips" => ~ Listening
         /\ part = "admission" => DrainedOrStopped
         /\ part = "slots" => NobodyAsks)

\* AllDrain of the same behaviours: tests/audited-recall.test.ts:27 has `all
\* started siblings drain`, also of the siblings of a fatal failure.
AllLanesDrain == part = "admission" => AllDrain
=============================================================================
