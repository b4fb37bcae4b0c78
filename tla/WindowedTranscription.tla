------------------------ MODULE WindowedTranscription ------------------------
(***************************************************************************)
(* Listening to a video clip by clip: windowedAsrStep of windowed-asr.ts   *)
(* with missingRanges of chunking.ts.                                      *)
(*                                                                         *)
(* One step of the stage listens to one clip.  The whole video is listened *)
(* to when it has no captions (`asr-source`), and then once more wherever  *)
(* nothing was heard; or only the windows that claims cite, to confirm     *)
(* them (`asr-evidence`).  A clip whose answer cannot be used is halved.   *)
(*                                                                         *)
(* Time is counted in units, and an answer is the set of units in which    *)
(* something was said: what was said is data.  A paid answer is retained   *)
(* before the step saves what it makes of it, so a step that is lost finds *)
(* the answer when it is repeated; no clip is asked for in two steps, so   *)
(* that only the answer to the call at hand is kept here.                  *)
(***************************************************************************)
EXTENDS Integers, Sequences, FiniteSets, SequencesExt, FiniteSetsExt

CONSTANTS
    Duration,    \* of the video
    WindowUnits, \* settings.sources.windowSeconds
    GapUnits,    \* 300 s, the longest clip of a second hearing
    PauseUnits,  \* 3 s, silence that needs no explanation
    SplitUnits,  \* 30 s, clips no longer than this are not halved
    MaxDepth,    \* 3, second hearings of what a second hearing left
    MaxChecks,   \* 64
    CitedUnits   \* the units that passed claims cite

ASSUME AudioAssumption ==
    /\ Duration \in Nat \ {0} /\ WindowUnits \in Nat \ {0} /\ GapUnits \in Nat \ {0}
    /\ PauseUnits \in Nat /\ SplitUnits \in Nat \ {0}
    /\ MaxDepth \in Nat /\ MaxChecks \in Nat
    /\ CitedUnits \subseteq 0..(Duration - 1)

VARIABLES
    audio,     \* the run: its stage and status, and the asr fields of its output
    retained   \* the retained answer to the call of this step, if there is one

audioVars == <<audio, retained>>

\* From the first unit to the one before the second number.
Clip == {c \in (0..Duration) \X (0..Duration) : c[1] < c[2]}

Units(c) == c[1]..(c[2] - 1)

ClipLength(c) == c[2] - c[1]

Video == <<0, Duration>>

\* `clear`: readable, with what was heard, and if that is nothing, with the word
\* that the clip is silent.  `doubtful`: inaccessible, or empty without that word.
\* `garbled`: impossible timestamps, cut short, or not JSON.  `dense`: more words
\* than can be said in the time.  `unusable`: any other error.
ReplyKind == {"clear", "doubtful", "garbled", "dense", "unusable"}

Reply == [kind : ReplyKind, heard : SUBSET Units(Video)]

Hearing == [clip : Clip, heard : SUBSET Units(Video)]

Audio == [stage   : {"asr-source", "asr-evidence", "synthesis", "agree"},
          status  : {"queued", "needs_review", "failed"},
          plan    : Seq(Clip),
          windows : SUBSET Hearing,
          planned : BOOLEAN,      \* asrGapPlan is there
          gaps    : Seq(Clip),
          checks  : SUBSET Hearing,
          depth   : [Clip -> 0..MaxDepth]]

-----------------------------------------------------------------------------
Clips(listened) == {l.clip : l \in listened}

AllHeard(listened) == UNION {l.heard : l \in listened}

\* Clips that do not overlap, from the first to the last.
InOrder(clips) ==
    [i \in 1..Cardinality(clips) |->
       CHOOSE c \in clips : Cardinality({d \in clips : d[1] < c[1]}) = i - 1]

\* The clips of at most `length` that make up a range, the last of them shorter.
Slices(range, length) ==
    {<<a, IF a + length < range[2] THEN a + length ELSE range[2]>> :
       a \in {x \in Units(range) : (x - range[1]) % length = 0}}

Meets(clip, units) == Units(clip) \cap units # {}

\* planWindows: all of the video, or the windows that cited units fall into.
PlanWindows(stage) ==
    InOrder({w \in Slices(Video, WindowUnits) : stage = "asr-source" \/ Meets(w, CitedUnits)})

\* missingRanges: the stretches of a clip longer than a pause without speech.
MissingRanges(clip, heard) ==
    {r \in Clip :
       /\ Units(r) \subseteq Units(clip) \ heard
       /\ r[1] = clip[1] \/ r[1] - 1 \in heard
       /\ r[2] = clip[2] \/ r[2] \in heard
       /\ ClipLength(r) > PauseUnits}

AudioInit ==
    /\ \E stage \in {"asr-source", "asr-evidence"} :
         audio = [stage |-> stage, status |-> "queued", plan |-> PlanWindows(stage),
                  windows |-> {}, planned |-> FALSE, gaps |-> <<>>, checks |-> {},
                  depth |-> [c \in Clip |-> 0]]
    /\ retained = {}

-----------------------------------------------------------------------------
Listening == audio.status = "queued" /\ audio.stage \in {"asr-source", "asr-evidence"}

\* The places in a plan of the clips without an answer.
Left(plan, listened) == {i \in DOMAIN plan : plan[i] \notin Clips(listened)}

WindowsLeft == Left(audio.plan, audio.windows)

\* The clips of a second hearing are fixed when the last window was listened to.
FirstGaps ==
    InOrder(UNION {Slices(r, GapUnits) : r \in MissingRanges(Video, AllHeard(audio.windows))})

GapPlan ==
    CASE WindowsLeft # {} \/ audio.stage = "asr-evidence" -> <<>>
      [] audio.planned -> audio.gaps
      [] OTHER -> FirstGaps

GapsLeft == Left(GapPlan, audio.checks)

\* The call of this step, transcribe-asr-<start>-<end> or the same with -gap, if
\* there is one.
NextCall ==
    IF WindowsLeft # {} THEN {[clip |-> audio.plan[Min(WindowsLeft)], gap |-> FALSE]}
    ELSE IF GapsLeft # {} THEN {[clip |-> GapPlan[Min(GapsLeft)], gap |-> TRUE]}
    ELSE {}

\* The copy of the run as the step has it when it calls.
Current(call) == IF call.gap THEN [audio EXCEPT !.gaps = GapPlan, !.planned = TRUE] ELSE audio

\* The provider answers, for money, and the answer is retained.
Listen(call) ==
    /\ retained = {}
    /\ \E kind \in ReplyKind, heard \in SUBSET Units(call.clip) :
         /\ kind # "clear" => heard = {}
         /\ retained' = {[kind |-> kind, heard |-> heard]}
    /\ UNCHANGED audio

Answered(kind) == \E r \in retained : r.kind = kind

SaveAudio(copy) == audio' = copy /\ retained' = {}

SetAside(copy, status) == SaveAudio([copy EXCEPT !.status = status])

\* The source is complete, or the claims can be compared with what was heard.
Accept(copy) ==
    IF copy.stage = "asr-evidence" THEN SaveAudio([copy EXCEPT !.stage = "agree"])
    ELSE IF AllHeard(copy.windows \cup copy.checks) = {} THEN SetAside(copy, "needs_review")
    ELSE SaveAudio([copy EXCEPT !.stage = "synthesis"])

-----------------------------------------------------------------------------
\* Mutant: the first half takes the place of the clip.
HalvedOnce(plan, clip) ==
    LET middle == (clip[1] + clip[2]) \div 2
    IN  [i \in DOMAIN plan |-> IF plan[i] = clip THEN <<clip[1], middle>> ELSE plan[i]]

Halved(plan, clip) ==
    LET i == Min({j \in DOMAIN plan : plan[j] = clip})
        middle == (clip[1] + clip[2]) \div 2
    IN  SubSeq(plan, 1, i - 1) \o <<<<clip[1], middle>>, <<middle, clip[2]>>>>
          \o SubSeq(plan, i + 1, Len(plan))

\* An answer that may come out better for a shorter clip.
HalveClip(call) ==
    /\ Answered("garbled") \/ Answered("dense")
    /\ ClipLength(call.clip) > SplitUnits
    /\ IF call.gap THEN SaveAudio([Current(call) EXCEPT !.gaps = Halved(@, call.clip)])
                   ELSE SaveAudio([Current(call) EXCEPT !.plan = Halved(@, call.clip)])

\* `Bounded clip remains unreliable`, or nobody can tell whether it is silent.
AskAPerson(call) ==
    /\ \/ Answered("dense") /\ ClipLength(call.clip) <= SplitUnits
       \/ Answered("doubtful")
    /\ SetAside(Current(call), "needs_review")

\* windowedAsrStep throws.
ListeningFails(call) ==
    /\ \/ Answered("garbled") /\ ClipLength(call.clip) <= SplitUnits
       \/ Answered("unusable")
    /\ SetAside(Current(call), "failed")

Entry(call) == [clip |-> call.clip, heard |-> AllHeard(retained)]

\* A window is heard.  The last one may complete the source by itself.
TakeWindow(call) ==
    /\ Answered("clear") /\ ~ call.gap
    /\ LET copy == [audio EXCEPT !.windows = @ \cup {Entry(call)}]
       IN  IF \/ Cardinality(copy.windows) < Len(copy.plan)
              \/ /\ copy.stage = "asr-source"
                 /\ MissingRanges(Video, AllHeard(copy.windows)) # {}
             THEN SaveAudio(copy)
             ELSE Accept(copy)

\* What a second hearing leaves, if it heard anything.
Leftover(entry) == IF entry.heard = {} THEN {} ELSE MissingRanges(entry.clip, entry.heard)

\* A second hearing.  What it leaves is planned as well, up to a depth.
TakeCheck(call) ==
    /\ Answered("clear") /\ call.gap
    /\ LET copy == [Current(call) EXCEPT !.checks = @ \cup {Entry(call)}]
           depth == copy.depth[call.clip]
           new == Leftover(Entry(call)) \ ToSet(copy.gaps)
       IN  IF /\ Leftover(Entry(call)) # {}
              /\ depth >= MaxDepth \/ Cardinality(copy.checks) >= MaxChecks
             THEN SetAside(copy, "needs_review")
             ELSE SaveAudio([copy EXCEPT
                               !.gaps = @ \o InOrder(new),
                               !.depth = [c \in Clip |-> IF c \in new THEN depth + 1 ELSE @[c]]])

\* A step that finds nothing left to listen to.
HearingOver ==
    /\ NextCall = {}
    /\ Accept([audio EXCEPT !.planned = @ \/ audio.stage = "asr-source"])

AudioStep ==
    /\ Listening
    /\ \/ \E call \in NextCall :
            \/ Listen(call) \/ HalveClip(call) \/ AskAPerson(call) \/ ListeningFails(call)
            \/ TakeWindow(call) \/ TakeCheck(call)
       \/ HearingOver

AudioSpec == AudioInit /\ [][AudioStep]_audioVars

-----------------------------------------------------------------------------
(* Properties.                                                             *)

AudioTypeOK ==
    /\ audio \in Audio
    /\ retained \subseteq Reply

SilentFor(clip, heard) == UNION {Units(r) : r \in MissingRanges(clip, heard)}

\* `All planned clips processed; gaps over three seconds re-listened`: a source
\* is accepted only when every stretch in which the windows left a gap was
\* heard a second time, was found silent, or is a pause in a clip that was heard
\* a second time; and the claims are compared only when each of the units they
\* cite was listened to.  No half of a clip and no remainder is lost on the way.
EveryGapHeard ==
    /\ audio.stage = "synthesis" =>
         \A u \in SilentFor(Video, AllHeard(audio.windows)) :
           \E c \in audio.checks : /\ u \in Units(c.clip)
                                   /\ c.heard = {} \/ u \notin SilentFor(c.clip, c.heard)
    /\ audio.stage = "agree" =>
         \A u \in CitedUnits : \E w \in audio.windows : u \in Units(w.clip)
=============================================================================
