--------------------------- MODULE CaptionAttempts ---------------------------
(***************************************************************************)
(* Buying captions: managedTranscript and standbyTranscript of             *)
(* transcripts.ts, with the breaker of circuit-breaker.ts.                 *)
(*                                                                         *)
(* A finder is one execution of the `source` stage for a video.  It asks   *)
(* the draft provider, or while its breaker is open the standby, and keeps *)
(* one attempt document per provider and video.  Only the admission of a   *)
(* request is a transaction with a locked row: every other write puts a    *)
(* copy that the finder built from what it read, and a finder may be       *)
(* frozen or die between any two statements.  A finder that ends starts    *)
(* again when its run, or another run of the video, comes to the stage.    *)
(***************************************************************************)
EXTENDS Integers, FiniteSets

CONSTANTS
    Finders, Videos, VideoOf,   \* VideoOf: finder -> its video
    Draft, Standby,             \* TranscriptAPI, Supadata
    Nothing,                    \* no attempt document
    RetryAfter, Quiet, Window,  \* 2 s, 90 s and 50 min of managedTranscript
    Cooldown,                   \* sources.standbyCooldownMinutes
    MaxRequests,                \* at most three submissions
    Horizon                     \* bound: the last moment of the clock

ASSUME CaptionAssumption ==
    /\ VideoOf \in [Finders -> Videos]
    /\ Draft # Standby
    /\ RetryAfter \in Nat /\ Quiet \in Nat /\ Window \in Nat
    /\ Cooldown \in Nat /\ MaxRequests \in Nat \ {0} /\ Horizon \in Nat \ {0}

Providers == {Draft, Standby}

VARIABLES
    attempt,   \* provider -> video -> the managedCaptionAttempt document
    cached,    \* <<provider, video>> with a managedCaption document
    breaker,   \* provider -> the moment its breaker closes, 0 if never opened
    finder,    \* finder -> where it is, and what it holds
    clock,
    sent,      \* history: provider -> video -> requests admitted
    turned     \* history: provider -> video -> temporary HTTP failures answered

captionVars == <<attempt, cached, breaker, finder, clock, sent, turned>>

AttemptStatus == {"submitted", "pending", "failed", "unavailable", "mismatch",
                  "uncertain", "completed", "expired"}

Attempt == [status : AttemptStatus,
            number : 1..MaxRequests,
            at     : 0..Horizon,
            again  : BOOLEAN,    \* http is one of the temporary codes
            vendor : BOOLEAN]    \* vendorError is set

ASSUME NothingAssumption == Nothing \notin Attempt

FinderPc == {"idle", "standby", "cached", "prior", "admit", "inFlight", "poll",
             "store", "put", "asked", "trip"}

Finder == [pc : FinderPc, provider : Providers, now : 0..Horizon,
           prior : Attempt \cup {Nothing},   \* the document as it was read
           out   : Attempt \cup {Nothing}]   \* the document to write

IdleFinder == [pc |-> "idle", provider |-> Draft, now |-> 0,
               prior |-> Nothing, out |-> Nothing]

CaptionInit ==
    /\ attempt = [p \in Providers |-> [v \in Videos |-> Nothing]]
    /\ cached = {}
    /\ breaker = [p \in Providers |-> 0]
    /\ finder = [f \in Finders |-> IdleFinder]
    /\ clock = 1
    /\ sent = [p \in Providers |-> [v \in Videos |-> 0]]
    /\ turned = [p \in Providers |-> [v \in Videos |-> 0]]

-----------------------------------------------------------------------------
Recorded(f) == attempt[finder[f].provider][VideoOf[f]]

Key(f) == <<finder[f].provider, VideoOf[f]>>

\* isOpen, with the moment the finder started at.
BreakerOpen(p, now) == now < breaker[p]

MoveTo(f, pc) == finder' = [finder EXCEPT ![f].pc = pc]

Ends(f) == finder' = [finder EXCEPT ![f] = IdleFinder]

\* managedTranscript returned null: its copies are gone.
ReturnsNull(f) ==
    finder' = [finder EXCEPT ![f].pc = "asked", ![f].prior = Nothing, ![f].out = Nothing]

AskProvider(f, p) ==
    finder' = [finder EXCEPT ![f].pc = "cached", ![f].provider = p]

\* standbyTranscript: the draft, or the standby while the draft's breaker is open.
Start(f) ==
    /\ finder[f].pc = "idle"
    /\ finder' = [finder EXCEPT ![f].now = clock,
                                ![f].pc = IF BreakerOpen(Draft, clock) THEN "standby"
                                          ELSE "cached"]
    /\ UNCHANGED <<attempt, cached, breaker, clock, sent, turned>>

UseStandby(f) ==
    /\ finder[f].pc = "standby"
    /\ IF BreakerOpen(Standby, finder[f].now) THEN Ends(f) ELSE AskProvider(f, Standby)
    /\ UNCHANGED <<attempt, cached, breaker, clock, sent, turned>>

ReadCached(f) ==
    /\ finder[f].pc = "cached"
    /\ IF Key(f) \in cached THEN Ends(f) ELSE MoveTo(f, "prior")
    /\ UNCHANGED <<attempt, cached, breaker, clock, sent, turned>>

Age(a) == clock - a.at

Retryable(a) == /\ a.status = "failed" /\ a.again
                /\ a.number < MaxRequests /\ Age(a) > RetryAfter

\* The finder goes on with the document as it is, or to close it.
Takes(f, pc) == finder' = [finder EXCEPT ![f].pc = pc, ![f].prior = Recorded(f)]

Closes(f, status) ==
    finder' = [finder EXCEPT ![f].pc = "put", ![f].prior = Recorded(f),
                             ![f].out = [Recorded(f) EXCEPT !.status = status]]

\* What managedTranscript does about the document it reads.  SourcePending
\* ends the finder; a status that is final sends it to look at the failure.
ReadPrior(f) ==
    /\ finder[f].pc = "prior"
    /\ LET a == Recorded(f)
       IN  \/ a = Nothing /\ Takes(f, "admit")
           \/ /\ a # Nothing
              /\ \/ a.status = "pending" /\ Age(a) > Window /\ Closes(f, "expired")
                 \/ a.status = "pending" /\ Age(a) <= Window /\ Takes(f, "poll")
                 \/ a.status = "submitted" /\ Age(a) < Quiet /\ Ends(f)
                 \/ a.status = "submitted" /\ Age(a) >= Quiet /\ Closes(f, "uncertain")
                 \/ Retryable(a) /\ Takes(f, "admit")
                 \/ /\ a.status \notin {"pending", "submitted"} /\ ~ Retryable(a)
                    /\ ReturnsNull(f)
    /\ UNCHANGED <<attempt, cached, breaker, clock, sent, turned>>

\* Mutant: the row is not compared with what was read.
StillFailed(f) ==
    \/ Recorded(f) = Nothing
    \/ finder[f].prior # Nothing

\* The admission transaction: the row is locked and must still be what was
\* read (a number stands for the `at` of its submission).
StillAsRead(f) ==
    \/ Recorded(f) = Nothing
    \/ /\ finder[f].prior # Nothing /\ Recorded(f).status = "failed"
       /\ Recorded(f).number = finder[f].prior.number

Admission(f) ==
    [status |-> "submitted", at |-> clock, again |-> FALSE, vendor |-> FALSE,
     number |-> IF finder[f].prior = Nothing THEN 1 ELSE finder[f].prior.number + 1]

Submit(f) ==
    /\ finder[f].pc = "admit" /\ StillAsRead(f)
    /\ attempt' = [attempt EXCEPT ![finder[f].provider][VideoOf[f]] = Admission(f)]
    /\ finder' = [finder EXCEPT ![f].pc = "inFlight", ![f].prior = Admission(f)]
    /\ sent' = [sent EXCEPT ![finder[f].provider][VideoOf[f]] = @ + 1]
    /\ UNCHANGED <<cached, breaker, clock, turned>>

\* Not admitted (`Caption request already recorded`), or over the credit
\* budget: either way no request, and the breaker is left alone.
Decline(f) ==
    /\ finder[f].pc = "admit"
    /\ Ends(f)
    /\ UNCHANGED <<attempt, cached, breaker, clock, sent, turned>>

Reply(f, status, again, vendor) ==
    finder' = [finder EXCEPT
                 ![f].pc = IF status = "completed" THEN "store" ELSE "put",
                 ![f].out = [finder[f].prior EXCEPT !.status = status,
                                                    !.again = again, !.vendor = vendor]]

\* 206, 404, 401 and the like, 202 with a job, captions, captions in another
\* language, or a body that does not parse.
Answered(f) ==
    /\ finder[f].pc = "inFlight"
    /\ \E status \in {"unavailable", "failed", "pending", "completed", "mismatch",
                      "uncertain"} : Reply(f, status, FALSE, FALSE)
    /\ UNCHANGED <<attempt, cached, breaker, clock, sent, turned>>

\* 429 or 5xx.
TurnedAway(f) ==
    /\ finder[f].pc = "inFlight"
    /\ Reply(f, "failed", TRUE, TRUE)
    /\ turned' = [turned EXCEPT ![finder[f].provider][VideoOf[f]] = @ + 1]
    /\ UNCHANGED <<attempt, cached, breaker, clock, sent>>

\* A timeout or a network error.
NoAnswer(f) ==
    /\ finder[f].pc = "inFlight"
    /\ Reply(f, "uncertain", FALSE, TRUE)
    /\ UNCHANGED <<attempt, cached, breaker, clock, sent, turned>>

\* The job of an earlier request.  Not ready or unreachable ends the finder.
Poll(f) ==
    /\ finder[f].pc = "poll"
    /\ \/ Ends(f)
       \/ \E status \in {"failed", "completed", "mismatch"} :
            Reply(f, status, FALSE, finder[f].prior.vendor)
    /\ UNCHANGED <<attempt, cached, breaker, clock, sent, turned>>

\* Mutant: the attempt is closed ahead of the captions.
StoreAfter(f) ==
    /\ finder[f].pc = "store"
    /\ attempt' = [attempt EXCEPT ![finder[f].provider][VideoOf[f]] = finder[f].out]
    /\ MoveTo(f, "put")
    /\ UNCHANGED <<cached, breaker, clock, sent, turned>>

Store(f) ==
    /\ finder[f].pc = "store"
    /\ cached' = cached \cup {Key(f)}
    /\ MoveTo(f, "put")
    /\ UNCHANGED <<attempt, breaker, clock, sent, turned>>

\* An unconditional put of the finder's own copy.
PutAttempt(f) ==
    /\ finder[f].pc = "put"
    /\ attempt' = [attempt EXCEPT ![finder[f].provider][VideoOf[f]] = finder[f].out]
    /\ IF finder[f].out.status \in {"pending", "completed"} THEN Ends(f)
       ELSE ReturnsNull(f)
    /\ UNCHANGED <<cached, breaker, clock, sent, turned>>

\* vendorFailure: of the document as it is now, whoever wrote it and when.
VendorFailed(a) == a # Nothing /\ a.vendor /\ a.status \in {"failed", "uncertain"}

CheckVendor(f) ==
    /\ finder[f].pc = "asked"
    /\ IF VendorFailed(Recorded(f)) THEN MoveTo(f, "trip") ELSE Ends(f)
    /\ UNCHANGED <<attempt, cached, breaker, clock, sent, turned>>

Trip(f) ==
    /\ finder[f].pc = "trip"
    /\ breaker' = [breaker EXCEPT ![finder[f].provider] = finder[f].now + Cooldown]
    /\ IF finder[f].provider = Draft THEN MoveTo(f, "standby") ELSE Ends(f)
    /\ UNCHANGED <<attempt, cached, clock, sent, turned>>

Perish(f) ==
    /\ finder[f].pc # "idle"
    /\ Ends(f)
    /\ UNCHANGED <<attempt, cached, breaker, clock, sent, turned>>

ClockTicks ==
    /\ clock < Horizon
    /\ clock' = clock + 1
    /\ UNCHANGED <<attempt, cached, breaker, finder, sent, turned>>

FinderStep(f) ==
    \/ Start(f) \/ UseStandby(f) \/ ReadCached(f) \/ ReadPrior(f)
    \/ Submit(f) \/ Decline(f) \/ Answered(f) \/ TurnedAway(f) \/ NoAnswer(f)
    \/ Poll(f) \/ Store(f) \/ PutAttempt(f) \/ CheckVendor(f) \/ Trip(f) \/ Perish(f)

CaptionNext == ClockTicks \/ \E f \in Finders : FinderStep(f)

CaptionSpec == CaptionInit /\ [][CaptionNext]_captionVars

-----------------------------------------------------------------------------
(* Properties.                                                             *)

CaptionTypeOK ==
    /\ attempt \in [Providers -> [Videos -> Attempt \cup {Nothing}]]
    /\ cached \subseteq Providers \X Videos
    /\ breaker \in [Providers -> 0..(Horizon + Cooldown)]
    /\ finder \in [Finders -> Finder]
    /\ clock \in 0..Horizon
    /\ sent \in [Providers -> [Videos -> 0..MaxRequests]]

\* A provider is asked again for a video only after it turned the request
\* before away: two finders that read the same failure, a finder whose document
\* changed under it and a put of an old copy do not buy a caption twice.
NoDuplicateRequest ==
    \A p \in Providers, v \in Videos : sent[p][v] <= turned[p][v] + 1

\* An attempt is closed as completed only when its captions are stored: no
\* later finder asks for a completed one again, so a crash between the two
\* writes would lose what was paid for.
CompletedIsStored ==
    \A p \in Providers, v \in Videos :
      attempt[p][v] # Nothing /\ attempt[p][v].status = "completed" => <<p, v>> \in cached
=============================================================================
