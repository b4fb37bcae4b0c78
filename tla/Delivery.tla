------------------------------ MODULE Delivery ------------------------------
(***************************************************************************)
(* The daily digest: prepareScheduledDigest of briefings.ts, deliverDue    *)
(* and sendPreview of email.ts, receiveEmailWebhook and                    *)
(* reconcileDeliveryEvents of webhooks.ts.                                 *)
(*                                                                         *)
(* A delivery is one document a day.  Sweeps prepare it, wait for its      *)
(* synthesis, claim it under a row lock and post it; the mail provider     *)
(* tells of its fate by webhooks, which come late, twice, in any order,    *)
(* and even before the sweep has stored the provider's id of the mail.     *)
(* Two sweeps overlap when one outlives the scheduler's lease, and a sweep *)
(* may die between any two statements.  A transaction reads what others    *)
(* have committed, statement by statement.                                 *)
(***************************************************************************)
EXTENDS Integers, FiniteSets

CONSTANTS
    Days,                            \* deliveries are named for their day
    Sweepers,                        \* sweeps under way at once
    Hooks,                           \* webhook requests under way at once
    Events, EventDay, EventAt,       \* webhook events: their mail and their date
    NoDelivery                       \* there is no such document

ASSUME DeliveryAssumption ==
    /\ EventDay \in [Events -> Days]
    /\ EventAt \in [Events -> Nat \ {0}]
    /\ NoDelivery \notin Days

VARIABLES
    delivery,    \* day -> its document
    synthesis,   \* day -> the state of its briefing run
    sweeper,     \* sweeper -> where it is, and what it holds
    mail,        \* days whose mail the provider has accepted
    hook,        \* webhook request -> the event it carries, and what it has read
    recorded,    \* events with an emailEvent document
    posts,       \* history: day -> requests to the provider
    putBack,     \* history: days made ready again from an old copy
    replayed,    \* history: days whose retained events were replayed
    late         \* history: events recorded unmatched for a mail that was known

history == <<posts, putBack, replayed, late>>

deliveryVars == <<delivery, synthesis, sweeper, mail, hook, recorded, history>>

DeliveryStatus == {"synthesizing", "preview_ready", "synthesis_failed", "sending",
                   "uncertain", "failed", "provider_accepted", "event"}

\* Status "event" stands for what the event of that date says of the mail.
Document == [status : DeliveryStatus, known : BOOLEAN,   \* providerId is stored
             eventAt : {0} \cup {EventAt[e] : e \in Events}]

SweeperPc == {"idle", "prepare", "read", "settle", "claim", "post", "put", "replay"}

Sweeper == [pc : SweeperPc, copy : [Days -> Document \cup {NoDelivery}],
            todo : SUBSET Days, at : Days \cup {NoDelivery}, outcome : DeliveryStatus]

ASSUME NoDeliveryAssumption == NoDelivery \notin Document

NoCopies == [d \in Days |-> NoDelivery]

IdleSweeper == [pc |-> "idle", copy |-> NoCopies, todo |-> {}, at |-> NoDelivery,
                outcome |-> "sending"]

IdleHook == [event |-> NoDelivery, matched |-> FALSE]

DeliveryInit ==
    /\ delivery = [d \in Days |-> NoDelivery]
    /\ synthesis = [d \in Days |-> "none"]
    /\ sweeper = [s \in Sweepers |-> IdleSweeper]
    /\ mail = {}
    /\ hook = [h \in Hooks |-> IdleHook]
    /\ recorded = {}
    /\ posts = [d \in Days |-> 0]
    /\ putBack = {}
    /\ replayed = {}
    /\ late = {}

-----------------------------------------------------------------------------
(* A sweep.                                                                *)

SweeperGo(s, pc) == sweeper' = [sweeper EXCEPT ![s].pc = pc]

SweeperEnds(s) == sweeper' = [sweeper EXCEPT ![s] = IdleSweeper]

Put(d, document) == delivery' = [delivery EXCEPT ![d] = document]

BeginDelivery(s) ==
    /\ sweeper[s].pc = "idle"
    /\ SweeperGo(s, "prepare")
    /\ UNCHANGED <<delivery, synthesis, mail, hook, recorded, history>>

NewDelivery(status) == [status |-> status, known |-> FALSE, eventAt |-> 0]

\* prepareScheduledDigest: the id of the day is free, and the briefing and its
\* run are created in the same transaction.  A day without research has no run.
PrepareDigest(s, d) ==
    /\ sweeper[s].pc = "prepare"
    /\ delivery[d] = NoDelivery
    /\ \/ /\ Put(d, NewDelivery("synthesizing"))
          /\ synthesis' = [synthesis EXCEPT ![d] = "running"]
       \/ /\ Put(d, NewDelivery("preview_ready"))
          /\ UNCHANGED synthesis
    /\ SweeperGo(s, "read")
    /\ UNCHANGED <<mail, hook, recorded, history>>

NothingToPrepare(s) ==
    /\ sweeper[s].pc = "prepare"
    /\ SweeperGo(s, "read")
    /\ UNCHANGED <<delivery, synthesis, mail, hook, recorded, history>>

HasStatus(d, status) == delivery[d] # NoDelivery /\ delivery[d].status = status

ReadDeliveries(s) ==
    /\ sweeper[s].pc = "read"
    /\ LET waiting == {d \in Days : HasStatus(d, "synthesizing")}
       IN  sweeper' = [sweeper EXCEPT ![s].pc = "settle", ![s].todo = waiting,
                         ![s].copy = [d \in Days |-> IF d \in waiting THEN delivery[d]
                                                     ELSE NoDelivery]]
    /\ UNCHANGED <<delivery, synthesis, mail, hook, recorded, history>>

\* What the run says of a delivery that waits for it.
SynthesisOutcome(d) ==
    CASE synthesis[d] = "completed" -> "preview_ready"
      [] synthesis[d] \in {"failed", "needs_review"} -> "synthesis_failed"
      [] OTHER -> "synthesizing"

\* The sweep's copy is put, whatever the document has become since.
SettleSynthesis(s, d) ==
    /\ sweeper[s].pc = "settle" /\ d \in sweeper[s].todo
    /\ IF SynthesisOutcome(d) = "synthesizing"
         THEN UNCHANGED <<delivery, putBack>>
         ELSE /\ Put(d, [sweeper[s].copy[d] EXCEPT !.status = SynthesisOutcome(d)])
              /\ putBack' = IF HasStatus(d, "synthesizing") THEN putBack
                            ELSE putBack \cup {d}
    /\ sweeper' = [sweeper EXCEPT ![s].todo = @ \ {d}, ![s].copy[d] = NoDelivery]
    /\ UNCHANGED <<synthesis, mail, hook, recorded, posts, replayed, late>>

\* The first preview that is ready is read for sending.
TakePreview(s, d) ==
    /\ sweeper[s].pc = "settle" /\ sweeper[s].todo = {}
    /\ HasStatus(d, "preview_ready")
    /\ sweeper' = [sweeper EXCEPT ![s].pc = "claim", ![s].at = d, ![s].copy[d] = delivery[d]]
    /\ UNCHANGED <<delivery, synthesis, mail, hook, recorded, history>>

\* No preview, or the digest or the sending of mail is switched off.
NothingToSend(s) ==
    /\ sweeper[s].pc = "settle" /\ sweeper[s].todo = {}
    /\ SweeperEnds(s)
    /\ UNCHANGED <<delivery, synthesis, mail, hook, recorded, history>>

Copy(s) == sweeper[s].copy[sweeper[s].at]

\* The claim, with the row locked: the preview is still ready, or it throws.
ClaimPreview(s) ==
    /\ sweeper[s].pc = "claim"
    /\ IF HasStatus(sweeper[s].at, "preview_ready")
         THEN /\ Put(sweeper[s].at, [Copy(s) EXCEPT !.status = "sending"])
              /\ SweeperGo(s, "post")
         ELSE SweeperEnds(s) /\ UNCHANGED delivery
    /\ UNCHANGED <<synthesis, mail, hook, recorded, history>>

Posted(s, outcome) ==
    /\ sweeper[s].pc = "post"
    /\ posts' = [posts EXCEPT ![sweeper[s].at] = @ + 1]
    /\ sweeper' = [sweeper EXCEPT ![s].pc = "put", ![s].outcome = outcome]
    /\ UNCHANGED <<delivery, synthesis, hook, recorded, putBack, replayed, late>>

PostAccepted(s) == /\ Posted(s, "provider_accepted")
                   /\ mail' = mail \cup {sweeper[s].at}

PostRefused(s) == Posted(s, "failed") /\ UNCHANGED mail

\* Mutant: what was lost is made ready for another try.
PostRetried(s) == /\ Posted(s, "preview_ready")
                  /\ mail' \in {mail, mail \cup {sweeper[s].at}}

\* The network fails, before or after the provider took the mail.
PostLost(s) == /\ Posted(s, "uncertain")
               /\ mail' \in {mail, mail \cup {sweeper[s].at}}

\* The provider's answer does not parse: the delivery stays as it was claimed.
PostGarbled(s) ==
    /\ sweeper[s].pc = "post"
    /\ posts' = [posts EXCEPT ![sweeper[s].at] = @ + 1]
    /\ mail' = mail \cup {sweeper[s].at}
    /\ SweeperEnds(s)
    /\ UNCHANGED <<delivery, synthesis, hook, recorded, putBack, replayed, late>>

\* The outcome goes into the copy that was read ahead of the claim.
PutOutcome(s) ==
    /\ sweeper[s].pc = "put"
    /\ LET accepted == sweeper[s].outcome = "provider_accepted"
       IN  /\ Put(sweeper[s].at, [Copy(s) EXCEPT !.status = sweeper[s].outcome,
                                                 !.known = accepted])
           /\ IF accepted THEN SweeperGo(s, "replay") ELSE SweeperEnds(s)
    /\ UNCHANGED <<synthesis, mail, hook, recorded, history>>

-----------------------------------------------------------------------------
(* Events.                                                                 *)

Retained(d) == {e \in recorded : EventDay[e] = d}

Latest(d) == CHOOSE e \in Retained(d) : \A f \in Retained(d) : EventAt[f] <= EventAt[e]

ApplyEvent(e) ==
    delivery' = [delivery EXCEPT ![EventDay[e]].status = "event",
                                 ![EventDay[e]].eventAt = EventAt[e]]

NotOlder(e) == EventAt[e] >= delivery[EventDay[e]].eventAt

\* Mutant: the events that came ahead of the acceptance are left alone.
ReplayNothing(s) ==
    /\ sweeper[s].pc = "replay"
    /\ replayed' = replayed \cup {sweeper[s].at}
    /\ SweeperEnds(s)
    /\ UNCHANGED <<delivery, synthesis, mail, hook, recorded, posts, putBack, late>>

\* reconcileDeliveryEvents, with the delivery's row locked.
ReplayEvents(s) ==
    /\ sweeper[s].pc = "replay"
    /\ LET d == sweeper[s].at
       IN  /\ IF delivery[d].known /\ Retained(d) # {} /\ NotOlder(Latest(d))
                THEN ApplyEvent(Latest(d)) ELSE UNCHANGED delivery
           /\ replayed' = IF delivery[d].known THEN replayed \cup {d} ELSE replayed
    /\ SweeperEnds(s)
    /\ UNCHANGED <<synthesis, mail, hook, recorded, posts, putBack, late>>

\* receiveEmailWebhook looks for a delivery with the event's mail ...
HookReads(h, e) ==
    /\ hook[h].event = NoDelivery
    /\ EventDay[e] \in mail
    /\ hook' = [hook EXCEPT ![h] = [event |-> e, matched |-> delivery[EventDay[e]].known]]
    /\ UNCHANGED <<delivery, synthesis, sweeper, mail, recorded, history>>

\* ... records the event unless it is a duplicate, and applies it to what it
\* found, if that row, locked, has no later one.
HookCommits(h) ==
    LET e == hook[h].event
        new == e \notin recorded
    IN  /\ e # NoDelivery
        /\ recorded' = recorded \cup {e}
        /\ IF new /\ hook[h].matched /\ NotOlder(e) THEN ApplyEvent(e) ELSE UNCHANGED delivery
        /\ late' = IF new /\ ~hook[h].matched /\ delivery[EventDay[e]].known
                     THEN late \cup {e} ELSE late
        /\ hook' = [hook EXCEPT ![h] = IdleHook]
        /\ UNCHANGED <<synthesis, sweeper, mail, posts, putBack, replayed>>

\* The transaction is rolled back; the provider sends the event again.
HookFails(h) ==
    /\ hook[h].event # NoDelivery
    /\ hook' = [hook EXCEPT ![h] = IdleHook]
    /\ UNCHANGED <<delivery, synthesis, sweeper, mail, recorded, history>>

-----------------------------------------------------------------------------
\* The briefing run ends, or an operator retries it.
SynthesisMoves(d) ==
    /\ \/ synthesis[d] = "running"
          /\ \E end \in {"completed", "failed", "needs_review"} :
               synthesis' = [synthesis EXCEPT ![d] = end]
       \/ synthesis[d] \in {"failed", "needs_review"}
          /\ synthesis' = [synthesis EXCEPT ![d] = "running"]
    /\ UNCHANGED <<delivery, sweeper, mail, hook, recorded, history>>

SweeperDies(s) ==
    /\ sweeper[s].pc # "idle"
    /\ SweeperEnds(s)
    /\ UNCHANGED <<delivery, synthesis, mail, hook, recorded, history>>

SweeperStep(s) ==
    \/ BeginDelivery(s) \/ NothingToPrepare(s) \/ ReadDeliveries(s) \/ NothingToSend(s)
    \/ \E d \in Days : PrepareDigest(s, d) \/ SettleSynthesis(s, d) \/ TakePreview(s, d)
    \/ ClaimPreview(s) \/ PostAccepted(s) \/ PostRefused(s) \/ PostLost(s) \/ PostGarbled(s)
    \/ PutOutcome(s) \/ ReplayEvents(s) \/ SweeperDies(s)

DeliveryNext ==
    \/ \E s \in Sweepers : SweeperStep(s)
    \/ \E h \in Hooks : (\E e \in Events : HookReads(h, e)) \/ HookCommits(h) \/ HookFails(h)
    \/ \E d \in Days : SynthesisMoves(d)

DeliverySpec == DeliveryInit /\ [][DeliveryNext]_deliveryVars

-----------------------------------------------------------------------------
(* Properties.                                                             *)

DeliveryTypeOK ==
    /\ delivery \in [Days -> Document \cup {NoDelivery}]
    /\ synthesis \in [Days -> {"none", "running", "completed", "failed", "needs_review"}]
    /\ sweeper \in [Sweepers -> Sweeper]
    /\ mail \subseteq Days /\ recorded \subseteq Events
    /\ hook \in [Hooks -> [event : Events \cup {NoDelivery}, matched : BOOLEAN]]

\* A digest is posted once: not by two sweeps that overlap, nor again after a
\* crash or an answer that was lost - unless a sweep that outlived its lease
\* has put an old copy of the delivery back.
PostedOnce == \A d \in Days \ putBack : posts[d] <= 1

\* The delivery shows this event, or a later one.
LatestShown(e) == delivery[EventDay[e]].eventAt >= EventAt[e]

\* Early, late, repeated and reordered events leave the latest outcome in
\* place once the retained ones were replayed, but for events recorded by a
\* webhook that looked for the mail before its id was stored and committed
\* after it.
OutcomeKept ==
    \A e \in recorded \ late : EventDay[e] \in replayed \ putBack => LatestShown(e)
=============================================================================
