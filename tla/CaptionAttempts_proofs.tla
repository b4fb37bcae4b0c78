----------------------- MODULE CaptionAttempts_proofs -----------------------
(***************************************************************************)
(* No caption is bought twice, and none that was paid for is lost, for any *)
(* number of finders, videos and retries.                                  *)
(*                                                                         *)
(* Only the admission of a request compares the document with what was     *)
(* read: every other write puts a copy, and the copy may be old.  What     *)
(* saves the purchase is what old copies can say.  Of all requests of a    *)
(* provider for a video the last one alone may still be in flight, polled  *)
(* or reported as anything but `uncertain`, and `uncertain` is never asked *)
(* again.                                                                  *)
(***************************************************************************)
EXTENDS CaptionAttempts, TLAPS

Holders == {"admit", "inFlight", "poll", "store", "put"}

Writing(x) == x.pc \in {"store", "put"}

OnKey(x, f, p, v) == x.provider = p /\ VideoOf[f] = v

\* A request that was turned away and may be repeated.
TurnedDown(a) == a.status = "failed" /\ a.again

\* A document that may be written, or was, when `s` requests were sent and `t`
\* of them turned away: it is about the last request, or says `uncertain`, and
\* it says that the last one was turned away only if it was.
Telling(a, s, t) ==
    /\ a.number <= s
    /\ a.number < s => a.status = "uncertain"
    /\ t = s => a.status \in {"submitted", "uncertain"} \/ TurnedDown(a)
    /\ t < s => ~ TurnedDown(a)

\* What a finder holds, by where it is.
Holds(x, s, t) ==
    /\ x.pc = "admit" =>
         \/ x.prior = Nothing
         \/ /\ x.prior \in Attempt /\ TurnedDown(x.prior)
            /\ x.prior.number <= s /\ x.prior.number < MaxRequests
            /\ x.prior.number = s => t = s
    /\ x.pc \in {"inFlight", "poll"} => x.prior \in Attempt /\ x.prior.number = s /\ t < s
    /\ Writing(x) => /\ x.out \in Attempt /\ Telling(x.out, s, t)
                     /\ x.out.status # "submitted"
    /\ x.pc = "store" => x.out.status = "completed"

\* While a request is in flight nobody else knows more than that it was sent.
SoleRequest(p, v) ==
    \A f \in Finders :
      OnKey(finder[f], f, p, v) /\ finder[f].pc = "inFlight" =>
        /\ attempt[p][v] # Nothing /\ attempt[p][v].status \in {"submitted", "uncertain"}
        /\ \A g \in Finders \ {f} : OnKey(finder[g], g, p, v) =>
             /\ finder[g].pc \notin {"inFlight", "poll"}
             /\ Writing(finder[g]) => finder[g].out.status = "uncertain"

\* That the last request was turned away is reported once.
ToldOnce(p, v) ==
    turned[p][v] = sent[p][v] =>
      \A f \in Finders :
        OnKey(finder[f], f, p, v) /\ Writing(finder[f]) /\ finder[f].out.status = "failed" =>
          /\ attempt[p][v] # Nothing => attempt[p][v].status # "failed"
          /\ \A g \in Finders \ {f} :
               OnKey(finder[g], g, p, v) /\ Writing(finder[g]) => finder[g].out.status # "failed"

KeyInv(p, v) ==
    /\ turned[p][v] <= sent[p][v] /\ sent[p][v] <= turned[p][v] + 1
    /\ attempt[p][v] = Nothing => sent[p][v] = 0
    /\ attempt[p][v] # Nothing => Telling(attempt[p][v], sent[p][v], turned[p][v])
    /\ \A f \in Finders : OnKey(finder[f], f, p, v) =>
                            Holds(finder[f], sent[p][v], turned[p][v])
    /\ SoleRequest(p, v)
    /\ ToldOnce(p, v)

\* A copy that says `completed` is written once the captions are stored.
Stored ==
    /\ CompletedIsStored
    /\ \A f \in Finders : finder[f].pc = "put" /\ finder[f].out.status = "completed" =>
                            Key(f) \in cached

Types ==
    /\ CaptionTypeOK
    /\ turned \in [Providers -> [Videos -> Nat]]

CaptionInv ==
    /\ Types
    /\ Stored
    /\ \A p \in Providers, v \in Videos : KeyInv(p, v)

-----------------------------------------------------------------------------
(* Steps that leave the documents and the counts alone.                    *)

\* A copy is a document, and not the lack of one.
LEMMA CopyType ==
    ASSUME NEW a \in Attempt
    PROVE  /\ a # Nothing /\ a.status \in AttemptStatus /\ a.number \in 1..MaxRequests
           /\ a.number \in Nat /\ a.at \in 0..Horizon /\ a.again \in BOOLEAN
           /\ a.vendor \in BOOLEAN
  BY NothingAssumption, CaptionAssumption DEF Attempt

\* No finder, no document, no request.
LEMMA CaptionInitHolds == CaptionInit => CaptionInv
<1> SUFFICES ASSUME CaptionInit PROVE CaptionInv
  OBVIOUS
<1>1. IdleFinder \in Finder /\ IdleFinder.pc = "idle"
  BY CaptionAssumption DEF IdleFinder, Finder, FinderPc, Providers
<1>2. finder = [f \in Finders |-> IdleFinder]
      /\ attempt = [p \in Providers |-> [v \in Videos |-> Nothing]]
      /\ sent = [p \in Providers |-> [v \in Videos |-> 0]]
      /\ turned = [p \in Providers |-> [v \in Videos |-> 0]]
      /\ breaker = [p \in Providers |-> 0] /\ clock = 1 /\ cached = {}
  BY DEF CaptionInit
<1>3. Types
  BY <1>1, <1>2, CaptionAssumption DEF Types, CaptionTypeOK
<1>4. Stored
  BY <1>1, <1>2 DEF Stored, CompletedIsStored
<1>5. ASSUME NEW p \in Providers, NEW v \in Videos
      PROVE  KeyInv(p, v)
  <2>1. \A f \in Finders : finder[f].pc = "idle"
    BY <1>1, <1>2
  <2>2. attempt[p][v] = Nothing /\ sent[p][v] = 0 /\ turned[p][v] = 0
    BY <1>2
  <2> QED
    BY <2>1, <2>2 DEF KeyInv, Holds, Writing, SoleRequest, ToldOnce
<1> QED
  BY <1>3, <1>4, <1>5 DEF CaptionInv

\* A finder that holds nothing afterwards, or is about another key, takes nothing
\* from what is known of this one.
LEMMA Elsewhere ==
    ASSUME NEW p \in Providers, NEW v \in Videos, KeyInv(p, v),
           NEW f \in Finders, NEW new,
           finder \in [Finders -> Finder], finder' = [finder EXCEPT ![f] = new],
           new.pc \notin Holders \/ ~ OnKey(new, f, p, v),
           attempt'[p][v] = attempt[p][v], sent'[p][v] = sent[p][v],
           turned'[p][v] = turned[p][v]
    PROVE  KeyInv(p, v)'
<1>1. \A g \in Finders : finder'[g] = IF g = f THEN new ELSE finder[g]
  OBVIOUS
<1>2. \A g \in Finders : OnKey(finder'[g], g, p, v) /\ finder'[g].pc \in Holders =>
                           g # f /\ finder'[g] = finder[g]
  BY <1>1
<1> DEFINE s == sent[p][v]
           t == turned[p][v]
<1>3. \A g \in Finders : OnKey(finder'[g], g, p, v) => Holds(finder'[g], s, t)
  BY <1>1, <1>2 DEF KeyInv, Holds, Holders, Writing
<1>4. SoleRequest(p, v)'
  BY <1>1, <1>2 DEF KeyInv, SoleRequest, Holders, Writing, OnKey
<1>5. ToldOnce(p, v)'
  BY <1>1, <1>2 DEF KeyInv, ToldOnce, Holders, Writing, OnKey
<1> QED
  BY <1>3, <1>4, <1>5 DEF KeyInv

\* A finder comes to hold what its place allows.
LEMMA TakesUp ==
    ASSUME NEW p \in Providers, NEW v \in Videos, KeyInv(p, v),
           NEW f \in Finders, NEW new,
           finder \in [Finders -> Finder], finder' = [finder EXCEPT ![f] = new],
           attempt'[p][v] = attempt[p][v], sent'[p][v] = sent[p][v],
           turned'[p][v] = turned[p][v],
           Holds(new, sent[p][v], turned[p][v]),
           new.pc # "inFlight",
           new.pc = "poll" \/ (Writing(new) /\ new.out.status # "uncertain") =>
             \A g \in Finders \ {f} : ~ (OnKey(finder[g], g, p, v) /\ finder[g].pc = "inFlight"),
           Writing(new) /\ new.out.status = "failed" => turned[p][v] # sent[p][v]
    PROVE  KeyInv(p, v)'
<1>1. \A g \in Finders : finder'[g] = IF g = f THEN new ELSE finder[g]
  OBVIOUS
<1> DEFINE s == sent[p][v]
           t == turned[p][v]
<1>2. \A g \in Finders : OnKey(finder'[g], g, p, v) => Holds(finder'[g], s, t)
  BY <1>1 DEF KeyInv
<1>3. SoleRequest(p, v)'
  <2> SUFFICES ASSUME NEW g \in Finders, OnKey(finder'[g], g, p, v), finder'[g].pc = "inFlight"
               PROVE  /\ attempt'[p][v] # Nothing
                      /\ attempt'[p][v].status \in {"submitted", "uncertain"}
                      /\ \A h \in Finders \ {g} : OnKey(finder'[h], h, p, v) =>
                           /\ finder'[h].pc \notin {"inFlight", "poll"}
                           /\ Writing(finder'[h]) => finder'[h].out.status = "uncertain"
    BY DEF SoleRequest
  <2>1. g # f /\ finder'[g] = finder[g]
    BY <1>1
  <2>2. /\ attempt[p][v] # Nothing /\ attempt[p][v].status \in {"submitted", "uncertain"}
        /\ \A h \in Finders \ {g} : OnKey(finder[h], h, p, v) =>
             /\ finder[h].pc \notin {"inFlight", "poll"}
             /\ Writing(finder[h]) => finder[h].out.status = "uncertain"
    BY <2>1 DEF KeyInv, SoleRequest
  <2> QED
    BY <1>1, <2>1, <2>2
<1>4. ToldOnce(p, v)'
  <2> SUFFICES ASSUME t = s, NEW g \in Finders, OnKey(finder'[g], g, p, v),
                      Writing(finder'[g]), finder'[g].out.status = "failed"
               PROVE  /\ attempt'[p][v] # Nothing => attempt'[p][v].status # "failed"
                      /\ \A h \in Finders \ {g} :
                           OnKey(finder'[h], h, p, v) /\ Writing(finder'[h])
                             => finder'[h].out.status # "failed"
    BY DEF ToldOnce
  <2>1. g # f /\ finder'[g] = finder[g]
    BY <1>1
  <2>2. /\ attempt[p][v] # Nothing => attempt[p][v].status # "failed"
        /\ \A h \in Finders \ {g} :
             OnKey(finder[h], h, p, v) /\ Writing(finder[h]) => finder[h].out.status # "failed"
    BY <2>1 DEF KeyInv, ToldOnce
  <2> QED
    BY <1>1, <2>1, <2>2
<1> QED
  BY <1>2, <1>3, <1>4 DEF KeyInv

\* A finder moves on with nothing in hand.
LEMMA QuietStep ==
    ASSUME CaptionInv, NEW f \in Finders, NEW new \in Finder,
           finder' = [finder EXCEPT ![f] = new], new.pc \notin Holders,
           breaker' \in [Providers -> 0..(Horizon + Cooldown)],
           UNCHANGED <<attempt, cached, clock, sent, turned>>
    PROVE  CaptionInv'
<1>1. Types /\ Stored /\ finder \in [Finders -> Finder]
  BY DEF CaptionInv, Types, CaptionTypeOK
<1>2. Types'
  BY <1>1 DEF Types, CaptionTypeOK
<1>3. Stored'
  BY <1>1 DEF Stored, CompletedIsStored, Key, Holders
<1>4. \A p \in Providers, v \in Videos : KeyInv(p, v)'
  BY <1>1, Elsewhere DEF CaptionInv
<1> QED
  BY <1>2, <1>3, <1>4 DEF CaptionInv

\* A finder moves on with a copy in hand.
LEMMA HoldStep ==
    ASSUME CaptionInv, NEW f \in Finders, NEW new \in Finder,
           finder' = [finder EXCEPT ![f] = new], new.provider = finder[f].provider,
           cached \subseteq cached', cached' \subseteq Providers \X Videos,
           UNCHANGED <<attempt, breaker, clock, sent, turned>>,
           Holds(new, sent[new.provider][VideoOf[f]], turned[new.provider][VideoOf[f]]),
           new.pc # "inFlight",
           new.pc = "poll" \/ (Writing(new) /\ new.out.status # "uncertain") =>
             \A g \in Finders \ {f} :
               ~ (OnKey(finder[g], g, new.provider, VideoOf[f]) /\ finder[g].pc = "inFlight"),
           Writing(new) /\ new.out.status = "failed" =>
             turned[new.provider][VideoOf[f]] # sent[new.provider][VideoOf[f]],
           new.pc = "put" /\ new.out.status = "completed" => Key(f) \in cached'
    PROVE  CaptionInv'
<1>1. Types /\ Stored /\ finder \in [Finders -> Finder]
  BY DEF CaptionInv, Types, CaptionTypeOK
<1>2. Types'
  BY <1>1 DEF Types, CaptionTypeOK
<1>3. \A g \in Finders : finder'[g] = IF g = f THEN new ELSE finder[g]
  BY <1>1
<1>4. Stored'
  <2>1. CompletedIsStored'
    BY <1>1 DEF Stored, CompletedIsStored
  <2>2. ASSUME NEW g \in Finders, finder'[g].pc = "put", finder'[g].out.status = "completed"
        PROVE  Key(g)' \in cached'
    <3>1. CASE g = f
      BY <1>3, <2>2, <3>1 DEF Key
    <3>2. CASE g # f
      BY <1>1, <1>3, <2>2, <3>2 DEF Key, Stored
    <3> QED
      BY <3>1, <3>2
  <2> QED
    BY <2>1, <2>2 DEF Stored
<1>5. ASSUME NEW p \in Providers, NEW v \in Videos
      PROVE  KeyInv(p, v)'
  <2>1. KeyInv(p, v)
    BY DEF CaptionInv
  <2>2. CASE OnKey(new, f, p, v)
    <3>1. new.provider = p /\ VideoOf[f] = v
      BY <2>2 DEF OnKey
    <3> QED
      BY <1>1, <2>1, <3>1, TakesUp
  <2>3. CASE ~ OnKey(new, f, p, v)
    BY <1>1, <2>1, <2>3, Elsewhere
  <2> QED
    BY <2>2, <2>3
<1> QED
  BY <1>2, <1>4, <1>5 DEF CaptionInv

\* The steps of a finder with nothing in hand, and those with which it ends.
LEMMA QuietSteps ==
    ASSUME CaptionInv, NEW f \in Finders,
           \/ Start(f) \/ UseStandby(f) \/ ReadCached(f) \/ Decline(f) \/ CheckVendor(f)
           \/ Trip(f) \/ Perish(f)
    PROVE  CaptionInv'
<1> DEFINE x == finder[f]
<1>0. x \in Finder /\ finder \in [Finders -> Finder] /\ clock \in 0..Horizon
      /\ breaker \in [Providers -> 0..(Horizon + Cooldown)]
  BY DEF CaptionInv, Types, CaptionTypeOK
<1>1. IdleFinder \in Finder /\ IdleFinder.pc \notin Holders
  BY CaptionAssumption DEF IdleFinder, Finder, FinderPc, Providers, Holders
<1>2. ASSUME NEW pc \in FinderPc, pc \notin Holders, MoveTo(f, pc),
             UNCHANGED <<attempt, cached, breaker, clock, sent, turned>>
      PROVE  CaptionInv'
  <2> DEFINE new == [x EXCEPT !.pc = pc]
  <2>1. new \in Finder /\ new.pc = pc /\ finder' = [finder EXCEPT ![f] = new]
    BY <1>0, <1>2 DEF Finder, MoveTo
  <2> HIDE DEF new
  <2> QED
    BY <1>0, <1>2, <2>1, QuietStep
<1>3. ASSUME Ends(f), UNCHANGED <<attempt, cached, breaker, clock, sent, turned>>
      PROVE  CaptionInv'
  BY <1>0, <1>1, <1>3, QuietStep DEF Ends
<1>4. CASE Start(f)
  <2> DEFINE pc == IF BreakerOpen(Draft, clock) THEN "standby" ELSE "cached"
             new == [x EXCEPT !.now = clock, !.pc = pc]
  <2>1. pc \in {"standby", "cached"}
    OBVIOUS
  <2>2. finder' = [finder EXCEPT ![f] = new]
    BY <1>0, <1>4 DEF Start, Finder
  <2> HIDE DEF pc
  <2>3. new \in Finder /\ new.pc = pc
    BY <1>0, <2>1 DEF Finder, FinderPc
  <2> HIDE DEF new
  <2>4. new.pc \notin Holders
    BY <2>1, <2>3 DEF Holders
  <2> QED
    BY <1>0, <1>4, <2>2, <2>3, <2>4, QuietStep DEF Start
<1>5. CASE UseStandby(f)
  <2>1. CASE AskProvider(f, Standby)
    <3> DEFINE new == [x EXCEPT !.pc = "cached", !.provider = Standby]
    <3>1. new \in Finder /\ new.pc = "cached" /\ finder' = [finder EXCEPT ![f] = new]
      BY <1>0, <2>1 DEF Finder, FinderPc, Providers, AskProvider
    <3> HIDE DEF new
    <3>2. new.pc \notin Holders
      BY <3>1 DEF Holders
    <3> QED
      BY <1>0, <1>5, <3>1, <3>2, QuietStep DEF UseStandby
  <2> QED
    BY <1>3, <1>5, <2>1 DEF UseStandby
<1>6. CASE ReadCached(f)
  BY <1>2, <1>3, <1>6 DEF ReadCached, FinderPc, Holders
<1>7. CASE Decline(f) \/ Perish(f)
  BY <1>3, <1>7 DEF Decline, Perish
<1>8. CASE CheckVendor(f)
  BY <1>2, <1>3, <1>8 DEF CheckVendor, FinderPc, Holders
<1>9. CASE Trip(f)
  <2>1. breaker' \in [Providers -> 0..(Horizon + Cooldown)]
    <3>1. x.provider \in Providers /\ x.now \in 0..Horizon
      BY <1>0 DEF Finder
    <3>2. x.now + Cooldown \in 0..(Horizon + Cooldown)
      BY <3>1, CaptionAssumption
    <3> QED
      BY <1>0, <1>9, <3>1, <3>2 DEF Trip
  <2>2. CASE MoveTo(f, "standby")
    <3> DEFINE new == [x EXCEPT !.pc = "standby"]
    <3>1. new \in Finder /\ new.pc \notin Holders /\ finder' = [finder EXCEPT ![f] = new]
      BY <1>0, <2>2 DEF Finder, FinderPc, Holders, MoveTo
    <3> HIDE DEF new
    <3> QED
      BY <1>9, <2>1, <3>1, QuietStep DEF Trip
  <2>3. CASE Ends(f)
    BY <1>1, <1>9, <2>1, <2>3, QuietStep DEF Ends, Trip
  <2> QED
    BY <1>9, <2>2, <2>3 DEF Trip
<1> QED
  BY <1>4, <1>5, <1>6, <1>7, <1>8, <1>9

-----------------------------------------------------------------------------
(* Steps with a copy in hand.                                              *)

\* What a finder makes of the document it reads: only the last request can be
\* polled or given up as expired, and only one that was turned away repeated.
LEMMA ReadPriorKeeps ==
    ASSUME CaptionInv, NEW f \in Finders, ReadPrior(f)
    PROVE  CaptionInv'
<1> DEFINE x == finder[f]
           p == x.provider
           v == VideoOf[f]
           a == Recorded(f)
           s == sent[p][v]
           t == turned[p][v]
<1>0. /\ x \in Finder /\ finder \in [Finders -> Finder] /\ p \in Providers /\ v \in Videos
      /\ cached \subseteq Providers \X Videos /\ KeyInv(p, v)
      /\ breaker \in [Providers -> 0..(Horizon + Cooldown)]
      /\ UNCHANGED <<attempt, cached, breaker, clock, sent, turned>>
  BY CaptionAssumption DEF CaptionInv, Types, CaptionTypeOK, Finder, ReadPrior
<1>1. a = attempt[p][v] /\ a \in Attempt \cup {Nothing} /\ s \in Nat /\ t \in Nat
      /\ t <= s /\ s <= t + 1
  BY <1>0, CaptionAssumption DEF Recorded, CaptionInv, Types, CaptionTypeOK, KeyInv
<1> HIDE DEF a
<1>2. ASSUME Ends(f) PROVE CaptionInv'
  <2>1. IdleFinder \in Finder /\ IdleFinder.pc \notin Holders
    BY CaptionAssumption DEF IdleFinder, Finder, FinderPc, Providers, Holders
  <2> QED
    BY <1>0, <1>2, <2>1, QuietStep DEF Ends
<1>3. ASSUME ReturnsNull(f) PROVE CaptionInv'
  <2> DEFINE new == [x EXCEPT !.pc = "asked", !.prior = Nothing, !.out = Nothing]
  <2>1. new \in Finder /\ new.pc \notin Holders /\ finder' = [finder EXCEPT ![f] = new]
    BY <1>0, <1>3 DEF Finder, FinderPc, Holders, ReturnsNull
  <2> HIDE DEF new
  <2> QED
    BY <1>0, <2>1, QuietStep
<1>4. ASSUME NEW pc \in {"admit", "poll"}, Takes(f, pc),
             pc = "admit" => a = Nothing \/ Retryable(a),
             pc = "poll" => a # Nothing /\ a.status = "pending"
      PROVE  CaptionInv'
  <2> DEFINE new == [x EXCEPT !.pc = pc, !.prior = a]
  <2>1. new \in Finder /\ new.pc = pc /\ new.prior = a /\ new.provider = p
        /\ finder' = [finder EXCEPT ![f] = new]
    BY <1>0, <1>1, <1>4 DEF Finder, FinderPc, Takes, a
  <2> HIDE DEF new
  <2>2. a # Nothing => /\ Telling(a, s, t) /\ a.number \in Nat /\ a \in Attempt
    BY <1>0, <1>1, CopyType DEF KeyInv
  <2>3. Retryable(a) /\ a # Nothing => TurnedDown(a) /\ a.number < MaxRequests /\ t = s
    BY <1>1, <2>2 DEF Retryable, Telling, TurnedDown
  <2>4. a # Nothing /\ a.status = "pending" => a.number = s /\ t < s
    BY <1>1, <2>2 DEF Telling, TurnedDown
  <2>5. Holds(new, s, t)
    BY <1>4, <2>1, <2>2, <2>3, <2>4 DEF Holds, Writing, Telling
  <2>6. pc = "poll" =>
          \A g \in Finders \ {f} : ~ (OnKey(finder[g], g, p, v) /\ finder[g].pc = "inFlight")
    BY <1>0, <1>1, <1>4 DEF KeyInv, SoleRequest
  <2>7. ~ Writing(new) /\ new.pc # "inFlight" /\ new.pc # "put"
    BY <1>4, <2>1 DEF Writing
  <2> QED
    BY <1>0, <2>1, <2>5, <2>6, <2>7, HoldStep
<1>5. ASSUME NEW status \in {"expired", "uncertain"}, a # Nothing, Closes(f, status),
             status = "expired" => a.status = "pending"
      PROVE  CaptionInv'
  <2> DEFINE out == [a EXCEPT !.status = status]
             new == [x EXCEPT !.pc = "put", !.prior = a, !.out = out]
  <2>1. a \in Attempt /\ Telling(a, s, t) /\ a.number \in Nat
    BY <1>0, <1>1, <1>5, CopyType DEF KeyInv
  <2>2. out \in Attempt /\ out.status = status /\ out.number = a.number /\ out.again = a.again
    BY <1>5, <2>1 DEF Attempt, AttemptStatus
  <2>3. finder' = [finder EXCEPT ![f] = new]
    BY <1>0, <1>5 DEF Finder, Closes, a
  <2> HIDE DEF out
  <2>4. new \in Finder /\ new.pc = "put" /\ new.out = out /\ new.provider = p
    BY <1>0, <2>1, <2>2 DEF Finder, FinderPc
  <2> HIDE DEF new
  <2>5. status = "expired" => a.number = s /\ t < s
    BY <1>1, <1>5, <2>1 DEF Telling, TurnedDown
  <2>6. Telling(out, s, t)
    BY <1>1, <1>5, <2>1, <2>2, <2>5 DEF Telling, TurnedDown
  <2>7. Holds(new, s, t) /\ Writing(new)
    BY <1>5, <2>2, <2>4, <2>6 DEF Holds, Writing
  <2>8. new.out.status # "uncertain" =>
          \A g \in Finders \ {f} : ~ (OnKey(finder[g], g, p, v) /\ finder[g].pc = "inFlight")
    BY <1>0, <1>1, <1>5, <2>2, <2>4 DEF KeyInv, SoleRequest
  <2>9. new.out.status \notin {"failed", "completed"}
    BY <1>5, <2>2, <2>4
  <2> QED
    BY <1>0, <2>3, <2>4, <2>7, <2>8, <2>9, HoldStep
<1> QED
  BY <1>2, <1>3, <1>4, <1>5 DEF ReadPrior, a

\* An answer that is not a refusal: whoever brings it is the only one who had the
\* request, or polls one that was accepted, so nobody is in flight.
LEMMA AnswerKeeps ==
    ASSUME CaptionInv, NEW f \in Finders, finder[f].pc \in {"inFlight", "poll"},
           NEW status \in AttemptStatus \ {"submitted"}, NEW vendor \in BOOLEAN,
           Reply(f, status, FALSE, vendor),
           UNCHANGED <<attempt, cached, breaker, clock, sent, turned>>
    PROVE  CaptionInv'
<1> DEFINE p == finder[f].provider
           v == VideoOf[f]
           s == sent[p][v]
           t == turned[p][v]
<1>1. /\ finder[f] \in Finder /\ p \in Providers /\ v \in Videos /\ KeyInv(p, v)
      /\ cached \subseteq Providers \X Videos /\ s \in Nat /\ t \in Nat
  BY CaptionAssumption DEF CaptionInv, Types, CaptionTypeOK, Finder
<1>2. t < s /\ OnKey(finder[f], f, p, v) /\ finder[f].prior \in Attempt
      /\ finder[f].prior.number = s
  BY <1>1 DEF KeyInv, Holds, OnKey
<1> DEFINE out == [finder[f].prior EXCEPT !.status = status, !.again = FALSE, !.vendor = vendor]
<1>3. out \in Attempt /\ out.status = status /\ ~ out.again /\ out.number = s
  BY <1>2 DEF Attempt
<1> DEFINE pc == IF status = "completed" THEN "store" ELSE "put"
           new == [finder[f] EXCEPT !.pc = pc, !.out = out]
<1>a. finder' = [finder EXCEPT ![f] = new]
  BY <1>1 DEF Reply, Finder
<1> HIDE DEF out
<1>b. new \in Finder /\ new.provider = p /\ new.out = out /\ new.pc = pc
      /\ finder' = [finder EXCEPT ![f] = new]
  BY <1>1, <1>3, <1>a DEF Finder, FinderPc
<1> HIDE DEF new
<1>4. Telling(new.out, s, t)
  BY <1>1, <1>2, <1>3, <1>b DEF Telling, TurnedDown
<1>5. Holds(new, s, t) /\ new.pc \in {"store", "put"} /\ Writing(new)
  BY <1>3, <1>4, <1>b DEF Holds, Writing
<1>6. \A g \in Finders \ {f} : ~ (OnKey(finder[g], g, p, v) /\ finder[g].pc = "inFlight")
  BY <1>1, <1>2 DEF KeyInv, SoleRequest
<1>7. ~ (new.pc = "put" /\ new.out.status = "completed")
  BY <1>3, <1>b
<1>8. ~ Writing(new) \/ turned[p][v] # sent[p][v]
  BY <1>1, <1>2
<1>9. cached \subseteq cached' /\ cached' \subseteq Providers \X Videos
  BY <1>1
<1> QED
  BY <1>5, <1>6, <1>7, <1>8, <1>9, <1>b, HoldStep

\* Answers, polls, and the captions that are stored ahead of the document.
LEMMA AnswerSteps ==
    ASSUME CaptionInv, NEW f \in Finders, Answered(f) \/ NoAnswer(f) \/ Poll(f) \/ Store(f)
    PROVE  CaptionInv'
<1>1. CASE Answered(f)
  <2>1. PICK status \in {"unavailable", "failed", "pending", "completed", "mismatch",
                         "uncertain"} : Reply(f, status, FALSE, FALSE)
    BY <1>1 DEF Answered
  <2> QED
    BY <1>1, <2>1, AnswerKeeps DEF Answered, AttemptStatus
<1>2. CASE NoAnswer(f)
  BY <1>2, AnswerKeeps DEF NoAnswer, AttemptStatus
<1>3. CASE Poll(f)
  <2> DEFINE vendor == finder[f].prior.vendor
  <2>1. vendor \in BOOLEAN /\ finder[f].pc = "poll" /\ finder[f] \in Finder
    <3>1. finder[f] \in Finder /\ KeyInv(finder[f].provider, VideoOf[f])
      BY CaptionAssumption DEF CaptionInv, Types, CaptionTypeOK, Finder
    <3>2. finder[f].pc = "poll"
      BY <1>3 DEF Poll
    <3> QED
      BY <3>1, <3>2, CopyType DEF KeyInv, Holds, OnKey
  <2>2. CASE Ends(f)
    <3>1. IdleFinder \in Finder /\ IdleFinder.pc \notin Holders
      BY CaptionAssumption DEF IdleFinder, Finder, FinderPc, Providers, Holders
    <3> QED
      BY <1>3, <2>2, <3>1, QuietStep DEF Ends, Poll, CaptionInv, Types, CaptionTypeOK
  <2>3. ASSUME NEW status \in {"failed", "completed", "mismatch"},
               Reply(f, status, FALSE, vendor)
        PROVE  CaptionInv'
    BY <1>3, <2>1, <2>3, AnswerKeeps DEF Poll, AttemptStatus
  <2> QED
    BY <1>3, <2>2, <2>3 DEF Poll
<1>4. CASE Store(f)
  <2> DEFINE x == finder[f]
             p == x.provider
             v == VideoOf[f]
             new == [x EXCEPT !.pc = "put"]
  <2>1. /\ x \in Finder /\ finder \in [Finders -> Finder] /\ p \in Providers /\ v \in Videos
        /\ KeyInv(p, v) /\ cached \subseteq Providers \X Videos /\ x.pc = "store"
    BY <1>4, CaptionAssumption DEF CaptionInv, Types, CaptionTypeOK, Finder, Store
  <2>2. new \in Finder /\ new.pc = "put" /\ new.out = x.out /\ new.provider = p
        /\ finder' = [finder EXCEPT ![f] = new]
    BY <1>4, <2>1 DEF Finder, FinderPc, Store, MoveTo
  <2> HIDE DEF new
  <2>3. OnKey(x, f, p, v) /\ Holds(x, sent[p][v], turned[p][v]) /\ Writing(x)
    BY <2>1 DEF KeyInv, OnKey, Writing
  <2>4. Holds(new, sent[p][v], turned[p][v]) /\ new.out.status = "completed" /\ Writing(new)
    BY <2>1, <2>2, <2>3 DEF Holds, Writing
  <2>5. \A g \in Finders \ {f} : ~ (OnKey(finder[g], g, p, v) /\ finder[g].pc = "inFlight")
    BY <2>1, <2>2, <2>3, <2>4 DEF KeyInv, SoleRequest
  <2>6. cached \subseteq cached' /\ cached' \subseteq Providers \X Videos /\ Key(f) \in cached'
    BY <1>4, <2>1 DEF Store, Key
  <2> QED
    BY <1>4, <2>1, <2>2, <2>4, <2>5, <2>6, HoldStep DEF Store
<1> QED
  BY <1>1, <1>2, <1>3, <1>4

-----------------------------------------------------------------------------
(* Steps that send, refuse and write.                                      *)

\* The request that is in flight is turned away: it was the last one, and nobody
\* else has anything to say of it.
LEMMA TurnedAwayKeeps ==
    ASSUME CaptionInv, NEW f \in Finders, TurnedAway(f)
    PROVE  CaptionInv'
<1>0. /\ finder[f] \in Finder /\ finder[f].provider \in Providers /\ VideoOf[f] \in Videos
      /\ \A p \in Providers, v \in Videos : sent[p][v] \in Nat /\ turned[p][v] \in Nat
  BY CaptionAssumption DEF CaptionInv, Types, CaptionTypeOK, Finder
<1>d. PICK p \in Providers, v \in Videos, s \in Nat, t \in Nat :
        p = finder[f].provider /\ v = VideoOf[f] /\ s = sent[p][v] /\ t = turned[p][v]
  BY <1>0
<1>1. /\ finder \in [Finders -> Finder] /\ finder[f] \in Finder
      /\ KeyInv(p, v) /\ Types /\ Stored
      /\ finder[f].pc = "inFlight" /\ OnKey(finder[f], f, p, v)
      /\ UNCHANGED <<attempt, cached, breaker, clock, sent>>
      /\ turned' = [turned EXCEPT ![p] = [turned[p] EXCEPT ![v] = @ + 1]]
  BY <1>d DEF CaptionInv, Types, CaptionTypeOK, TurnedAway, OnKey
<1>4. t < s /\ s <= t + 1 /\ finder[f].prior \in Attempt /\ finder[f].prior.number = s
  BY <1>1, <1>d DEF KeyInv, Holds
<1> DEFINE out == [finder[f].prior EXCEPT !.status = "failed", !.again = TRUE, !.vendor = TRUE]
<1>a. out \in Attempt /\ out.status = "failed" /\ out.again /\ out.number = s
  BY <1>4 DEF Attempt, AttemptStatus
<1> DEFINE new == [finder[f] EXCEPT !.pc = "put", !.out = out]
<1>b. finder' = [finder EXCEPT ![f] = new]
  BY <1>1 DEF Reply, TurnedAway, Finder
<1> HIDE DEF out
<1>c. new \in Finder /\ new.provider = p /\ new.out = out /\ new.pc = "put"
  BY <1>1, <1>a, <1>d DEF Finder, FinderPc
<1> HIDE DEF new
<1>2. /\ new.out \in Attempt /\ TurnedDown(new.out) /\ new.out.number = s
      /\ new.out.status = "failed"
  BY <1>a, <1>c DEF TurnedDown
<1>3. \A g \in Finders : finder'[g] = IF g = f THEN new ELSE finder[g]
  BY <1>1, <1>b
<1>5. turned'[p][v] = s /\ turned' \in [Providers -> [Videos -> Nat]]
  <2>1. turned \in [Providers -> [Videos -> Nat]] /\ s = t + 1
    BY <1>1, <1>4 DEF Types
  <2> QED
    BY <1>1, <1>d, <2>1
<1>6. Types'
  BY <1>1, <1>b, <1>c, <1>5 DEF Types, CaptionTypeOK
<1>7. Stored'
  BY <1>1, <1>2, <1>3, <1>c DEF Stored, CompletedIsStored, Key
<1>8. /\ attempt[p][v] # Nothing /\ attempt[p][v].status \in {"submitted", "uncertain"}
      /\ \A g \in Finders \ {f} : OnKey(finder[g], g, p, v) =>
           /\ finder[g].pc \notin {"inFlight", "poll"}
           /\ Writing(finder[g]) => finder[g].out.status = "uncertain"
  BY <1>1 DEF KeyInv, SoleRequest
<1>9. KeyInv(p, v)'
  <2>1. Telling(attempt[p][v], s, s)
    BY <1>1, <1>4, <1>8, <1>d DEF KeyInv, Telling, TurnedDown
  <2>2. ASSUME NEW g \in Finders, OnKey(finder'[g], g, p, v)
        PROVE  Holds(finder'[g], s, s)
    <3>1. CASE g = f
      <4>1. Telling(new.out, s, s)
        BY <1>2 DEF Telling
      <4> QED
        BY <1>2, <1>3, <1>c, <3>1, <4>1 DEF Holds, Writing
    <3>2. CASE g # f
      <4>1. OnKey(finder[g], g, p, v) /\ Holds(finder[g], s, t) /\ finder'[g] = finder[g]
        BY <1>1, <1>3, <1>d, <2>2, <3>2 DEF KeyInv
      <4>2. Writing(finder[g]) => Telling(finder[g].out, s, s)
        <5> SUFFICES ASSUME Writing(finder[g]) PROVE Telling(finder[g].out, s, s)
          OBVIOUS
        <5>1. finder[g].out.status = "uncertain" /\ finder[g].out \in Attempt
              /\ Telling(finder[g].out, s, t)
          BY <1>8, <3>2, <4>1 DEF Holds
        <5>2. finder[g].out.number \in Nat
          BY <5>1, CopyType
        <5> QED
          BY <5>1, <5>2 DEF Telling
      <4> QED
        BY <1>8, <3>2, <4>1, <4>2 DEF Holds
    <3> QED
      BY <3>1, <3>2
  <2>3. SoleRequest(p, v)'
    BY <1>3, <1>8, <1>c DEF SoleRequest
  <2>4. ToldOnce(p, v)'
    <3> SUFFICES ASSUME NEW g \in Finders, OnKey(finder'[g], g, p, v),
                        Writing(finder'[g]), finder'[g].out.status = "failed"
                 PROVE  /\ attempt'[p][v].status # "failed"
                        /\ \A h \in Finders \ {g} :
                             OnKey(finder'[h], h, p, v) /\ Writing(finder'[h])
                               => finder'[h].out.status # "failed"
      BY DEF ToldOnce
    <3>1. g = f
      BY <1>3, <1>8
    <3> QED
      BY <1>1, <1>3, <1>8, <3>1
  <2>5. attempt'[p][v] = attempt[p][v] /\ sent'[p][v] = s
    BY <1>1, <1>d
  <2> QED
    BY <1>5, <1>8, <2>1, <2>2, <2>3, <2>4, <2>5 DEF KeyInv
<1>10. ASSUME NEW q \in Providers, NEW w \in Videos, q # p \/ w # v
       PROVE  KeyInv(q, w)'
  <2>1. turned'[q][w] = turned[q][w]
    BY <1>1, <1>10 DEF Types
  <2>2. ~ OnKey(new, f, q, w) /\ KeyInv(q, w)
    BY <1>c, <1>d, <1>10 DEF OnKey, CaptionInv
  <2> QED
    BY <1>1, <1>b, <2>1, <2>2, Elsewhere
<1> QED
  BY <1>6, <1>7, <1>9, <1>10 DEF CaptionInv

\* A request is sent for a key nobody asked for, or whose last request was turned
\* away: nobody is in flight, and all copies that are left are `uncertain`.
LEMMA SubmitKeeps ==
    ASSUME CaptionInv, NEW f \in Finders, Submit(f)
    PROVE  CaptionInv'
<1>0. /\ finder[f] \in Finder /\ finder[f].provider \in Providers /\ VideoOf[f] \in Videos
      /\ \A p \in Providers, v \in Videos : sent[p][v] \in Nat /\ turned[p][v] \in Nat
  BY CaptionAssumption DEF CaptionInv, Types, CaptionTypeOK, Finder
<1>d. PICK p \in Providers, v \in Videos, s \in Nat, t \in Nat :
        p = finder[f].provider /\ v = VideoOf[f] /\ s = sent[p][v] /\ t = turned[p][v]
  BY <1>0
<1> DEFINE prior == finder[f].prior
           doc == Admission(f)
           new == [finder[f] EXCEPT !.pc = "inFlight", !.prior = doc]
<1>1. /\ finder \in [Finders -> Finder] /\ finder[f] \in Finder
      /\ KeyInv(p, v) /\ Types /\ Stored /\ clock \in 0..Horizon
      /\ finder[f].pc = "admit" /\ OnKey(finder[f], f, p, v) /\ Recorded(f) = attempt[p][v]
      /\ UNCHANGED <<cached, breaker, clock, turned>>
      /\ attempt' = [attempt EXCEPT ![p] = [attempt[p] EXCEPT ![v] = doc]]
      /\ sent' = [sent EXCEPT ![p] = [sent[p] EXCEPT ![v] = s + 1]]
      /\ finder' = [finder EXCEPT ![f] = new]
  BY <1>d DEF CaptionInv, Types, CaptionTypeOK, Submit, OnKey, Recorded, Finder
<1>2. /\ t <= s /\ attempt[p][v] \in Attempt \cup {Nothing}
      /\ attempt[p][v] = Nothing => s = 0
      /\ attempt[p][v] # Nothing => Telling(attempt[p][v], s, t)
      /\ Holds(finder[f], s, t)
  BY <1>1, <1>d DEF KeyInv, Types, CaptionTypeOK
<1>3. prior # Nothing => /\ prior \in Attempt /\ prior.number \in Nat \ {0}
                         /\ prior.number <= s /\ prior.number < MaxRequests
                         /\ prior.number = s => t = s
  BY <1>1, <1>2, CopyType DEF Holds
<1>5. t = s /\ doc.number = s + 1 /\ s + 1 \in 1..MaxRequests
  <2>1. CASE attempt[p][v] = Nothing
    <3>1. s = 0 /\ prior = Nothing
      BY <1>2, <1>3, <2>1
    <3> QED
      BY <1>2, <3>1, CaptionAssumption DEF Admission
  <2>2. CASE attempt[p][v] # Nothing
    <3>1. prior # Nothing /\ attempt[p][v].status = "failed"
          /\ attempt[p][v].number = prior.number
      BY <1>1, <2>2 DEF Submit, StillAsRead
    <3>2. prior.number = s
      BY <1>2, <1>3, <2>2, <3>1 DEF Telling
    <3> QED
      BY <1>3, <3>1, <3>2, CaptionAssumption DEF Admission
  <2> QED
    BY <2>1, <2>2
<1>6. doc \in Attempt /\ doc.status = "submitted"
  BY <1>1, <1>5 DEF Admission, Attempt, AttemptStatus
<1> HIDE DEF doc
<1>7. doc # Nothing /\ new \in Finder /\ new.provider = p /\ new.pc = "inFlight"
      /\ new.prior = doc
  BY <1>1, <1>6, <1>d, NothingAssumption DEF Finder, FinderPc
<1> HIDE DEF new
<1>8. \A g \in Finders : finder'[g] = IF g = f THEN new ELSE finder[g]
  BY <1>1
<1>9. /\ attempt' \in [Providers -> [Videos -> Attempt \cup {Nothing}]]
      /\ attempt'[p][v] = doc
      /\ \A q \in Providers, w \in Videos : q # p \/ w # v => attempt'[q][w] = attempt[q][w]
  <2>1. attempt \in [Providers -> [Videos -> Attempt \cup {Nothing}]]
    BY <1>1 DEF Types, CaptionTypeOK
  <2> QED
    BY <1>1, <1>6, <2>1
<1>10. /\ sent' \in [Providers -> [Videos -> 0..MaxRequests]]
       /\ sent'[p][v] = s + 1
       /\ \A q \in Providers, w \in Videos : q # p \/ w # v => sent'[q][w] = sent[q][w]
  <2>1. sent \in [Providers -> [Videos -> 0..MaxRequests]] /\ s + 1 \in 0..MaxRequests
    BY <1>1, <1>5 DEF Types, CaptionTypeOK
  <2> QED
    BY <1>1, <2>1
<1>11. Types'
  BY <1>1, <1>7, <1>9, <1>10 DEF Types, CaptionTypeOK
<1>12. Stored'
  BY <1>1, <1>6, <1>7, <1>8, <1>9 DEF Stored, CompletedIsStored, Key
<1>13. ASSUME NEW g \in Finders \ {f}, OnKey(finder[g], g, p, v)
       PROVE  /\ finder[g].pc \notin {"inFlight", "poll"}
              /\ Writing(finder[g]) => finder[g].out.status = "uncertain"
              /\ Holds(finder[g], s + 1, s)
  <2>1. Holds(finder[g], s, s)
    BY <1>1, <1>5, <1>13, <1>d DEF KeyInv
  <2>2. finder[g].pc \notin {"inFlight", "poll"}
    BY <2>1 DEF Holds
  <2>3. ASSUME Writing(finder[g])
        PROVE  finder[g].out.status = "uncertain" /\ finder[g].out.number <= s + 1
               /\ finder[g].out.number \in Nat
    <3>1. finder[g].out \in Attempt /\ Telling(finder[g].out, s, s)
          /\ finder[g].out.status # "submitted"
      BY <2>1, <2>3 DEF Holds
    <3>2. finder[g].out.number \in Nat \ {0} /\ finder[g].out.number <= s
      BY <3>1, CopyType DEF Telling
    <3>3. finder[g].out.status # "failed"
      <4>1. attempt[p][v] # Nothing
        BY <1>2, <3>2
      <4>2. attempt[p][v].status = "failed"
        BY <1>1, <4>1 DEF Submit, StillAsRead
      <4> QED
        BY <1>1, <1>5, <1>13, <1>d, <2>3, <4>1, <4>2 DEF KeyInv, ToldOnce
    <3> QED
      BY <3>1, <3>2, <3>3 DEF Telling, TurnedDown
  <2>4. Writing(finder[g]) => Telling(finder[g].out, s + 1, s)
    BY <2>3 DEF Telling, TurnedDown
  <2>5. finder[g].pc = "admit" /\ finder[g].prior # Nothing =>
          finder[g].prior.number \in Nat
    BY <2>1, CopyType DEF Holds
  <2>6. Holds(finder[g], s + 1, s)
    BY <2>1, <2>2, <2>4, <2>5 DEF Holds
  <2> QED
    BY <2>2, <2>3, <2>6
<1>14. KeyInv(p, v)'
  <2>1. Telling(doc, s + 1, s)
    BY <1>5, <1>6 DEF Telling, TurnedDown
  <2>2. Holds(new, s + 1, s)
    BY <1>5, <1>6, <1>7 DEF Holds, Writing
  <2>3. \A g \in Finders : OnKey(finder'[g], g, p, v) => Holds(finder'[g], s + 1, s)
    BY <1>8, <1>13, <2>2
  <2>4. SoleRequest(p, v)'
    <3> SUFFICES ASSUME NEW g \in Finders, OnKey(finder'[g], g, p, v),
                        finder'[g].pc = "inFlight"
                 PROVE  /\ attempt'[p][v] # Nothing
                        /\ attempt'[p][v].status \in {"submitted", "uncertain"}
                        /\ \A h \in Finders \ {g} : OnKey(finder'[h], h, p, v) =>
                             /\ finder'[h].pc \notin {"inFlight", "poll"}
                             /\ Writing(finder'[h]) => finder'[h].out.status = "uncertain"
      BY DEF SoleRequest
    <3>1. g = f
      BY <1>8, <1>13
    <3> QED
      BY <1>6, <1>7, <1>8, <1>9, <1>13, <3>1
  <2>5. turned'[p][v] = s
    BY <1>1, <1>5, <1>d
  <2>6. ToldOnce(p, v)'
    BY <1>10, <2>5 DEF ToldOnce
  <2> QED
    BY <1>7, <1>9, <1>10, <2>1, <2>3, <2>4, <2>5, <2>6 DEF KeyInv
<1>15. ASSUME NEW q \in Providers, NEW w \in Videos, q # p \/ w # v
       PROVE  KeyInv(q, w)'
  <2>1. ~ OnKey(new, f, q, w) /\ KeyInv(q, w)
    BY <1>7, <1>d, <1>15 DEF OnKey, CaptionInv
  <2>2. attempt'[q][w] = attempt[q][w] /\ sent'[q][w] = sent[q][w]
        /\ turned'[q][w] = turned[q][w]
    BY <1>1, <1>9, <1>10, <1>15
  <2> QED
    BY <1>1, <2>1, <2>2, Elsewhere
<1> QED
  BY <1>11, <1>12, <1>14, <1>15 DEF CaptionInv

\* A copy is put over whatever the document says: it is `uncertain`, or about the
\* last request.
LEMMA PutAttemptKeeps ==
    ASSUME CaptionInv, NEW f \in Finders, PutAttempt(f)
    PROVE  CaptionInv'
<1>0. /\ finder[f] \in Finder /\ finder[f].provider \in Providers /\ VideoOf[f] \in Videos
      /\ \A p \in Providers, v \in Videos : sent[p][v] \in Nat /\ turned[p][v] \in Nat
  BY CaptionAssumption DEF CaptionInv, Types, CaptionTypeOK, Finder
<1>d. PICK p \in Providers, v \in Videos, s \in Nat, t \in Nat :
        p = finder[f].provider /\ v = VideoOf[f] /\ s = sent[p][v] /\ t = turned[p][v]
  BY <1>0
<1>1. PICK doc : doc = finder[f].out
  OBVIOUS
<1>2. /\ finder \in [Finders -> Finder] /\ finder[f] \in Finder
      /\ KeyInv(p, v) /\ Types /\ Stored
      /\ finder[f].pc = "put" /\ OnKey(finder[f], f, p, v)
      /\ UNCHANGED <<cached, breaker, clock, sent, turned>>
      /\ attempt' = [attempt EXCEPT ![p] = [attempt[p] EXCEPT ![v] = doc]]
  BY <1>1, <1>d DEF CaptionInv, Types, CaptionTypeOK, PutAttempt, OnKey
<1>3. PICK new \in Finder : new.pc \notin Holders /\ finder' = [finder EXCEPT ![f] = new]
  <2>1. CASE Ends(f)
    <3>1. IdleFinder \in Finder /\ IdleFinder.pc \notin Holders
      BY CaptionAssumption DEF IdleFinder, Finder, FinderPc, Providers, Holders
    <3> QED
      BY <2>1, <3>1 DEF Ends
  <2>2. CASE ReturnsNull(f)
    <3> DEFINE x == [finder[f] EXCEPT !.pc = "asked", !.prior = Nothing, !.out = Nothing]
    <3>1. x \in Finder /\ x.pc = "asked" /\ finder' = [finder EXCEPT ![f] = x]
      BY <1>2, <2>2 DEF Finder, FinderPc, ReturnsNull
    <3> HIDE DEF x
    <3> QED
      BY <3>1 DEF Holders
  <2> QED
    BY <2>1, <2>2 DEF PutAttempt
<1>4. \A g \in Finders : finder'[g] = IF g = f THEN new ELSE finder[g]
  BY <1>2, <1>3
<1>5. Writing(finder[f]) /\ doc \in Attempt /\ Telling(doc, s, t) /\ doc # Nothing
  BY <1>1, <1>2, <1>d, NothingAssumption DEF KeyInv, Holds, Writing
<1>6. /\ attempt' \in [Providers -> [Videos -> Attempt \cup {Nothing}]]
      /\ attempt'[p][v] = doc
      /\ \A q \in Providers, w \in Videos : q # p \/ w # v => attempt'[q][w] = attempt[q][w]
  <2>1. attempt \in [Providers -> [Videos -> Attempt \cup {Nothing}]]
    BY <1>2 DEF Types, CaptionTypeOK
  <2> QED
    BY <1>2, <1>5, <2>1
<1>7. Types'
  BY <1>2, <1>3, <1>6 DEF Types, CaptionTypeOK
<1>8. Stored'
  <2>1. doc.status = "completed" => <<p, v>> \in cached
    BY <1>1, <1>2, <1>d DEF Stored, Key
  <2>2. CompletedIsStored'
    BY <1>2, <1>6, <2>1 DEF Stored, CompletedIsStored
  <2>3. ASSUME NEW g \in Finders, finder'[g].pc = "put", finder'[g].out.status = "completed"
        PROVE  Key(g)' \in cached'
    <3>1. g # f /\ finder'[g] = finder[g]
      BY <1>3, <1>4, <2>3 DEF Holders
    <3> QED
      BY <1>2, <2>3, <3>1 DEF Stored, Key
  <2> QED
    BY <2>2, <2>3 DEF Stored
<1>9. \A g \in Finders : OnKey(finder'[g], g, p, v) /\ finder'[g].pc \in Holders =>
                           g # f /\ finder'[g] = finder[g]
  BY <1>3, <1>4
<1>10. KeyInv(p, v)'
  <2>1. \A g \in Finders : OnKey(finder'[g], g, p, v) => Holds(finder'[g], s, t)
    BY <1>2, <1>4, <1>9, <1>d DEF KeyInv, Holds, Holders, Writing
  <2>2. SoleRequest(p, v)'
    <3> SUFFICES ASSUME NEW g \in Finders, OnKey(finder'[g], g, p, v),
                        finder'[g].pc = "inFlight"
                 PROVE  /\ attempt'[p][v] # Nothing
                        /\ attempt'[p][v].status \in {"submitted", "uncertain"}
                        /\ \A h \in Finders \ {g} : OnKey(finder'[h], h, p, v) =>
                             /\ finder'[h].pc \notin {"inFlight", "poll"}
                             /\ Writing(finder'[h]) => finder'[h].out.status = "uncertain"
      BY DEF SoleRequest
    <3>1. g # f /\ finder'[g] = finder[g]
      BY <1>9 DEF Holders
    <3>2. \A h \in Finders \ {g} : OnKey(finder[h], h, p, v) =>
            /\ finder[h].pc \notin {"inFlight", "poll"}
            /\ Writing(finder[h]) => finder[h].out.status = "uncertain"
      BY <1>2, <3>1 DEF KeyInv, SoleRequest
    <3>3. doc.status = "uncertain"
      BY <1>1, <1>2, <1>5, <3>1, <3>2
    <3>4. ASSUME NEW h \in Finders \ {g}, OnKey(finder'[h], h, p, v)
          PROVE  /\ finder'[h].pc \notin {"inFlight", "poll"}
                 /\ Writing(finder'[h]) => finder'[h].out.status = "uncertain"
      BY <1>3, <1>4, <3>2, <3>4 DEF Holders, Writing
    <3> QED
      BY <1>5, <1>6, <3>3, <3>4
  <2>3. ToldOnce(p, v)'
    <3> SUFFICES ASSUME t = s, NEW g \in Finders, OnKey(finder'[g], g, p, v),
                        Writing(finder'[g]), finder'[g].out.status = "failed"
                 PROVE  /\ attempt'[p][v].status # "failed"
                        /\ \A h \in Finders \ {g} :
                             OnKey(finder'[h], h, p, v) /\ Writing(finder'[h])
                               => finder'[h].out.status # "failed"
      BY <1>2, <1>d DEF ToldOnce
    <3>1. g # f /\ finder'[g] = finder[g]
      BY <1>9 DEF Holders, Writing
    <3>2. \A h \in Finders \ {g} :
            OnKey(finder[h], h, p, v) /\ Writing(finder[h]) => finder[h].out.status # "failed"
      BY <1>2, <1>d, <3>1 DEF KeyInv, ToldOnce
    <3>3. doc.status # "failed"
      BY <1>1, <1>2, <1>5, <3>1, <3>2
    <3>4. ASSUME NEW h \in Finders \ {g}, OnKey(finder'[h], h, p, v), Writing(finder'[h])
          PROVE  finder'[h].out.status # "failed"
      BY <1>9, <3>2, <3>4 DEF Holders, Writing
    <3> QED
      BY <1>6, <3>3, <3>4
  <2>4. sent'[p][v] = s /\ turned'[p][v] = t /\ t <= s /\ s <= t + 1
    BY <1>2, <1>d DEF KeyInv
  <2> QED
    BY <1>5, <1>6, <2>1, <2>2, <2>3, <2>4 DEF KeyInv
<1>11. ASSUME NEW q \in Providers, NEW w \in Videos, q # p \/ w # v
       PROVE  KeyInv(q, w)'
  <2>1. KeyInv(q, w) /\ attempt'[q][w] = attempt[q][w]
    BY <1>6, <1>11 DEF CaptionInv
  <2> QED
    BY <1>2, <1>3, <2>1, Elsewhere
<1> QED
  BY <1>7, <1>8, <1>10, <1>11 DEF CaptionInv

\* Time tells nobody anything until it is looked at.
LEMMA ClockTicksKeeps == ASSUME CaptionInv, ClockTicks PROVE CaptionInv'
<1>1. Types /\ Stored /\ UNCHANGED <<attempt, cached, breaker, finder, sent, turned>>
  BY DEF CaptionInv, ClockTicks
<1>2. Types'
  BY <1>1, CaptionAssumption DEF Types, CaptionTypeOK, ClockTicks
<1>3. Stored'
  BY <1>1 DEF Stored, CompletedIsStored, Key
<1>4. \A p \in Providers, v \in Videos : KeyInv(p, v)'
  BY <1>1 DEF CaptionInv, KeyInv, SoleRequest, ToldOnce
<1> QED
  BY <1>2, <1>3, <1>4 DEF CaptionInv

\* Every step of a finder and of the clock keeps the invariant.
LEMMA CaptionInvStep == CaptionInv /\ [CaptionNext]_captionVars => CaptionInv'
<1> SUFFICES ASSUME CaptionInv, [CaptionNext]_captionVars PROVE CaptionInv'
  OBVIOUS
<1>1. CASE ClockTicks
  BY <1>1, ClockTicksKeeps
<1>2. ASSUME NEW f \in Finders, FinderStep(f)
      PROVE  CaptionInv'
  BY <1>2, QuietSteps, ReadPriorKeeps, SubmitKeeps, AnswerSteps, TurnedAwayKeeps,
     PutAttemptKeeps DEF FinderStep
<1>3. CASE UNCHANGED captionVars
  <2>1. UNCHANGED <<attempt, cached, breaker, finder, clock, sent, turned>>
    BY <1>3 DEF captionVars
  <2>2. Types' /\ Stored'
    BY <2>1 DEF CaptionInv, Types, CaptionTypeOK, Stored, CompletedIsStored, Key
  <2>3. \A p \in Providers, v \in Videos : KeyInv(p, v)'
    BY <2>1 DEF CaptionInv, KeyInv, SoleRequest, ToldOnce
  <2> QED
    BY <2>2, <2>3 DEF CaptionInv
<1> QED
  BY <1>1, <1>2, <1>3 DEF CaptionNext

\* The invariant holds throughout.
LEMMA CaptionInvariance == CaptionSpec => []CaptionInv
  BY CaptionInitHolds, CaptionInvStep, PTL DEF CaptionSpec

-----------------------------------------------------------------------------
(* What follows.                                                           *)

\* The documents, the finders and the counts keep their types: no video is
\* asked for more than MaxRequests times.
THEOREM CaptionTypeCorrect == CaptionSpec => []CaptionTypeOK
<1>1. CaptionInv => CaptionTypeOK
  BY DEF CaptionInv, Types
<1> QED
  BY <1>1, CaptionInvariance, PTL

\* A provider is asked again for a video only after it turned the request before
\* away, whatever copies finders hold, put late or lose (managedTranscript).
THEOREM RequestsNotDuplicated == CaptionSpec => []NoDuplicateRequest
<1>1. CaptionInv => NoDuplicateRequest
  BY DEF CaptionInv, KeyInv, NoDuplicateRequest
<1> QED
  BY <1>1, CaptionInvariance, PTL

\* A document says `completed` only when the captions are stored, so that a crash
\* between the two writes loses nothing that was paid for.
THEOREM PaidIsStored == CaptionSpec => []CompletedIsStored
<1>1. CaptionInv => CompletedIsStored
  BY DEF CaptionInv, Stored
<1> QED
  BY <1>1, CaptionInvariance, PTL
=============================================================================
