----------------------------- MODULE Monitoring -----------------------------
(***************************************************************************)
(* Channel monitoring: saveMonitoring and monitoringTick of monitoring.ts, *)
(* pull, pullDue, analyzeDiscovery and updateChannel of channels.ts, and   *)
(* the sweep's own call of pullDue.                                        *)
(*                                                                         *)
(* A check is one call of monitoringTick, by the platform's timer or by    *)
(* somebody who presses `Check now`; a sweep is one pullDue of a worker,   *)
(* without pause or cap.  Both read a channel, wait for YouTube, and write *)
(* back the whole row they read.  A step lies between two awaits, or is a  *)
(* transaction with a locked row.  A check may die at any await.  Time is  *)
(* counted in moments of a few minutes, and whether a channel is due for a *)
(* pull (nextPullAt, lastPull) is left open.                               *)
(***************************************************************************)
EXTENDS Integers, FiniteSets

CONSTANTS
    Channels, Uploads, ChannelOf,   \* ChannelOf: upload -> its channel
    Checks,        \* monitoringTick under way at once, with the sweeps
    Nobody,        \* no channel is being pulled
    Switches,      \* the columns somebody changes: "auto", "active"
    MaxVideos,     \* maxVideosPerCheck
    Period,        \* moments between two occurrences of the schedule
    CheckTerm      \* the five minutes of the monitoring lease

ASSUME MonitoringAssumption ==
    /\ ChannelOf \in [Uploads -> Channels]
    /\ Switches \subseteq {"auto", "active"}
    /\ MaxVideos \in 1..10
    /\ Period \in Nat \ {0} /\ CheckTerm \in Nat \ {0}

VARIABLES
    monitor,       \* the channelMonitoring document
    checkLease,    \* what is left of the monitoringLease, 0 once it has passed
    channelRow,    \* channel -> its row
    upload,        \* upload -> "unseen", "found", or "queued" once it has a run
    check,         \* check -> where it is, and what it holds
    phase,         \* moments since the last occurrence of the schedule
    bought,        \* history: upload -> runs created for it
    ticked         \* history: checks the timer started since the last occurrence

monitoringVars == <<monitor, checkLease, channelRow, upload, check, phase,
                    bought, ticked>>

Row == [active : BOOLEAN, auto : BOOLEAN]

CheckPc == {"idle", "list", "pull", "fetch", "write", "select", "ask", "analyse",
            "release"}

Check == [pc : CheckPc, kind : {"check", "sweep"},
          todo   : SUBSET Channels,             \* listed and not pulled yet
          listed : SUBSET Channels,             \* of these and `at`, the automatic ones
          at     : Channels \cup {Nobody},
          copy   : Row, failed : BOOLEAN,       \* the row pull read; YouTube failed
          left   : SUBSET Uploads,              \* selected and not analysed yet
          queued : 0..MaxVideos,
          since  : 0..MaxVideos]                \* history: of these, since a pause

NewRow == [active |-> FALSE, auto |-> FALSE]

IdleCheck == [pc |-> "idle", kind |-> "check", todo |-> {}, listed |-> {}, at |-> Nobody,
              copy |-> NewRow, failed |-> FALSE, left |-> {}, queued |-> 0, since |-> 0]

MonitoringInit ==
    /\ monitor = [enabled |-> FALSE, wait |-> 0]
    /\ checkLease = 0
    /\ channelRow \in [Channels -> {[NewRow EXCEPT !.active = TRUE, !.auto = b] : b \in BOOLEAN}]
    /\ upload = [u \in Uploads |-> "unseen"]
    /\ check = [k \in Checks |-> IdleCheck]
    /\ phase = 0
    /\ bought = [u \in Uploads |-> 0]
    /\ ticked = 0

-----------------------------------------------------------------------------
(* The person.                                                             *)

\* nextMonitoringAt: how long it is to the first occurrence after this moment.
NextOccurrence == Period - phase

\* saveMonitoring, with the document locked: a pause, or a new schedule.
SaveMonitoring(enabled) ==
    /\ monitor' = [enabled |-> enabled, wait |-> IF enabled THEN NextOccurrence ELSE 0]
    /\ check' = IF enabled THEN [k \in Checks |-> [check[k] EXCEPT !.since = 0]] ELSE check
    /\ UNCHANGED <<checkLease, channelRow, upload, phase, bought, ticked>>

\* updateChannel.  It reads the row and writes all of it too, but what a pull
\* puts there in between are dates and a page token, which are left out here.
SetSwitch(c, s) ==
    /\ channelRow' = [channelRow EXCEPT ![c][s] = ~@]
    /\ UNCHANGED <<monitor, checkLease, upload, check, phase, bought, ticked>>

\* Mutant: it queues whatever the row says.
AnalyseAgain(u) ==
    /\ upload[u] # "unseen"
    /\ upload' = [upload EXCEPT ![u] = "queued"]
    /\ bought' = [bought EXCEPT ![u] = @ + 1]

\* analyzeDiscovery: the upload's row is locked, and has a run or gets one.
Analyse(u) ==
    /\ upload[u] # "unseen"
    /\ upload' = [upload EXCEPT ![u] = "queued"]
    /\ bought' = [bought EXCEPT ![u] = IF upload[u] = "found" THEN @ + 1 ELSE @]

AnalyseByHand(u) ==
    /\ upload[u] = "found" /\ Analyse(u)
    /\ UNCHANGED <<monitor, checkLease, channelRow, check, phase, ticked>>

-----------------------------------------------------------------------------
(* A check.                                                                *)

Go(k, pc) == check' = [check EXCEPT ![k].pc = pc]

\* Mutant: the next occurrence is left to the end of the check.
ClaimUnscheduled(k, forced) ==
    /\ check[k].pc = "idle"
    /\ monitor.enabled
    /\ forced \/ monitor.wait = 0
    /\ checkLease = 0
    /\ checkLease' = CheckTerm
    /\ check' = [check EXCEPT ![k] = [IdleCheck EXCEPT !.pc = "list"]]
    /\ ticked' = IF forced THEN ticked ELSE ticked + 1
    /\ UNCHANGED <<monitor, channelRow, upload, phase, bought>>

\* The claim: monitoring is on, the occurrence is due unless somebody asked,
\* and the lease of the check before has passed.  The next occurrence is
\* stored before any IO.
ClaimCheck(k, forced) ==
    /\ check[k].pc = "idle"
    /\ monitor.enabled
    /\ forced \/ monitor.wait = 0
    /\ checkLease = 0
    /\ checkLease' = CheckTerm
    /\ monitor' = [monitor EXCEPT !.wait = NextOccurrence]
    /\ check' = [check EXCEPT ![k] = [IdleCheck EXCEPT !.pc = "list"]]
    /\ ticked' = IF forced THEN ticked ELSE ticked + 1
    /\ UNCHANGED <<channelRow, upload, phase, bought>>

\* The sweep of a worker pulls as well, if autoPullEnabled is set.
StartSweep(k) ==
    /\ check[k].pc = "idle"
    /\ check' = [check EXCEPT ![k] = [IdleCheck EXCEPT !.pc = "list", !.kind = "sweep"]]
    /\ UNCHANGED <<monitor, checkLease, channelRow, upload, phase, bought, ticked>>

ListChannels(k) ==
    /\ check[k].pc = "list"
    /\ \E due \in SUBSET {c \in Channels : channelRow[c].active} :
         /\ Cardinality(due) <= 3
         /\ check' = [check EXCEPT ![k].pc = "pull", ![k].todo = due,
                                   ![k].listed = {c \in due : channelRow[c].auto}]
    /\ UNCHANGED <<monitor, checkLease, channelRow, upload, phase, bought, ticked>>

\* pull reads the row again, and throws if nobody follows the channel by now.
StartPull(k, c) ==
    /\ check[k].pc = "pull" /\ c \in check[k].todo
    /\ check' = [check EXCEPT ![k].todo = @ \ {c},
                              ![k].listed = IF channelRow[c].active THEN @ ELSE @ \ {c},
                              ![k].pc = IF channelRow[c].active THEN "fetch" ELSE "pull",
                              ![k].at = IF channelRow[c].active THEN c ELSE Nobody,
                              ![k].copy = IF channelRow[c].active THEN channelRow[c] ELSE NewRow]
    /\ UNCHANGED <<monitor, checkLease, channelRow, upload, phase, bought, ticked>>

\* YouTube answers with some of the channel's uploads, or does not.
Fetched(k) ==
    /\ check[k].pc = "fetch"
    /\ \E found \in SUBSET {u \in Uploads : ChannelOf[u] = check[k].at}, failed \in BOOLEAN :
         /\ failed => found = {}
         /\ upload' = [u \in Uploads |-> IF u \in found /\ upload[u] = "unseen"
                                           THEN "found" ELSE upload[u]]
         /\ check' = [check EXCEPT ![k].pc = "write", ![k].failed = failed]
    /\ UNCHANGED <<monitor, checkLease, channelRow, phase, bought, ticked>>

\* The row that pull read goes back, with the dates and the page token of this
\* pull, and pull returns, or throws on to the next channel.
WriteRow(k) ==
    /\ check[k].pc = "write"
    /\ channelRow' = [channelRow EXCEPT ![check[k].at] = check[k].copy]
    /\ check' = [check EXCEPT ![k].pc = IF check[k].failed THEN "pull" ELSE "select",
                              ![k].at = IF check[k].failed THEN Nobody ELSE @,
                              ![k].listed = IF check[k].failed THEN @ \ {check[k].at} ELSE @,
                              ![k].failed = FALSE, ![k].copy = NewRow]
    /\ UNCHANGED <<monitor, checkLease, upload, phase, bought, ticked>>

\* At most three uploads without a run, if the listed row was automatic.
SelectUploads(k) ==
    /\ check[k].pc = "select"
    /\ \E some \in SUBSET {u \in Uploads : ChannelOf[u] = check[k].at /\ upload[u] = "found"} :
         /\ Cardinality(some) <= 3
         /\ check' = [check EXCEPT ![k].pc = "ask", ![k].at = Nobody,
                                   ![k].listed = @ \ {check[k].at},
                                   ![k].left = IF check[k].at \in check[k].listed
                                                 THEN some ELSE {}]
    /\ UNCHANGED <<monitor, checkLease, channelRow, upload, phase, bought, ticked>>

\* Before each upload: the cap, and whether monitoring has been paused.  A
\* sweep has neither.
MayQueue(k) == check[k].kind = "sweep" \/ (check[k].queued < MaxVideos /\ monitor.enabled)

AskLeave(k) ==
    /\ check[k].pc = "ask"
    /\ IF check[k].left # {} /\ MayQueue(k)
         THEN Go(k, "analyse")
         ELSE check' = [check EXCEPT ![k].pc = "pull", ![k].left = {}]
    /\ UNCHANGED <<monitor, checkLease, channelRow, upload, phase, bought, ticked>>

\* Mutant: leave is asked once for all the uploads of a channel.
AnalyseOn(k) ==
    /\ check[k].pc = "analyse"
    /\ \E u \in check[k].left :
         LET new == upload[u] = "found" /\ check[k].kind = "check" /\ check[k].queued < MaxVideos
         IN  /\ Analyse(u)
             /\ check' = [check EXCEPT ![k].pc = IF check[k].left = {u} THEN "ask" ELSE "analyse",
                                       ![k].left = @ \ {u},
                                       ![k].queued = IF new THEN @ + 1 ELSE @,
                                       ![k].since = IF new /\ ~monitor.enabled
                                                      THEN @ + 1 ELSE @]
    /\ UNCHANGED <<monitor, checkLease, channelRow, phase, ticked>>

AnalyseNext(k) ==
    /\ check[k].pc = "analyse"
    /\ \E u \in check[k].left :
         LET new == upload[u] = "found" /\ check[k].kind = "check"
         IN  /\ Analyse(u)
             /\ check' = [check EXCEPT ![k].pc = "ask", ![k].left = @ \ {u},
                                       ![k].queued = IF new THEN @ + 1 ELSE @,
                                       ![k].since = IF new /\ ~monitor.enabled
                                                      THEN @ + 1 ELSE @]
    /\ UNCHANGED <<monitor, checkLease, channelRow, phase, ticked>>

SweepDone(k) ==
    /\ check[k].pc = "pull" /\ check[k].todo = {} /\ check[k].kind = "sweep"
    /\ check' = [check EXCEPT ![k] = IdleCheck]
    /\ UNCHANGED <<monitor, checkLease, channelRow, upload, phase, bought, ticked>>

\* The result goes into the document as it is by now, with its row locked.
Report(k) ==
    /\ check[k].pc = "pull" /\ check[k].todo = {} /\ check[k].kind = "check"
    /\ Go(k, "release")
    /\ UNCHANGED <<monitor, checkLease, channelRow, upload, phase, bought, ticked>>

\* `finally`: whoever holds the lease by now, it ends in five seconds.
ReleaseCheck(k) ==
    /\ check[k].pc = "release"
    /\ checkLease' \in {0, 1}
    /\ check' = [check EXCEPT ![k] = IdleCheck]
    /\ UNCHANGED <<monitor, channelRow, upload, phase, bought, ticked>>

CheckDies(k) ==
    /\ check[k].pc # "idle"
    /\ check' = [check EXCEPT ![k] = IdleCheck]
    /\ UNCHANGED <<monitor, checkLease, channelRow, upload, phase, bought, ticked>>

Later(n) == IF n > 0 THEN n - 1 ELSE 0

TimePasses ==
    /\ phase' = IF phase + 1 = Period THEN 0 ELSE phase + 1
    /\ monitor' = [monitor EXCEPT !.wait = Later(@)]
    /\ checkLease' = Later(checkLease)
    /\ ticked' = IF phase' = 0 THEN 0 ELSE ticked
    /\ UNCHANGED <<channelRow, upload, check, bought>>

CheckStep(k) ==
    \/ \E forced \in BOOLEAN : ClaimCheck(k, forced)
    \/ StartSweep(k) \/ ListChannels(k) \/ \E c \in Channels : StartPull(k, c)
    \/ Fetched(k) \/ WriteRow(k) \/ SelectUploads(k) \/ AskLeave(k) \/ AnalyseNext(k)
    \/ SweepDone(k) \/ Report(k) \/ ReleaseCheck(k) \/ CheckDies(k)

MonitoringNext ==
    \/ \E k \in Checks : CheckStep(k)
    \/ \E enabled \in BOOLEAN : SaveMonitoring(enabled)
    \/ \E c \in Channels, s \in Switches : SetSwitch(c, s)
    \/ \E u \in Uploads : AnalyseByHand(u)
    \/ TimePasses

MonitoringSpec == MonitoringInit /\ [][MonitoringNext]_monitoringVars

-----------------------------------------------------------------------------
(* Properties.                                                             *)

CheckMoves(k) == check'[k].pc # check[k].pc

MonitoringTypeOK ==
    /\ monitor \in [enabled : BOOLEAN, wait : 0..Period]
    /\ checkLease \in 0..CheckTerm
    /\ channelRow \in [Channels -> Row]
    /\ upload \in [Uploads -> {"unseen", "found", "queued"}]
    /\ check \in [Checks -> Check]
    /\ phase \in 0..(Period - 1)

\* An upload that a check, a sweep and a person come upon together is paid for
\* once.
BoughtOnce == \A u \in Uploads : bought[u] <= 1

\* Pausing stops the spending: a check that is under way, however many uploads
\* it has selected, queues no more than the one it had asked leave for.
PauseStops == \A k \in Checks : check[k].since <= 1

\* An occurrence of the schedule starts one check at most, even if that check
\* dies and its lease passes (`Persist the next occurrence before IO`).
OncePerOccurrence == ticked <= 1

\* Only a person turns the spending switch of a channel on.
PersonSwitchesOn ==
    [][\A c \in Channels : channelRow'[c].auto /\ ~channelRow[c].auto
                             => ~\E k \in Checks : CheckMoves(k)]_monitoringVars
=============================================================================
