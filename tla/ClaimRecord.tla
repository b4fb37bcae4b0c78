----------------------------- MODULE ClaimRecord -----------------------------
(***************************************************************************)
(* One published claim and its trust: writeRunRows of repos/publish.ts,    *)
(* upsertClaim of repos/claims.ts, computeTrustLevel of trust.ts and       *)
(* signClaimReview of actions/trust.ts.                                    *)
(*                                                                         *)
(* A publisher is the publish stage of the claim's run, or a republication *)
(* of older output (listings/backfill.ts).  It reads the reviews, decides  *)
(* on a level, writes the claim in a transaction with the row locked, and  *)
(* then its evidence range by range, each a statement of its own.  A       *)
(* person signs a review in one transaction.  A review is bound to what it *)
(* is about by a digest.  The words of the claim do not change here, so    *)
(* the digest is the set of ranges it cites.  Of the reviews of a digest   *)
(* only the last counts.  The claim passes its text checks; whether the    *)
(* audio agrees is up to the copy.                                         *)
(***************************************************************************)
EXTENDS Integers

CONSTANTS
    Publishers,
    Ranges,       \* the most ranges of evidence a claim cites
    Unclaimed     \* no row; and a copy without the claim, which was rejected

ASSUME ClaimAssumption == Ranges \in Nat \ {0}

VARIABLES
    record,      \* the row of the claim
    stored,      \* the ordinals of its evidence_spans rows
    signed,      \* digest -> the verdict of the last review of exactly this
    publisher    \* publisher -> where it is, and its copy

claimVars == <<record, stored, signed, publisher>>

Verdict == {"verified", "rejected"}

LastVerdict == Verdict \cup {"none"}

Digest == SUBSET (1..Ranges)

\* The row: its level (`L0` to `L3`), and what its trustBasis says.
ClaimRow == [level : 0..3, digest : Digest, agreed : BOOLEAN, verdict : LastVerdict]

\* Output of the run as the publisher has it.
ClaimCopy == [cites : 1..Ranges, agreed : BOOLEAN]

ASSUME UnclaimedAssumption == Unclaimed \notin ClaimRow /\ Unclaimed \notin ClaimCopy

PublisherPc == {"idle", "reviews", "claim", "spans", "trim", "remove", "spansToo"}

Publisher == [pc : PublisherPc, copy : ClaimCopy \cup {Unclaimed}, level : 0..3,
              next : 1..(Ranges + 1)]

IdlePublisher == [pc |-> "idle", copy |-> Unclaimed, level |-> 0, next |-> 1]

ClaimInit ==
    /\ record = Unclaimed
    /\ stored = {}
    /\ signed = [d \in Digest |-> "none"]
    /\ publisher = [p \in Publishers |-> IdlePublisher]

-----------------------------------------------------------------------------
\* computeTrustLevel, for a claim that passes its text checks.
TrustLevel(agreed, verdict) ==
    CASE verdict = "rejected" -> 0
      [] verdict = "verified" -> 3
      [] OTHER -> IF agreed THEN 2 ELSE 1

Cited(copy) == 1..copy.cites

\* Mutant: the statement takes the writer's level, whatever the row has.
MergedOver(row, level, agreed, digest, verdict) ==
    [level |-> level, digest |-> digest, agreed |-> agreed, verdict |-> verdict]

\* INSERT ... ON CONFLICT DO UPDATE: the higher level of the two, for the same
\* evidence, unless the last review of it is a rejection.
Merged(row, level, agreed, digest, verdict) ==
    IF /\ row # Unclaimed /\ row.digest = digest
       /\ verdict # "rejected" /\ (row.level = 3 => verdict = "verified")
       /\ row.level > level
      THEN row
      ELSE [level |-> IF verdict = "rejected" THEN 0 ELSE level,
            digest |-> digest, agreed |-> agreed, verdict |-> verdict]

\* signClaimReview: the review of the claim with the evidence stored by now,
\* all of which was listened to, and the level that follows from it.
SignReview(verdict) ==
    /\ record # Unclaimed /\ stored # {}
    /\ signed' = [signed EXCEPT ![stored] = verdict]
    /\ record' = Merged(record, TrustLevel(record.agreed, verdict), record.agreed,
                        stored, verdict)
    /\ UNCHANGED <<stored, publisher>>

-----------------------------------------------------------------------------
(* A publisher.                                                            *)

Proceed(p, pc) == publisher' = [publisher EXCEPT ![p].pc = pc]

Leave(p) == publisher' = [publisher EXCEPT ![p] = IdlePublisher]

BeginPublish(p) ==
    /\ publisher[p].pc = "idle"
    /\ \E copy \in ClaimCopy \cup {Unclaimed} :
         publisher' = [publisher EXCEPT ![p].copy = copy,
                                        ![p].pc = IF copy = Unclaimed THEN "remove"
                                                  ELSE "reviews"]
    /\ UNCHANGED <<record, stored, signed>>

ReadReviews(p) ==
    /\ publisher[p].pc = "reviews"
    /\ LET copy == publisher[p].copy
       IN  publisher' = [publisher EXCEPT
                           ![p].pc = "claim",
                           ![p].level = TrustLevel(copy.agreed, signed[Cited(copy)])]
    /\ UNCHANGED <<record, stored, signed>>

\* Mutant: the reviews are those the publisher read before the transaction.
WriteClaimUnread(p) ==
    /\ publisher[p].pc = "claim"
    /\ LET copy == publisher[p].copy
           read == <<"rejected", "none", "none", "verified">>[publisher[p].level + 1]
       IN  record' = Merged(record, publisher[p].level, copy.agreed, Cited(copy), read)
    /\ Proceed(p, "spans")
    /\ UNCHANGED <<stored, signed>>

\* upsertClaim: the reviews are read again with the row locked.  It throws for
\* an L3 whose signature is no longer the last word.
WriteClaim(p) ==
    /\ publisher[p].pc = "claim"
    /\ LET copy == publisher[p].copy
           digest == Cited(copy)
           verdict == signed[digest]
       IN  IF publisher[p].level = 3 /\ verdict # "verified"
             THEN Leave(p) /\ UNCHANGED record
             ELSE /\ record' = Merged(record, publisher[p].level, copy.agreed, digest, verdict)
                  /\ Proceed(p, "spans")
    /\ UNCHANGED <<stored, signed>>

WriteSpan(p) ==
    /\ publisher[p].pc = "spans"
    /\ LET n == publisher[p].next
       IN  /\ stored' = stored \cup {n}
           /\ publisher' = [publisher EXCEPT
                              ![p].next = n + 1,
                              ![p].pc = IF n = publisher[p].copy.cites THEN "trim" ELSE "spans"]
    /\ UNCHANGED <<record, signed>>

\* deleteSpansBeyond.
TrimSpans(p) ==
    /\ publisher[p].pc = "trim"
    /\ stored' = stored \cap Cited(publisher[p].copy)
    /\ Leave(p)
    /\ UNCHANGED <<record, signed>>

\* deleteClaimsForRunExcept, and the spans of the claims it has deleted.
RemoveClaim(p) ==
    /\ publisher[p].pc = "remove"
    /\ record' = Unclaimed
    /\ IF record = Unclaimed THEN Leave(p) ELSE Proceed(p, "spansToo")
    /\ UNCHANGED <<stored, signed>>

RemoveSpans(p) ==
    /\ publisher[p].pc = "spansToo"
    /\ stored' = {}
    /\ Leave(p)
    /\ UNCHANGED <<record, signed>>

PublisherDies(p) ==
    /\ publisher[p].pc # "idle"
    /\ Leave(p)
    /\ UNCHANGED <<record, stored, signed>>

PublisherStep(p) ==
    \/ BeginPublish(p) \/ ReadReviews(p) \/ WriteClaim(p) \/ WriteSpan(p) \/ TrimSpans(p)
    \/ RemoveClaim(p) \/ RemoveSpans(p) \/ PublisherDies(p)

ClaimNext ==
    \/ \E verdict \in Verdict : SignReview(verdict)
    \/ \E p \in Publishers : PublisherStep(p)

ClaimSpec == ClaimInit /\ [][ClaimNext]_claimVars

-----------------------------------------------------------------------------
(* Properties.                                                             *)

ClaimTypeOK ==
    /\ record \in ClaimRow \cup {Unclaimed}
    /\ stored \in Digest
    /\ signed \in [Digest -> LastVerdict]
    /\ publisher \in [Publishers -> Publisher]

\* A verdict stands against every publisher that read the reviews before it was
\* signed: `L3 requires an appended signed human review of this exact content
\* and evidence`, and `an explicit rejection revokes L3`, also on the row the
\* boards exclude by.
VerdictStands ==
    record # Unclaimed =>
      LET verdict == signed[record.digest]
      IN  /\ record.level = 3 => verdict = "verified"
          /\ verdict = "rejected" => record.level = 0 /\ record.verdict = "rejected"

\* `Preserve earned trust only for unchanged content`: a row that keeps its
\* evidence loses its level to a rejection and to nothing else, however old the
\* copy of the run is that is published again.
EarnedTrustKept ==
    [][record # Unclaimed /\ record' # Unclaimed /\ record'.digest = record.digest
         => record'.level >= record.level \/ record'.verdict = "rejected"]_claimVars
=============================================================================
