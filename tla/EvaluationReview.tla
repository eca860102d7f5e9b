--------------------------- MODULE EvaluationReview ---------------------------
(***************************************************************************)
(* The human review of one evaluation Run whose candidate evidence is      *)
(* closed: reviewers of two roles sign candidates, correct their own       *)
(* signatures, an operator finalizes the gates, reopens a rejection that   *)
(* rests only on contestable semantic judgments, or discards the Run.      *)
(*                                                                         *)
(* The whole review lives in one JSON document of the Run, and nothing in  *)
(* it is trusted when it is read back: every archived round, correction    *)
(* chain and final gate is recomputed from the signatures.  Each operation *)
(* plans on a snapshot and then, in one root transaction that refuses any  *)
(* change of that snapshot, writes the document, bumps the version and     *)
(* reads the result back with the same checks.  A plan that is outrun has  *)
(* no effect, so the plan and root of an operation with a fresh identity   *)
(* are one action; a correction has a durable command identity and its     *)
(* plan, its root and its loss are separate actions.                       *)
(*                                                                         *)
(* Frozen evidence appears only through what the review reads of it: which *)
(* failed forbidden-claims judgments a candidate has, and whether all the  *)
(* other checks of the gates pass.  True time moves on with every          *)
(* finalization, and the clock of a request lags behind it by up to Skew.  *)
(* Of the reason of a signature only the command that gave it counts.      *)
(*                                                                         *)
(* An operator named X_Flaw is X with a plausible bug; the specification   *)
(* uses none of them, and PROJECT.json says which property each violates.  *)
(***************************************************************************)
EXTENDS Integers, FiniteSets, SequencesExt

CONSTANTS
  Candidates,      \* the candidates of the closed inventory (35 in the code)
  FailedClaims,    \* per candidate, the ordinals of its failed judgments
  Reviewers,       \* operators that may sign
  Commands,        \* identities of correction commands
  NoCommand,       \* what a first signature has instead
  CorrectionLimit, \* corrections of one signature (3 in the code)
  RoundLimit,      \* reopenings of one Run (3 in the code)
  Evidence,        \* the frozen evidence: [sound, rounding], see below
  Skew,            \* how far a clock may lag
  MaxVersion       \* bounds the operations on the Run

ASSUME ReviewAssumption ==
  /\ IsFiniteSet(Candidates)
  /\ FailedClaims \in [Candidates -> SUBSET (Nat \ {0})]
  /\ NoCommand \notin Commands
  /\ CorrectionLimit \in Nat /\ RoundLimit \in Nat
  /\ Evidence \subseteq [sound : BOOLEAN, rounding : BOOLEAN]
  /\ Skew \in Nat /\ MaxVersion \in Nat \ {0}

VARIABLES
  revision,  \* evaluation_checkpoints.version
  p,         \* progress_json: the review document
  execution, \* the SDK execution of each correction command
  frozen     \* whether every gate check on frozen evidence alone passes, and
             \* whether MySQL's JSON rounds a metric computed from it

reviewVars == <<revision, p, execution, frozen>>

Roles == {"assessment_semantics", "safety_product"}
ClosedAt == 1
None == [state |-> "none"]
ReviewInit ==
  /\ revision = ClosedAt
  /\ p = [status |-> "awaiting_review", reviews |-> {}, corrections |-> <<>>,
          rounds |-> <<>>, gate |-> None, transitions |-> <<>>]
  /\ execution = [k \in Commands |-> None]
  /\ frozen \in Evidence

\* correction_replayed: the current round and every archived one.
Recorded(q) ==
  LET ids(corrections) == {corrections[i].id : i \in DOMAIN corrections}
  IN  ids(q.corrections) \cup UNION {ids(q.rounds[i].corrections) : i \in DOMAIN q.rounds}

Now == ClosedAt + Len(p.rounds) + (IF p.gate = None THEN 0 ELSE 1)
Clock == {t \in (Now - Skew)..Now : t >= ClosedAt}

-----------------------------------------------------------------------------
(* Signatures and their corrections.                                        *)

\* add_human_reviews: what a set of signatures must satisfy as a whole.
Signable(rs) ==
  /\ rs # {}
  /\ \A r \in rs :
       /\ r.at >= ClosedAt
       /\ r.semantic # 0 => /\ r.decision = "approve"
                            /\ r.semantic \in FailedClaims[r.candidate]
  /\ \A a, b \in rs : a # b /\ a.candidate = b.candidate =>
       a.role # b.role /\ a.reviewer # b.reviewer

SameKey(a, b) == a.candidate = b.candidate /\ a.role = b.role

\* effective_reviews: each signature is replaced by its last correction.
Chain(corrections, r) == {i \in DOMAIN corrections : SameKey(corrections[i].review, r)}
Standing(corrections, r) ==
  IF Chain(corrections, r) = {} THEN r ELSE corrections[Max(Chain(corrections, r))].review
Effective(originals, corrections) == {Standing(corrections, r) : r \in originals}

\* ReviewCorrection and effective_reviews: one link of a correction chain.
Linked(originals, corrections, i, v) ==
  LET e == corrections[i]
      before == SubSeq(corrections, 1, i - 1)
  IN  /\ e.previous \in Effective(originals, before)
      /\ SameKey(e.review, e.previous) /\ e.review.reviewer = e.previous.reviewer
      /\ e.review.at >= e.previous.at
      /\ e.review.semantic = 0 /\ e.previous.semantic = 0
      /\ \A j \in DOMAIN before : before[j].id # e.id /\ before[j].source < e.source
      /\ e.source + 1 <= v
      /\ Cardinality(Chain(before, e.review)) < CorrectionLimit

ValidCorrections(originals, corrections, v, at) ==
  /\ originals = {} \/ Signable(originals)
  /\ \A i \in DOMAIN corrections :
       /\ Linked(originals, corrections, i, v)
       /\ corrections[i].review.at <= at
       /\ Signable(Effective(originals, SubSeq(corrections, 1, i)))

-----------------------------------------------------------------------------
(* The gates, computed from signatures.                                     *)

SignaturesOf(rs, c) == {r \in rs : r.candidate = c}

\* effective_candidate_assertions: the failed judgments that stand, since a
\* judgment falls only when both roles approve and contest the same one.
StandingClaims_EitherRole(rs, c) ==
  FailedClaims[c] \ {r.semantic : r \in SignaturesOf(rs, c)}
StandingClaims(rs, c) ==
  {o \in FailedClaims[c] :
     \E role \in Roles : \A r \in SignaturesOf(rs, c) :
       r.role = role => r.decision # "approve" \/ r.semantic # o}

HardFailed(rs) == {c \in Candidates : StandingClaims(rs, c) # {}}

\* The checks evaluate_quality_gates makes before it computes anything.
Calculable(rs, at) ==
  /\ at >= ClosedAt
  /\ \A r \in rs : r.at <= at
  /\ rs = {} \/ Signable(rs)

\* finalize_review refuses to decide while a role is missing somewhere.
FullySigned(rs) ==
  \A c \in Candidates : {r.role : r \in SignaturesOf(rs, c)} = Roles
Unanimous(rs) == \A r \in rs : r.decision = "approve"

FinalStatus(rs) ==
  IF frozen.sound /\ HardFailed(rs) = {} /\ Unanimous(rs) THEN "approved" ELSE "rejected"

FinalRecord(rs, source, at) ==
  [state |-> FinalStatus(rs), source |-> source, at |-> at,
   metric |-> "computed"]

\* What MySQL returns for a record that it stored as JSON.
JsonRoundTrip(record) ==
  IF frozen.rounding THEN [record EXCEPT !.metric = "rounded"] ELSE record

FinalTransition(record) == [to |-> record.state, at |-> record.at]

-----------------------------------------------------------------------------
(* Reopening, and the history that reading back validates.                  *)

\* eligible_candidate_ids for a rejection after count reopenings.
Eligible(rs, count) ==
  IF count < RoundLimit /\ frozen.sound /\ FullySigned(rs) /\ Unanimous(rs)
  THEN HardFailed(rs) ELSE {}

Retained(e) == {r \in e.reviews : r.candidate \notin e.candidates}

\* validate_reopened_reviews
ReopenedReviews(e, current) ==
  /\ \A r \in current : r.candidate \in e.candidates => r.at >= e.at
  /\ Retained(e) \subseteq current

OpeningTransition(e) == [to |-> "awaiting_review", at |-> e.at]

\* An archived round, recomputed from its signatures.
ValidRound(q, i, v, at) ==
  LET e == q.rounds[i]
  IN  /\ i > 1 => e.final.source >= q.rounds[i - 1].version
      /\ e.corrections # <<>> =>
           /\ ValidCorrections(e.originals, e.corrections, e.final.source, e.final.at)
           /\ Effective(e.originals, e.corrections) = e.reviews
      /\ Calculable(e.reviews, e.final.at) /\ FullySigned(e.reviews)
      /\ e.final = FinalRecord(e.reviews, e.final.source, e.final.at)
      /\ e.final.state = "rejected"
      /\ e.candidates = Eligible(e.reviews, i - 1) /\ e.candidates # {}
      /\ e.final.at <= e.at /\ e.at <= at
      /\ e.version = e.final.source + 2 /\ e.version <= v
      /\ q.transitions[2 * i - 1] = FinalTransition(e.final)
      /\ q.transitions[2 * i] = OpeningTransition(e)

\* validate_rounds and validate_reopening_history
ValidRounds(q, v, at) ==
  /\ Len(q.rounds) <= RoundLimit
  /\ Len(q.transitions) = 2 * Len(q.rounds)
  /\ \A i \in DOMAIN q.rounds : ValidRound(q, i, v, at)
  /\ \A i \in 2..Len(q.rounds) :
       /\ q.rounds[i].final.at >= q.rounds[i - 1].at
       /\ ReopenedReviews(q.rounds[i - 1], q.rounds[i].reviews)
  /\ q.rounds # <<>> =>
       /\ \A i \in DOMAIN q.corrections :
            q.corrections[i].review.at >= Last(q.rounds).at
       /\ ReopenedReviews(Last(q.rounds), q.reviews)

Current(q) == Effective(q.reviews, q.corrections)

\* load_snapshot: a review in progress that may be built upon.
Loads(q, v, at) ==
  /\ q.status = "awaiting_review" /\ q.gate = None
  /\ ValidCorrections(q.reviews, q.corrections, v, at)
  /\ ValidRounds(q, v, at)
  /\ Calculable(Current(q), at)

\* verified_final_snapshot: the state before finalization, decided again.
VerifiedFinal(q, v) ==
  /\ q.gate # None /\ q.gate.source + 1 = v /\ q.status = q.gate.state
  /\ Last(q.transitions) = FinalTransition(q.gate)
  /\ Loads([q EXCEPT !.status = "awaiting_review", !.gate = None,
                     !.transitions = Front(@)], q.gate.source, q.gate.at)
  /\ q.gate = JsonRoundTrip(FinalRecord(Current(q), q.gate.source, q.gate.at))

Audited(q) == q.rounds # <<>> \/ q.corrections # <<>>

\* read_finalization
ReadFinalization(q, v, at) ==
  IF q.status \in {"approved", "rejected"} THEN VerifiedFinal(q, v)
  ELSE q.gate = None /\ (Audited(q) => Loads(q, v, at))

\* The times record_for collects.
EvidenceTimes(q) ==
  {r.at : r \in q.reviews} \cup {ClosedAt}
    \cup {q.corrections[i].review.at : i \in DOMAIN q.corrections}
    \cup {q.transitions[i].at : i \in DOMAIN q.transitions}

\* view_from_snapshot: a canceled Run is read as it was before.
ReadView(q, v, at) ==
  IF q.status # "canceled" THEN ReadFinalization(q, v, at)
  ELSE LET source == [q EXCEPT !.status = "awaiting_review",
                               !.transitions = Front(@)]
       IN  /\ \A t \in EvidenceTimes(source) : Last(q.transitions).at >= t
           /\ ReadFinalization(source, v - 1, at)

-----------------------------------------------------------------------------
(* The operations.  XPlanned is what a planner accepts, and the root commits *)
(* its result only if that reads back.                                      *)

Commit(q, at) ==
  /\ ReadView(q, revision + 1, at)
  /\ revision' = revision + 1 /\ p' = q
  /\ UNCHANGED frozen

\* One reviewer signs a batch of candidates in one role.
Opinions(c) ==
  {[decision |-> "approve", semantic |-> o] : o \in FailedClaims[c] \cup {0}}
    \cup {[decision |-> "reject", semantic |-> 0]}

Signed(c, role, who, opinion, at) ==
  [candidate |-> c, role |-> role, reviewer |-> who, at |-> at, reason |-> NoCommand,
   decision |-> opinion.decision, semantic |-> opinion.semantic]
BatchesOf(cs, role, who, at) ==
  {{Signed(c, role, who, f[c], at) : c \in cs} :
     f \in {g \in [cs -> UNION {Opinions(c) : c \in cs}] : \A c \in cs : g[c] \in Opinions(c)}}
Batches(at) ==
  UNION {BatchesOf(cs, role, who, at) :
           cs \in (SUBSET Candidates) \ {{}}, role \in Roles, who \in Reviewers}

ReviewOpen(at) == p.status = "awaiting_review" /\ ReadView(p, revision, at)
Admitted(values) ==
  /\ p.reviews \cap values = {} /\ Signable(p.reviews \cup values)
  /\ p.rounds # <<>> => \A r \in values :
       r.candidate \in Last(p.rounds).candidates => r.at >= Last(p.rounds).at
Reviewed(values) == [p EXCEPT !.reviews = @ \cup values]

Review ==
  \E at \in Clock :
    /\ ReviewOpen(at)
    /\ \E values \in Batches(at) :
         Admitted(values) /\ Commit(Reviewed(values), at)
    /\ UNCHANGED execution

\* A correction k of the caller's own signature, planned on this version.
Entry(k, previous, decision, at) ==
  [id |-> k, source |-> revision, previous |-> previous,
   review |-> [previous EXCEPT !.decision = decision, !.at = at,
                                !.reason = k]]

CorrectionPlanned(entry) ==
  /\ entry.id \notin Recorded(p)
  /\ entry.source = revision /\ p.status = "awaiting_review"
  /\ Loads(p, revision, entry.review.at)
  /\ entry.previous \in Current(p)
  /\ ValidCorrections(p.reviews, Append(p.corrections, entry), revision + 1,
                      entry.review.at)
Corrected_InPlace(entry) ==
  [p EXCEPT !.reviews = (@ \ {entry.previous}) \cup {entry.review}]
Corrected(entry) == [p EXCEPT !.corrections = Append(@, entry)]

\* The planner freezes the correction and the SDK reserves the command.
PlanCorrection(k) ==
  \E at \in Clock, previous \in Current(p), decision \in {"approve", "reject"} :
    /\ execution[k] = None
    /\ CorrectionPlanned(Entry(k, previous, decision, at))
    /\ execution' = [execution EXCEPT ![k] = [state |-> "prepared",
                                              entry |-> Entry(k, previous, decision, at)]]
    /\ UNCHANGED <<revision, p, frozen>>

\* The root locks the Run, compares the snapshot and plans again.
ApplyCorrection(k) ==
  /\ execution[k].state = "prepared"
  /\ CorrectionPlanned(execution[k].entry)
  /\ Commit(Corrected(execution[k].entry), execution[k].entry.review.at)
  /\ execution' = [execution EXCEPT ![k].state = "committed"]

\* The root refused, or its process stopped and the preparation expired.
AbandonCorrection(k) ==
  /\ execution[k].state = "prepared"
  /\ execution' = [execution EXCEPT ![k].state = "aborted"]
  /\ UNCHANGED <<revision, p, frozen>>

\* finalized_progress on a complete and valid review.
FinalizePlanned(at) == Loads(p, revision, at) /\ FullySigned(Current(p))
Finalized(at) ==
  LET record == FinalRecord(Current(p), revision, at)
  IN  [p EXCEPT !.status = record.state, !.gate = JsonRoundTrip(record),
                !.transitions = Append(@, FinalTransition(record))]

Finalize ==
  \E at \in Clock :
    /\ FinalizePlanned(at)
    /\ Commit(Finalized(at), at)
    /\ UNCHANGED execution

\* reopened_progress of a verified rejection.
CanReopen ==
  /\ p.status = "rejected"
  /\ VerifiedFinal(p, revision)
  /\ Eligible(Current(p), Len(p.rounds)) # {}

Opening(at) ==
  [reviews |-> Current(p), corrections |-> p.corrections,
   originals |-> IF p.corrections = <<>> THEN {} ELSE p.reviews,
   candidates |-> Eligible(Current(p), Len(p.rounds)),
   final |-> p.gate, at |-> at, version |-> p.gate.source + 2]

Reopened_CorrectionsKept(at) ==
  LET e == Opening(at)
  IN  [p EXCEPT !.status = "awaiting_review", !.gate = None,
                !.reviews = Retained(e), !.rounds = Append(@, e),
                !.transitions = Append(@, OpeningTransition(e))]
Reopened_EffectiveOnly(at) ==
  LET e == [Opening(at) EXCEPT !.corrections = <<>>, !.originals = {}]
  IN  [p EXCEPT !.status = "awaiting_review", !.gate = None,
                !.reviews = Retained(e), !.corrections = <<>>,
                !.rounds = Append(@, e),
                !.transitions = Append(@, OpeningTransition(e))]
Reopened(at) ==
  LET e == Opening(at)
  IN  [p EXCEPT !.status = "awaiting_review", !.gate = None,
                !.reviews = Retained(e), !.corrections = <<>>,
                !.rounds = Append(@, e),
                !.transitions = Append(@, OpeningTransition(e))]

ReopenPlanned(at) == CanReopen /\ at >= p.gate.at

Reopen ==
  \E at \in Clock :
    /\ ReopenPlanned(at)
    /\ Commit(Reopened(at), at)
    /\ UNCHANGED execution

\* plan_cancellation of a Run that awaits review: its evidence is discarded.
Discarded(at) ==
  [p EXCEPT !.status = "canceled",
            !.transitions = Append(@, [to |-> "canceled", at |-> at])]

Discard ==
  \E at \in Clock :
    /\ p.status = "awaiting_review"
    /\ \A t \in EvidenceTimes(p) : at >= t
    /\ ReadFinalization(p, revision, at)
    /\ Commit(Discarded(at), at)
    /\ UNCHANGED execution

ReviewNext ==
  \/ /\ revision < MaxVersion
     /\ \/ Review \/ Finalize \/ Reopen \/ Discard
        \/ \E k \in Commands : PlanCorrection(k) \/ ApplyCorrection(k)
  \/ \E k \in Commands : AbandonCorrection(k)

ReviewSpec == ReviewInit /\ [][ReviewNext]_reviewVars

-----------------------------------------------------------------------------
(* Properties.                                                              *)

\* The types of the tables; the bounds that rounds and corrections are held
\* to; and a gate record exactly when the status is final.
DocumentOK ==
  /\ revision \in ClosedAt..MaxVersion
  /\ p.status \in {"awaiting_review", "approved", "rejected", "canceled"}
  /\ p.gate # None <=> p.status \in {"approved", "rejected"}
  /\ Len(p.rounds) <= RoundLimit
  /\ \A r \in p.reviews : r.role \in Roles /\ r.candidate \in Candidates
  /\ Len(p.corrections) <= CorrectionLimit * 2 * Cardinality(Candidates)
  /\ \A k \in Commands :
       execution[k].state \in {"none", "prepared", "committed", "aborted"}

\* Accountability of an approval, however many rounds and corrections led to
\* it: every candidate carries the standing approvals of two people in the two
\* roles, both contest every failed judgment of the candidate, and what was
\* reopened was signed again after the reopening (evaluate_quality_gates,
\* effective_candidate_assertions, validate_reopened_reviews).
ApprovedAccountably ==
  p.status = "approved" => \A c \in Candidates : \E a, b \in Current(p) :
    /\ a.candidate = c /\ b.candidate = c
    /\ a.role # b.role /\ a.reviewer # b.reviewer
    /\ a.decision = "approve" /\ b.decision = "approve"
    /\ \A o \in FailedClaims[c] : a.semantic = o /\ b.semantic = o
    /\ \A i \in DOMAIN p.rounds :
         c \in p.rounds[i].candidates =>
           a.at >= p.rounds[i].at /\ b.at >= p.rounds[i].at

\* What a planner accepts, its root commits: the readers that validate the
\* written document agree with the planners that wrote it, for signatures,
\* corrections, finalizations and a first reopening whose metrics MySQL does
\* not round (read_view inside the roots of review_state.py,
\* correction_state.py and evaluation_governance_state.py).  A plan the root
\* cannot commit is a refusal that no retry gets past.
PlansCommit ==
  revision < MaxVersion => \A at \in Clock :
    /\ ReviewOpen(at) => \A values \in Batches(at) :
         Admitted(values) => ReadView(Reviewed(values), revision + 1, at)
    /\ \A k \in Commands, previous \in Current(p), d \in {"approve", "reject"} :
         LET entry == Entry(k, previous, d, at)
         IN  execution[k] = None /\ CorrectionPlanned(entry) =>
               ReadView(Corrected(entry), revision + 1, at)
    /\ FinalizePlanned(at) => ReadView(Finalized(at), revision + 1, at)
    /\ p.rounds = <<>> /\ ~frozen.rounding /\ ReopenPlanned(at) =>
         ReadView(Reopened(at), revision + 1, at)

\* Where a command is recorded, in the current round or in an archived one.
Places(corrections, k) == {i \in DOMAIN corrections : corrections[i].id = k}
Occurrences(k) ==
  {<<0, i>> : i \in Places(p.corrections, k)}
    \cup UNION {{<<n, i>> : i \in Places(p.rounds[n].corrections, k)} : n \in DOMAIN p.rounds}

\* The durable receipt of a correction: its SDK execution is committed exactly
\* when the document records its command, once, in the current round or an
\* archived one, so that a lost response can be replayed at any later time
\* (correction_replayed, apply_correction_state).
WitnessedOnce ==
  \A k \in Commands :
    Cardinality(Occurrences(k)) = IF execution[k].state = "committed" THEN 1 ELSE 0

\* The document is well formed and holds each correction once.
DocumentSound == DocumentOK /\ WitnessedOnce

\* Every signature the document holds, as given or as corrected.
Signatures(q) ==
  LET correcting(corrections) == {corrections[i].review : i \in DOMAIN corrections}
  IN  q.reviews \cup correcting(q.corrections)
        \cup UNION {q.rounds[i].reviews \cup q.rounds[i].originals
                      \cup correcting(q.rounds[i].corrections) : i \in DOMAIN q.rounds}

\* Nothing anyone signed is ever lost or rewritten: no correction, reopening,
\* finalization or discard removes a signature from the document (original
\* signatures are immutable, review_correction.py; a round is archived whole,
\* reopened_progress).
SignaturesKept == [][Signatures(p) \subseteq Signatures(p')]_reviewVars
=============================================================================
