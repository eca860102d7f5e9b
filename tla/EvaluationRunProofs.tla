------------------------- MODULE EvaluationRunProofs -------------------------
(***************************************************************************)
(* Two parts of the life of one evaluation Run: its calls in serial mode,  *)
(* and the human review that decides it.  The two specifications share no  *)
(* name and are proved one after the other.                                *)
(*                                                                         *)
(* The serial evaluation, for any number of slots, workers, executions per *)
(* slot and faults: what is durable about a call is what happened to it,   *)
(* the SDK's witness of it is true, and what happens to the calls is what  *)
(* RunCalls allows.  The inductive invariant is the story of one call at a *)
(* time: the checkpoint is the last dispatch, every call before it has     *)
(* evidence that allowed the next, and the versions of two dispatches are  *)
(* so far apart that an expiry planned for one can never be committed for  *)
(* another.                                                                *)
(*                                                                         *)
(* The review, for any number of candidates, reviewers, correction         *)
(* commands and reopenings: an approval is accountable, what is planned    *)
(* reads back, every correction is recorded once and nothing signed is     *)
(* lost.  The inductive invariant keeps what the document was read back    *)
(* with when it was written; the rest is what the readers do not look at:  *)
(* who owns a correction, the order of the rounds, the executions.         *)
(***************************************************************************)
EXTENDS SerialEvaluation, EvaluationReview, FiniteSetTheorems, SequenceTheorems,
        WellFoundedInduction, TLAPS

-----------------------------------------------------------------------------
(* The inductive invariant.                                                *)

Statuses == {"collecting", "blocked", "awaiting_review", "canceled"}
Results == {"none", "succeeded", "retryable", "refused", "unknown"}
Row == [slot : Slots, kind : Kinds, version : Nat]
Progress == [status : Statuses, cancel : Nat, unresolved : {0, 1}, resolved : SUBSET Invocations]

Types ==
  /\ run \in Progress /\ version \in Nat /\ cp \in Nat
  /\ ledger \in Seq(Row) /\ evidence \in [Invocations -> Results]

LocalTypes ==
  /\ receipt \in [Invocations -> Results]
  /\ calls \in [Invocations -> Nat]
  /\ DOMAIN pc = Workers /\ DOMAIN held = Workers /\ reply \in [Workers -> Results]

\* The evidence of a call allows the slot to be called again.
Allows(i) ==
  \/ evidence[i] \in {"succeeded", "retryable"}
  \/ evidence[i] = "unknown" /\ i \in run.resolved

\* One call at a time: the checkpoint is the last dispatch, without evidence,
\* and every dispatch before the last has evidence that allowed the next.
OneAtATime ==
  LET n == Len(ledger) IN
  /\ cp # 0 => cp = n /\ run.status = "collecting" /\ evidence[n] = "none" /\ VersionFollows(n)
  /\ cp = 0 /\ n > 0 => evidence[n] # "none"
  /\ cp = 0 /\ n > 0 /\ run.status = "collecting" => Allows(n)
  /\ \A i \in 1 .. n - 1 : Allows(i)
  /\ \A i \in Invocations : i > n => evidence[i] = "none"
  /\ \A i \in run.resolved : i <= n /\ evidence[i] = "unknown"
  /\ run.unresolved = IF n > 0 /\ evidence[n] = "unknown" /\ n \notin run.resolved THEN 1 ELSE 0

\* A dispatch costs two versions, its completion and its resolution one each,
\* a cancellation two in all.
Spent ==
  LET n == Len(ledger) IN
  4 * n + (IF run.cancel # 0 THEN 1 ELSE 0) + (IF run.status = "canceled" THEN 1 ELSE 0)
    - (IF cp # 0 THEN 2 ELSE IF n > 0 /\ n \notin run.resolved THEN 1 ELSE 0)

VersionsGrow ==
  LET n == Len(ledger) IN
  /\ FirstVersion <= version /\ version <= FirstVersion + Spent
  /\ run.cancel <= version /\ (run.cancel # 0 => FirstVersion <= run.cancel)
  /\ \A i \in 1 .. n : ledger[i].version <= version - (IF cp = 0 THEN 1 ELSE 0)
  /\ \A i, j \in 1 .. n : i < j => ledger[i].version + 3 <= ledger[j].version

\* The calls of a kind stay within the Run's budget, and so all of them.
WithinLimits ==
  /\ \A k \in Kinds : Total(k) <= RunLimit(k)
  /\ Len(ledger) <= SlotCount * (GenerationLimit + SemanticLimit)

\* What a worker holds: a dispatched call, which nobody else will send before
\* it is sent, or a scan of one.
WorkersHold ==
  /\ \A i \in Invocations : calls[i] <= 1 /\ (i > Len(ledger) => calls[i] = 0)
  /\ \A w \in Workers :
       /\ pc[w] \in {"cleared", "waiting", "replied", "saved"} => held[w] \in 1 .. Len(ledger)
       /\ pc[w] = "cleared" => calls[held[w]] = 0
       /\ pc[w] = "scanned" => held[w].call \in 1 .. Len(ledger) /\ held[w].version \in Versions
  /\ \A v, w \in Workers : v # w /\ pc[v] = "cleared" /\ pc[w] = "cleared" => held[v] # held[w]

Execution ==
  [state : {"prepared", "aborted", "committed"}, by : Workers \cup {NoWork}, source : Nat]

ExecutionRows ==
  /\ DOMAIN exec \subseteq Intents
  /\ \A t \in DOMAIN exec :
       exec[t] \in Execution /\ (exec[t].by = NoWork <=> exec[t].state # "prepared")

Committed(t) == ExecOf(t).state = "committed"
Settlers(i) ==
  {Completing(i)} \cup {Expiring(v) : v \in {ledger[i].version, ledger[i].version + 1}}

\* Dispatches are committed with their row; a call without evidence has no
\* committed settlement, one with evidence has one.
WitnessInv ==
  /\ \A v \in Versions :
       Committed(Dispatching(v)) <=> \E i \in 1 .. Len(ledger) : ledger[i].version = v + 2
  /\ \A i \in Invocations : Committed(Completing(i)) => i <= Len(ledger)
  /\ \A v \in Versions : Committed(Expiring(v)) => v < version
  /\ \A i \in 1 .. Len(ledger) :
       /\ evidence[i] = "none" => \A t \in Settlers(i) : ~Committed(t)
       /\ evidence[i] # "none" =>
            \E t \in Settlers(i) : \A u \in Settlers(i) : Committed(u) <=> u = t

Inv ==
  /\ Types /\ OneAtATime /\ VersionsGrow /\ WithinLimits
  /\ LocalTypes /\ WorkersHold /\ ExecutionRows
  /\ ReceiptDecides /\ WitnessInv

-----------------------------------------------------------------------------
(* Numbers, sets and rows.                                                 *)

\* A set of slots that is not empty has a least element: the fewest slots up to
\* one of its elements are those up to the least.
LEMMA MinExists ==
  ASSUME NEW N \in Nat, NEW S \in SUBSET (1 .. N), S # {}
  PROVE  Min(S) \in S /\ \A x \in S : Min(S) <= x
<1> DEFINE Upto(x) == {y \in S : y =< x}
           T == {Upto(x) : x \in S}
<1>1. IsFiniteSet(S) /\ S \subseteq Int
  <2>1. IsFiniteSet(1 .. N)
    BY FS_Interval
  <2>2. IsFiniteSet(S)
    BY <2>1, FS_Subset
  <2>3. S \subseteq Int
    OBVIOUS
  <2> QED BY <2>2, <2>3
<1>2. IsWellFoundedOn(StrictSubsetOrdering(S), SUBSET S)
  BY <1>1, FS_StrictSubsetOrderingWellFounded, FS_FiniteSubsetsOfFinite
<1>3. T \subseteq SUBSET S /\ T # {}
  OBVIOUS
<1>4. \E A \in T : \A B \in T : ~(<<B, A>> \in StrictSubsetOrdering(S))
  <2> HIDE DEF T
  <2> QED BY <1>2, <1>3, WFMin
<1>5. PICK x \in S : \A y \in S : ~(<<Upto(y), Upto(x)>> \in StrictSubsetOrdering(S))
  BY <1>4
<1>6. ASSUME NEW y \in S PROVE x =< y
  <2>1. SUFFICES ASSUME y < x PROVE FALSE
    BY <1>1
  <2>2. Upto(y) \subseteq Upto(x) /\ x \in Upto(x) /\ x \notin Upto(y)
    <3>1. x \in Int /\ y \in Int /\ \A z \in S : z \in Int
      BY <1>1
    <3>2. \A z \in S : z =< y => z =< x
      BY <2>1, <3>1
    <3>3. Upto(y) \subseteq Upto(x)
      BY <3>2
    <3>4. x \in Upto(x)
      BY <3>1
    <3>5. x \notin Upto(y)
      BY <2>1, <3>1
    <3> QED BY <3>3, <3>4, <3>5
  <2>3. <<Upto(y), Upto(x)>> \in StrictSubsetOrdering(S)
    <3>1. Upto(y) \in SUBSET S /\ Upto(x) \in SUBSET S /\ Upto(y) # Upto(x)
      BY <2>2
    <3> HIDE DEF Upto
    <3> QED BY <2>2, <3>1 DEF StrictSubsetOrdering
  <2> QED BY <1>5, <2>3
<1> QED BY <1>6 DEF Min

\* At most as many calls as all slots may take.
Most == SlotCount * (GenerationLimit + SemanticLimit)

LEMMA Budget ==
  /\ Most \in Nat /\ Invocations = 1 .. Most /\ Cardinality(Invocations) = Most
  /\ RunLimit("generation") \in Nat /\ RunLimit("semantic") \in Nat
  /\ RunLimit("generation") + RunLimit("semantic") = Most
  /\ Versions = FirstVersion .. FirstVersion + 4 * Most + 2
<1> USE SerialAssumption
<1>1. Most \in Nat
  BY DEF Most
<1>2. Cardinality(1 .. Most) = Most
  BY <1>1, FS_Interval
<1>3. /\ RunLimit("generation") = SlotCount * GenerationLimit
      /\ RunLimit("semantic") = SlotCount * SemanticLimit
  BY DEF RunLimit, Limit
<1>4. SlotCount * GenerationLimit + SlotCount * SemanticLimit = Most
  BY DEF Most
<1>5. SlotCount * GenerationLimit \in Nat /\ SlotCount * SemanticLimit \in Nat
  OBVIOUS
<1> QED BY <1>1, <1>2, <1>3, <1>4, <1>5 DEF Invocations, Most, Versions

LEMMA LedgerLength ==
  ASSUME Types
  PROVE  /\ Len(ledger) \in Nat
         /\ \A i \in 1 .. Len(ledger) :
              ledger[i] \in Row /\ ledger[i].version \in Nat /\ ledger[i].kind \in Kinds
<1>1. Len(ledger) \in Nat /\ \A i \in 1 .. Len(ledger) : ledger[i] \in Row
  BY DEF Types
<1> QED BY <1>1 DEF Row

LEMMA VersionTyped ==
  ASSUME Inv
  PROVE  version \in Versions /\ (run.cancel # 0 => run.cancel \in Versions)
<1>1. Len(ledger) \in Nat /\ Len(ledger) <= Most
  BY LedgerLength DEF Inv, WithinLimits, Most
<1>2. version \in Nat /\ run.cancel \in Nat
  BY DEF Inv, Types, Progress
<1>3. FirstVersion <= version /\ version <= FirstVersion + Spent
      /\ run.cancel <= version /\ (run.cancel # 0 => FirstVersion <= run.cancel)
  BY DEF Inv, VersionsGrow
<1>4. Spent \in Int /\ Spent <= 4 * Len(ledger) + 2
  BY <1>1 DEF Spent
<1> QED BY <1>1, <1>2, <1>3, <1>4, Budget DEF FirstVersion

-----------------------------------------------------------------------------
(* The rows of the dispatches.                                             *)

\* Every row is of one of the two kinds.
LEMMA LedgerCount ==
  ASSUME Types
  PROVE  /\ Len(ledger) = Total("generation") + Total("semantic")
         /\ Total("generation") \in Nat /\ Total("semantic") \in Nat
<1> DEFINE Of(k) == {i \in 1 .. Len(ledger) : ledger[i].kind = k}
<1>1. Len(ledger) \in Nat /\ \A i \in 1 .. Len(ledger) : ledger[i].kind \in Kinds
  BY LedgerLength
<1>2. IsFiniteSet(1 .. Len(ledger)) /\ Cardinality(1 .. Len(ledger)) = Len(ledger)
  BY <1>1, FS_Interval
<1>3. /\ IsFiniteSet(Of("generation")) /\ IsFiniteSet(Of("semantic"))
      /\ Cardinality(Of("generation")) \in Nat /\ Cardinality(Of("semantic")) \in Nat
  BY <1>2, FS_Subset, FS_CardinalityType
<1>4. /\ Of("generation") \cup Of("semantic") = 1 .. Len(ledger)
      /\ Of("generation") \cap Of("semantic") = {}
  BY <1>1 DEF Kinds
<1> HIDE DEF Of
<1>5. Cardinality(1 .. Len(ledger)) = Cardinality(Of("generation")) + Cardinality(Of("semantic"))
  <2>1. Cardinality(Of("generation") \cup Of("semantic"))
          = Cardinality(Of("generation")) + Cardinality(Of("semantic"))
              - Cardinality(Of("generation") \cap Of("semantic"))
    BY <1>3, FS_Union
  <2>2. Cardinality(Of("generation") \cap Of("semantic")) = 0
    BY <1>4, FS_EmptySet
  <2>3. Cardinality(1 .. Len(ledger)) = Cardinality(Of("generation") \cup Of("semantic"))
    BY <1>4
  <2> QED BY <1>3, <2>1, <2>2, <2>3
<1> QED BY <1>2, <1>3, <1>5 DEF Total, Of

\* What a committed dispatch finds and leaves.
LEMMA Dispatched ==
  ASSUME Inv, NEW w \in Workers, CommitDispatch(w)
  PROVE  LET n == Len(ledger)
             row == [slot |-> NextSlot, kind |-> SlotAction(NextSlot, evidence),
                     version |-> version + 2]
         IN  /\ n \in Nat /\ n + 1 \in Invocations /\ row \in Row
             /\ ledger' \in Seq(Row) /\ Len(ledger') = n + 1
             /\ ledger'[n + 1] = row /\ \A i \in 1 .. n : ledger'[i] = ledger[i]
             /\ Total(row.kind) < RunLimit(row.kind)
<1> DEFINE n == Len(ledger)
           row == [slot |-> NextSlot, kind |-> SlotAction(NextSlot, evidence),
                   version |-> version + 2]
<1>1. n \in Nat /\ version \in Nat /\ ledger \in Seq(Row)
  BY LedgerLength DEF Inv, Types
<1>2. Unfinished(evidence) # {} /\ SlotAction(NextSlot, evidence) \in Kinds
      /\ Total(SlotAction(NextSlot, evidence)) < RunLimit(SlotAction(NextSlot, evidence))
  BY DEF CommitDispatch, DispatchHolds, Dispatchable, WithinBudget
<1>3. NextSlot \in Slots
  <2>1. Unfinished(evidence) \in SUBSET (1 .. SlotCount)
    BY DEF Unfinished, Slots
  <2> QED BY <1>2, <2>1, MinExists, SerialAssumption DEF NextSlot, Slots
<1>4. row \in Row
  BY <1>1, <1>2, <1>3 DEF Row
<1>5. ledger' = Append(ledger, row)
  BY DEF CommitDispatch
<1>6. /\ ledger' \in Seq(Row) /\ Len(ledger') = n + 1 /\ ledger'[n + 1] = row
      /\ \A i \in 1 .. n : ledger'[i] = ledger[i]
  BY <1>1, <1>4, <1>5
<1>7. n < Most
  <2>1. Total("generation") <= RunLimit("generation") /\ Total("semantic") <= RunLimit("semantic")
    BY DEF Inv, WithinLimits, Kinds
  <2>2. n = Total("generation") + Total("semantic")
        /\ Total("generation") \in Nat /\ Total("semantic") \in Nat
    BY <1>1, LedgerCount DEF Inv
  <2> QED BY <1>2, <2>1, <2>2, Budget DEF Kinds
<1> QED BY <1>1, <1>2, <1>4, <1>6, <1>7, Budget

-----------------------------------------------------------------------------
(* What a step does to the Run: nothing, a dispatch, a settlement or a     *)
(* decision of the operator.                                               *)

Kept == UNCHANGED <<run, version, cp, ledger, evidence>>

\* The call of the checkpoint gets its evidence, from its receipt if it has one.
Settle(i, outcome) ==
  /\ cp = i /\ i # 0 /\ run.status = "collecting"
  /\ outcome \in Results \ {"none"}
  /\ outcome = IF HasReceipt(i) THEN receipt[i] ELSE "unknown"
  /\ Complete(i, outcome)

Decision ==
  \/ RequestCancel \/ Cancel \/ FinishCancellation
  \/ \E i \in Invocations : Replace(i) \/ CancelUnknown(i)

LEMMA CheckpointIsLast ==
  ASSUME Inv, cp # 0
  PROVE  /\ cp = Len(ledger) /\ cp \in 1 .. Len(ledger) /\ cp \in Invocations
         /\ Len(ledger) \in Nat /\ run.status = "collecting" /\ evidence[cp] = "none"
         /\ VersionFollows(cp)
<1>1. Len(ledger) \in Nat /\ Len(ledger) <= Most /\ cp \in Nat /\ run.cancel \in Nat
  BY LedgerLength DEF Inv, WithinLimits, Most, Types, Progress
<1>2. cp = Len(ledger) /\ run.status = "collecting" /\ evidence[cp] = "none" /\ VersionFollows(cp)
  BY DEF Inv, OneAtATime
<1>3. cp \in 1 .. Len(ledger) /\ cp \in 1 .. Most
  BY <1>1, <1>2, Budget
<1> QED BY <1>1, <1>2, <1>3, Budget

LEMMA CompletionSettles ==
  ASSUME Inv, NEW w \in Workers, NEW kind, CommitCompletion(w, kind)
  PROVE  \E i \in 1 .. Len(ledger) :
           /\ Settle(i, receipt[i]) /\ Owned(w, Completing(i))
           /\ Resolved(Completing(i), "committed") /\ Idle(w)
<1>1. PICK i \in 1 .. Len(ledger) :
        /\ Owned(w, Completing(i)) /\ CompletionHolds(Completing(i))
        /\ Complete(i, receipt[i]) /\ Resolved(Completing(i), "committed") /\ Idle(w)
  BY DEF CommitCompletion, OutcomeOf
<1>2. Completing(i).of = i
  BY DEF Completing
<1>3. HasReceipt(i) /\ cp = i /\ run.status = "collecting"
  BY <1>1, <1>2 DEF CompletionHolds, Loadable
<1>4. i # 0 /\ i \in Invocations
  BY <1>3, LedgerLength, CheckpointIsLast DEF Inv
<1>5. receipt[i] \in Results \ {"none"}
  BY <1>3, <1>4 DEF Inv, LocalTypes, HasReceipt
<1> QED BY <1>1, <1>3, <1>4, <1>5 DEF Settle

LEMMA ExpirySettles ==
  ASSUME Inv, NEW w \in Workers, CommitExpiry(w)
  PROVE  /\ Settle(cp, "unknown") /\ Owned(w, Expiring(version))
         /\ Resolved(Expiring(version), "committed") /\ Idle(w)
<1>1. Expiring(version).of = version
  BY DEF Expiring
<1> QED BY <1>1 DEF CommitExpiry, ExpiryHolds, Settle, Results

LEMMA StepClasses ==
  ASSUME Inv, [Next]_vars
  PROVE  \/ Kept
         \/ \E w \in Workers : CommitDispatch(w)
         \/ \E i \in Nat, outcome \in Results : Settle(i, outcome)
         \/ Decision
<1>1. ASSUME NEW w \in Workers, Step(w)
      PROVE  \/ Kept \/ CommitDispatch(w)
             \/ \E i \in Nat, outcome \in Results : Settle(i, outcome)
  <2>1. ASSUME NEW kind, CommitCompletion(w, kind)
        PROVE  \E i \in Nat, outcome \in Results : Settle(i, outcome)
    BY <2>1, CompletionSettles, LedgerLength DEF Settle, Inv
  <2>2. ASSUME CommitExpiry(w)
        PROVE  \E i \in Nat, outcome \in Results : Settle(i, outcome)
    BY <2>2, ExpirySettles DEF Settle, Inv, Types
  <2>3. CASE CommitGeneration(w) \/ CommitSemantic(w) \/ CommitExpiry(w)
    BY <2>1, <2>2, <2>3 DEF CommitGeneration, CommitSemantic
  <2>4. CASE \/ ReserveDispatch(w) \/ Invoke(w) \/ \E outcome \in Outcomes : Reply(w, outcome)
             \/ Save(w) \/ ReserveCompletion(w) \/ LeaveCompletion(w) \/ Scan(w)
             \/ RecoverResponse(w) \/ RecoverExpiry(w) \/ LeaveScan(w) \/ RefuseRoot(w)
    BY <2>4 DEF Kept, ReserveDispatch, Invoke, Reply, Save, ReserveCompletion, LeaveCompletion,
       Scan, RecoverResponse, RecoverExpiry, LeaveScan, RefuseRoot, Reserve, business, records
  <2> QED BY <1>1, <2>3, <2>4 DEF Step
<1>2. ASSUME NEW w \in Workers, Stop(w) PROVE Kept
  BY <1>2 DEF Stop, Kept, business, records
<1>3. ASSUME NEW t, Abort(t) PROVE Kept
  BY <1>3 DEF Abort, Kept, business, records
<1>4. CASE LeaseRunsOut
  BY <1>4 DEF LeaseRunsOut, Kept, records
<1>5. CASE UNCHANGED vars
  BY <1>5 DEF vars, Kept, business, records
<1>6. CASE FinishCancellation \/ Operator
  BY <1>6 DEF Operator, Decision
<1> QED BY <1>1, <1>2, <1>3, <1>4, <1>5, <1>6 DEF Next

-----------------------------------------------------------------------------
(* The Run: types, one call at a time, growing versions, the budget.       *)

\* What a settlement leaves.
LEMMA Settled ==
  ASSUME Inv, NEW i \in Nat, NEW outcome \in Results, Settle(i, outcome)
  PROVE  /\ i = Len(ledger) /\ i \in 1 .. Len(ledger) /\ i \in Invocations /\ cp = i
         /\ evidence[i] = "none" /\ outcome # "none"
         /\ evidence' = [evidence EXCEPT ![i] = outcome]
         /\ run' \in Progress
         /\ run'.status \in {"collecting", "blocked", "awaiting_review"}
         /\ run'.status = "collecting" => outcome \in {"succeeded", "retryable"}
         /\ run'.cancel = run.cancel /\ run'.resolved = run.resolved
         /\ run.unresolved = 0 /\ run'.unresolved = IF outcome = "unknown" THEN 1 ELSE 0
         /\ cp' = 0 /\ version' = version + 1 /\ ledger' = ledger /\ receipt' = receipt
<1>1. /\ i = Len(ledger) /\ i \in 1 .. Len(ledger) /\ i \in Invocations /\ cp = i
      /\ evidence[i] = "none" /\ outcome # "none" /\ Complete(i, outcome)
  BY CheckpointIsLast DEF Settle
<1>2. run \in Progress /\ run.unresolved = 0
  BY <1>1 DEF Inv, Types, OneAtATime
<1>3. run' = [run EXCEPT !.status = CompletedStatus(i, outcome),
                         !.unresolved = @ + (IF outcome = "unknown" THEN 1 ELSE 0)]
  BY <1>1 DEF Complete
<1>4. /\ CompletedStatus(i, outcome) \in {"collecting", "blocked", "awaiting_review"}
      /\ CompletedStatus(i, outcome) = "collecting" => outcome \in {"succeeded", "retryable"}
  BY DEF CompletedStatus, Blocks
<1>5. /\ run' \in Progress /\ run'.status = CompletedStatus(i, outcome)
      /\ run'.cancel = run.cancel /\ run'.resolved = run.resolved
      /\ run'.unresolved = IF outcome = "unknown" THEN 1 ELSE 0
  <2> DEFINE u == IF outcome = "unknown" THEN 1 ELSE 0
  <2>1. run.unresolved + u = u /\ u \in {0, 1}
    BY <1>2
  <2>2. run' = [run EXCEPT !.status = CompletedStatus(i, outcome), !.unresolved = u,
                           !.resolved = run.resolved]
    BY <1>2, <1>3, <2>1 DEF Progress
  <2>3. CompletedStatus(i, outcome) \in Statuses /\ run.resolved \in SUBSET Invocations
    BY <1>2, <1>4 DEF Progress, Statuses
  <2> HIDE DEF u
  <2>4. /\ run' \in Progress /\ run'.status = CompletedStatus(i, outcome)
        /\ run'.cancel = run.cancel /\ run'.resolved = run.resolved /\ run'.unresolved = u
    BY <1>2, <2>1, <2>2, <2>3 DEF Progress
  <2> QED BY <2>4 DEF u
<1> QED BY <1>1, <1>2, <1>4, <1>5 DEF Complete

\* What a decision finds and leaves; the call that is resolved is the last one.
LEMMA Decided ==
  ASSUME Inv, Decision
  PROVE  /\ run' \in Progress /\ version' = version + 1
         /\ UNCHANGED <<cp, ledger, evidence, receipt>>
         /\ \/ /\ run.cancel = 0 /\ run'.cancel = version
               /\ run'.status = run.status /\ run'.resolved = run.resolved
               /\ run'.unresolved = run.unresolved
            \/ /\ cp = 0 /\ run.status # "canceled" /\ run'.status = "canceled"
               /\ run'.cancel = run.cancel /\ run'.resolved = run.resolved
               /\ run'.unresolved = run.unresolved
            \/ LET n == Len(ledger) IN
               /\ cp = 0 /\ run.status = "blocked" /\ run'.status \in {"collecting", "canceled"}
               /\ n \in 1 .. n /\ n \in Invocations /\ evidence[n] = "unknown"
               /\ n \notin run.resolved /\ run'.resolved = run.resolved \cup {n}
               /\ run'.cancel = run.cancel /\ run'.unresolved = 0
<1>1. run \in Progress /\ version \in Nat
  BY DEF Inv, Types
<1>2. CASE RequestCancel
  BY <1>1, <1>2 DEF RequestCancel, Decide, records, Progress
<1>3. CASE Cancel \/ FinishCancellation
  BY <1>1, <1>3 DEF Cancel, FinishCancellation, Decide, Draining, records, Progress, Statuses
<1>4. ASSUME NEW i \in Invocations, NEW status \in {"collecting", "canceled"}, Resolve(i, status)
      PROVE  LET n == Len(ledger) IN
               /\ run' \in Progress /\ version' = version + 1
               /\ UNCHANGED <<cp, ledger, evidence, receipt>>
               /\ cp = 0 /\ run.status = "blocked" /\ run'.status \in {"collecting", "canceled"}
               /\ n \in 1 .. n /\ n \in Invocations /\ evidence[n] = "unknown"
               /\ n \notin run.resolved /\ run'.resolved = run.resolved \cup {n}
               /\ run'.cancel = run.cancel /\ run'.unresolved = 0
  <2>1. /\ cp = 0 /\ run.status = "blocked" /\ evidence[i] = "unknown" /\ i \notin run.resolved
        /\ run' = [run EXCEPT !.status = status, !.unresolved = @ - 1, !.resolved = @ \cup {i}]
        /\ version' = version + 1 /\ UNCHANGED <<cp, ledger, evidence, receipt>>
    BY <1>4 DEF Resolve, Decide, records
  <2>2. Len(ledger) \in Nat /\ i \in Nat /\ i >= 1
    BY LedgerLength, Budget DEF Inv
  <2>3. ~(i > Len(ledger)) /\ i \notin 1 .. Len(ledger) - 1
    BY <2>1 DEF Inv, OneAtATime, Allows
  <2>4. i = Len(ledger)
    BY <2>2, <2>3
  <2>5. run.unresolved = 1
    BY <2>1, <2>2, <2>4 DEF Inv, OneAtATime
  <2>6. /\ run' \in Progress /\ run'.status = status /\ run'.cancel = run.cancel
        /\ run'.resolved = run.resolved \cup {i} /\ run'.unresolved = 0
    <3>1. run' = [run EXCEPT !.status = status, !.unresolved = 0,
                             !.resolved = run.resolved \cup {i}]
      BY <1>1, <2>1, <2>5 DEF Progress
    <3>2. status \in Statuses /\ run.resolved \cup {i} \in SUBSET Invocations
      BY <1>1 DEF Progress, Statuses
    <3> QED BY <1>1, <3>1, <3>2 DEF Progress
  <2> QED BY <2>1, <2>2, <2>4, <2>6
<1>5. CASE \E i \in Invocations : Replace(i) \/ CancelUnknown(i)
  <2>1. \E i \in Invocations, status \in {"collecting", "canceled"} : Resolve(i, status)
    BY <1>5 DEF Replace, CancelUnknown
  <2> QED BY <1>4, <2>1
<1> QED BY <1>2, <1>3, <1>5 DEF Decision

LEMMA TypesNext ==
  ASSUME Inv, [Next]_vars
  PROVE  Types'
<1>1. CASE Kept
  BY <1>1 DEF Inv, Types, Kept
<1>2. ASSUME NEW w \in Workers, CommitDispatch(w) PROVE Types'
  <2>1. run' = run /\ evidence' = evidence /\ version' = version + 2 /\ cp' = Len(ledger) + 1
    BY <1>2 DEF CommitDispatch
  <2> QED BY <1>2, <2>1, Dispatched DEF Inv, Types
<1>3. ASSUME NEW i \in Nat, NEW outcome \in Results, Settle(i, outcome) PROVE Types'
  BY <1>3, Settled DEF Inv, Types
<1>4. CASE Decision
  BY <1>4, Decided DEF Inv, Types
<1> QED BY <1>1, <1>2, <1>3, <1>4, StepClasses

LEMMA OneAtATimeNext ==
  ASSUME Inv, [Next]_vars
  PROVE  OneAtATime'
<1> USE DEF Inv, OneAtATime, Allows, VersionFollows
<1>0. /\ Len(ledger) \in Nat /\ run \in Progress /\ Invocations = 1 .. Most /\ Most \in Nat
      /\ evidence \in [Invocations -> Results]
      /\ \A i \in 1 .. Len(ledger) : ledger[i].version \in Nat
  BY LedgerLength, Budget DEF Types
<1>1. CASE Kept
  BY <1>1 DEF Kept
<1>2. ASSUME NEW w \in Workers, CommitDispatch(w) PROVE OneAtATime'
  <2>1. /\ run' = run /\ evidence' = evidence /\ version' = version + 2 /\ cp' = Len(ledger) + 1
        /\ cp = 0 /\ run.status = "collecting" /\ run.cancel = 0 /\ run.unresolved = 0
    BY <1>2 DEF CommitDispatch, DispatchHolds, Dispatchable
  <2>2. /\ Len(ledger') = Len(ledger) + 1 /\ Len(ledger) + 1 \in Invocations
        /\ ledger'[Len(ledger) + 1].version = version + 2
    BY <1>2, Dispatched
  <2> QED BY <1>0, <2>1, <2>2 DEF Progress
<1>3. ASSUME NEW i \in Nat, NEW outcome \in Results, Settle(i, outcome) PROVE OneAtATime'
  BY <1>0, <1>3, Settled DEF Progress
<1>4. CASE Decision
  <2>1. /\ UNCHANGED <<cp, ledger, evidence>> /\ version' = version + 1 /\ version \in Nat
        /\ run' \in Progress
    BY <1>4, Decided DEF Types
  <2>2. CASE /\ run.cancel = 0 /\ run'.cancel = version /\ run'.status = run.status
             /\ run'.resolved = run.resolved /\ run'.unresolved = run.unresolved
    BY <1>0, <2>1, <2>2 DEF Progress, VersionsGrow, FirstVersion
  <2>3. CASE /\ cp = 0 /\ run'.status = "canceled" /\ run'.cancel = run.cancel
             /\ run'.resolved = run.resolved /\ run'.unresolved = run.unresolved
    BY <1>0, <2>1, <2>3
  <2>4. CASE LET n == Len(ledger) IN
             /\ cp = 0 /\ n \in 1 .. n /\ n \in Invocations /\ evidence[n] = "unknown"
             /\ n \notin run.resolved /\ run'.resolved = run.resolved \cup {n}
             /\ run'.unresolved = 0
    BY <1>0, <2>1, <2>4
  <2> QED BY <1>4, <2>2, <2>3, <2>4, Decided
<1> QED BY <1>1, <1>2, <1>3, <1>4, StepClasses

LEMMA VersionsGrowNext ==
  ASSUME Inv, [Next]_vars
  PROVE  VersionsGrow'
<1> USE DEF VersionsGrow, Spent, FirstVersion
<1>0. /\ Len(ledger) \in Nat /\ run \in Progress /\ version \in Nat /\ run.cancel \in Nat
      /\ \A i \in 1 .. Len(ledger) : ledger[i].version \in Nat
      /\ VersionsGrow
  BY LedgerLength DEF Inv, Types, Progress
<1>1. CASE Kept
  BY <1>0, <1>1 DEF Kept
<1>2. ASSUME NEW w \in Workers, CommitDispatch(w) PROVE VersionsGrow'
  <2> DEFINE n == Len(ledger)
  <2>1. /\ run' = run /\ version' = version + 2 /\ cp' = n + 1
        /\ cp = 0 /\ run.status = "collecting" /\ run.cancel = 0 /\ run.unresolved = 0
    BY <1>2 DEF CommitDispatch, DispatchHolds, Dispatchable
  <2>2. /\ Len(ledger') = n + 1 /\ ledger'[n + 1].version = version + 2
        /\ \A i \in 1 .. n : ledger'[i] = ledger[i]
    BY <1>2, Dispatched
  <2>3. FirstVersion <= version' /\ version' <= FirstVersion + Spent' /\ run'.cancel <= version'
    BY <1>0, <2>1, <2>2
  <2>4. ASSUME NEW i \in 1 .. n + 1 PROVE ledger'[i].version <= version'
    <3>1. CASE i = n + 1 BY <1>0, <2>1, <2>2, <3>1
    <3>2. CASE i \in 1 .. n
      <4>1. ledger'[i].version = ledger[i].version /\ ledger[i].version \in Nat
        BY <1>0, <2>2, <3>2
      <4>2. ledger[i].version <= version - 1 BY <1>0, <2>1, <3>2
      <4> QED BY <1>0, <2>1, <4>1, <4>2
    <3> QED BY <1>0, <3>1, <3>2
  <2>5. ASSUME NEW i \in 1 .. n + 1, NEW j \in 1 .. n + 1, i < j
        PROVE  ledger'[i].version + 3 <= ledger'[j].version
    <3>1. i \in 1 .. n /\ ledger[i].version <= version - 1
      BY <1>0, <2>1, <2>5
    <3>2. CASE j = n + 1
      BY <1>0, <2>2, <3>1, <3>2
    <3>3. CASE j \in 1 .. n
      BY <1>0, <2>2, <2>5, <3>1, <3>3
    <3> QED BY <1>0, <3>2, <3>3
  <2> QED BY <1>0, <2>1, <2>2, <2>3, <2>4, <2>5
<1>3. ASSUME NEW i \in Nat, NEW outcome \in Results, Settle(i, outcome) PROVE VersionsGrow'
  <2>1. /\ i = Len(ledger) /\ i \in 1 .. Len(ledger) /\ cp = i /\ evidence[i] = "none"
        /\ run'.status # "canceled" /\ run'.cancel = run.cancel /\ run'.resolved = run.resolved
        /\ cp' = 0 /\ version' = version + 1 /\ ledger' = ledger
    BY <1>3, Settled
  <2>2. i \notin run.resolved
    BY <2>1 DEF Inv, OneAtATime
  <2>3. Spent <= 4 * Len(ledger) + (IF run.cancel # 0 THEN 1 ELSE 0) - 2 /\ Spent \in Int
    BY <1>0, <1>3, <2>1 DEF Settle
  <2>4. Spent' = 4 * Len(ledger) + (IF run.cancel # 0 THEN 1 ELSE 0) - 1 /\ Spent' \in Int
    <3>1. /\ Len(ledger') = Len(ledger) /\ Len(ledger) > 0 /\ Len(ledger) \notin run'.resolved
          /\ ~(cp' # 0) /\ run'.status # "canceled" /\ run'.cancel = run.cancel
      BY <1>0, <2>1, <2>2
    <3> QED BY <1>0, <3>1
  <2> HIDE DEF Spent
  <2>5. FirstVersion <= version' /\ version' <= FirstVersion + Spent'
    BY <1>0, <2>1, <2>3, <2>4
  <2>6. \A j \in 1 .. Len(ledger') : ledger'[j].version <= version' - 1
    BY <1>0, <2>1
  <2>7. \A j, k \in 1 .. Len(ledger') : j < k => ledger'[j].version + 3 <= ledger'[k].version
    BY <1>0, <2>1
  <2>8. run'.cancel <= version' /\ (run'.cancel # 0 => FirstVersion <= run'.cancel)
    BY <1>0, <2>1
  <2> QED BY <2>1, <2>5, <2>6, <2>7, <2>8
<1>4. CASE Decision
  <2>1. /\ UNCHANGED <<cp, ledger>> /\ version' = version + 1 /\ run' \in Progress
    BY <1>4, Decided
  <2>2. ASSUME NEW a \in Int, NEW b \in Int, a = Spent, b = Spent', a + 1 <= b,
               run'.cancel = run.cancel \/ (run.cancel = 0 /\ run'.cancel = version)
        PROVE  VersionsGrow'
    <3>1. FirstVersion <= version' /\ version' <= FirstVersion + b
      <4>1. FirstVersion <= version /\ version <= FirstVersion + a
        BY <1>0, <2>2
      <4> QED BY <1>0, <2>1, <2>2, <4>1
    <3>2. run'.cancel <= version' /\ (run'.cancel # 0 => FirstVersion <= run'.cancel)
      <4>1. /\ FirstVersion <= version /\ run.cancel <= version /\ version' = version + 1
            /\ (run.cancel # 0 => FirstVersion <= run.cancel)
        BY <1>0, <2>1
      <4>2. CASE run'.cancel = run.cancel
        BY <1>0, <4>1, <4>2
      <4>3. CASE run'.cancel = version
        BY <1>0, <4>1, <4>3
      <4> QED BY <2>2, <4>2, <4>3
    <3>3. \A j \in 1 .. Len(ledger') :
            ledger'[j].version <= version' - (IF cp' = 0 THEN 1 ELSE 0)
      BY <1>0, <2>1
    <3>4. \A j, k \in 1 .. Len(ledger') : j < k => ledger'[j].version + 3 <= ledger'[k].version
      BY <1>0, <2>1
    <3> QED BY <2>2, <3>1, <3>2, <3>3, <3>4
  <2>3. CASE /\ run.cancel = 0 /\ run'.cancel = version /\ run'.status = run.status
             /\ run'.resolved = run.resolved
    <3>1. run'.cancel # 0
      BY <1>0, <2>3
    <3>2. Spent \in Int /\ Spent' = Spent + 1
      BY <1>0, <2>1, <2>3, <3>1
    <3>3. Spent' \in Int /\ Spent + 1 <= Spent'
      BY <3>2
    <3> QED BY <2>2, <2>3, <3>2, <3>3
  <2>4. CASE /\ run.status # "canceled" /\ run'.status = "canceled" /\ run'.cancel = run.cancel
             /\ run'.resolved = run.resolved
    <3>1. Spent \in Int /\ Spent' = Spent + 1
      BY <1>0, <2>1, <2>4
    <3>2. Spent' \in Int /\ Spent + 1 <= Spent'
      BY <3>1
    <3> QED BY <2>2, <2>4, <3>1, <3>2
  <2>5. CASE LET n == Len(ledger) IN
             /\ cp = 0 /\ run.status = "blocked" /\ n \in 1 .. n
             /\ n \notin run.resolved /\ run'.resolved = run.resolved \cup {n}
             /\ run'.cancel = run.cancel
    <3>1. Spent \in Int /\ Spent' \in Int /\ Spent + 1 <= Spent'
      BY <1>0, <2>1, <2>5
    <3> QED BY <2>2, <2>5, <3>1
  <2> QED BY <1>4, <2>3, <2>4, <2>5, Decided
<1> QED BY <1>1, <1>2, <1>3, <1>4, StepClasses

LEMMA WithinLimitsNext ==
  ASSUME Inv, [Next]_vars
  PROVE  WithinLimits'
<1> USE DEF Inv, WithinLimits
<1>1. CASE ledger' = ledger
  BY <1>1 DEF Total
<1>2. ASSUME NEW w \in Workers, CommitDispatch(w) PROVE WithinLimits'
  <2> DEFINE n == Len(ledger)
             Of(k) == {i \in 1 .. n : ledger[i].kind = k}
             kind == SlotAction(NextSlot, evidence)
  <2>1. /\ n \in Nat /\ n + 1 \in Invocations /\ Len(ledger') = n + 1
        /\ ledger'[n + 1].kind = kind /\ kind \in Kinds /\ \A i \in 1 .. n : ledger'[i] = ledger[i]
        /\ Total(kind) < RunLimit(kind)
    BY <1>2, Dispatched DEF Row
  <2>2. ASSUME NEW k \in Kinds PROVE Total(k)' <= RunLimit(k)
    <3>1. Total(k)' = Cardinality({i \in 1 .. n + 1 : ledger'[i].kind = k})
      BY <2>1 DEF Total
    <3>2. {i \in 1 .. n + 1 : ledger'[i].kind = k} = IF k = kind THEN Of(k) \cup {n + 1} ELSE Of(k)
      BY <2>1
    <3>3. IsFiniteSet(Of(k)) /\ Cardinality(Of(k)) \in Nat /\ n + 1 \notin Of(k)
      <4>1. IsFiniteSet(1 .. n)
        BY <2>1, FS_Interval
      <4> QED BY <2>1, <4>1, FS_Subset, FS_CardinalityType
    <3>4. Cardinality(Of(k)) = Total(k) /\ Total(k) <= RunLimit(k)
      BY DEF Total
    <3>5. RunLimit(k) \in Nat
      BY Budget DEF Kinds
    <3> HIDE DEF Of
    <3>6. Cardinality(Of(k) \cup {n + 1}) = Cardinality(Of(k)) + 1
      BY <3>3, FS_AddElement
    <3>7. CASE k = kind
      <4>1. Total(k) < RunLimit(k)
        BY <2>1, <3>7
      <4>2. Total(k)' = Cardinality(Of(k) \cup {n + 1})
        BY <3>1, <3>2, <3>7
      <4> QED BY <3>3, <3>4, <3>5, <3>6, <4>1, <4>2
    <3>8. CASE k # kind
      BY <3>1, <3>2, <3>4, <3>8
    <3> QED BY <3>7, <3>8
  <2>3. n + 1 <= Most
    BY <2>1, Budget
  <2> QED BY <2>1, <2>2, <2>3 DEF Most
<1>3. ASSUME NEW i \in Nat, NEW outcome \in Results, Settle(i, outcome) PROVE ledger' = ledger
  BY <1>3, Settled
<1>4. CASE Decision
  BY <1>1, <1>4, Decided
<1> QED BY <1>1, <1>2, <1>3, <1>4, StepClasses DEF Kept

-----------------------------------------------------------------------------
(* The workers.                                                            *)

LEMMA Moves ==
  ASSUME LocalTypes, NEW w \in Workers, NEW at, NEW what, GoTo(w, at, what)
  PROVE  /\ DOMAIN pc' = Workers /\ DOMAIN held' = Workers /\ reply' \in [Workers -> Results]
         /\ pc'[w] = at /\ held'[w] = what
         /\ \A v \in Workers \ {w} : pc'[v] = pc[v] /\ held'[v] = held[v]
  BY DEF LocalTypes, GoTo, Results

\* A worker goes on with its own call, with a scan, or with none.
LEMMA MovesHold ==
  ASSUME Inv, NEW w \in Workers, NEW at, NEW what, GoTo(w, at, what),
         UNCHANGED <<ledger, calls>>,
         \/ at \in {"idle", "reserved"}
         \/ at = "saved" /\ pc[w] = "replied" /\ what = held[w]
         \/ at = "scanned" /\ what.call \in 1 .. Len(ledger) /\ what.version \in Versions
  PROVE  WorkersHold'
<1>1. /\ pc'[w] = at /\ held'[w] = what
      /\ \A v \in Workers \ {w} : pc'[v] = pc[v] /\ held'[v] = held[v]
  BY Moves DEF Inv
<1> QED BY <1>1 DEF Inv, WorkersHold

LEMMA Resting ==
  ASSUME Inv, NEW w \in Workers, Idle(w), UNCHANGED <<ledger, calls, receipt>>
  PROVE  LocalTypes' /\ WorkersHold'
<1>1. WorkersHold'
  BY MovesHold DEF Idle
<1>2. DOMAIN pc' = Workers /\ DOMAIN held' = Workers /\ reply' \in [Workers -> Results]
  BY Moves DEF Idle, Inv
<1> QED BY <1>1, <1>2 DEF Inv, LocalTypes

LEMMA Reserving ==
  ASSUME Inv, NEW w \in Workers, NEW t, NEW source, Reserve(w, t, source)
  PROVE  LocalTypes' /\ WorkersHold'
<1>1. GoTo(w, "reserved", t) /\ UNCHANGED <<ledger, calls, receipt>>
  BY DEF Reserve, business, records
<1>2. WorkersHold'
  BY <1>1, MovesHold
<1>3. DOMAIN pc' = Workers /\ DOMAIN held' = Workers /\ reply' \in [Workers -> Results]
  BY <1>1, Moves DEF Inv
<1> QED BY <1>1, <1>2, <1>3 DEF Inv, LocalTypes

LEMMA WorkersNext ==
  ASSUME Inv, [Next]_vars
  PROVE  LocalTypes' /\ WorkersHold'
<1>1. ASSUME NEW w \in Workers, CommitDispatch(w) PROVE LocalTypes' /\ WorkersHold'
  <2> DEFINE n == Len(ledger)
  <2>1. GoTo(w, "cleared", n + 1) /\ UNCHANGED <<calls, receipt>>
    BY <1>1 DEF CommitDispatch
  <2>2. n \in Nat /\ n + 1 \in Invocations /\ Len(ledger') = n + 1
    BY <1>1, Dispatched
  <2>3. /\ DOMAIN pc' = Workers /\ DOMAIN held' = Workers /\ reply' \in [Workers -> Results]
        /\ pc'[w] = "cleared" /\ held'[w] = n + 1
        /\ \A v \in Workers \ {w} : pc'[v] = pc[v] /\ held'[v] = held[v]
    BY <2>1, Moves DEF Inv
  <2>4. \A v \in Workers : pc[v] = "cleared" => held[v] # n + 1
    BY <2>2 DEF Inv, WorkersHold
  <2>5. WorkersHold'
    <3>1. \A i \in Invocations : calls'[i] <= 1 /\ (i > Len(ledger') => calls'[i] = 0)
      BY <2>1, <2>2, Budget DEF Inv, WorkersHold
    <3>2. calls'[n + 1] = 0
      BY <2>1, <2>2 DEF Inv, WorkersHold
    <3>3. ASSUME NEW v \in Workers
          PROVE  /\ pc'[v] \in {"cleared", "waiting", "replied", "saved"} =>
                      held'[v] \in 1 .. Len(ledger')
                 /\ pc'[v] = "cleared" => calls'[held'[v]] = 0
                 /\ pc'[v] = "scanned" =>
                      held'[v].call \in 1 .. Len(ledger') /\ held'[v].version \in Versions
      <4>1. CASE v = w
        BY <2>2, <2>3, <3>2, <4>1
      <4>2. CASE v # w
        BY <2>1, <2>2, <2>3, <4>2 DEF Inv, WorkersHold
      <4> QED BY <4>1, <4>2
    <3>4. \A u, v \in Workers :
            u # v /\ pc'[u] = "cleared" /\ pc'[v] = "cleared" => held'[u] # held'[v]
      BY <2>3, <2>4 DEF Inv, WorkersHold
    <3> QED BY <3>1, <3>3, <3>4 DEF WorkersHold
  <2> QED BY <2>1, <2>3, <2>5 DEF Inv, LocalTypes
<1>2. ASSUME NEW w \in Workers, Invoke(w) PROVE LocalTypes' /\ WorkersHold'
  <2>1. /\ pc[w] = "cleared" /\ held[w] \in 1 .. Len(ledger) /\ calls[held[w]] = 0
        /\ calls' = [calls EXCEPT ![held[w]] = calls[held[w]] + 1]
        /\ pc' = [pc EXCEPT ![w] = "waiting"] /\ UNCHANGED <<ledger, held, receipt, reply>>
    BY <1>2 DEF Invoke, Inv, WorkersHold, business, records
  <2>2. held[w] \in Invocations /\ Len(ledger) \in Nat
    BY <2>1, LedgerLength, Budget DEF Inv, WithinLimits, Most
  <2>3. /\ calls' \in [Invocations -> Nat] /\ calls'[held[w]] = 1
        /\ \A i \in Invocations \ {held[w]} : calls'[i] = calls[i]
    BY <2>1, <2>2 DEF Inv, LocalTypes
  <2>4. DOMAIN pc' = Workers /\ pc'[w] = "waiting" /\ \A v \in Workers \ {w} : pc'[v] = pc[v]
    BY <2>1 DEF Inv, LocalTypes
  <2>5. \A i \in Invocations : calls'[i] <= 1 /\ (i > Len(ledger') => calls'[i] = 0)
    BY <2>1, <2>2, <2>3, Budget DEF Inv, WorkersHold
  <2>6. ASSUME NEW v \in Workers
        PROVE  /\ pc'[v] \in {"cleared", "waiting", "replied", "saved"} =>
                    held'[v] \in 1 .. Len(ledger')
               /\ pc'[v] = "cleared" => calls'[held'[v]] = 0
               /\ pc'[v] = "scanned" =>
                    held'[v].call \in 1 .. Len(ledger') /\ held'[v].version \in Versions
    <3>1. CASE v = w
      BY <2>1, <2>4, <3>1
    <3>2. CASE v # w
      <4>1. pc[v] = "cleared" => held[v] # held[w] /\ held[v] \in Invocations
        BY <2>1, <3>2, LedgerLength, Budget DEF Inv, WorkersHold, WithinLimits, Most
      <4> QED BY <2>1, <2>3, <2>4, <3>2, <4>1 DEF Inv, WorkersHold
    <3> QED BY <3>1, <3>2
  <2>7. \A u, v \in Workers :
          u # v /\ pc'[u] = "cleared" /\ pc'[v] = "cleared" => held'[u] # held'[v]
    BY <2>1, <2>4 DEF Inv, WorkersHold
  <2> QED BY <2>1, <2>3, <2>4, <2>5, <2>6, <2>7 DEF Inv, LocalTypes, WorkersHold
<1>3. ASSUME NEW w \in Workers, NEW outcome \in Outcomes, Reply(w, outcome)
      PROVE  LocalTypes' /\ WorkersHold'
  <2>1. /\ pc[w] = "waiting" /\ outcome \in Results
        /\ pc' = [pc EXCEPT ![w] = "replied"] /\ reply' = [reply EXCEPT ![w] = outcome]
        /\ UNCHANGED <<ledger, held, receipt, calls>>
    BY <1>3, SerialAssumption DEF Reply, business, records, Results
  <2>2. DOMAIN pc' = Workers /\ pc'[w] = "replied" /\ \A v \in Workers \ {w} : pc'[v] = pc[v]
    BY <2>1 DEF Inv, LocalTypes
  <2>3. LocalTypes'
    BY <2>1, <2>2 DEF Inv, LocalTypes
  <2> QED BY <2>1, <2>2, <2>3 DEF Inv, WorkersHold
<1>4. ASSUME NEW w \in Workers, Save(w) PROVE LocalTypes' /\ WorkersHold'
  <2>1. CASE MaySave(held[w])
    <3>1. /\ pc[w] = "replied" /\ GoTo(w, "saved", held[w]) /\ UNCHANGED <<ledger, calls>>
          /\ receipt' = [receipt EXCEPT ![held[w]] = reply[w]]
      BY <1>4, <2>1 DEF Save
    <3>2. WorkersHold'
      BY <3>1, MovesHold
    <3>3. DOMAIN pc' = Workers /\ DOMAIN held' = Workers /\ reply' \in [Workers -> Results]
      BY <3>1, Moves DEF Inv
    <3> QED BY <3>1, <3>2, <3>3 DEF Inv, LocalTypes
  <2>2. CASE ~MaySave(held[w])
    BY <1>4, <2>2, Resting DEF Save
  <2> QED BY <2>1, <2>2
<1>5. ASSUME NEW w \in Workers, Scan(w) PROVE LocalTypes' /\ WorkersHold'
  <2> DEFINE seen == [call |-> cp, version |-> version, found |-> HasReceipt(cp)]
  <2>1. cp # 0 /\ GoTo(w, "scanned", seen) /\ UNCHANGED <<ledger, calls, receipt>>
    BY <1>5 DEF Scan, business, records
  <2>2. seen.call \in 1 .. Len(ledger) /\ seen.version \in Versions
    BY <2>1, CheckpointIsLast, VersionTyped
  <2> HIDE DEF seen
  <2>3. WorkersHold'
    BY <2>1, <2>2, MovesHold
  <2>4. DOMAIN pc' = Workers /\ DOMAIN held' = Workers /\ reply' \in [Workers -> Results]
    BY <2>1, Moves DEF Inv
  <2> QED BY <2>1, <2>3, <2>4 DEF Inv, LocalTypes
<1>6. ASSUME NEW w \in Workers,
             ReserveDispatch(w) \/ ReserveCompletion(w) \/ RecoverResponse(w) \/ RecoverExpiry(w)
      PROVE  LocalTypes' /\ WorkersHold'
  BY <1>6, Reserving DEF ReserveDispatch, ReserveCompletion, RecoverResponse, RecoverExpiry
<1>7. ASSUME NEW w \in Workers,
             \/ LeaveCompletion(w) \/ LeaveScan(w) \/ RefuseRoot(w) \/ Stop(w)
             \/ CommitGeneration(w) \/ CommitSemantic(w) \/ CommitExpiry(w)
      PROVE  LocalTypes' /\ WorkersHold'
  <2>1. Idle(w) /\ UNCHANGED <<ledger, calls, receipt>>
    BY <1>7 DEF LeaveCompletion, LeaveScan, RefuseRoot, Stop, CommitGeneration, CommitSemantic,
       CommitCompletion, CommitExpiry, Complete, business, records
  <2> QED BY <2>1, Resting
<1>8. ASSUME UNCHANGED <<pc, held, reply, ledger, calls, receipt>> PROVE LocalTypes' /\ WorkersHold'
  BY <1>8 DEF Inv, LocalTypes, WorkersHold
<1>9. ASSUME NEW t, Abort(t) PROVE LocalTypes' /\ WorkersHold'
  BY <1>8, <1>9 DEF Abort, business, local, records
<1>10. CASE LeaseRunsOut \/ UNCHANGED vars
  BY <1>8, <1>10 DEF LeaseRunsOut, vars, business, local, records
<1>11. CASE FinishCancellation \/ Operator
  <2>1. UNCHANGED <<pc, held, reply, ledger, calls, receipt>>
    BY <1>11 DEF FinishCancellation, Operator, RequestCancel, Cancel, Replace, CancelUnknown,
       Resolve, Decide, local, records
  <2> QED BY <1>8, <2>1
<1> QED BY <1>1, <1>2, <1>3, <1>4, <1>5, <1>6, <1>7, <1>9, <1>10, <1>11 DEF Next, Step

-----------------------------------------------------------------------------
(* Receipts decide.                                                        *)

LEMMA ReceiptDecidesNext ==
  ASSUME Inv, [Next]_vars
  PROVE  ReceiptDecides'
<1> USE DEF ReceiptDecides, HasReceipt
<1>0. /\ Len(ledger) \in Nat /\ evidence \in [Invocations -> Results]
      /\ receipt \in [Invocations -> Results] /\ ReceiptDecides
  BY LedgerLength DEF Inv, Types, LocalTypes
<1>1. ASSUME NEW w \in Workers, Save(w) PROVE ReceiptDecides'
  <2>1. CASE MaySave(held[w])
    <3>1. /\ cp = held[w] /\ UNCHANGED <<ledger, evidence>>
          /\ receipt' = [receipt EXCEPT ![held[w]] = reply[w]]
      BY <1>1, <2>1 DEF Save, MaySave
    <3>2. cp # 0
      BY <1>1, <3>1, <1>0 DEF Save, Inv, WorkersHold
    <3>3. evidence[cp] = "none"
      BY <3>2, CheckpointIsLast
    <3> QED BY <1>0, <3>1, <3>3
  <2>2. CASE ~MaySave(held[w])
    BY <1>0, <1>1, <2>2 DEF Save
  <2> QED BY <2>1, <2>2
<1>2. ASSUME NEW i \in Nat, NEW outcome \in Results, Settle(i, outcome) PROVE ReceiptDecides'
  <2>1. /\ i \in Invocations /\ evidence' = [evidence EXCEPT ![i] = outcome]
        /\ ledger' = ledger /\ receipt' = receipt
        /\ outcome = IF HasReceipt(i) THEN receipt[i] ELSE "unknown"
    BY <1>2, Settled DEF Settle
  <2> QED BY <1>0, <2>1
<1>3. ASSUME NEW w \in Workers, CommitDispatch(w) PROVE ReceiptDecides'
  <2>1. evidence' = evidence /\ receipt' = receipt /\ Len(ledger') = Len(ledger) + 1
        /\ Len(ledger) + 1 \in Invocations
    BY <1>3, Dispatched DEF CommitDispatch
  <2>2. evidence[Len(ledger) + 1] = "none"
    BY <1>0, <2>1 DEF Inv, OneAtATime
  <2> QED BY <1>0, <2>1, <2>2
<1>4. ASSUME UNCHANGED <<ledger, evidence, receipt>> PROVE ReceiptDecides'
  BY <1>0, <1>4
<1>5. CASE Decision
  BY <1>4, <1>5, Decided
<1>6. ASSUME NEW w \in Workers, Step(w), ~CommitDispatch(w), ~Save(w) PROVE ReceiptDecides'
  <2>1. CASE CommitGeneration(w) \/ CommitSemantic(w)
    <3>1. PICK i \in 1 .. Len(ledger) : Settle(i, receipt[i])
      BY <2>1, CompletionSettles DEF CommitGeneration, CommitSemantic
    <3>2. i \in Nat /\ receipt[i] \in Results
      BY <3>1 DEF Settle
    <3> QED BY <1>2, <3>1, <3>2
  <2>2. CASE CommitExpiry(w)
    <3>1. Settle(cp, "unknown") /\ cp \in Nat /\ "unknown" \in Results
      BY <2>2, ExpirySettles DEF Inv, Types, Results
    <3> QED BY <1>2, <3>1
  <2>3. CASE \/ ReserveDispatch(w) \/ Invoke(w) \/ \E outcome \in Outcomes : Reply(w, outcome)
             \/ ReserveCompletion(w) \/ LeaveCompletion(w) \/ Scan(w)
             \/ RecoverResponse(w) \/ RecoverExpiry(w) \/ LeaveScan(w) \/ RefuseRoot(w)
    BY <1>4, <2>3 DEF ReserveDispatch, Invoke, Reply, ReserveCompletion, LeaveCompletion,
       Scan, RecoverResponse, RecoverExpiry, LeaveScan, RefuseRoot, Reserve, business, records
  <2> QED BY <1>6, <2>1, <2>2, <2>3 DEF Step
<1>7. ASSUME NEW w \in Workers, Stop(w) PROVE ReceiptDecides'
  BY <1>4, <1>7 DEF Stop, business, records
<1>8. ASSUME NEW t, Abort(t) PROVE ReceiptDecides'
  BY <1>4, <1>8 DEF Abort, business, records
<1>9. CASE LeaseRunsOut \/ UNCHANGED vars
  BY <1>4, <1>9 DEF LeaseRunsOut, vars, business, records
<1>10. CASE FinishCancellation \/ Operator
  BY <1>5, <1>10 DEF Decision, Operator
<1> QED BY <1>1, <1>3, <1>6, <1>7, <1>8, <1>9, <1>10 DEF Next

-----------------------------------------------------------------------------
(* The executions.                                                         *)

LEMMA PutEffect ==
  ASSUME NEW t, NEW e, Put(t, e)
  PROVE  /\ DOMAIN exec' = DOMAIN exec \cup {t} /\ exec'[t] = e
         /\ \A u \in DOMAIN exec : u # t => exec'[u] = exec[u]
         /\ ExecOf(t)' = e /\ \A u : u # t => ExecOf(u)' = ExecOf(u)
  BY DEF Put, ExecOf

\* An execution is acquired only while it is free, and ended only while it is
\* prepared, which its owner's root and the SDK both require.
Acquired(t) ==
  /\ t \in Intents /\ ExecOf(t).state \in {"none", "aborted"}
  /\ \E w \in Workers, source \in Nat : Put(t, [state |-> "prepared", by |-> w, source |-> source])
Ended(t, state) == t \in DOMAIN exec /\ exec[t].state = "prepared" /\ Resolved(t, state)

LEMMA OwnedIsPrepared ==
  ASSUME NEW w, NEW t, Owned(w, t)
  PROVE  t \in DOMAIN exec /\ exec[t].state = "prepared"
  BY DEF Owned, ExecOf

LEMMA ExecutionSteps ==
  ASSUME Inv, [Next]_vars
  PROVE  \/ \E w \in Workers : CommitDispatch(w) /\ Ended(Dispatching(version), "committed")
         \/ \E i \in 1 .. Len(ledger) : Settle(i, receipt[i]) /\ Ended(Completing(i), "committed")
         \/ Settle(cp, "unknown") /\ Ended(Expiring(version), "committed")
         \/ Decision /\ exec' = exec
         \/ Kept /\ (exec' = exec \/ \E t : Acquired(t) \/ Ended(t, "aborted"))
<1> DEFINE Goal ==
      \/ \E w \in Workers : CommitDispatch(w) /\ Ended(Dispatching(version), "committed")
      \/ \E i \in 1 .. Len(ledger) : Settle(i, receipt[i]) /\ Ended(Completing(i), "committed")
      \/ Settle(cp, "unknown") /\ Ended(Expiring(version), "committed")
      \/ Decision /\ exec' = exec
      \/ Kept /\ (exec' = exec \/ \E t : Acquired(t) \/ Ended(t, "aborted"))
<1>1. ASSUME NEW w \in Workers, CommitDispatch(w) PROVE Goal
  <2>1. Ended(Dispatching(version), "committed")
    BY <1>1, OwnedIsPrepared DEF CommitDispatch, Ended
  <2> QED BY <1>1, <2>1
<1>2. ASSUME NEW w \in Workers, CommitGeneration(w) \/ CommitSemantic(w) PROVE Goal
  <2>1. PICK i \in 1 .. Len(ledger) : /\ Settle(i, receipt[i]) /\ Owned(w, Completing(i))
                                      /\ Resolved(Completing(i), "committed")
    BY <1>2, CompletionSettles DEF CommitGeneration, CommitSemantic
  <2>2. Ended(Completing(i), "committed")
    BY <2>1, OwnedIsPrepared DEF Ended
  <2> QED BY <2>1, <2>2
<1>3. ASSUME NEW w \in Workers, CommitExpiry(w) PROVE Goal
  <2>1. /\ Settle(cp, "unknown") /\ Owned(w, Expiring(version))
        /\ Resolved(Expiring(version), "committed")
    BY <1>3, ExpirySettles
  <2> QED BY <2>1, OwnedIsPrepared DEF Ended
<1>4. ASSUME NEW w \in Workers, NEW t \in Intents, NEW source \in Nat, Reserve(w, t, source),
             ExecOf(t).state \in {"none", "aborted"}
      PROVE  Goal
  <2>1. Acquired(t)
    BY <1>4 DEF Reserve, Acquired
  <2>2. Kept
    BY <1>4 DEF Reserve, Kept, business, records
  <2> QED BY <2>1, <2>2
<1>5. ASSUME NEW w \in Workers, ReserveDispatch(w) PROVE Goal
  <2>1. Dispatching(version) \in Intents /\ version \in Nat
    BY VersionTyped DEF Intents, Inv, Types
  <2> QED BY <1>4, <1>5, <2>1 DEF ReserveDispatch
<1>6. ASSUME NEW i \in 1 .. Len(ledger) PROVE Completing(i) \in Intents
  <2>1. i \in Invocations
    BY LedgerLength, Budget DEF Inv, WithinLimits, Most
  <2> QED BY <2>1 DEF Intents
<1>7. ASSUME NEW w \in Workers, ReserveCompletion(w) PROVE Goal
  <2>1. Completing(held[w]) \in Intents /\ version \in Nat
    BY <1>6, <1>7 DEF ReserveCompletion, Inv, WorkersHold, Types
  <2> QED BY <1>4, <1>7, <2>1 DEF ReserveCompletion
<1>8. ASSUME NEW w \in Workers, RecoverResponse(w) PROVE Goal
  <2>1. Completing(held[w].call) \in Intents /\ version \in Nat
    BY <1>6, <1>8 DEF RecoverResponse, Inv, WorkersHold, Types
  <2>2. ExecOf(Completing(held[w].call)).state \in {"none", "aborted"}
    BY <1>8 DEF RecoverResponse, Retries, Replans
  <2> QED BY <1>4, <1>8, <2>1, <2>2 DEF RecoverResponse
<1>9. ASSUME NEW w \in Workers, RecoverExpiry(w) PROVE Goal
  <2>1. Expiring(held[w].version) \in Intents /\ held[w].version \in Versions
    BY <1>9 DEF RecoverExpiry, Inv, WorkersHold, Intents
  <2>2. held[w].version \in Nat
    BY <2>1, Budget DEF FirstVersion
  <2> QED BY <1>4, <1>9, <2>1, <2>2 DEF RecoverExpiry
<1>10. ASSUME NEW w \in Workers, RefuseRoot(w) PROVE Goal
  <2>1. Kept
    BY <1>10 DEF RefuseRoot, Kept, business, records
  <2>2. exec' = exec \/ Ended(held[w], "aborted")
    BY <1>10, OwnedIsPrepared DEF RefuseRoot, Ended
  <2> QED BY <2>1, <2>2
<1>11. ASSUME NEW t \in DOMAIN exec, Abort(t) PROVE Goal
  <2>1. Kept /\ Ended(t, "aborted")
    BY <1>11 DEF Abort, Kept, Ended, business, records
  <2> QED BY <2>1
<1>12. ASSUME NEW w \in Workers,
              \/ Invoke(w) \/ \E outcome \in Outcomes : Reply(w, outcome)
              \/ Save(w) \/ LeaveCompletion(w) \/ Scan(w) \/ LeaveScan(w) \/ Stop(w)
       PROVE  Kept /\ exec' = exec
  BY <1>12 DEF Kept, Invoke, Reply, Save, LeaveCompletion, Scan, LeaveScan, Stop, business, records
<1>13. ASSUME LeaseRunsOut \/ UNCHANGED vars PROVE Kept /\ exec' = exec
  BY <1>13 DEF LeaseRunsOut, vars, Kept, business, records
<1>14. ASSUME FinishCancellation \/ Operator PROVE Decision /\ exec' = exec
  BY <1>14 DEF Decision, Operator, FinishCancellation, RequestCancel, Cancel, Replace,
     CancelUnknown, Resolve, Decide
<1> QED
  BY <1>1, <1>2, <1>3, <1>5, <1>7, <1>8, <1>9, <1>10, <1>11, <1>12, <1>13, <1>14 DEF Next, Step

LEMMA EndedEffect ==
  ASSUME NEW t, NEW state, Ended(t, state)
  PROVE  /\ DOMAIN exec' = DOMAIN exec
         /\ exec'[t] = [exec[t] EXCEPT !.state = state, !.by = NoWork]
         /\ \A u \in DOMAIN exec : u # t => exec'[u] = exec[u]
         /\ ExecOf(t)' = [exec[t] EXCEPT !.state = state, !.by = NoWork]
         /\ \A u : u # t => ExecOf(u)' = ExecOf(u)
<1>1. Put(t, [exec[t] EXCEPT !.state = state, !.by = NoWork]) /\ t \in DOMAIN exec
  BY DEF Ended, Resolved
<1>2. DOMAIN exec \cup {t} = DOMAIN exec
  BY <1>1
<1> QED BY <1>1, <1>2, PutEffect

LEMMA ExecutionRowsNext ==
  ASSUME Inv, [Next]_vars
  PROVE  ExecutionRows'
<1>1. ASSUME NEW t, NEW state \in {"aborted", "committed"}, Ended(t, state) PROVE ExecutionRows'
  <2>1. /\ DOMAIN exec' = DOMAIN exec /\ exec'[t] = [exec[t] EXCEPT !.state = state, !.by = NoWork]
        /\ \A u \in DOMAIN exec : u # t => exec'[u] = exec[u]
    BY <1>1, EndedEffect
  <2>2. t \in DOMAIN exec
    BY <1>1 DEF Ended
  <2>3. exec[t] \in Execution
    BY <2>2 DEF Inv, ExecutionRows
  <2>4. exec'[t] \in Execution /\ exec'[t].by = NoWork /\ exec'[t].state # "prepared"
    BY <2>1, <2>3 DEF Execution
  <2> QED BY <2>1, <2>4 DEF Inv, ExecutionRows
<1>2. ASSUME NEW t, Acquired(t) PROVE ExecutionRows'
  <2>1. PICK w \in Workers, source \in Nat :
          Put(t, [state |-> "prepared", by |-> w, source |-> source])
    BY <1>2 DEF Acquired
  <2>2. /\ DOMAIN exec' = DOMAIN exec \cup {t} /\ t \in Intents
        /\ exec'[t] = [state |-> "prepared", by |-> w, source |-> source]
        /\ \A u \in DOMAIN exec : u # t => exec'[u] = exec[u]
    BY <1>2, <2>1, PutEffect DEF Acquired
  <2> QED BY <2>2, SerialAssumption DEF Inv, ExecutionRows, Execution
<1>3. ASSUME exec' = exec PROVE ExecutionRows'
  BY <1>3 DEF Inv, ExecutionRows
<1> QED BY <1>1, <1>2, <1>3, ExecutionSteps

\* Intents of different sorts, versions or calls are different.
LEMMA IntentsDiffer ==
  /\ \A v, i : Dispatching(v) # Completing(i) /\ Dispatching(v) # Expiring(i)
               /\ Completing(v) # Expiring(i)
  /\ \A v, u : /\ Dispatching(v) = Dispatching(u) => v = u
               /\ Completing(v) = Completing(u) => v = u
               /\ Expiring(v) = Expiring(u) => v = u
<1>1. \A v, i : Dispatching(v).op # Completing(i).op /\ Dispatching(v).op # Expiring(i).op
               /\ Completing(v).op # Expiring(i).op
  BY DEF Dispatching, Completing, Expiring
<1>2. \A v : Dispatching(v).of = v /\ Completing(v).of = v /\ Expiring(v).of = v
  BY DEF Dispatching, Completing, Expiring
<1> QED BY <1>1, <1>2

\* Neither acquiring an execution nor aborting it changes what is committed.
LEMMA SameCommitted ==
  ASSUME Inv, exec' = exec \/ \E t : Acquired(t) \/ Ended(t, "aborted")
  PROVE  \A u : Committed(u)' <=> Committed(u)
<1> USE DEF Committed
<1>1. CASE exec' = exec
  BY <1>1 DEF ExecOf
<1>2. ASSUME NEW t, Acquired(t), NEW u PROVE Committed(u)' <=> Committed(u)
  <2>1. PICK w \in Workers, source \in Nat :
          Put(t, [state |-> "prepared", by |-> w, source |-> source])
    BY <1>2 DEF Acquired
  <2>2. /\ ExecOf(t)' = [state |-> "prepared", by |-> w, source |-> source]
        /\ u # t => ExecOf(u)' = ExecOf(u)
    BY <2>1, PutEffect
  <2> QED BY <1>2, <2>2 DEF Acquired
<1>3. ASSUME NEW t, Ended(t, "aborted"), NEW u PROVE Committed(u)' <=> Committed(u)
  <2>1. /\ ExecOf(t)' = [exec[t] EXCEPT !.state = "aborted", !.by = NoWork]
        /\ (u # t => ExecOf(u)' = ExecOf(u)) /\ ExecOf(t) = exec[t] /\ exec[t].state = "prepared"
    BY <1>3, EndedEffect DEF Ended, ExecOf
  <2>2. ExecOf(t)'.state # "committed"
    BY <1>3, <2>1 DEF Ended, Inv, ExecutionRows, Execution
  <2> QED BY <2>1, <2>2
<1> QED BY <1>1, <1>2, <1>3

\* Committing one execution commits that one.
LEMMA OneCommitted ==
  ASSUME Inv, NEW t, Ended(t, "committed")
  PROVE  /\ Committed(t)' /\ ~Committed(t)
         /\ \A u : u # t => (Committed(u)' <=> Committed(u))
<1>1. /\ ExecOf(t)' = [exec[t] EXCEPT !.state = "committed", !.by = NoWork]
      /\ \A u : u # t => ExecOf(u)' = ExecOf(u)
      /\ ExecOf(t) = exec[t] /\ exec[t].state = "prepared"
  BY EndedEffect DEF Ended, ExecOf
<1>2. ExecOf(t)'.state = "committed"
  BY <1>1 DEF Ended, Inv, ExecutionRows, Execution
<1> QED BY <1>1, <1>2 DEF Committed

\* The parts of WitnessInv, for the call i.
OneSettlement(i) ==
  /\ evidence[i] = "none" => \A t \in Settlers(i) : ~Committed(t)
  /\ evidence[i] # "none" =>
       \E t \in Settlers(i) : \A u \in Settlers(i) : Committed(u) <=> u = t

LEMMA WitnessParts ==
  WitnessInv <=>
    /\ \A v \in Versions :
         Committed(Dispatching(v)) <=> \E i \in 1 .. Len(ledger) : ledger[i].version = v + 2
    /\ \A i \in Invocations : Committed(Completing(i)) => i <= Len(ledger)
    /\ \A v \in Versions : Committed(Expiring(v)) => v < version
    /\ \A i \in 1 .. Len(ledger) : OneSettlement(i)
  BY DEF WitnessInv, OneSettlement

\* A settlement commits an execution t that may settle the last call, and no
\* dispatch; the executions of the earlier calls have other versions.
LEMMA SettlementWitnessed ==
  ASSUME Inv, NEW i \in Nat, NEW outcome \in Results, Settle(i, outcome),
         NEW t, Ended(t, "committed"), t = Completing(i) \/ t = Expiring(version)
  PROVE  WitnessInv'
<1>1. /\ i = Len(ledger) /\ i \in 1 .. Len(ledger) /\ i \in Invocations /\ cp = i
      /\ evidence[i] = "none" /\ outcome # "none"
      /\ evidence' = [evidence EXCEPT ![i] = outcome] /\ ledger' = ledger /\ version' = version + 1
  BY Settled
<1>2. /\ Committed(t)' /\ ~Committed(t)
      /\ \A u : u # t => (Committed(u)' <=> Committed(u))
  BY OneCommitted
<1>3. /\ Len(ledger) \in Nat /\ version \in Nat /\ evidence \in [Invocations -> Results]
      /\ \A j \in 1 .. Len(ledger) : ledger[j].version \in Nat /\ j \in Invocations
  BY LedgerLength, Budget DEF Inv, Types, WithinLimits, Most
<1>4. version \in {ledger[i].version, ledger[i].version + 1}
  <2>1. VersionFollows(i)
    BY <1>1, <1>3, CheckpointIsLast
  <2> QED BY <2>1 DEF VersionFollows
<1>5. t \in Settlers(i)
  BY <1>4 DEF Settlers
<1>6. \A j \in 1 .. Len(ledger) : Settlers(j)' = Settlers(j)
  BY <1>1 DEF Settlers
<1>7. ASSUME NEW j \in 1 .. Len(ledger) PROVE OneSettlement(j)'
  <2>1. OneSettlement(j)
    BY WitnessParts DEF Inv
  <2>2. CASE j = i
    <3>1. \A u \in Settlers(i) : ~Committed(u)
      BY <1>1, <2>1, <2>2 DEF OneSettlement
    <3>2. \A u \in Settlers(i) : Committed(u)' <=> u = t
      BY <1>2, <3>1
    <3>3. evidence'[i] # "none"
      BY <1>1, <1>3
    <3> QED BY <1>5, <1>6, <2>2, <3>2, <3>3 DEF OneSettlement
  <2>3. CASE j # i
    <3>1. ledger[j].version + 3 <= ledger[i].version
      BY <1>1, <1>3, <2>3 DEF Inv, VersionsGrow
    <3>2. version # ledger[j].version /\ version # ledger[j].version + 1
      BY <1>1, <1>3, <1>4, <3>1
    <3>3. Completing(i) \notin Settlers(j)
      BY <2>3, IntentsDiffer DEF Settlers
    <3>4. Expiring(version) \notin Settlers(j)
      BY <3>2, IntentsDiffer DEF Settlers
    <3>5. \A u \in Settlers(j) : Committed(u)' <=> Committed(u)
      BY <1>2, <3>3, <3>4
    <3>6. evidence'[j] = evidence[j]
      BY <1>1, <1>3, <2>3
    <3> QED BY <1>6, <2>1, <3>5, <3>6 DEF OneSettlement
  <2> QED BY <2>2, <2>3
<1>8. \A v \in Versions : Committed(Dispatching(v))' <=> Committed(Dispatching(v))
  BY <1>2, IntentsDiffer
<1>9. \A j \in Invocations : Committed(Completing(j))' => j <= Len(ledger)
  <2>1. \A j \in Invocations : Committed(Completing(j)) => j <= Len(ledger)
    BY WitnessParts DEF Inv
  <2>2. i <= Len(ledger)
    BY <1>1, <1>3
  <2> QED BY <1>2, <2>1, <2>2, IntentsDiffer
<1>10. \A v \in Versions : Committed(Expiring(v))' => v < version + 1
  <2>1. \A v \in Versions : v \in Int /\ (Committed(Expiring(v)) => v < version)
    BY WitnessParts, Budget DEF Inv, FirstVersion
  <2>2. \A v \in Versions : Expiring(v) = t => v = version
    BY IntentsDiffer
  <2> QED BY <1>2, <1>3, <2>1, <2>2
<1>11. \A v \in Versions :
         Committed(Dispatching(v))' <=> \E j \in 1 .. Len(ledger') : ledger'[j].version = v + 2
  BY <1>1, <1>8, WitnessParts DEF Inv
<1> QED BY <1>1, <1>7, <1>9, <1>10, <1>11, WitnessParts DEF Inv, WitnessInv, OneSettlement

\* A dispatch commits its execution with its row; no later execution can be
\* committed yet.
LEMMA DispatchWitnessed ==
  ASSUME Inv, NEW w \in Workers, CommitDispatch(w),
         NEW now, now = version, NEW n, n = Len(ledger), Ended(Dispatching(now), "committed")
  PROVE  WitnessInv'
<1>1. /\ n \in Nat /\ n + 1 \in Invocations /\ Len(ledger') = n + 1
      /\ ledger'[n + 1].version = now + 2 /\ \A j \in 1 .. n : ledger'[j] = ledger[j]
  BY Dispatched
<1>2. evidence' = evidence /\ version' = now + 2 /\ cp = 0
  BY DEF CommitDispatch, DispatchHolds, Dispatchable
<1>3. /\ now \in Nat /\ Versions \subseteq Int
      /\ \A j \in 1 .. n : ledger[j].version \in Nat /\ j \in Invocations
  BY LedgerLength, Budget DEF Inv, Types, WithinLimits, Most, FirstVersion
<1>4. /\ Committed(Dispatching(now))'
      /\ \A v : v # now => (Committed(Dispatching(v))' <=> Committed(Dispatching(v)))
      /\ \A v : /\ Committed(Completing(v))' <=> Committed(Completing(v))
                /\ Committed(Expiring(v))' <=> Committed(Expiring(v))
  BY OneCommitted, IntentsDiffer
<1>5. /\ \A v \in Versions :
           Committed(Dispatching(v)) <=> \E j \in 1 .. n : ledger[j].version = v + 2
      /\ \A j \in Invocations : Committed(Completing(j)) => j <= n
      /\ \A v \in Versions : Committed(Expiring(v)) => v < now
      /\ \A j \in 1 .. n : OneSettlement(j)
  BY WitnessParts DEF Inv
<1>6. ASSUME NEW v \in Versions
      PROVE  Committed(Dispatching(v))' <=> \E j \in 1 .. n + 1 : ledger'[j].version = v + 2
  <2>1. CASE v = now
    BY <1>1, <1>4, <2>1
  <2>2. CASE v # now
    <3>1. now + 2 # v + 2
      BY <1>3, <2>2
    <3>2. (\E j \in 1 .. n + 1 : ledger'[j].version = v + 2)
            <=> \E j \in 1 .. n : ledger[j].version = v + 2
      BY <1>1, <3>1
    <3> QED BY <1>4, <1>5, <2>2, <3>2
  <2> QED BY <2>1, <2>2
<1>7. \A j \in Invocations : Committed(Completing(j))' => j <= n + 1
  BY <1>1, <1>4, <1>5, Budget
<1>8. \A v \in Versions : Committed(Expiring(v))' => v < now + 2
  BY <1>3, <1>4, <1>5
<1>9. ASSUME NEW j \in 1 .. n PROVE OneSettlement(j)'
  <2>1. Settlers(j)' = Settlers(j)
    BY <1>1 DEF Settlers
  <2>2. \A u \in Settlers(j) : Committed(u)' <=> Committed(u)
    BY <1>4 DEF Settlers
  <2> QED BY <1>2, <1>5, <2>1, <2>2 DEF OneSettlement
<1>10. OneSettlement(n + 1)'
  <2>1. evidence'[n + 1] = "none"
    BY <1>1, <1>2 DEF Inv, OneAtATime
  <2>2. ~Committed(Completing(n + 1))'
    BY <1>1, <1>4, <1>5
  <2>3. ASSUME NEW v \in {now + 2, now + 3} PROVE ~Committed(Expiring(v))'
    <3>1. v \in Versions => ~Committed(Expiring(v))
      BY <1>3, <1>5
    <3>2. v \notin Versions => ~Committed(Expiring(v))
      <4>1. Expiring(v) \in Intents => v \in Versions
        BY IntentsDiffer DEF Intents
      <4>2. Expiring(v) \notin Intents => Expiring(v) \notin DOMAIN exec
        BY DEF Inv, ExecutionRows
      <4>3. Expiring(v) \notin DOMAIN exec => ExecOf(Expiring(v)).state = "none"
        BY DEF ExecOf
      <4> QED BY <4>1, <4>2, <4>3 DEF Committed
    <3> QED BY <1>4, <3>1, <3>2
  <2>4. \A u \in Settlers(n + 1)' : ~Committed(u)'
    <3>1. Settlers(n + 1)' = {Completing(n + 1)} \cup {Expiring(v) : v \in {now + 2, now + 3}}
      BY <1>1, <1>3 DEF Settlers
    <3> QED BY <2>2, <2>3, <3>1
  <2> QED BY <2>1, <2>4 DEF OneSettlement
<1>11. \A j \in 1 .. n + 1 : OneSettlement(j)'
  BY <1>1, <1>9, <1>10
<1> QED BY <1>1, <1>2, <1>6, <1>7, <1>8, <1>11 DEF WitnessInv, OneSettlement

LEMMA WitnessNext ==
  ASSUME Inv, [Next]_vars
  PROVE  WitnessInv'
<1>1. ASSUME UNCHANGED <<ledger, evidence>>, version' \in {version, version + 1},
             \A u : Committed(u)' <=> Committed(u)
      PROVE  WitnessInv'
  <2>1. \A i : Settlers(i)' = Settlers(i)
    BY <1>1 DEF Settlers
  <2>2. \A i \in 1 .. Len(ledger) : OneSettlement(i)'
    <3>1. \A i \in 1 .. Len(ledger) : OneSettlement(i)
      BY WitnessParts DEF Inv
    <3> QED BY <1>1, <2>1, <3>1 DEF OneSettlement
  <2>3. \A v \in Versions : Committed(Expiring(v))' => v < version'
    <3>1. version \in Nat /\ Versions \subseteq Int
      BY Budget DEF Inv, Types, FirstVersion
    <3>2. \A v \in Versions : Committed(Expiring(v)) => v < version
      BY WitnessParts DEF Inv
    <3> QED BY <1>1, <3>1, <3>2
  <2>4. /\ \A v \in Versions :
             Committed(Dispatching(v))' <=> \E i \in 1 .. Len(ledger') : ledger'[i].version = v + 2
        /\ \A i \in Invocations : Committed(Completing(i))' => i <= Len(ledger')
    BY <1>1, WitnessParts DEF Inv
  <2> QED BY <1>1, <2>2, <2>3, <2>4 DEF WitnessInv, OneSettlement
<1>2. CASE Decision /\ exec' = exec
  BY <1>1, <1>2, Decided, SameCommitted
<1>3. CASE Kept /\ (exec' = exec \/ \E t : Acquired(t) \/ Ended(t, "aborted"))
  BY <1>1, <1>3, SameCommitted DEF Kept
<1>4. ASSUME NEW i \in 1 .. Len(ledger), Settle(i, receipt[i]), Ended(Completing(i), "committed")
      PROVE  WitnessInv'
  <2>1. i \in Nat /\ receipt[i] \in Results
    BY <1>4 DEF Settle
  <2> QED BY <1>4, <2>1, SettlementWitnessed
<1>5. CASE Settle(cp, "unknown") /\ Ended(Expiring(version), "committed")
  <2>1. cp \in Nat /\ "unknown" \in Results
    BY DEF Inv, Types, Results
  <2> QED BY <1>5, <2>1, SettlementWitnessed
<1> QED BY <1>2, <1>3, <1>4, <1>5, DispatchWitnessed, ExecutionSteps

-----------------------------------------------------------------------------
(* Theorems.                                                               *)

LEMMA InitInv == Init => Inv
<1> SUFFICES ASSUME Init PROVE Inv
  OBVIOUS
<1>1. ledger = << >> /\ Len(ledger) = 0 /\ cp = 0 /\ version = FirstVersion /\ DOMAIN exec = {}
  BY DEF Init
<1>2. /\ run \in Progress /\ run.status = "collecting" /\ run.cancel = 0 /\ run.resolved = {}
      /\ run.unresolved = 0
  BY DEF Init, Progress, Statuses
<1>3. Types /\ LocalTypes
  BY <1>1, <1>2 DEF Init, Types, LocalTypes, Results, FirstVersion, Invocations
<1>4. OneAtATime
  BY <1>1, <1>2 DEF Init, OneAtATime
<1>5. VersionsGrow
  BY <1>1, <1>2 DEF VersionsGrow, Spent, FirstVersion
<1>6. WithinLimits
  <2>1. \A k : {i \in 1 .. Len(ledger) : ledger[i].kind = k} = {}
    BY <1>1
  <2>2. \A k : Total(k) = 0
    BY <2>1, FS_EmptySet DEF Total
  <2> QED BY <1>1, <2>2, Budget DEF WithinLimits, Kinds, Most
<1>7. WorkersHold
  BY DEF Init, WorkersHold
<1>8. ExecutionRows
  BY <1>1 DEF ExecutionRows
<1>9. ReceiptDecides
  BY <1>1 DEF ReceiptDecides
<1>10. WitnessInv
  <2>1. \A t : ~Committed(t)
    BY <1>1 DEF Committed, ExecOf
  <2> QED BY <1>1, <2>1 DEF WitnessInv
<1> QED BY <1>3, <1>4, <1>5, <1>6, <1>7, <1>8, <1>9, <1>10 DEF Inv

\* The invariant holds in every reachable state.
THEOREM InvHolds == Spec => []Inv
<1>1. Inv /\ [Next]_vars => Inv'
  BY TypesNext, OneAtATimeNext, VersionsGrowNext, WithinLimitsNext, WorkersNext,
     ExecutionRowsNext, ReceiptDecidesNext, WitnessNext DEF Inv
<1> QED BY InitInv, <1>1, PTL DEF Spec

\* For any number of slots, workers, executions and faults, the provider is
\* invoked at most once per dispatch, a slot is called again only on evidence
\* that allows it, and a durable response decides its call
\* (WorkerDispatchSender._send, slot_action, project_expired_recovery).
THEOREM ExecutionsAlwaysSound == Spec => []ExecutionsSound
<1>1. ASSUME Inv PROVE ExecutionsSound
  <2>1. TypeOK
    <3>1. run \in Progress /\ Len(ledger) <= Cardinality(Invocations)
      BY <1>1, Budget DEF Inv, Types, WithinLimits, Most
    <3>2. cp # 0 => cp = Len(ledger) /\ evidence[cp] = "none" /\ run.status = "collecting"
      BY <1>1, CheckpointIsLast
    <3>3. \A t \in DOMAIN exec :
            /\ exec[t].state \in {"prepared", "aborted", "committed"}
            /\ exec[t].by = NoWork <=> exec[t].state # "prepared"
      BY <1>1 DEF Inv, ExecutionRows, Execution
    <3>4. DOMAIN exec \subseteq Intents
      BY <1>1 DEF Inv, ExecutionRows
    <3> QED BY <1>1, <3>1, <3>2, <3>3, <3>4, VersionTyped DEF TypeOK, Progress, Statuses
  <2>2. CalledOnce
    <3>1. Len(ledger) \in Nat /\ Invocations \subseteq Nat /\ calls \in [Invocations -> Nat]
      BY <1>1, LedgerLength, Budget DEF Inv, LocalTypes
    <3> QED BY <1>1, <3>1 DEF Inv, CalledOnce, WorkersHold, OneAtATime, Allows
  <2> QED BY <1>1, <2>1, <2>2 DEF Inv, ExecutionsSound
<1> QED BY InvHolds, <1>1, PTL

\* For any instance, an SDK execution is committed exactly when its business
\* effect exists: a dispatch with its ledger row, and one settlement of each
\* call that has evidence (WorkerDispatchWrite, SerialGenerationWrite,
\* SerialSemanticWrite, apply_expired_recovery).
THEOREM WitnessAlwaysTrue == Spec => []WitnessTrue
<1>1. ASSUME Inv PROVE WitnessTrue
  <2>1. ASSUME NEW i \in 1 .. Len(ledger)
        PROVE  evidence[i] # "none" <=> Cardinality({t \in Settlers(i) : Committed(t)}) = 1
    <3> DEFINE C == {t \in Settlers(i) : Committed(t)}
    <3>1. OneSettlement(i)
      BY <1>1, WitnessParts DEF Inv
    <3>2. IsFiniteSet(C)
      <4>1. Settlers(i) = {Completing(i), Expiring(ledger[i].version),
                           Expiring(ledger[i].version + 1)}
        BY DEF Settlers
      <4>2. IsFiniteSet({Completing(i)})
        BY FS_Singleton
      <4>3. IsFiniteSet({Completing(i)} \cup {Expiring(ledger[i].version)})
        BY <4>2, FS_AddElement
      <4>4. IsFiniteSet({Completing(i)} \cup {Expiring(ledger[i].version)}
                          \cup {Expiring(ledger[i].version + 1)})
        BY <4>3, FS_AddElement
      <4>5. IsFiniteSet(Settlers(i))
        <5>1. Settlers(i) = {Completing(i)} \cup {Expiring(ledger[i].version)}
                              \cup {Expiring(ledger[i].version + 1)}
          BY <4>1
        <5> QED BY <4>4, <5>1
      <4> QED BY <4>5, FS_Subset
    <3>3. (\E t : C = {t}) <=> evidence[i] # "none"
      BY <3>1 DEF OneSettlement
    <3> HIDE DEF C
    <3>4. Cardinality(C) = 1 <=> \E t : C = {t}
      BY <3>2, FS_Singleton
    <3> QED BY <3>3, <3>4 DEF C
  <2>2. \A v \in Versions :
          Committed(Dispatching(v)) <=> \E i \in 1 .. Len(ledger) : ledger[i].version = v + 2
    BY <1>1, WitnessParts DEF Inv
  <2> QED BY <2>1, <2>2 DEF WitnessTrue, Committed, Settlers
<1> QED BY InvHolds, <1>1, PTL

-----------------------------------------------------------------------------
(* The calls, as RunCalls sees them.                                       *)

\* What was answered was invoked.
Answered ==
  /\ \A w \in Workers : pc[w] \in {"waiting", "replied", "saved"} => calls[held[w]] = 1
  /\ \A i \in Invocations : HasReceipt(i) => calls[i] = 1

\* One of the first n calls produced the candidate of slot s.
Produced(s, n) ==
  \E m \in 1 .. n :
    ledger[m].slot = s /\ ledger[m].kind = "generation" /\ evidence[m] = "succeeded"

\* A slot's calls are judgements from the moment it has a candidate on, and
\* end with the one that is accepted.
SlotStory ==
  /\ \A n \in 1 .. Len(ledger) : ledger[n].kind = "semantic" <=> Produced(ledger[n].slot, n - 1)
  /\ \A m, n \in 1 .. Len(ledger) :
       m < n /\ ledger[m].slot = ledger[n].slot =>
         ~(ledger[m].kind = "semantic" /\ evidence[m] = "succeeded")

CallStory == Answered /\ SlotStory

LEMMA MaxExists ==
  ASSUME NEW N \in Nat, NEW S \in SUBSET (1 .. N), S # {}
  PROVE  Max(S) \in S /\ \A x \in S : x <= Max(S)
<1> DEFINE T == {x \in 1 .. N : \A y \in S : y <= x}
<1>1. N \in T
  <2>1. PICK y \in S : y \in 1 .. N OBVIOUS
  <2>2. N \in 1 .. N /\ \A x \in S : x <= N BY <2>1
  <2> QED BY <2>2
<1>2. T \in SUBSET (1 .. N) /\ T # {} BY <1>1
<1>3. PICK m \in T : \A x \in T : m <= x
  <2> HIDE DEF T
  <2> QED BY <1>2, MinExists
<1>4. m \in S
  <2> SUFFICES ASSUME m \notin S PROVE FALSE OBVIOUS
  <2>1. PICK y \in S : TRUE OBVIOUS
  <2>2. \A x \in S : x <= m - 1 OBVIOUS
  <2>3. m - 1 \in T BY <2>1, <2>2
  <2> QED BY <1>3, <2>3
<1>5. \A x \in S : x <= m OBVIOUS
<1>6. \E x \in S : \A y \in S : x >= y BY <1>4, <1>5
<1> QED BY <1>6 DEF Max

LEMMA RowIn ==
  ASSUME Inv
  PROVE  /\ Len(ledger) \in Nat /\ Invocations = 1 .. Most /\ Most \in Nat
         /\ \A i \in 1 .. Len(ledger) : i \in Invocations /\ ledger[i].kind \in Kinds /\ ledger[i].slot \in Slots
<1>1. Len(ledger) \in Nat /\ Len(ledger) <= Most /\ Most \in Nat /\ Invocations = 1 .. Most
  BY LedgerLength, Budget DEF Inv, WithinLimits, Most
<1>2. \A i \in 1 .. Len(ledger) : ledger[i].kind \in Kinds /\ ledger[i].slot \in Slots
  BY LedgerLength DEF Inv, Row
<1> QED BY <1>1, <1>2

LEMMA IssuedAt ==
  ASSUME Inv, NEW i \in Invocations
  PROVE  /\ i <= Len(ledger) =>
              /\ i \in 1 .. Len(ledger) /\ Issued[i] = <<ledger[i].slot, ledger[i].kind>> /\ Issued[i] # <<>>
              /\ Issued[i][1] = ledger[i].slot /\ Issued[i][2] = ledger[i].kind
         /\ ~(i <= Len(ledger)) => Issued[i] = <<>>
  BY RowIn DEF Issued

LEMMA DispatchedAt ==
  ASSUME Inv
  PROVE  Book!Dispatched = 1 .. Len(ledger)
<1>1. \A i \in Invocations : Issued[i] # <<>> <=> i <= Len(ledger) BY IssuedAt
<1>2. \A i \in Invocations : i <= Len(ledger) <=> i \in 1 .. Len(ledger) BY RowIn
<1>3. \A i \in 1 .. Len(ledger) : i \in Invocations BY RowIn
<1> QED BY <1>1, <1>2, <1>3 DEF Book!Dispatched

\* What a state says of the calls of its Run.
BookInv ==
  /\ cp = 0 => Book!Quiescent
  /\ run.unresolved = 0 => Book!Decided

LEMMA BookAt == Inv => BookInv
<1> SUFFICES ASSUME Inv PROVE BookInv OBVIOUS
<1>1. OneAtATime /\ Len(ledger) \in Nat BY RowIn DEF Inv
<1>2. ASSUME cp = 0, NEW i \in Book!Dispatched PROVE evidence[i] # "none"
  <2>1. i \in 1 .. Len(ledger) BY DispatchedAt
  <2> QED BY <1>1, <1>2, <2>1 DEF OneAtATime, Allows
<1>3. ASSUME run.unresolved = 0, NEW i \in Invocations, evidence[i] = "unknown" PROVE i \in run.resolved
  <2>1. i \in Nat /\ i > 0 BY RowIn
  <2>2. i \in 1 .. Len(ledger) BY <1>1, <1>3, <2>1 DEF OneAtATime
  <2> QED BY <1>1, <1>3, <2>2 DEF OneAtATime, Allows
<1> QED BY <1>2, <1>3 DEF BookInv, Book!Quiescent, Book!Decided

\* The last call of a slot, and what the planner makes of it.
LEMMA LastOfSlot ==
  ASSUME Inv, NEW s \in Slots, NEW ev
  PROVE  \/ /\ \A i \in 1 .. Len(ledger) : ledger[i].slot # s
            /\ SlotAction(s, ev) = "generation"
         \/ \E m \in 1 .. Len(ledger) :
              /\ ledger[m].slot = s /\ \A i \in 1 .. Len(ledger) : ledger[i].slot = s => i <= m
              /\ SlotAction(s, ev) =
                   IF ev[m] = "succeeded"
                     THEN IF ledger[m].kind = "generation" THEN "semantic" ELSE "done"
                   ELSE IF /\ Used(s, ledger[m].kind) < Limit[ledger[m].kind]
                           /\ m \in run.resolved \/ ev[m] = "retryable"
                     THEN ledger[m].kind
                   ELSE "block"
<1>0. Len(ledger) \in Nat /\ \A i \in 1 .. Len(ledger) : ledger[i].kind \in Kinds BY RowIn
<1>1. PICK rows : rows = RowsOf(s, "generation") \cup RowsOf(s, "semantic") OBVIOUS
<1>2. \A i : i \in rows <=> i \in 1 .. Len(ledger) /\ ledger[i].slot = s
  BY <1>0, <1>1 DEF RowsOf, Kinds
<1>3. CASE rows = {} BY <1>1, <1>2, <1>3 DEF SlotAction
<1>4. CASE rows # {}
  <2>1. rows \in SUBSET (1 .. Len(ledger)) BY <1>2
  <2>2. PICK m \in rows : m = Max(rows) /\ \A i \in rows : i <= m BY <1>0, <1>4, <2>1, MaxExists
  <2>3. SlotAction(s, ev) =
          IF ev[m] = "succeeded"
            THEN IF ledger[m].kind = "generation" THEN "semantic" ELSE "done"
          ELSE IF /\ Used(s, ledger[m].kind) < Limit[ledger[m].kind]
                  /\ m \in run.resolved \/ ev[m] = "retryable"
            THEN ledger[m].kind
          ELSE "block"
    BY <1>1, <1>4, <2>2 DEF SlotAction
  <2> QED BY <1>2, <2>2, <2>3
<1> QED BY <1>3, <1>4

\* What a dispatch finds: every call of the slot allows the next, and the kind
\* is what they leave to do.
LEMMA PlannedCall ==
  ASSUME Inv, SlotStory, NEW s \in Slots, SlotAction(s, evidence) \in Kinds
  PROVE  /\ SlotAction(s, evidence) = "semantic" <=> Produced(s, Len(ledger))
         /\ \A i \in 1 .. Len(ledger) : ledger[i].slot = s =>
              \/ evidence[i] = "retryable" \/ i \in run.resolved
              \/ evidence[i] = "succeeded" /\ ledger[i].kind = "generation"
<1>0. /\ OneAtATime /\ Len(ledger) \in Nat /\ \A i \in 1 .. Len(ledger) : ledger[i].kind \in Kinds
  BY RowIn DEF Inv
<1>1. CASE \A i \in 1 .. Len(ledger) : ledger[i].slot # s
  <2>1. SlotAction(s, evidence) = "generation" BY <1>1, LastOfSlot
  <2>2. ~Produced(s, Len(ledger)) BY <1>1 DEF Produced
  <2> QED BY <1>1, <2>1, <2>2
<1>2. ASSUME NEW m \in 1 .. Len(ledger), ledger[m].slot = s,
             \A i \in 1 .. Len(ledger) : ledger[i].slot = s => i <= m,
             SlotAction(s, evidence) =
               IF evidence[m] = "succeeded"
                 THEN IF ledger[m].kind = "generation" THEN "semantic" ELSE "done"
               ELSE IF /\ Used(s, ledger[m].kind) < Limit[ledger[m].kind]
                       /\ m \in run.resolved \/ evidence[m] = "retryable"
                 THEN ledger[m].kind
               ELSE "block"
      PROVE  /\ SlotAction(s, evidence) = "semantic" <=> Produced(s, Len(ledger))
             /\ \A i \in 1 .. Len(ledger) : ledger[i].slot = s =>
                  \/ evidence[i] = "retryable" \/ i \in run.resolved
                  \/ evidence[i] = "succeeded" /\ ledger[i].kind = "generation"
  <2>1. PICK k \in Kinds : k = ledger[m].kind BY <1>0
  <2>2. \/ evidence[m] = "succeeded" /\ k = "generation" /\ SlotAction(s, evidence) = "semantic"
        \/ /\ evidence[m] # "succeeded" /\ SlotAction(s, evidence) = k
           /\ m \in run.resolved \/ evidence[m] = "retryable"
    BY <1>2, <2>1 DEF Kinds
  <2>3. k = "semantic" <=> Produced(s, m - 1) BY <1>2, <2>1 DEF SlotStory
  <2>4. Produced(s, Len(ledger)) <=> Produced(s, m - 1) \/ (k = "generation" /\ evidence[m] = "succeeded")
    <3>1. \A i \in 1 .. Len(ledger) : ledger[i].slot = s => i \in 1 .. m - 1 \/ i = m BY <1>0, <1>2
    <3>2. \A i \in 1 .. m - 1 : i \in 1 .. Len(ledger) BY <1>0
    <3> QED BY <1>2, <2>1, <3>1, <3>2 DEF Produced
  <2>5. ASSUME NEW i \in 1 .. Len(ledger), ledger[i].slot = s
        PROVE  \/ evidence[i] = "retryable" \/ i \in run.resolved
               \/ evidence[i] = "succeeded" /\ ledger[i].kind = "generation"
    <3>1. CASE i = m BY <2>1, <2>2, <3>1
    <3>2. CASE i # m
      <4>1. i < m /\ i \in 1 .. Len(ledger) - 1 BY <1>0, <1>2, <2>5, <3>2
      <4>2. Allows(i) BY <1>0, <4>1 DEF OneAtATime
      <4>3. ~(ledger[i].kind = "semantic" /\ evidence[i] = "succeeded")
        BY <1>2, <2>5, <4>1 DEF SlotStory
      <4> QED BY <1>0, <4>2, <4>3 DEF Allows, Kinds
    <3> QED BY <3>1, <3>2
  <2> QED BY <2>2, <2>3, <2>4, <2>5 DEF Kinds
<1> QED BY <1>1, <1>2, LastOfSlot

\* A step that changes no call.
LEMMA CallsSame ==
  ASSUME UNCHANGED <<ledger, evidence, calls>>, run'.resolved = run.resolved, RunPhase' = RunPhase
  PROVE  UNCHANGED Book!callVars
<1>1. Issued' = Issued BY DEF Issued
<1> QED BY <1>1 DEF Book!callVars

\* Only the last call ends, and the rows stay.
LEMMA StoryKept ==
  ASSUME Inv, SlotStory, UNCHANGED ledger,
         \A i \in 1 .. Len(ledger) - 1 : evidence'[i] = evidence[i]
  PROVE  SlotStory'
<1>0. Len(ledger) \in Nat BY RowIn
<1>1. ASSUME NEW n \in 1 .. Len(ledger)
      PROVE  (ledger[n].kind = "semantic" <=> Produced(ledger[n].slot, n - 1))'
  <2>1. \A m \in 1 .. n - 1 : m \in 1 .. Len(ledger) - 1 BY <1>0
  <2>2. Produced(ledger[n].slot, n - 1)' <=> Produced(ledger[n].slot, n - 1) BY <2>1 DEF Produced
  <2> QED BY <2>2 DEF SlotStory
<1>2. ASSUME NEW m \in 1 .. Len(ledger), NEW n \in 1 .. Len(ledger), m < n
      PROVE  evidence'[m] = evidence[m]
  <2>1. m \in 1 .. Len(ledger) - 1 BY <1>0, <1>2
  <2> QED BY <2>1
<1> QED BY <1>1, <1>2 DEF SlotStory

\* A dispatch takes the kind that is due, on what every earlier call allows.
LEMMA DispatchCalls ==
  ASSUME Inv, CallStory, NEW w \in Workers, CommitDispatch(w)
  PROVE  CallStory' /\ \E i \in Invocations, s \in Slots : Book!DispatchCall(i, s)
<1>0. Answered /\ SlotStory BY DEF CallStory
<1>1. PICK n \in Nat : n = Len(ledger) BY RowIn
<1>2. PICK row \in Row : row = [slot |-> NextSlot, kind |-> SlotAction(NextSlot, evidence), version |-> version + 2]
  BY Dispatched
<1>3. /\ n + 1 \in Invocations /\ Len(ledger') = n + 1 /\ ledger'[n + 1] = row
      /\ \A i \in 1 .. n : ledger'[i] = ledger[i]
  BY <1>1, <1>2, Dispatched
<1>4. PICK s \in Slots, k \in Kinds : s = row.slot /\ k = row.kind BY DEF Row
<1>5. s = NextSlot /\ k = SlotAction(s, evidence) BY <1>2, <1>4
<1>6. /\ run.status = "collecting" /\ run.cancel = 0 /\ UNCHANGED <<run, receipt, evidence, calls>>
      /\ GoTo(w, "cleared", n + 1)
  BY <1>1 DEF CommitDispatch, DispatchHolds, Dispatchable
<1>7. /\ k = "semantic" <=> Produced(s, n)
      /\ \A i \in 1 .. n : ledger[i].slot = s =>
           \/ evidence[i] = "retryable" \/ i \in run.resolved
           \/ evidence[i] = "succeeded" /\ ledger[i].kind = "generation"
  BY <1>0, <1>1, <1>5, PlannedCall
<1>8. Answered'
  <2>1. pc'[w] = "cleared" /\ \A v \in Workers \ {w} : pc'[v] = pc[v] /\ held'[v] = held[v]
    BY <1>6, Moves DEF Inv
  <2> QED BY <1>0, <1>6, <2>1 DEF Answered, HasReceipt
<1>9. SlotStory'
  <2>1. \A i \in 1 .. n + 1 : i \in 1 .. n \/ i = n + 1 OBVIOUS
  <2>2. ASSUME NEW i \in 1 .. n + 1, NEW t PROVE Produced(t, i - 1)' <=> Produced(t, i - 1)
    <3>1. \A m \in 1 .. i - 1 : m \in 1 .. n OBVIOUS
    <3>2. \A m \in 1 .. i - 1 : ledger'[m] = ledger[m] BY <1>3, <3>1
    <3> QED BY <1>6, <3>2 DEF Produced
  <2>3. ASSUME NEW i \in 1 .. n + 1
        PROVE  ledger'[i].kind = "semantic" <=> Produced(ledger'[i].slot, i - 1)
    <3>1. CASE i \in 1 .. n BY <1>0, <1>1, <1>3, <3>1 DEF SlotStory
    <3>2. CASE i = n + 1
      <4>1. i - 1 = n /\ ledger'[i].kind = k /\ ledger'[i].slot = s BY <1>3, <1>4, <3>2
      <4> QED BY <1>7, <4>1
    <3> QED BY <2>1, <3>1, <3>2
  <2>4. ASSUME NEW i \in 1 .. n + 1, NEW j \in 1 .. n + 1, i < j, ledger'[i].slot = ledger'[j].slot
        PROVE  ~(ledger'[i].kind = "semantic" /\ evidence[i] = "succeeded")
    <3>1. i \in 1 .. n BY <2>4
    <3>2. ledger'[i] = ledger[i] BY <1>3, <3>1
    <3>3. CASE j \in 1 .. n
      <4>1. ledger'[j] = ledger[j] BY <1>3, <3>3
      <4> QED BY <1>0, <1>1, <2>4, <3>1, <3>2, <3>3, <4>1 DEF SlotStory
    <3>4. CASE j = n + 1
      <4>1. ledger[i].slot = s BY <1>3, <1>4, <2>4, <3>2, <3>4
      <4>2. i \in run.resolved => evidence[i] = "unknown" BY DEF Inv, OneAtATime
      <4> QED BY <1>7, <3>1, <3>2, <4>1, <4>2
    <3> QED BY <2>1, <3>3, <3>4
  <2>5. \A i \in 1 .. n + 1 : (ledger[i].kind = "semantic" <=> Produced(ledger[i].slot, i - 1))'
    <3> TAKE i \in 1 .. n + 1
    <3>1. PICK t : t = ledger'[i].slot OBVIOUS
    <3>2. Produced(t, i - 1)' <=> Produced(t, i - 1) BY <2>2
    <3>3. Produced(ledger[i].slot, i - 1)' <=> Produced(t, i - 1)' BY <3>1 DEF Produced
    <3> QED BY <2>3, <3>1, <3>2, <3>3
  <2> QED BY <1>3, <1>6, <2>4, <2>5 DEF SlotStory
<1>10. Book!DispatchCall(n + 1, s)
  <2>1. RunPhase = "open" /\ RunPhase' = RunPhase BY <1>6 DEF RunPhase
  <2>2. Issued[n + 1] = <<>> BY <1>1, <1>3, IssuedAt
  <2>3. ASSUME NEW d \in Book!Dispatched, Issued[d][1] = s PROVE Book!Allows(d)
    <3>1. d \in 1 .. n /\ d \in Invocations /\ d <= Len(ledger) BY <1>1, DispatchedAt DEF Book!Dispatched
    <3>2. Issued[d][1] = ledger[d].slot /\ Issued[d][2] = ledger[d].kind BY <3>1, IssuedAt
    <3> QED BY <1>7, <2>3, <3>1, <3>2 DEF Book!Allows
  <2>4. Book!Candidate(s) <=> Produced(s, n)
    <3>1. ASSUME NEW c \in Invocations, Issued[c] = <<s, "generation">>, evidence[c] = "succeeded"
          PROVE  Produced(s, n)
      <4>0. Issued[c] # <<>> BY <3>1
      <4>1. c <= Len(ledger) BY <4>0, IssuedAt
      <4>2. c \in 1 .. n /\ ledger[c].slot = s /\ ledger[c].kind = "generation"
        BY <1>1, <3>1, <4>1, IssuedAt
      <4> QED BY <3>1, <4>2 DEF Produced
    <3>2. ASSUME NEW m \in 1 .. n, ledger[m].slot = s, ledger[m].kind = "generation", evidence[m] = "succeeded"
          PROVE  Book!Candidate(s)
      <4>1. m \in Invocations /\ m <= Len(ledger) BY <1>1, RowIn
      <4>2. Issued[m] = <<s, "generation">> BY <3>2, <4>1, IssuedAt
      <4> QED BY <3>2, <4>1, <4>2 DEF Book!Candidate
    <3> QED BY <3>1, <3>2 DEF Produced, Book!Candidate
  <2>5. k = IF Book!Candidate(s) THEN "semantic" ELSE "generation" BY <1>7, <2>4 DEF Kinds
  <2>6. Issued' = [Issued EXCEPT ![n + 1] = <<s, k>>]
    <3>1. ASSUME NEW i \in Invocations
          PROVE  Issued'[i] = IF i = n + 1 THEN <<s, k>> ELSE Issued[i]
      <4>1. i \in Nat /\ i > 0 BY RowIn
      <4>2. Issued'[i] = IF i <= n + 1 THEN <<ledger'[i].slot, ledger'[i].kind>> ELSE <<>>
        BY <1>3 DEF Issued
      <4>3. Issued[i] = IF i <= n THEN <<ledger[i].slot, ledger[i].kind>> ELSE <<>>
        BY <1>1 DEF Issued
      <4>4. CASE i <= n
        <5>1. i \in 1 .. n /\ i <= n + 1 /\ i # n + 1 BY <4>1, <4>4
        <5>2. ledger'[i] = ledger[i] BY <1>3, <5>1
        <5> QED BY <4>2, <4>3, <4>4, <5>1, <5>2
      <4>5. CASE i = n + 1
        <5>1. ledger'[i].slot = s /\ ledger'[i].kind = k /\ i <= n + 1 BY <1>3, <1>4, <4>5
        <5> QED BY <4>2, <4>5, <5>1
      <4>6. CASE i > n + 1
        <5>1. ~(i <= n) /\ ~(i <= n + 1) /\ i # n + 1 BY <4>1, <4>6
        <5> QED BY <4>2, <4>3, <5>1
      <4> QED BY <4>1, <4>4, <4>5, <4>6
    <3>2. DOMAIN Issued = Invocations /\ Issued' = [i \in Invocations |-> Issued'[i]] BY DEF Issued
    <3> QED BY <3>1, <3>2
  <2> QED BY <1>6, <2>1, <2>2, <2>3, <2>5, <2>6 DEF Book!DispatchCall
<1> QED BY <1>3, <1>8, <1>9, <1>10 DEF CallStory

\* The provider is invoked for a dispatched call that has no answer yet.
LEMMA InvokeCalls ==
  ASSUME Inv, CallStory, NEW w \in Workers, Invoke(w)
  PROVE  CallStory' /\ \E i \in Invocations : Book!MakeCall(i)
<1>0. Answered /\ SlotStory BY DEF CallStory
<1>1. /\ pc[w] = "cleared" /\ UNCHANGED held /\ pc' = [pc EXCEPT ![w] = "waiting"]
      /\ calls' = [calls EXCEPT ![held[w]] = @ + 1]
      /\ UNCHANGED <<run, ledger, receipt, evidence>>
  BY DEF Invoke, business, records
<1>2. held[w] \in 1 .. Len(ledger) BY <1>1 DEF Inv, WorkersHold
<1>3. PICK i \in Invocations : i = held[w] BY <1>2, RowIn
<1>4. calls[i] = 0 /\ i \in 1 .. Len(ledger) BY <1>1, <1>2, <1>3 DEF Inv, WorkersHold
<1>5. calls' = [calls EXCEPT ![i] = 1] /\ calls'[i] = 1 /\ \A j \in Invocations \ {i} : calls'[j] = calls[j]
  BY <1>1, <1>3, <1>4 DEF Inv, LocalTypes
<1>6. Answered'
  <2>1. ASSUME NEW v \in Workers, pc'[v] \in {"waiting", "replied", "saved"} PROVE calls'[held'[v]] = 1
    <3>1. CASE v = w BY <1>1, <1>3, <1>5, <3>1
    <3>2. CASE v # w
      <4>1. pc[v] \in {"waiting", "replied", "saved"} /\ held'[v] = held[v]
        BY <1>1, <2>1, <3>2 DEF Inv, LocalTypes
      <4>2. held[v] \in 1 .. Len(ledger) BY <4>1 DEF Inv, WorkersHold
      <4>3. held[v] \in Invocations /\ calls[held[v]] = 1 BY <1>0, <4>1, <4>2, RowIn DEF Answered
      <4> QED BY <1>5, <4>1, <4>3
    <3> QED BY <3>1, <3>2
  <2>2. \A j \in Invocations : HasReceipt(j)' => calls'[j] = 1 BY <1>0, <1>1, <1>5 DEF Answered, HasReceipt
  <2> QED BY <2>1, <2>2 DEF Answered
<1>7. SlotStory' BY <1>0, <1>1, StoryKept
<1>8. ~HasReceipt(i) BY <1>0, <1>4 DEF Answered
<1>9. evidence[i] \in {"none", "unknown"} BY <1>4, <1>8 DEF Inv, ReceiptDecides
<1>10. Issued' = Issued /\ RunPhase' = RunPhase BY <1>1 DEF Issued, RunPhase
<1>11. i \in Book!Dispatched BY <1>4, DispatchedAt
<1>12. Book!MakeCall(i) BY <1>1, <1>4, <1>5, <1>9, <1>10, <1>11 DEF Book!MakeCall
<1> QED BY <1>6, <1>7, <1>12 DEF CallStory

\* Its settlement ends a call, with what the provider answered if it did.
LEMMA SettleCalls ==
  ASSUME Inv, CallStory, Answered', BookInv', NEW i \in Nat, NEW outcome \in Results, Settle(i, outcome)
  PROVE  CallStory' /\ \E c \in Invocations, o \in Results \ {"none"} : Book!EndCall(c, o)
<1>0. Answered /\ SlotStory BY DEF CallStory
<1>1. /\ i = Len(ledger) /\ i \in 1 .. Len(ledger) /\ i \in Invocations
      /\ evidence[i] = "none" /\ outcome # "none"
      /\ evidence' = [evidence EXCEPT ![i] = outcome]
      /\ run'.cancel = run.cancel /\ run'.resolved = run.resolved
      /\ run'.unresolved = IF outcome = "unknown" THEN 1 ELSE 0
      /\ cp' = 0 /\ ledger' = ledger
  BY Settled
<1>2. /\ run.status = "collecting" /\ outcome = IF HasReceipt(i) THEN receipt[i] ELSE "unknown"
      /\ UNCHANGED calls
  BY DEF Settle, Complete
<1>3. run'.status = CompletedStatus(i, outcome) BY DEF Settle, Complete, Inv, Types, Progress
<1>4. evidence \in [Invocations -> Results] /\ Len(ledger) \in Nat BY RowIn DEF Inv, Types
<1>5. SlotStory'
  <2>1. \A j \in 1 .. Len(ledger) - 1 : evidence'[j] = evidence[j]
    <3> TAKE j \in 1 .. Len(ledger) - 1
    <3>1. j # i /\ j \in 1 .. Len(ledger) BY <1>1, <1>4
    <3>2. j \in Invocations BY <3>1, RowIn
    <3> QED BY <1>1, <1>4, <3>1, <3>2
  <2> QED BY <1>0, <1>1, <2>1, StoryKept
<1>6. i \in Book!Dispatched BY <1>1, DispatchedAt
<1>7. outcome # "unknown" => calls[i] = 1 BY <1>0, <1>1, <1>2 DEF Answered
<1>8. Issued' = Issued BY <1>1 DEF Issued
<1>9. RunPhase \in {"open", "closing"} BY <1>2 DEF RunPhase
<1>10. CASE run'.status # "awaiting_review"
  <2>1. run'.status \in {"collecting", "blocked"} BY <1>3, <1>10 DEF CompletedStatus
  <2>2. RunPhase' = RunPhase BY <1>1, <1>2, <2>1 DEF RunPhase
  <2>3. Book!EndCall(i, outcome)
    BY <1>1, <1>2, <1>6, <1>7, <1>8, <1>9, <2>2 DEF Book!EndCall
  <2> QED BY <1>1, <1>5, <2>3 DEF CallStory
<1>11. CASE run'.status = "awaiting_review"
  <2>1. ReadyForReview(i, outcome) BY <1>3, <1>11 DEF CompletedStatus
  <2>2. outcome = "succeeded" /\ run.cancel = 0 /\ Unfinished(evidence') = {}
    BY <1>1, <2>1 DEF ReadyForReview
  <2>3. RunPhase = "open" /\ RunPhase' = "review" BY <1>2, <1>11, <2>2 DEF RunPhase
  <2>4. run'.unresolved = 0 BY <1>1, <2>2
  <2>5. (Book!Quiescent /\ Book!Decided)' BY <1>1, <2>4 DEF BookInv
  <2>6. ASSUME NEW s \in Slots
        PROVE  \E c \in Invocations : Issued[c] = <<s, "semantic">> /\ evidence'[c] = "succeeded"
    <3>1. PICK ev : ev = evidence' OBVIOUS
    <3>2. SlotAction(s, ev) = "done" BY <2>2, <3>1 DEF Unfinished
    <3>3. PICK m \in 1 .. Len(ledger) :
            /\ ledger[m].slot = s
            /\ SlotAction(s, ev) =
                 IF ev[m] = "succeeded"
                   THEN IF ledger[m].kind = "generation" THEN "semantic" ELSE "done"
                 ELSE IF /\ Used(s, ledger[m].kind) < Limit[ledger[m].kind]
                         /\ m \in run.resolved \/ ev[m] = "retryable"
                   THEN ledger[m].kind
                 ELSE "block"
      <4>1. SlotAction(s, ev) # "generation" BY <3>2
      <4> QED BY <4>1, LastOfSlot
    <3>4. m \in Invocations /\ m <= Len(ledger) /\ ledger[m].kind \in Kinds BY <1>4, RowIn
    <3>5. ev[m] = "succeeded" /\ ledger[m].kind = "semantic" BY <3>2, <3>3, <3>4 DEF Kinds
    <3>6. Issued[m] = <<s, "semantic">> BY <3>3, <3>4, <3>5, IssuedAt
    <3> QED BY <3>1, <3>4, <3>5, <3>6
  <2>7. Book!Judged' BY <1>8, <2>6 DEF Book!Judged
  <2>8. Book!EndCall(i, outcome)
    BY <1>1, <1>2, <1>6, <1>7, <1>8, <1>9, <2>3, <2>5, <2>7 DEF Book!EndCall
  <2> QED BY <1>1, <1>5, <2>8 DEF CallStory
<1> QED BY <1>10, <1>11

\* An operator's decision, or the drain of a cancellation.
LEMMA DecisionCalls ==
  ASSUME Inv, BookInv, CallStory, Answered', Decision
  PROVE  CallStory' /\ [Book!CallsNext]_(Book!callVars)
<1>0. SlotStory /\ run \in Progress /\ version \in Nat BY DEF CallStory, Inv, Types
<1>1. UNCHANGED <<ledger, evidence, calls>>
  BY DEF Decision, RequestCancel, Cancel, FinishCancellation, Replace, CancelUnknown, Resolve, Decide, records
<1>2. SlotStory' BY <1>0, <1>1, StoryKept
<1>3. Issued' = Issued BY <1>1 DEF Issued
<1>4. CASE RequestCancel
  <2>1. /\ run.status \in {"collecting", "blocked"} /\ run.cancel = 0
        /\ run' = [run EXCEPT !.cancel = version]
    BY <1>4 DEF RequestCancel, Decide
  <2>2. version # 0 BY DEF Inv, VersionsGrow, FirstVersion
  <2>3. run'.status = run.status /\ run'.cancel # 0 /\ run'.resolved = run.resolved
    BY <1>0, <2>1, <2>2 DEF Progress
  <2>4. RunPhase = "open" /\ RunPhase' = "closing" BY <2>1, <2>3 DEF RunPhase
  <2>5. Book!RequestCancel BY <1>1, <1>3, <2>3, <2>4 DEF Book!RequestCancel
  <2> QED BY <1>2, <2>5 DEF CallStory, Book!CallsNext
<1>5. CASE Cancel \/ FinishCancellation
  <2>1. /\ ~Draining /\ run.status # "canceled" /\ run' = [run EXCEPT !.status = "canceled"]
    BY <1>5 DEF Cancel, FinishCancellation, Decide
  <2>2. cp = 0 /\ run.unresolved = 0 BY <1>0, <2>1 DEF Draining, Progress
  <2>3. Book!Quiescent /\ Book!Decided BY <2>2 DEF BookInv
  <2>4. run'.status = "canceled" /\ run'.resolved = run.resolved BY <1>0, <2>1 DEF Progress
  <2>5. RunPhase # "canceled" /\ RunPhase' = "canceled" BY <2>1, <2>4 DEF RunPhase
  <2>6. Book!CancelRun BY <1>1, <1>3, <2>3, <2>4, <2>5 DEF Book!CancelRun
  <2> QED BY <1>2, <2>6 DEF CallStory, Book!CallsNext
<1>6. ASSUME NEW i \in Invocations, NEW status \in {"collecting", "canceled"}, Resolve(i, status)
      PROVE  CallStory' /\ [Book!CallsNext]_(Book!callVars)
  <2>1. /\ run.status = "blocked" /\ cp = 0 /\ evidence[i] = "unknown" /\ i \notin run.resolved
        /\ run' = [run EXCEPT !.status = status, !.unresolved = @ - 1, !.resolved = @ \cup {i}]
    BY <1>6 DEF Resolve, Decide
  <2>2. run'.status = status /\ run'.cancel = run.cancel /\ run'.resolved = run.resolved \cup {i}
    BY <1>0, <2>1 DEF Progress
  <2>3. RunPhase \in {"open", "closing"} /\ RunPhase' \in {RunPhase, "canceled"}
    BY <2>1, <2>2 DEF RunPhase
  <2>4. Book!Quiescent BY <2>1 DEF BookInv
  <2>5. Book!Grant(i) BY <1>1, <1>3, <2>1, <2>2, <2>3, <2>4 DEF Book!Grant
  <2> QED BY <1>2, <2>5 DEF CallStory, Book!CallsNext
<1>7. CASE \E i \in Invocations : Replace(i) \/ CancelUnknown(i)
  <2>1. \E i \in Invocations, status \in {"collecting", "canceled"} : Resolve(i, status)
    BY <1>7 DEF Replace, CancelUnknown
  <2> QED BY <1>6, <2>1
<1> QED BY <1>4, <1>5, <1>7 DEF Decision

\* A worker that moves on, or rests.
LEMMA AnsweredMoves ==
  ASSUME Inv, Answered, NEW w \in Workers, NEW at, NEW what, GoTo(w, at, what), UNCHANGED <<calls, receipt>>,
         at \notin {"waiting", "replied", "saved"}
  PROVE  Answered'
<1>1. pc'[w] = at /\ \A v \in Workers \ {w} : pc'[v] = pc[v] /\ held'[v] = held[v] BY Moves DEF Inv
<1> QED BY <1>1 DEF Answered, HasReceipt

LEMMA AnsweredNext ==
  ASSUME Inv, CallStory, [Next]_vars
  PROVE  Answered'
<1>0. Answered BY DEF CallStory
<1>1. ASSUME NEW w \in Workers, CommitDispatch(w) \/ Invoke(w) PROVE Answered'
  BY <1>1, DispatchCalls, InvokeCalls DEF CallStory
<1>2. ASSUME NEW w \in Workers, NEW outcome, Reply(w, outcome) PROVE Answered'
  <2>1. pc[w] = "waiting" /\ pc' = [pc EXCEPT ![w] = "replied"] /\ UNCHANGED <<held, calls, receipt>>
    BY <1>2 DEF Reply, business, records
  <2>2. \A v \in Workers : pc'[v] \in {"waiting", "replied", "saved"} => pc[v] \in {"waiting", "replied", "saved"}
    BY <2>1 DEF Inv, LocalTypes
  <2> QED BY <1>0, <2>1, <2>2 DEF Answered, HasReceipt
<1>3. ASSUME NEW w \in Workers, Save(w) PROVE Answered'
  <2>1. CASE MaySave(held[w])
    <3>1. /\ pc[w] = "replied" /\ GoTo(w, "saved", held[w]) /\ UNCHANGED calls
          /\ receipt' = [receipt EXCEPT ![held[w]] = reply[w]]
      BY <1>3, <2>1 DEF Save
    <3>2. /\ pc'[w] = "saved" /\ held'[w] = held[w]
          /\ \A v \in Workers \ {w} : pc'[v] = pc[v] /\ held'[v] = held[v]
      BY <3>1, Moves DEF Inv
    <3>3. calls[held[w]] = 1 BY <1>0, <3>1 DEF Answered
    <3>4. \A i \in Invocations : i # held[w] => receipt'[i] = receipt[i] BY <3>1 DEF Inv, LocalTypes
    <3> QED BY <1>0, <3>1, <3>2, <3>3, <3>4 DEF Answered, HasReceipt
  <2>2. CASE ~MaySave(held[w])
    <3>1. GoTo(w, "idle", NoWork) /\ UNCHANGED <<calls, receipt>> BY <1>3, <2>2 DEF Save, Idle
    <3> QED BY <1>0, <3>1, AnsweredMoves
  <2> QED BY <2>1, <2>2
<1>4. ASSUME NEW w \in Workers, Scan(w) PROVE Answered'
  <2>1. PICK what : GoTo(w, "scanned", what) /\ UNCHANGED <<calls, receipt>>
    BY <1>4 DEF Scan, business, records
  <2> QED BY <1>0, <2>1, AnsweredMoves
<1>5. ASSUME NEW w \in Workers,
             ReserveDispatch(w) \/ ReserveCompletion(w) \/ RecoverResponse(w) \/ RecoverExpiry(w)
      PROVE  Answered'
  <2>1. PICK t : GoTo(w, "reserved", t) /\ UNCHANGED <<calls, receipt>>
    BY <1>5 DEF ReserveDispatch, ReserveCompletion, RecoverResponse, RecoverExpiry, Reserve, business, records
  <2> QED BY <1>0, <2>1, AnsweredMoves
<1>6. ASSUME NEW w \in Workers,
             \/ LeaveCompletion(w) \/ LeaveScan(w) \/ RefuseRoot(w) \/ Stop(w)
             \/ CommitGeneration(w) \/ CommitSemantic(w) \/ CommitExpiry(w)
      PROVE  Answered'
  <2>1. GoTo(w, "idle", NoWork) /\ UNCHANGED <<calls, receipt>>
    BY <1>6 DEF LeaveCompletion, LeaveScan, RefuseRoot, Stop, CommitGeneration, CommitSemantic,
       CommitCompletion, CommitExpiry, Complete, Idle, business, records
  <2> QED BY <1>0, <2>1, AnsweredMoves
<1>7. ASSUME UNCHANGED <<pc, held, calls, receipt>> PROVE Answered'
  BY <1>0, <1>7 DEF Answered, HasReceipt
<1>8. ASSUME NEW t, Abort(t) PROVE Answered'
  BY <1>7, <1>8 DEF Abort, business, local, records
<1>9. CASE LeaseRunsOut \/ UNCHANGED vars
  BY <1>7, <1>9 DEF LeaseRunsOut, vars, business, local, records
<1>10. CASE FinishCancellation \/ Operator
  <2>1. UNCHANGED <<pc, held, calls, receipt>>
    BY <1>10 DEF FinishCancellation, Operator, RequestCancel, Cancel, Replace, CancelUnknown,
       Resolve, Decide, local, records
  <2> QED BY <1>7, <2>1
<1> QED BY <1>1, <1>2, <1>3, <1>4, <1>5, <1>6, <1>8, <1>9, <1>10 DEF Next, Step

\* Only an invocation counts one.
LEMMA CallsCounted ==
  ASSUME [Next]_vars, \A w \in Workers : ~Invoke(w)
  PROVE  UNCHANGED calls
<1>1. ASSUME NEW w \in Workers, Step(w) \/ Stop(w) PROVE UNCHANGED calls
  BY <1>1 DEF Step, Stop, ReserveDispatch, CommitDispatch, Reply, Save, ReserveCompletion, LeaveCompletion,
     CommitGeneration, CommitSemantic, CommitCompletion, Scan, RecoverResponse, RecoverExpiry, LeaveScan,
     CommitExpiry, RefuseRoot, Complete, Reserve
<1>2. ASSUME NEW t, Abort(t) PROVE UNCHANGED calls BY <1>2 DEF Abort
<1>3. CASE LeaseRunsOut \/ FinishCancellation \/ Operator \/ UNCHANGED vars
  BY <1>3 DEF LeaseRunsOut, FinishCancellation, Operator, RequestCancel, Cancel, Replace, CancelUnknown,
     Resolve, Decide, vars
<1> QED BY <1>1, <1>2, <1>3 DEF Next

LEMMA NextCalls ==
  Inv /\ BookInv /\ BookInv' /\ CallStory /\ [Next]_vars =>
    CallStory' /\ [Book!CallsNext]_(Book!callVars)
<1> SUFFICES ASSUME Inv, BookInv, BookInv', CallStory, [Next]_vars
             PROVE  CallStory' /\ [Book!CallsNext]_(Book!callVars)
  OBVIOUS
<1>0. Answered' /\ SlotStory BY AnsweredNext DEF CallStory
<1>1. ASSUME NEW w \in Workers, CommitDispatch(w)
      PROVE  CallStory' /\ [Book!CallsNext]_(Book!callVars)
  <2>1. CallStory' /\ \E i \in Invocations, s \in Slots : Book!DispatchCall(i, s) BY <1>1, DispatchCalls
  <2> QED BY <2>1 DEF Book!CallsNext
<1>2. ASSUME NEW w \in Workers, Invoke(w)
      PROVE  CallStory' /\ [Book!CallsNext]_(Book!callVars)
  <2>1. CallStory' /\ \E i \in Invocations : Book!MakeCall(i) BY <1>2, InvokeCalls
  <2> QED BY <2>1 DEF Book!CallsNext
<1>3. ASSUME NEW i \in Nat, NEW outcome \in Results, Settle(i, outcome)
      PROVE  CallStory' /\ [Book!CallsNext]_(Book!callVars)
  <2>1. CallStory' /\ \E c \in Invocations, o \in Results \ {"none"} : Book!EndCall(c, o)
    BY <1>0, <1>3, SettleCalls
  <2> QED BY <2>1 DEF Book!CallsNext, Results
<1>4. CASE Kept /\ UNCHANGED calls
  <2>1. UNCHANGED <<run, ledger, evidence, calls>> BY <1>4 DEF Kept
  <2>2. SlotStory' BY <1>0, <2>1, StoryKept
  <2>3. RunPhase' = RunPhase BY <2>1 DEF RunPhase
  <2> QED BY <1>0, <2>1, <2>2, <2>3, CallsSame DEF CallStory
<1> QED BY <1>0, <1>1, <1>2, <1>3, <1>4, CallsCounted, DecisionCalls, StepClasses

LEMMA InitCalls == Init => CallStory /\ Book!CallsInit
<1> SUFFICES ASSUME Init PROVE CallStory /\ Book!CallsInit OBVIOUS
<1>0. Inv BY InitInv
<1>1. Len(ledger) = 0 BY DEF Init
<1>2. SlotStory BY <1>1 DEF SlotStory
<1>3. Answered BY DEF Init, Answered, HasReceipt
<1>4. \A i \in Invocations : Issued[i] = <<>>
  <2> TAKE i \in Invocations
  <2>1. ~(i <= Len(ledger)) BY <1>0, <1>1, RowIn
  <2> QED BY <1>0, <2>1, IssuedAt
<1>5. Issued = [i \in Invocations |-> <<>>] BY <1>4 DEF Issued
<1>6. RunPhase = "open" /\ run.resolved = {} BY DEF Init, RunPhase
<1> QED BY <1>2, <1>3, <1>5, <1>6 DEF CallStory, Book!CallsInit, Init

\* Every behaviour of a serial Run, whoever retries, replans, recovers or
\* cancels its calls, keeps what RunCalls promises of them: calls are preceded
\* by calls that allow them, are made once and end once, with a result they
\* had, and none is dispatched after a cancellation was requested
\* (slot_action, WorkerDispatchWrite, complete_generation, complete_semantic,
\* recover_expired, plan_resolution).
THEOREM CallsAlwaysKept == Spec => KeepsCalls
<1>1. Inv => BookInv BY BookAt
<1>2. Init => CallStory /\ Book!CallsInit BY InitCalls
<1>3. Inv /\ BookInv /\ BookInv' /\ CallStory /\ [Next]_vars =>
        CallStory' /\ [Book!CallsNext]_(Book!callVars)
  BY NextCalls
<1> QED BY <1>1, <1>2, <1>3, InvHolds, PTL DEF Spec, KeepsCalls, Book!CallsSpec

-----------------------------------------------------------------------------
(* The inductive invariant: the shape of the review document ...            *)

Finals == {"approved", "rejected"}
ReviewSignature ==
  [candidate : Candidates, role : Roles, reviewer : Reviewers, at : Nat,
   reason : Commands \cup {NoCommand}, decision : {"approve", "reject"}, semantic : Nat]
CorrectionEntry == [id : Commands, source : Nat, previous : ReviewSignature, review : ReviewSignature]
GateRecord == [state : Finals, source : Nat, at : Nat, metric : {"computed", "rounded"}]
ArchivedRound ==
  [reviews : SUBSET ReviewSignature, corrections : Seq(CorrectionEntry),
   originals : SUBSET ReviewSignature, candidates : SUBSET Candidates, final : GateRecord,
   at : Nat, version : Nat]
DocumentStates == Finals \cup {"awaiting_review", "canceled"}
DocumentTransition == [to : DocumentStates, at : Nat]
Document ==
  [status : DocumentStates, reviews : SUBSET ReviewSignature, corrections : Seq(CorrectionEntry),
   rounds : Seq(ArchivedRound), gate : GateRecord \cup {None},
   transitions : Seq(DocumentTransition)]

DocumentType ==
  /\ p \in Document /\ revision \in ClosedAt .. MaxVersion
  /\ frozen \in [sound : BOOLEAN, rounding : BOOLEAN]
  /\ execution \in [Commands -> {None} \cup
                      [state : {"prepared", "committed", "aborted"}, entry : CorrectionEntry]]
  /\ p.gate # None <=> p.status \in Finals

\* ... the signatures and the corrections of them: each by its own signer ...
SignedInv == p.reviews = {} \/ Signable(p.reviews)
OwnedInv ==
  \A i \in DOMAIN p.corrections : \E r \in p.reviews :
    SameKey(p.corrections[i].review, r) /\ p.corrections[i].review.reviewer = r.reviewer

\* ... what was read back when the document was written, of a final status
\* from the state before it ...
LoadedInv ==
  Audited(p) => \E q \in Document, u \in Nat, at \in Nat :
    q.reviews = p.reviews /\ q.corrections = p.corrections /\ q.rounds = p.rounds /\ Loads(q, u, at)
FinalInv ==
  p.status \in Finals =>
    /\ \E q \in Document, v \in Nat : q = p /\ v = revision /\ VerifiedFinal(q, v)
    /\ FullySigned(Current(p)) /\ p.transitions # <<>>

\* ... the rounds in the order of time, and signatures younger than the
\* reopening that asked for them ...
RoundTimesInv ==
  /\ \A i, j \in DOMAIN p.rounds : i <= j => p.rounds[i].at <= p.rounds[j].at
  /\ \A i \in DOMAIN p.rounds : \A r \in p.reviews :
       r.candidate \in p.rounds[i].candidates => r.at >= p.rounds[i].at

\* ... and the receipts of the corrections.
ReceiptInv ==
  \A k \in Commands :
    /\ execution[k].state = "prepared" => execution[k].entry.id = k
    /\ IF execution[k].state = "committed" THEN \E x : Occurrences(k) = {x} ELSE Occurrences(k) = {}

ReviewInv ==
  DocumentType /\ SignedInv /\ OwnedInv /\ LoadedInv /\ FinalInv /\ RoundTimesInv /\ ReceiptInv

-----------------------------------------------------------------------------
(* Sequences of corrections and what stands after them.                     *)

\* A set of positions that is not empty has a last one.
LEMMA LastPosition ==
  ASSUME NEW n \in Nat, NEW S, S \subseteq 1 .. n, S # {}
  PROVE  Max(S) \in S /\ \A y \in S : y <= Max(S)
<1>1. PICK R : R = OpToRel(<, Nat) OBVIOUS
<1>2. IsWellFoundedOn(R, Nat) BY <1>1, NatLessThanWellFounded
<1>3. PICK T : T = {n - y : y \in S} OBVIOUS
<1>4. T \subseteq Nat /\ T # {}
  <2>1. \A y \in S : n - y \in Nat OBVIOUS
  <2>2. T # {} BY <1>3
  <2> QED BY <1>3, <2>1, <2>2
<1>5. PICK t \in T : \A u \in T : <<u, t>> \notin R BY <1>2, <1>4, WFMin
<1>6. PICK x \in S : t = n - x BY <1>3
<1>7. ASSUME NEW y \in S PROVE y <= x
  <2>1. n - y \in T /\ n - y \in Nat /\ n - x \in Nat BY <1>3
  <2>2. <<n - y, n - x>> \notin R BY <1>5, <1>6, <2>1
  <2>3. ~(n - y < n - x) BY <1>1, <2>1, <2>2 DEF OpToRel
  <2> QED BY <2>3
<1>8. \E z \in S : \A y \in S : z >= y BY <1>7
<1> QED BY <1>8 DEF Max

LEMMA PrefixAt ==
  ASSUME NEW S, NEW s \in Seq(S), NEW n \in 0 .. Len(s)
  PROVE  /\ SubSeq(s, 1, n) \in Seq(S) /\ Len(SubSeq(s, 1, n)) = n
         /\ DOMAIN SubSeq(s, 1, n) = 1 .. n
         /\ \A i \in 1 .. n : SubSeq(s, 1, n)[i] = s[i]
<1>1. n \in Nat /\ \A i \in 1 .. n : s[i] \in S BY ElementOfSeq
<1>2. /\ SubSeq(s, 1, n) \in Seq(S) /\ Len(SubSeq(s, 1, n)) = IF 1 <= n THEN n - 1 + 1 ELSE 0
      /\ \A i \in 1 .. n - 1 + 1 : SubSeq(s, 1, n)[i] = s[1 + i - 1]
  BY <1>1, SubSeqProperties
<1>3. DOMAIN SubSeq(s, 1, n) = 1 .. Len(SubSeq(s, 1, n)) BY <1>2, LenProperties
<1> QED BY <1>1, <1>2, <1>3

LEMMA FrontOfAppend ==
  ASSUME NEW S, NEW s \in Seq(S), NEW e \in S
  PROVE  /\ Append(s, e) \in Seq(S) /\ Len(Append(s, e)) = Len(s) + 1
         /\ \A i \in 1 .. Len(s) : Append(s, e)[i] = s[i]
         /\ Last(Append(s, e)) = e /\ Append(s, e)[Len(s) + 1] = e
         /\ Front(Append(s, e)) = s
         /\ \A n \in 0 .. Len(s) : SubSeq(Append(s, e), 1, n) = SubSeq(s, 1, n)
         /\ SubSeq(Append(s, e), 1, Len(s) + 1) = Append(s, e)
<1>1. /\ Append(s, e) \in Seq(S) /\ Len(Append(s, e)) = Len(s) + 1 /\ Len(s) \in Nat
      /\ \A i \in 1 .. Len(s) : Append(s, e)[i] = s[i]
      /\ Append(s, e)[Len(s) + 1] = e
  BY AppendProperties, LenProperties
<1>2. ASSUME NEW n \in 0 .. Len(s) PROVE SubSeq(Append(s, e), 1, n) = SubSeq(s, 1, n)
  <2>1. n \in 0 .. Len(Append(s, e)) /\ n \in Nat BY <1>1
  <2>2. PICK a, b : a = SubSeq(Append(s, e), 1, n) /\ b = SubSeq(s, 1, n) OBVIOUS
  <2>3. a \in Seq(S) /\ Len(a) = n /\ \A i \in 1 .. n : a[i] = Append(s, e)[i]
    BY <1>1, <2>1, <2>2, PrefixAt
  <2>4. b \in Seq(S) /\ Len(b) = n /\ \A i \in 1 .. n : b[i] = s[i] BY <2>2, PrefixAt
  <2>5. \A i \in 1 .. n : a[i] = b[i] BY <1>1, <2>1, <2>3, <2>4
  <2>6. a = b BY <2>3, <2>4, <2>5, SeqEqual
  <2> QED BY <2>2, <2>6
<1>3. SubSeq(s, 1, Len(s)) = s /\ SubSeq(Append(s, e), 1, Len(s) + 1) = Append(s, e)
  BY <1>1, SubSeqFull
<1>4. Front(Append(s, e)) = s
  <2>1. Len(Append(s, e)) - 1 = Len(s) /\ Len(s) \in 0 .. Len(s) BY <1>1
  <2> QED BY <1>2, <1>3, <2>1 DEF Front
<1> QED BY <1>1, <1>2, <1>3, <1>4 DEF Last

\* What stands of a signature is the signature, or a correction of it.
LEMMA StandingAt ==
  ASSUME NEW cs \in Seq(CorrectionEntry), NEW r
  PROVE  \/ Chain(cs, r) = {} /\ Standing(cs, r) = r
         \/ \E i \in DOMAIN cs : SameKey(cs[i].review, r) /\ Standing(cs, r) = cs[i].review
<1>1. CASE Chain(cs, r) = {} BY <1>1 DEF Standing
<1>2. CASE Chain(cs, r) # {}
  <2>1. Len(cs) \in Nat /\ DOMAIN cs = 1 .. Len(cs) BY LenProperties
  <2>2. Chain(cs, r) \subseteq 1 .. Len(cs) BY <2>1 DEF Chain
  <2>3. Max(Chain(cs, r)) \in Chain(cs, r) BY <1>2, <2>1, <2>2, LastPosition
  <2>4. Standing(cs, r) = cs[Max(Chain(cs, r))].review BY <1>2 DEF Standing
  <2> QED BY <2>3, <2>4 DEF Chain
<1> QED BY <1>1, <1>2

LEMMA EffectiveAt ==
  ASSUME NEW cs \in Seq(CorrectionEntry), NEW rs, NEW a \in Effective(rs, cs)
  PROVE  \E r \in rs :
           \/ a = r /\ Chain(cs, r) = {}
           \/ \E i \in DOMAIN cs : SameKey(cs[i].review, r) /\ a = cs[i].review
BY StandingAt DEF Effective

LEMMA EffectiveTyped ==
  ASSUME NEW cs \in Seq(CorrectionEntry), NEW rs \in SUBSET ReviewSignature
  PROVE  Effective(rs, cs) \in SUBSET ReviewSignature
<1> SUFFICES ASSUME NEW a \in Effective(rs, cs) PROVE a \in ReviewSignature OBVIOUS
<1>1. \A i \in DOMAIN cs : cs[i].review \in ReviewSignature
  <2>1. DOMAIN cs = 1 .. Len(cs) BY LenProperties
  <2>2. \A i \in DOMAIN cs : cs[i] \in CorrectionEntry BY <2>1, ElementOfSeq
  <2> QED BY <2>2 DEF CorrectionEntry
<1> QED BY <1>1, EffectiveAt

LEMMA NothingCorrected == ASSUME NEW rs PROVE Effective(rs, <<>>) = rs
<1>1. \A r : Chain(<<>>, r) = {} BY DEF Chain
<1> QED BY <1>1 DEF Effective, Standing

LEMMA SignableSubset ==
  ASSUME NEW rs, NEW S, Signable(rs), S \subseteq rs, S # {}
  PROVE  Signable(S)
BY DEF Signable

-----------------------------------------------------------------------------
(* The documents that the operations write.                                 *)

LEMMA DocumentAt ==
  ASSUME NEW q \in Document
  PROVE  /\ q.status \in DocumentStates /\ q.reviews \in SUBSET ReviewSignature
         /\ q.corrections \in Seq(CorrectionEntry) /\ q.rounds \in Seq(ArchivedRound)
         /\ q.gate \in GateRecord \cup {None} /\ q.transitions \in Seq(DocumentTransition)
         /\ Len(q.corrections) \in Nat /\ DOMAIN q.corrections = 1 .. Len(q.corrections)
         /\ Len(q.rounds) \in Nat /\ DOMAIN q.rounds = 1 .. Len(q.rounds)
         /\ Len(q.transitions) \in Nat
         /\ \A i \in DOMAIN q.corrections : q.corrections[i] \in CorrectionEntry
         /\ \A i \in DOMAIN q.rounds : q.rounds[i] \in ArchivedRound
<1>1. /\ q.status \in DocumentStates /\ q.reviews \in SUBSET ReviewSignature
      /\ q.corrections \in Seq(CorrectionEntry) /\ q.rounds \in Seq(ArchivedRound)
      /\ q.gate \in GateRecord \cup {None} /\ q.transitions \in Seq(DocumentTransition)
  BY DEF Document
<1>2. /\ Len(q.corrections) \in Nat /\ DOMAIN q.corrections = 1 .. Len(q.corrections)
      /\ Len(q.rounds) \in Nat /\ DOMAIN q.rounds = 1 .. Len(q.rounds)
      /\ Len(q.transitions) \in Nat
  BY <1>1, LenProperties
<1>3. /\ \A i \in DOMAIN q.corrections : q.corrections[i] \in CorrectionEntry
      /\ \A i \in DOMAIN q.rounds : q.rounds[i] \in ArchivedRound
  BY <1>1, <1>2, ElementOfSeq
<1> QED BY <1>1, <1>2, <1>3

LEMMA BatchAt ==
  ASSUME NEW at \in Nat, NEW values \in Batches(at)
  PROVE  values \in SUBSET ReviewSignature /\ values # {} /\ \A r \in values : r.at = at
<1>1. PICK cs \in (SUBSET Candidates) \ {{}}, role \in Roles, who \in Reviewers :
        values \in BatchesOf(cs, role, who, at)
  BY DEF Batches
<1>2. PICK f \in [cs -> UNION {Opinions(c) : c \in cs}] :
        /\ \A c \in cs : f[c] \in Opinions(c)
        /\ values = {Signed(c, role, who, f[c], at) : c \in cs}
  BY <1>1 DEF BatchesOf
<1>3. ASSUME NEW c \in cs
      PROVE  f[c].decision \in {"approve", "reject"} /\ f[c].semantic \in Nat
  <2>1. f[c] \in Opinions(c) /\ FailedClaims[c] \subseteq Nat BY <1>2, ReviewAssumption
  <2> QED BY <2>1 DEF Opinions
<1>4. ASSUME NEW r \in values PROVE r \in ReviewSignature /\ r.at = at
  <2>1. PICK c \in cs : r = Signed(c, role, who, f[c], at) BY <1>2
  <2> QED BY <1>3, <2>1 DEF ReviewSignature, Signed
<1>5. cs # {} OBVIOUS
<1>6. values # {} BY <1>2, <1>5
<1> QED BY <1>4, <1>6

LEMMA ReviewedAt ==
  ASSUME p \in Document, NEW values \in SUBSET ReviewSignature, NEW q, q = Reviewed(values)
  PROVE  /\ q \in Document /\ q.reviews = p.reviews \cup values
         /\ q.status = p.status /\ q.corrections = p.corrections /\ q.rounds = p.rounds
         /\ q.gate = p.gate /\ q.transitions = p.transitions
BY DEF Document, Reviewed

LEMMA CorrectedAt ==
  ASSUME p \in Document, NEW entry \in CorrectionEntry, NEW q, q = Corrected(entry)
  PROVE  /\ q \in Document /\ q.corrections = Append(p.corrections, entry)
         /\ q.status = p.status /\ q.reviews = p.reviews /\ q.rounds = p.rounds
         /\ q.gate = p.gate /\ q.transitions = p.transitions
<1>1. Append(p.corrections, entry) \in Seq(CorrectionEntry) BY DocumentAt, AppendProperties
<1> QED BY <1>1 DEF Document, Corrected

LEMMA RecordAt ==
  ASSUME NEW rs, NEW source \in Nat, NEW at \in Nat, NEW record, record = FinalRecord(rs, source, at)
  PROVE  /\ record \in GateRecord /\ record.state = FinalStatus(rs)
         /\ record.source = source /\ record.at = at /\ record # None
         /\ JsonRoundTrip(record) \in GateRecord /\ JsonRoundTrip(record).state = record.state
         /\ JsonRoundTrip(record).source = source /\ JsonRoundTrip(record).at = at
         /\ JsonRoundTrip(record) # None
         /\ FinalTransition(JsonRoundTrip(record)) = FinalTransition(record)
         /\ FinalTransition(record) \in DocumentTransition
<1>1. FinalStatus(rs) \in Finals BY DEF FinalStatus, Finals
<1>2. /\ record \in GateRecord /\ record.state = FinalStatus(rs)
      /\ record.source = source /\ record.at = at
  BY <1>1 DEF FinalRecord, GateRecord
<1>3. PICK r2 : r2 = JsonRoundTrip(record) OBVIOUS
<1>4. r2 \in GateRecord /\ r2.state = record.state /\ r2.source = source /\ r2.at = at
  BY <1>2, <1>3 DEF JsonRoundTrip, GateRecord
<1>5. record # None /\ r2 # None
  <2>1. None.state = "none" /\ "none" \notin Finals BY DEF None, Finals
  <2> QED BY <1>1, <1>2, <1>4, <2>1
<1>6. FinalTransition(r2) = FinalTransition(record) BY <1>2, <1>4 DEF FinalTransition
<1>7. FinalTransition(record) \in DocumentTransition
  BY <1>1, <1>2 DEF FinalTransition, DocumentTransition, DocumentStates
<1> QED BY <1>2, <1>3, <1>4, <1>5, <1>6, <1>7

LEMMA FinalizedAt ==
  ASSUME p \in Document, revision \in Nat, NEW at \in Nat, NEW q, q = Finalized(at)
  PROVE  LET record == FinalRecord(Current(p), revision, at) IN
         /\ q \in Document /\ q.status = record.state /\ q.gate = JsonRoundTrip(record)
         /\ q.transitions = Append(p.transitions, FinalTransition(record))
         /\ q.reviews = p.reviews /\ q.corrections = p.corrections /\ q.rounds = p.rounds
<1>1. PICK record : record = FinalRecord(Current(p), revision, at) OBVIOUS
<1>2. /\ record \in GateRecord /\ JsonRoundTrip(record) \in GateRecord
      /\ FinalTransition(record) \in DocumentTransition
  BY <1>1, RecordAt
<1>3. record.state \in DocumentStates BY <1>2 DEF GateRecord, DocumentStates
<1>4. Append(p.transitions, FinalTransition(record)) \in Seq(DocumentTransition)
  BY <1>2, DocumentAt, AppendProperties
<1>5. q = [p EXCEPT !.status = record.state, !.gate = JsonRoundTrip(record),
                    !.transitions = Append(@, FinalTransition(record))]
  BY <1>1 DEF Finalized
<1>6. /\ q \in Document /\ q.status = record.state /\ q.gate = JsonRoundTrip(record)
      /\ q.transitions = Append(p.transitions, FinalTransition(record))
      /\ q.reviews = p.reviews /\ q.corrections = p.corrections /\ q.rounds = p.rounds
  BY <1>2, <1>3, <1>4, <1>5 DEF Document
<1> QED BY <1>1, <1>6

LEMMA DiscardedAt ==
  ASSUME p \in Document, NEW at \in Nat, NEW q, q = Discarded(at)
  PROVE  /\ q \in Document /\ q.status = "canceled"
         /\ q.transitions = Append(p.transitions, [to |-> "canceled", at |-> at])
         /\ q.reviews = p.reviews /\ q.corrections = p.corrections /\ q.rounds = p.rounds
         /\ q.gate = p.gate
<1>1. [to |-> "canceled", at |-> at] \in DocumentTransition BY DEF DocumentTransition, DocumentStates
<1>2. Append(p.transitions, [to |-> "canceled", at |-> at]) \in Seq(DocumentTransition)
  BY <1>1, DocumentAt, AppendProperties
<1> QED BY <1>2 DEF Document, Discarded, DocumentStates

LEMMA OpeningAt ==
  ASSUME p \in Document, p.gate # None, NEW at \in Nat, NEW e, e = Opening(at)
  PROVE  /\ e \in ArchivedRound /\ e.reviews = Current(p) /\ e.corrections = p.corrections
         /\ e.originals = IF p.corrections = <<>> THEN {} ELSE p.reviews
         /\ e.candidates = Eligible(Current(p), Len(p.rounds))
         /\ e.final = p.gate /\ e.at = at /\ e.version = p.gate.source + 2
<1>1. p.gate \in GateRecord /\ p.gate.source \in Nat BY DocumentAt DEF GateRecord
<1>2. Current(p) \in SUBSET ReviewSignature BY DocumentAt, EffectiveTyped DEF Current
<1>3. Eligible(Current(p), Len(p.rounds)) \in SUBSET Candidates BY DEF Eligible, HardFailed
<1>4. /\ e.reviews = Current(p) /\ e.corrections = p.corrections
      /\ e.originals = IF p.corrections = <<>> THEN {} ELSE p.reviews
      /\ e.candidates = Eligible(Current(p), Len(p.rounds))
      /\ e.final = p.gate /\ e.at = at /\ e.version = p.gate.source + 2
  BY DEF Opening
<1>5. p.gate.source + 2 \in Nat BY <1>1
<1>6. e.originals \in SUBSET ReviewSignature BY <1>4, DocumentAt
<1>7. e \in ArchivedRound BY <1>1, <1>2, <1>3, <1>4, <1>5, <1>6, DocumentAt DEF ArchivedRound, Opening
<1> QED BY <1>4, <1>7

LEMMA ReopenedAt ==
  ASSUME p \in Document, p.gate # None, NEW at \in Nat, NEW q, q = Reopened(at)
  PROVE  /\ q \in Document /\ q.status = "awaiting_review" /\ q.gate = None
         /\ q.reviews = Retained(Opening(at)) /\ q.corrections = <<>>
         /\ q.rounds = Append(p.rounds, Opening(at))
         /\ q.transitions = Append(p.transitions, OpeningTransition(Opening(at)))
<1>1. PICK e : e = Opening(at) OBVIOUS
<1>2. e \in ArchivedRound /\ e.at = at BY <1>1, OpeningAt
<1>3. Retained(e) \in SUBSET ReviewSignature BY <1>2 DEF Retained, ArchivedRound
<1>4. Append(p.rounds, e) \in Seq(ArchivedRound) BY <1>2, DocumentAt, AppendProperties
<1>5. OpeningTransition(e) \in DocumentTransition
  BY <1>2 DEF OpeningTransition, DocumentTransition, DocumentStates
<1>6. Append(p.transitions, OpeningTransition(e)) \in Seq(DocumentTransition)
  BY <1>5, DocumentAt, AppendProperties
<1>7. <<>> \in Seq(CorrectionEntry) BY EmptySeq
<1>8. q = [p EXCEPT !.status = "awaiting_review", !.gate = None, !.reviews = Retained(e),
                    !.corrections = <<>>, !.rounds = Append(@, e),
                    !.transitions = Append(@, OpeningTransition(e))]
  BY <1>1 DEF Reopened
<1>9. /\ q \in Document /\ q.status = "awaiting_review" /\ q.gate = None
      /\ q.reviews = Retained(e) /\ q.corrections = <<>>
      /\ q.rounds = Append(p.rounds, e)
      /\ q.transitions = Append(p.transitions, OpeningTransition(e))
  BY <1>3, <1>4, <1>6, <1>7, <1>8 DEF Document, DocumentStates
<1> QED BY <1>1, <1>9

-----------------------------------------------------------------------------
(* What a planner accepts reads back: a batch of signatures.                *)

LEMMA ClockAt ==
  ASSUME p \in Document, NEW at \in Clock
  PROVE  at \in Nat /\ at >= ClosedAt /\ ClosedAt = 1
<1>1. Len(p.rounds) \in Nat BY DocumentAt
<1>2. Now \in Int BY <1>1 DEF Now, ClosedAt
<1> QED BY <1>2, ReviewAssumption DEF Clock, ClosedAt

\* What stands is by the signer of an original, for the same key.
LEMMA OwnerAt ==
  ASSUME p \in Document, OwnedInv, NEW n \in 0 .. Len(p.corrections),
         NEW a \in Effective(p.reviews, SubSeq(p.corrections, 1, n))
  PROVE  \E r \in p.reviews : SameKey(a, r) /\ a.reviewer = r.reviewer
<1>1. PICK cs : cs = SubSeq(p.corrections, 1, n) OBVIOUS
<1>2. /\ cs \in Seq(CorrectionEntry) /\ DOMAIN cs = 1 .. n
      /\ \A i \in 1 .. n : cs[i] = p.corrections[i]
  BY <1>1, DocumentAt, PrefixAt
<1>3. PICK r \in p.reviews :
        \/ a = r /\ Chain(cs, r) = {}
        \/ \E i \in DOMAIN cs : SameKey(cs[i].review, r) /\ a = cs[i].review
  <2>1. a \in Effective(p.reviews, cs) BY <1>1
  <2> QED BY <1>2, <2>1, EffectiveAt
<1>4. CASE a = r BY <1>4 DEF SameKey
<1>5. ASSUME NEW i \in DOMAIN cs, a = cs[i].review PROVE \E o \in p.reviews : SameKey(a, o) /\ a.reviewer = o.reviewer
  <2>1. n \in Nat /\ i \in DOMAIN p.corrections BY <1>2, DocumentAt
  <2> QED BY <1>2, <1>5, <2>1 DEF OwnedInv
<1> QED BY <1>3, <1>4, <1>5

\* New signatures are uncorrected, and go with whatever stood before.
LEMMA BatchStands ==
  ASSUME p \in Document, OwnedInv, NEW values, values # {}, Admitted(values),
         NEW n \in 0 .. Len(p.corrections), NEW cs, cs = SubSeq(p.corrections, 1, n)
  PROVE  /\ Effective(p.reviews \cup values, cs) = Effective(p.reviews, cs) \cup values
         /\ Effective(p.reviews, cs) = {} \/ Signable(Effective(p.reviews, cs))
              => Signable(Effective(p.reviews \cup values, cs))
<1>1. /\ cs \in Seq(CorrectionEntry) /\ DOMAIN cs = 1 .. n
      /\ \A i \in 1 .. n : cs[i] = p.corrections[i]
  BY DocumentAt, PrefixAt
<1>2. Signable(p.reviews \cup values) /\ p.reviews \cap values = {} BY DEF Admitted
<1>3. ASSUME NEW v \in values, NEW r \in p.reviews, v.candidate = r.candidate
      PROVE  v.role # r.role /\ v.reviewer # r.reviewer
  <2>1. v # r BY <1>2
  <2> QED BY <1>2, <1>3, <2>1 DEF Signable
<1>4. ASSUME NEW v \in values PROVE Standing(cs, v) = v
  <2>1. ASSUME NEW i \in DOMAIN cs, SameKey(cs[i].review, v) PROVE FALSE
    <3>1. n \in Nat /\ i \in DOMAIN p.corrections /\ cs[i] = p.corrections[i] BY <1>1, DocumentAt
    <3>2. PICK r \in p.reviews : SameKey(cs[i].review, r) BY <3>1 DEF OwnedInv
    <3> QED BY <1>3, <2>1, <3>2 DEF SameKey
  <2>2. Chain(cs, v) = {} BY <2>1 DEF Chain
  <2> QED BY <2>2 DEF Standing
<1>5. Effective(p.reviews \cup values, cs) = Effective(p.reviews, cs) \cup values
  BY <1>4 DEF Effective
<1>6. ASSUME Effective(p.reviews, cs) = {} \/ Signable(Effective(p.reviews, cs))
      PROVE  Signable(Effective(p.reviews, cs) \cup values)
  <2>1. PICK E : E = Effective(p.reviews, cs) OBVIOUS
  <2>2. E = {} \/ Signable(E) BY <1>6, <2>1
  <2>3. Signable(values) BY <1>2, SignableSubset
  <2>4. ASSUME NEW a \in E, NEW v \in values, a.candidate = v.candidate
        PROVE  a.role # v.role /\ a.reviewer # v.reviewer
    <3>1. PICK r \in p.reviews : SameKey(a, r) /\ a.reviewer = r.reviewer BY <2>1, OwnerAt
    <3> QED BY <1>3, <2>4, <3>1 DEF SameKey
  <2>5. Signable(E \cup values) BY <2>2, <2>3, <2>4 DEF Signable
  <2> QED BY <2>1, <2>5
<1> QED BY <1>5, <1>6

LEMMA BatchLinks ==
  ASSUME p \in Document, OwnedInv, NEW values, values # {}, Admitted(values),
         NEW v \in Nat, NEW at, ValidCorrections(p.reviews, p.corrections, v, at)
  PROVE  ValidCorrections(p.reviews \cup values, p.corrections, v + 1, at)
<1>1. Signable(p.reviews \cup values) BY DEF Admitted
<1>2. ASSUME NEW i \in DOMAIN p.corrections
      PROVE  /\ Linked(p.reviews \cup values, p.corrections, i, v + 1)
             /\ p.corrections[i].review.at <= at
             /\ Signable(Effective(p.reviews \cup values, SubSeq(p.corrections, 1, i)))
  <2>1. /\ Linked(p.reviews, p.corrections, i, v) /\ p.corrections[i].review.at <= at
        /\ Signable(Effective(p.reviews, SubSeq(p.corrections, 1, i)))
    BY DEF ValidCorrections
  <2>2. i \in Nat /\ i - 1 \in 0 .. Len(p.corrections) /\ i \in 0 .. Len(p.corrections) BY DocumentAt
  <2>3. Signable(Effective(p.reviews \cup values, SubSeq(p.corrections, 1, i))) BY <2>1, <2>2, BatchStands
  <2>4. Effective(p.reviews, SubSeq(p.corrections, 1, i - 1))
          \subseteq Effective(p.reviews \cup values, SubSeq(p.corrections, 1, i - 1))
    BY DEF Effective
  <2>5. p.corrections[i].source \in Nat BY DocumentAt DEF CorrectionEntry
  <2>6. Linked(p.reviews \cup values, p.corrections, i, v + 1)
    <3>1. p.corrections[i].source + 1 <= v + 1 BY <2>1, <2>5 DEF Linked
    <3> QED BY <2>1, <2>4, <3>1, Zenon DEF Linked
  <2> QED BY <2>1, <2>3, <2>6
<1> QED BY <1>1, <1>2 DEF ValidCorrections

\* The rounds stay valid at a later version.
LEMMA RoundsKept ==
  ASSUME NEW q \in Document, p \in Document, q.rounds = p.rounds, q.transitions = p.transitions,
         NEW v \in Nat, NEW at, ValidRounds(p, v, at),
         p.rounds # <<>> =>
           /\ \A i \in DOMAIN q.corrections : q.corrections[i].review.at >= Last(p.rounds).at
           /\ ReopenedReviews(Last(p.rounds), q.reviews)
  PROVE  ValidRounds(q, v + 1, at)
<1>1. ASSUME NEW i \in DOMAIN p.rounds PROVE ValidRound(q, i, v + 1, at)
  <2>1. ValidRound(p, i, v, at) BY DEF ValidRounds
  <2>2. p.rounds[i].version \in Nat BY DocumentAt DEF ArchivedRound
  <2> QED BY <2>1, <2>2 DEF ValidRound
<1> QED BY <1>1 DEF ValidRounds

LEMMA BatchReadsBack ==
  ASSUME DocumentType, OwnedInv, NEW at \in Clock, ReviewOpen(at), NEW values \in Batches(at),
         Admitted(values)
  PROVE  ReadView(Reviewed(values), revision + 1, at)
<1>0. p \in Document /\ revision \in Nat BY ReviewAssumption DEF DocumentType, ClosedAt
<1>1. at \in Nat /\ at >= ClosedAt BY <1>0, ClockAt
<1>2. values \in SUBSET ReviewSignature /\ values # {} /\ \A r \in values : r.at = at BY <1>1, BatchAt
<1>3. PICK q : q = Reviewed(values) OBVIOUS
<1>4. /\ q \in Document /\ q.reviews = p.reviews \cup values
      /\ q.status = p.status /\ q.corrections = p.corrections /\ q.rounds = p.rounds
      /\ q.gate = p.gate /\ q.transitions = p.transitions
  BY <1>0, <1>2, <1>3, ReviewedAt
<1>5. p.status = "awaiting_review" /\ p.gate = None /\ (Audited(p) => Loads(p, revision, at))
  BY DEF ReviewOpen, ReadView, ReadFinalization
<1>6. ASSUME Audited(q) PROVE Loads(q, revision + 1, at)
  <2>1. Loads(p, revision, at) BY <1>4, <1>5, <1>6 DEF Audited
  <2>2. /\ ValidCorrections(p.reviews, p.corrections, revision, at) /\ ValidRounds(p, revision, at)
        /\ Calculable(Current(p), at)
    BY <2>1 DEF Loads
  <2>3. ValidCorrections(q.reviews, q.corrections, revision + 1, at)
    BY <1>0, <1>2, <1>4, <2>2, BatchLinks
  <2>4. ASSUME p.rounds # <<>>
        PROVE  /\ \A i \in DOMAIN q.corrections : q.corrections[i].review.at >= Last(p.rounds).at
               /\ ReopenedReviews(Last(p.rounds), q.reviews)
    <3>1. /\ \A i \in DOMAIN p.corrections : p.corrections[i].review.at >= Last(p.rounds).at
          /\ ReopenedReviews(Last(p.rounds), p.reviews)
      BY <2>2, <2>4 DEF ValidRounds
    <3>2. \A r \in values : r.candidate \in Last(p.rounds).candidates => r.at >= Last(p.rounds).at
      BY <2>4 DEF Admitted
    <3> QED BY <1>4, <3>1, <3>2 DEF ReopenedReviews
  <2>5. ValidRounds(q, revision + 1, at) BY <1>0, <1>4, <2>2, <2>4, RoundsKept
  <2>6. Calculable(Current(q), at)
    <3>1. Len(p.corrections) \in Nat /\ SubSeq(p.corrections, 1, Len(p.corrections)) = p.corrections
      BY <1>0, DocumentAt, SubSeqFull
    <3>2. /\ Current(q) = Current(p) \cup values
          /\ Current(p) = {} \/ Signable(Current(p)) => Signable(Current(q))
      <4>1. Len(p.corrections) \in 0 .. Len(p.corrections) BY <3>1
      <4>2. PICK cs : cs = SubSeq(p.corrections, 1, Len(p.corrections)) OBVIOUS
      <4>3. /\ Effective(p.reviews \cup values, cs) = Effective(p.reviews, cs) \cup values
            /\ Effective(p.reviews, cs) = {} \/ Signable(Effective(p.reviews, cs))
                 => Signable(Effective(p.reviews \cup values, cs))
        BY <1>0, <1>2, <4>1, <4>2, BatchStands
      <4> QED BY <1>4, <3>1, <4>2, <4>3 DEF Current
    <3> QED BY <1>1, <1>2, <2>2, <3>2 DEF Calculable
  <2> QED BY <1>4, <1>5, <2>3, <2>5, <2>6 DEF Loads
<1>7. ReadFinalization(q, revision + 1, at) BY <1>4, <1>5, <1>6 DEF ReadFinalization
<1> QED BY <1>3, <1>4, <1>5, <1>7 DEF ReadView

-----------------------------------------------------------------------------
(* What a planner accepts reads back: a correction, the finalization and    *)
(* the first reopening.                                                     *)

LEMMA EntryAt ==
  ASSUME p \in Document, revision \in Nat, NEW k \in Commands, NEW previous \in Current(p),
         NEW d \in {"approve", "reject"}, NEW at \in Nat, NEW entry, entry = Entry(k, previous, d, at)
  PROVE  entry \in CorrectionEntry /\ entry.review.at = at /\ entry.id = k
<1>1. previous \in ReviewSignature BY DocumentAt, EffectiveTyped DEF Current
<1>2. [previous EXCEPT !.decision = d, !.at = at, !.reason = k] \in ReviewSignature
  BY <1>1 DEF ReviewSignature
<1>3. /\ entry.review = [previous EXCEPT !.decision = d, !.at = at, !.reason = k]
      /\ entry.id = k /\ entry.source = revision /\ entry.previous = previous
  BY DEF Entry
<1>4. entry.review.at = at BY <1>1, <1>3 DEF ReviewSignature
<1>5. entry \in CorrectionEntry BY <1>1, <1>2, <1>3 DEF CorrectionEntry, Entry
<1> QED BY <1>3, <1>4, <1>5

LEMMA CorrectionReadsBack ==
  ASSUME p \in Document, revision \in Nat, NEW entry \in CorrectionEntry, CorrectionPlanned(entry)
  PROVE  ReadView(Corrected(entry), revision + 1, entry.review.at)
<1>1. PICK at : at = entry.review.at OBVIOUS
<1>2. /\ p.status = "awaiting_review" /\ p.gate = None /\ Calculable(Current(p), at)
      /\ ValidRounds(p, revision, at)
      /\ ValidCorrections(p.reviews, Append(p.corrections, entry), revision + 1, at)
  BY <1>1 DEF CorrectionPlanned, Loads
<1>3. PICK q : q = Corrected(entry) OBVIOUS
<1>4. /\ q \in Document /\ q.corrections = Append(p.corrections, entry)
      /\ q.status = p.status /\ q.reviews = p.reviews /\ q.rounds = p.rounds
      /\ q.gate = p.gate /\ q.transitions = p.transitions
  BY <1>3, CorrectedAt
<1>5. PICK n \in Nat : n = Len(p.corrections) BY DocumentAt
<1>6. /\ DOMAIN p.corrections = 1 .. n /\ DOMAIN q.corrections = 1 .. n + 1
      /\ \A i \in 1 .. n : q.corrections[i] = p.corrections[i]
      /\ q.corrections[n + 1] = entry /\ SubSeq(q.corrections, 1, n + 1) = q.corrections
  BY <1>4, <1>5, DocumentAt, FrontOfAppend
<1>7. \A i \in DOMAIN q.corrections : q.corrections[i].review.at <= at
  BY <1>2, <1>4 DEF ValidCorrections
<1>8. Signable(Current(q))
  <2>1. n + 1 \in DOMAIN q.corrections BY <1>6
  <2>2. Signable(Effective(q.reviews, SubSeq(q.corrections, 1, n + 1)))
    BY <1>2, <1>4, <2>1 DEF ValidCorrections
  <2> QED BY <1>6, <2>2 DEF Current
<1>9. ASSUME NEW a \in Current(q) PROVE a.at <= at
  <2>1. PICK cs \in Seq(CorrectionEntry) : cs = q.corrections BY <1>4, DocumentAt
  <2>2. a \in Effective(p.reviews, cs) BY <1>4, <1>9, <2>1 DEF Current
  <2>3. PICK r \in p.reviews :
          \/ a = r /\ Chain(cs, r) = {}
          \/ \E i \in DOMAIN cs : SameKey(cs[i].review, r) /\ a = cs[i].review
    BY <2>2, EffectiveAt
  <2>4. CASE a = r /\ Chain(cs, r) = {}
    <3>1. Chain(p.corrections, r) = {} BY <1>6, <2>1, <2>4 DEF Chain
    <3>2. a \in Current(p) BY <2>4, <3>1 DEF Current, Effective, Standing
    <3> QED BY <1>2, <3>2 DEF Calculable
  <2> QED BY <1>7, <2>1, <2>3, <2>4
<1>10. Calculable(Current(q), at) BY <1>2, <1>8, <1>9 DEF Calculable
<1>11. ASSUME p.rounds # <<>>
       PROVE  /\ \A i \in DOMAIN q.corrections : q.corrections[i].review.at >= Last(p.rounds).at
              /\ ReopenedReviews(Last(p.rounds), q.reviews)
  <2>1. /\ \A i \in DOMAIN p.corrections : p.corrections[i].review.at >= Last(p.rounds).at
        /\ ReopenedReviews(Last(p.rounds), p.reviews)
    BY <1>2, <1>11 DEF ValidRounds
  <2>2. Len(p.rounds) \in DOMAIN p.rounds BY <1>11, DocumentAt, EmptySeq
  <2>3. Last(p.rounds).at <= at BY <1>2, <2>2 DEF ValidRounds, ValidRound, Last
  <2>4. at \in Nat /\ Last(p.rounds).at \in Nat
    BY <1>1, <2>2, DocumentAt DEF CorrectionEntry, ReviewSignature, ArchivedRound, Last
  <2>5. entry.review.at >= Last(p.rounds).at BY <1>1, <2>3, <2>4
  <2>6. \A i \in 1 .. n + 1 : i \in 1 .. n \/ i = n + 1 OBVIOUS
  <2> QED BY <1>4, <1>6, <2>1, <2>5, <2>6
<1>12. ValidRounds(q, revision + 1, at) BY <1>2, <1>4, <1>11, RoundsKept
<1>13. Loads(q, revision + 1, at) BY <1>2, <1>4, <1>10, <1>12 DEF Loads
<1>14. ReadFinalization(q, revision + 1, at) BY <1>2, <1>4, <1>13 DEF ReadFinalization
<1> QED BY <1>1, <1>2, <1>3, <1>4, <1>14 DEF ReadView

LEMMA SameDocument ==
  ASSUME NEW a \in Document, NEW b \in Document, a.status = b.status, a.reviews = b.reviews,
         a.corrections = b.corrections, a.rounds = b.rounds, a.gate = b.gate,
         a.transitions = b.transitions
  PROVE  a = b
BY DEF Document

LEMMA FinalReadsBack ==
  ASSUME p \in Document, revision \in Nat, NEW at \in Nat, FinalizePlanned(at)
  PROVE  ReadView(Finalized(at), revision + 1, at)
<1>0. PICK rs : rs = Current(p) OBVIOUS
<1>1. PICK record : record = FinalRecord(rs, revision, at) OBVIOUS
<1>2. PICK q : q = Finalized(at) OBVIOUS
<1>3. /\ q \in Document /\ q.status = record.state /\ q.gate = JsonRoundTrip(record)
      /\ q.transitions = Append(p.transitions, FinalTransition(record))
      /\ q.reviews = p.reviews /\ q.corrections = p.corrections /\ q.rounds = p.rounds
  BY <1>0, <1>1, <1>2, FinalizedAt
<1>4. /\ record.state \in Finals
      /\ q.gate # None /\ q.gate.source = revision /\ q.gate.at = at /\ q.gate.state = record.state
      /\ FinalTransition(q.gate) = FinalTransition(record) /\ FinalTransition(record) \in DocumentTransition
  <2>1. FinalStatus(rs) \in Finals BY DEF FinalStatus, Finals
  <2>2. /\ record.state = FinalStatus(rs) /\ JsonRoundTrip(record).state = record.state
        /\ JsonRoundTrip(record).source = revision /\ JsonRoundTrip(record).at = at
        /\ JsonRoundTrip(record) # None
        /\ FinalTransition(JsonRoundTrip(record)) = FinalTransition(record)
        /\ FinalTransition(record) \in DocumentTransition
    BY <1>1, RecordAt
  <2> QED BY <1>3, <2>1, <2>2
<1>5. Last(q.transitions) = FinalTransition(q.gate) /\ Front(q.transitions) = p.transitions
  BY <1>3, <1>4, DocumentAt, FrontOfAppend
<1>6. PICK s : s = [q EXCEPT !.status = "awaiting_review", !.gate = None, !.transitions = Front(@)]
  OBVIOUS
<1>7. Loads(p, revision, at) /\ p.status = "awaiting_review" /\ p.gate = None
  BY DEF FinalizePlanned, Loads
<1>8. s = p
  <2>1. /\ s.status = "awaiting_review" /\ s.gate = None /\ s.transitions = p.transitions
        /\ s.reviews = p.reviews /\ s.corrections = p.corrections /\ s.rounds = p.rounds
    BY <1>3, <1>5, <1>6 DEF Document
  <2>2. s \in Document BY <1>3, <1>5, <1>6 DEF Document, DocumentStates
  <2> QED BY <1>7, <2>1, <2>2, SameDocument
<1>9. Current(q) = Current(p) BY <1>3 DEF Current
<1>10. VerifiedFinal(q, revision + 1)
  <2>1. Loads(s, q.gate.source, q.gate.at) BY <1>4, <1>7, <1>8
  <2>2. q.gate = JsonRoundTrip(FinalRecord(Current(q), q.gate.source, q.gate.at))
    BY <1>0, <1>1, <1>3, <1>4, <1>9
  <2> QED BY <1>3, <1>4, <1>5, <1>6, <2>1, <2>2 DEF VerifiedFinal
<1> QED BY <1>2, <1>3, <1>4, <1>10 DEF ReadView, ReadFinalization, Finals

LEMMA FrontTyped ==
  ASSUME NEW q \in Document
  PROVE  Front(q.transitions) \in Seq(DocumentTransition)
<1>1. q.transitions \in Seq(DocumentTransition) /\ Len(q.transitions) \in Nat BY DocumentAt
<1>2. \A i \in 1 .. Len(q.transitions) - 1 : q.transitions[i] \in DocumentTransition
  BY <1>1, ElementOfSeq
<1> QED BY <1>1, <1>2, SubSeqProperties DEF Front

\* The state before a finalization, which was loaded when it was decided.
LEMMA SourceAt ==
  ASSUME NEW q \in Document, NEW v, VerifiedFinal(q, v)
  PROVE  \E s \in Document :
           /\ s.reviews = q.reviews /\ s.corrections = q.corrections /\ s.rounds = q.rounds
           /\ s.transitions = Front(q.transitions)
           /\ Loads(s, q.gate.source, q.gate.at) /\ Current(s) = Current(q)
           /\ q.gate \in GateRecord
<1>1. PICK s : s = [q EXCEPT !.status = "awaiting_review", !.gate = None, !.transitions = Front(@)]
  OBVIOUS
<1>2. Front(q.transitions) \in Seq(DocumentTransition) BY FrontTyped
<1>3. /\ s.transitions = Front(q.transitions)
      /\ s.reviews = q.reviews /\ s.corrections = q.corrections /\ s.rounds = q.rounds
  BY <1>1 DEF Document
<1>4. s \in Document BY <1>1, <1>2 DEF Document, DocumentStates
<1>5. Loads(s, q.gate.source, q.gate.at) /\ q.gate # None BY <1>1 DEF VerifiedFinal
<1>6. q.gate \in GateRecord BY <1>5, DocumentAt
<1>7. Current(s) = Current(q) BY <1>3 DEF Current
<1> QED BY <1>3, <1>4, <1>5, <1>6, <1>7

LEMMA ReopeningReadsBack ==
  ASSUME p \in Document, revision \in Nat, p.transitions # <<>>, p.rounds = <<>>, ~frozen.rounding,
         NEW at \in Nat, ReopenPlanned(at)
  PROVE  ReadView(Reopened(at), revision + 1, at)
<1>1. /\ p.status = "rejected" /\ VerifiedFinal(p, revision) /\ Eligible(Current(p), 0) # {}
      /\ at >= p.gate.at /\ Len(p.rounds) = 0
  BY EmptySeq DEF ReopenPlanned, CanReopen
<1>2. PICK s \in Document :
        /\ s.reviews = p.reviews /\ s.corrections = p.corrections /\ s.rounds = p.rounds
        /\ s.transitions = Front(p.transitions)
        /\ Loads(s, p.gate.source, p.gate.at) /\ Current(s) = Current(p)
        /\ p.gate \in GateRecord
  BY <1>1, SourceAt
<1>3. /\ p.gate # None /\ p.gate.source + 1 = revision /\ p.gate.state = "rejected"
      /\ Last(p.transitions) = FinalTransition(p.gate)
      /\ p.gate = FinalRecord(Current(p), p.gate.source, p.gate.at)
      /\ p.gate.source \in Nat /\ p.gate.at \in Nat
  BY <1>1, <1>2 DEF VerifiedFinal, JsonRoundTrip, GateRecord
<1>4. PICK e : e = Opening(at) OBVIOUS
<1>5. /\ e \in ArchivedRound /\ e.reviews = Current(p) /\ e.corrections = p.corrections
      /\ e.originals = IF p.corrections = <<>> THEN {} ELSE p.reviews
      /\ e.candidates = Eligible(Current(p), 0)
      /\ e.final = p.gate /\ e.at = at /\ e.version = p.gate.source + 2
  BY <1>1, <1>3, <1>4, OpeningAt
<1>6. PICK q : q = Reopened(at) OBVIOUS
<1>7. /\ q \in Document /\ q.status = "awaiting_review" /\ q.gate = None
      /\ q.reviews = Retained(e) /\ q.corrections = <<>>
      /\ q.rounds = Append(p.rounds, e)
      /\ q.transitions = Append(p.transitions, OpeningTransition(e))
  BY <1>3, <1>4, <1>6, ReopenedAt
<1>8. /\ ValidCorrections(p.reviews, p.corrections, p.gate.source, p.gate.at)
      /\ Calculable(Current(p), p.gate.at) /\ Len(Front(p.transitions)) = 0
  BY <1>1, <1>2 DEF Loads, ValidRounds
<1>9. Len(p.transitions) = 1
  <2>1. /\ p.transitions \in Seq(DocumentTransition) /\ Len(p.transitions) \in Nat \ {0}
        /\ Len(p.transitions) - 1 \in 0 .. Len(p.transitions)
    BY DocumentAt, EmptySeq
  <2>2. Len(Front(p.transitions)) = Len(p.transitions) - 1 BY <2>1, PrefixAt DEF Front
  <2>3. Len(p.transitions) - 1 = 0 BY <1>8, <2>2
  <2> QED BY <2>1, <2>3
<1>10. /\ Len(q.rounds) = 1 /\ DOMAIN q.rounds = {1} /\ q.rounds[1] = e /\ Last(q.rounds) = e
  <2>1. Len(q.rounds) = 1 /\ q.rounds[1] = e /\ Last(q.rounds) = e
    <3>1. PICK old \in Seq(ArchivedRound) : old = p.rounds BY DocumentAt
    <3>2. /\ Len(Append(old, e)) = Len(old) + 1 /\ Append(old, e)[Len(old) + 1] = e
          /\ Last(Append(old, e)) = e
      BY <1>5, FrontOfAppend
    <3> QED BY <1>1, <1>7, <3>1, <3>2
  <2> QED BY <1>7, <2>1, DocumentAt
<1>11. /\ Len(q.transitions) = 2 /\ q.transitions[1] = FinalTransition(p.gate)
       /\ q.transitions[2] = OpeningTransition(e)
  <2>1. OpeningTransition(e) \in DocumentTransition
    BY <1>5 DEF OpeningTransition, DocumentTransition, DocumentStates
  <2>2. p.transitions[1] = FinalTransition(p.gate) BY <1>3, <1>9 DEF Last
  <2> QED BY <1>7, <1>9, <2>1, <2>2, DocumentAt, FrontOfAppend
<1>12. Retained(e) \subseteq Current(p) BY <1>5 DEF Retained
<1>13. ValidCorrections(q.reviews, q.corrections, revision + 1, at)
  <2>1. q.reviews = {} \/ Signable(q.reviews) BY <1>7, <1>8, <1>12, SignableSubset DEF Calculable
  <2>2. DOMAIN q.corrections = {} BY <1>7
  <2> QED BY <2>1, <2>2 DEF ValidCorrections
<1>14. ValidRound(q, 1, revision + 1, at)
  <2>1. ASSUME e.corrections # <<>>
        PROVE  /\ ValidCorrections(e.originals, e.corrections, e.final.source, e.final.at)
               /\ Effective(e.originals, e.corrections) = e.reviews
    BY <1>5, <1>8, <2>1 DEF Current
  <2>2. Calculable(e.reviews, e.final.at) /\ FullySigned(e.reviews)
    BY <1>1, <1>5, <1>8 DEF Eligible
  <2>3. /\ e.final = FinalRecord(e.reviews, e.final.source, e.final.at) /\ e.final.state = "rejected"
    BY <1>3, <1>5
  <2>4. e.candidates = Eligible(e.reviews, 1 - 1) /\ e.candidates # {} BY <1>1, <1>5
  <2>5. e.final.at <= e.at /\ e.at <= at /\ e.version = e.final.source + 2 /\ e.version <= revision + 1
    BY <1>1, <1>3, <1>5
  <2>6. q.transitions[2 * 1 - 1] = FinalTransition(e.final) /\ q.transitions[2 * 1] = OpeningTransition(e)
    BY <1>5, <1>11
  <2> QED BY <1>10, <2>1, <2>2, <2>3, <2>4, <2>5, <2>6 DEF ValidRound
<1>15. ReopenedReviews(e, q.reviews) BY <1>7 DEF ReopenedReviews, Retained
<1>16. ValidRounds(q, revision + 1, at)
  <2>1. 1 <= RoundLimit BY <1>1, ReviewAssumption DEF Eligible
  <2>2. 2 .. Len(q.rounds) = {} BY <1>10
  <2>3. DOMAIN q.corrections = {} BY <1>7
  <2> QED BY <1>10, <1>11, <1>14, <1>15, <2>1, <2>2, <2>3 DEF ValidRounds
<1>17. Calculable(Current(q), at)
  <2>1. Current(q) = q.reviews BY <1>7, NothingCorrected DEF Current
  <2>2. q.reviews = {} \/ Signable(q.reviews) BY <1>7, <1>8, <1>12, SignableSubset DEF Calculable
  <2>3. ASSUME NEW r \in q.reviews PROVE r.at <= at
    <3>1. r \in Current(p) /\ r.at <= p.gate.at BY <1>7, <1>8, <1>12 DEF Calculable
    <3>2. r.at \in Nat BY <1>7, DocumentAt DEF ReviewSignature
    <3> QED BY <1>1, <1>3, <3>1, <3>2
  <2>4. at >= ClosedAt BY <1>1, <1>3, <1>8 DEF Calculable, ClosedAt
  <2> QED BY <2>1, <2>2, <2>3, <2>4 DEF Calculable
<1>18. Loads(q, revision + 1, at) BY <1>7, <1>13, <1>16, <1>17 DEF Loads
<1> QED BY <1>6, <1>7, <1>18 DEF ReadView, ReadFinalization

-----------------------------------------------------------------------------
(* The invariant is kept.                                                   *)

\* Readers depend on the document and the frozen evidence only.
LEMMA ReadingFrozen ==
  ASSUME UNCHANGED frozen
  PROVE  /\ \A q, v, at : Loads(q, v, at)' <=> Loads(q, v, at)
         /\ \A q, v : VerifiedFinal(q, v)' <=> VerifiedFinal(q, v)
<1>1. \A rs : FinalStatus(rs)' = FinalStatus(rs) BY DEF FinalStatus
<1>2. \A rs, source, at : FinalRecord(rs, source, at)' = FinalRecord(rs, source, at)
  BY <1>1 DEF FinalRecord
<1>3. \A record : JsonRoundTrip(record)' = JsonRoundTrip(record) BY DEF JsonRoundTrip
<1>4. \A rs, count : Eligible(rs, count)' = Eligible(rs, count) BY DEF Eligible
<1>5. \A q, i, v, at : ValidRound(q, i, v, at)' <=> ValidRound(q, i, v, at)
  BY <1>2, <1>4 DEF ValidRound
<1>6. \A q, v, at : ValidRounds(q, v, at)' <=> ValidRounds(q, v, at) BY <1>5 DEF ValidRounds
<1>7. \A q, v, at : Loads(q, v, at)' <=> Loads(q, v, at) BY <1>6 DEF Loads
<1>8. \A q, v : VerifiedFinal(q, v)' <=> VerifiedFinal(q, v) BY <1>2, <1>3, <1>7 DEF VerifiedFinal
<1> QED BY <1>7, <1>8

\* What was read back was loaded.
LEMMA ReadLoads ==
  ASSUME NEW q \in Document, NEW v \in Nat \ {0}, NEW at \in Nat, ReadView(q, v, at), Audited(q)
  PROVE  \E s \in Document, u \in Nat, t \in Nat :
           s.reviews = q.reviews /\ s.corrections = q.corrections /\ s.rounds = q.rounds /\ Loads(s, u, t)
<1>1. CASE q.status \in Finals
  <2>1. VerifiedFinal(q, v) BY <1>1 DEF ReadView, ReadFinalization, Finals
  <2>2. PICK s \in Document :
          /\ s.reviews = q.reviews /\ s.corrections = q.corrections /\ s.rounds = q.rounds
          /\ Loads(s, q.gate.source, q.gate.at) /\ q.gate \in GateRecord
    BY <2>1, SourceAt
  <2>3. q.gate.source \in Nat /\ q.gate.at \in Nat BY <2>2 DEF GateRecord
  <2> QED BY <2>2, <2>3
<1>2. CASE q.status = "awaiting_review"
  <2>1. Loads(q, v, at) BY <1>2 DEF ReadView, ReadFinalization
  <2> QED BY <2>1
<1>3. CASE q.status = "canceled"
  <2>1. PICK s : s = [q EXCEPT !.status = "awaiting_review", !.transitions = Front(@)] OBVIOUS
  <2>2. ReadFinalization(s, v - 1, at) BY <1>3, <2>1 DEF ReadView
  <2>3. Front(q.transitions) \in Seq(DocumentTransition) BY FrontTyped
  <2>4. /\ s.status = "awaiting_review"
        /\ s.reviews = q.reviews /\ s.corrections = q.corrections /\ s.rounds = q.rounds
    BY <2>1 DEF Document
  <2>5. s \in Document BY <2>1, <2>3 DEF Document, DocumentStates
  <2>6. Loads(s, v - 1, at) BY <2>2, <2>4 DEF ReadFinalization, Audited
  <2>7. v - 1 \in Nat OBVIOUS
  <2> QED BY <2>4, <2>5, <2>6, <2>7
<1> QED BY <1>1, <1>2, <1>3, DocumentAt DEF DocumentStates

LEMMA CommitKeeps ==
  ASSUME DocumentType, revision < MaxVersion, NEW q \in Document, NEW at \in Nat, Commit(q, at),
         q.gate # None <=> q.status \in Finals,
         q.status \in Finals => FullySigned(Current(q)) /\ q.transitions # <<>>,
         execution' \in [Commands -> {None} \cup
                           [state : {"prepared", "committed", "aborted"}, entry : CorrectionEntry]]
  PROVE  DocumentType' /\ LoadedInv' /\ FinalInv'
<1>0. revision \in Nat /\ revision >= 1 /\ MaxVersion \in Nat BY ReviewAssumption DEF DocumentType, ClosedAt
<1>1. p' = q /\ revision' = revision + 1 /\ UNCHANGED frozen /\ ReadView(q, revision + 1, at)
  BY DEF Commit
<1>2. DocumentType' BY <1>0, <1>1 DEF DocumentType, ClosedAt
<1>3. ASSUME Audited(q)
      PROVE  \E s \in Document, u \in Nat, t \in Nat :
               s.reviews = q.reviews /\ s.corrections = q.corrections /\ s.rounds = q.rounds /\ Loads(s, u, t)'
  <2>1. revision + 1 \in Nat \ {0} BY <1>0
  <2>2. PICK s \in Document, u \in Nat, t \in Nat :
          s.reviews = q.reviews /\ s.corrections = q.corrections /\ s.rounds = q.rounds /\ Loads(s, u, t)
    BY <1>1, <1>3, <2>1, ReadLoads
  <2>3. Loads(s, u, t)' BY <1>1, <2>2, ReadingFrozen
  <2> QED BY <2>2, <2>3
<1>4. LoadedInv' BY <1>1, <1>3 DEF LoadedInv
<1>v. PICK v : v = revision + 1 OBVIOUS
<1>5. ASSUME q.status \in Finals PROVE VerifiedFinal(q, v)'
  <2>1. VerifiedFinal(q, v) BY <1>1, <1>5, <1>v DEF ReadView, ReadFinalization, Finals
  <2> QED BY <1>1, <2>1, ReadingFrozen
<1>6. revision' = v /\ v \in Nat BY <1>0, <1>1, <1>v
<1>7. FinalInv' BY <1>1, <1>5, <1>6 DEF FinalInv
<1> QED BY <1>2, <1>4, <1>7

-----------------------------------------------------------------------------
(* The review, action by action.                                            *)

\* A step that leaves the signatures where they are.
LEMMA SameSignatures ==
  ASSUME NEW a, NEW b, a.reviews = b.reviews, a.corrections = b.corrections, a.rounds = b.rounds,
         a = p, b = p', SignedInv, OwnedInv, RoundTimesInv
  PROVE  SignedInv' /\ OwnedInv' /\ RoundTimesInv' /\ \A k : Occurrences(k)' = Occurrences(k)
<1>1. p'.reviews = p.reviews /\ p'.corrections = p.corrections /\ p'.rounds = p.rounds OBVIOUS
<1>2. SignedInv' BY <1>1 DEF SignedInv
<1>3. OwnedInv' BY <1>1 DEF OwnedInv
<1>4. RoundTimesInv' BY <1>1 DEF RoundTimesInv
<1>5. \A k : Occurrences(k)' = Occurrences(k) BY <1>1 DEF Occurrences
<1> QED BY <1>2, <1>3, <1>4, <1>5

LEMMA SameReceipts ==
  ASSUME ReceiptInv, \A k : Occurrences(k)' = Occurrences(k), UNCHANGED execution
  PROVE  ReceiptInv'
BY DEF ReceiptInv

\* The corrections of a round are no older than the reopening that opened it.
LEMMA RoundsLoaded ==
  ASSUME NEW q \in Document, NEW u, NEW at, Loads(q, u, at), q.rounds # <<>>
  PROVE  LET e == q.rounds[Len(q.rounds)] IN
         /\ Len(q.rounds) \in DOMAIN q.rounds /\ Last(q.rounds) = e /\ e \in ArchivedRound
         /\ FullySigned(e.reviews) /\ Retained(e) \subseteq q.reviews
         /\ \A i \in DOMAIN q.corrections : q.corrections[i].review.at >= e.at
         /\ \A i \in DOMAIN q.rounds : q.rounds[i].at <= at
<1>1. /\ Len(q.rounds) \in Nat /\ DOMAIN q.rounds = 1 .. Len(q.rounds) /\ q.rounds \in Seq(ArchivedRound)
      /\ \A i \in DOMAIN q.rounds : q.rounds[i] \in ArchivedRound
  BY DocumentAt
<1>2. Len(q.rounds) # 0 BY <1>1, EmptySeq
<1>3. Len(q.rounds) \in DOMAIN q.rounds BY <1>1, <1>2
<1>4. Last(q.rounds) = q.rounds[Len(q.rounds)] BY DEF Last
<1>5. ValidRounds(q, u, at) BY DEF Loads
<1>6. \A i \in DOMAIN q.rounds : ValidRound(q, i, u, at) BY <1>5 DEF ValidRounds
<1>7. \A i \in DOMAIN q.rounds : q.rounds[i].at <= at /\ FullySigned(q.rounds[i].reviews)
  BY <1>6 DEF ValidRound
<1>8. ReopenedReviews(Last(q.rounds), q.reviews)
      /\ \A i \in DOMAIN q.corrections : q.corrections[i].review.at >= Last(q.rounds).at
  BY <1>5 DEF ValidRounds
<1> QED BY <1>1, <1>3, <1>4, <1>7, <1>8 DEF ReopenedReviews

LEMMA LastRound ==
  ASSUME p \in Document, LoadedInv, p.rounds # <<>>
  PROVE  LET e == p.rounds[Len(p.rounds)] IN
         /\ Len(p.rounds) \in DOMAIN p.rounds /\ Last(p.rounds) = e /\ e \in ArchivedRound
         /\ FullySigned(e.reviews) /\ Retained(e) \subseteq p.reviews
         /\ \A i \in DOMAIN p.corrections : p.corrections[i].review.at >= e.at
<1>1. PICK q \in Document, u \in Nat, at \in Nat :
        q.reviews = p.reviews /\ q.corrections = p.corrections /\ q.rounds = p.rounds /\ Loads(q, u, at)
  BY DEF LoadedInv, Audited
<1> QED BY <1>1, RoundsLoaded

\* What stands was signed after each reopening that asked for it.
LEMMA StandingIsYounger ==
  ASSUME p \in Document, LoadedInv, RoundTimesInv, NEW a \in Current(p), NEW i \in DOMAIN p.rounds,
         a.candidate \in p.rounds[i].candidates
  PROVE  a.at >= p.rounds[i].at
<1>1. /\ p.corrections \in Seq(CorrectionEntry) /\ Len(p.rounds) \in Nat
      /\ DOMAIN p.rounds = 1 .. Len(p.rounds) /\ p.rounds[i] \in ArchivedRound
      /\ \A j \in DOMAIN p.corrections : p.corrections[j] \in CorrectionEntry
      /\ p.rounds \in Seq(ArchivedRound) /\ p.reviews \in SUBSET ReviewSignature
  BY DocumentAt
<1>2. PICK cs, rs : cs = p.corrections /\ rs = p.reviews OBVIOUS
<1>3. a \in Effective(rs, cs) BY <1>2 DEF Current
<1>4. PICK r \in rs : \/ a = r
                      \/ \E j \in DOMAIN cs : a = cs[j].review
  BY <1>1, <1>2, <1>3, EffectiveAt
<1>5. CASE a = r BY <1>2, <1>4, <1>5 DEF RoundTimesInv
<1>6. ASSUME NEW j \in DOMAIN cs, a = cs[j].review PROVE a.at >= p.rounds[i].at
  <2>1. p.rounds # <<>> BY <1>1, EmptySeq
  <2>2. PICK n, e : n = Len(p.rounds) /\ e = p.rounds[n] OBVIOUS
  <2>3. n \in DOMAIN p.rounds /\ e \in ArchivedRound /\ a.at >= e.at
    BY <1>2, <1>6, <2>1, <2>2, LastRound
  <2>4. i <= n BY <1>1, <2>2
  <2>5. p.rounds[i].at <= e.at BY <2>2, <2>3, <2>4 DEF RoundTimesInv
  <2>6. a \in ReviewSignature BY <1>1, <1>2, <1>6 DEF CorrectionEntry
  <2>7. a.at \in Nat /\ e.at \in Nat /\ p.rounds[i].at \in Nat
    BY <1>1, <2>3, <2>6 DEF ReviewSignature, ArchivedRound
  <2> QED BY <2>3, <2>5, <2>7
<1> QED BY <1>4, <1>5, <1>6

Receipts == [Commands -> {None} \cup
              [state : {"prepared", "committed", "aborted"}, entry : CorrectionEntry]]

LEMMA ReviewKeeps == ReviewInv /\ revision < MaxVersion /\ Review => ReviewInv'
<1> SUFFICES ASSUME ReviewInv, revision < MaxVersion, Review PROVE ReviewInv' OBVIOUS
<1> USE DEF ReviewInv
<1>1. p \in Document BY DEF DocumentType
<1>2. PICK at \in Clock : ReviewOpen(at) /\ \E values \in Batches(at) :
        Admitted(values) /\ Commit(Reviewed(values), at)
  BY DEF Review
<1>3. PICK values \in Batches(at) : Admitted(values) /\ Commit(Reviewed(values), at) BY <1>2
<1>4. at \in Nat BY <1>1, ClockAt
<1>5. values \in SUBSET ReviewSignature /\ values # {} /\ \A r \in values : r.at = at BY <1>4, BatchAt
<1>6. PICK q : q = Reviewed(values) OBVIOUS
<1>7. /\ q \in Document /\ q.reviews = p.reviews \cup values
      /\ q.status = p.status /\ q.corrections = p.corrections /\ q.rounds = p.rounds
      /\ q.gate = p.gate /\ q.transitions = p.transitions
  BY <1>1, <1>5, <1>6, ReviewedAt
<1>8. p' = q /\ UNCHANGED frozen /\ UNCHANGED execution /\ Commit(q, at) BY <1>3, <1>6 DEF Commit, Review
<1>9. p.status = "awaiting_review" BY <1>2 DEF ReviewOpen
<1>10. DocumentType' /\ LoadedInv' /\ FinalInv'
  <2>1. execution' \in Receipts BY <1>8 DEF DocumentType, Receipts
  <2>2. p.status \notin Finals BY <1>9 DEF Finals
  <2>3. q.status \notin Finals /\ q.gate = None BY <1>7, <2>2 DEF DocumentType
  <2> QED BY <1>4, <1>7, <1>8, <2>1, <2>3, CommitKeeps DEF Receipts
<1>11. SignedInv' BY <1>3, <1>7, <1>8 DEF SignedInv, Admitted
<1>12. OwnedInv' BY <1>7, <1>8 DEF OwnedInv
<1>13. ASSUME NEW i \in DOMAIN p.rounds, NEW r \in values, r.candidate \in p.rounds[i].candidates
       PROVE  r.at >= p.rounds[i].at
  <2>1. PICK n, e : n = Len(p.rounds) /\ e = p.rounds[n] OBVIOUS
  <2>2. /\ p.rounds \in Seq(ArchivedRound) /\ n \in Nat /\ DOMAIN p.rounds = 1 .. n
        /\ p.rounds[i] \in ArchivedRound
    BY <1>1, <2>1, DocumentAt
  <2>3. p.rounds # <<>> BY <2>2, EmptySeq
  <2>4. /\ n \in DOMAIN p.rounds /\ Last(p.rounds) = e /\ e \in ArchivedRound
        /\ FullySigned(e.reviews) /\ Retained(e) \subseteq p.reviews
    BY <1>1, <2>1, <2>3, LastRound
  <2>5. r.candidate \in e.candidates
    <3> SUFFICES ASSUME r.candidate \notin e.candidates PROVE FALSE OBVIOUS
    <3>1. r.candidate \in Candidates /\ r.role \in Roles BY <1>5 DEF ReviewSignature
    <3>2. {s.role : s \in SignaturesOf(e.reviews, r.candidate)} = Roles BY <2>4, <3>1 DEF FullySigned
    <3>3. PICK s \in SignaturesOf(e.reviews, r.candidate) : s.role = r.role BY <3>1, <3>2
    <3>4. s \in p.reviews /\ s.candidate = r.candidate BY <2>4, <3>3 DEF SignaturesOf, Retained
    <3>5. r \notin p.reviews /\ Signable(p.reviews \cup values) BY <1>3 DEF Admitted
    <3> QED BY <3>3, <3>4, <3>5 DEF Signable
  <2>6. r.at >= e.at BY <1>3, <2>3, <2>4, <2>5 DEF Admitted
  <2>7. p.rounds[i].at <= e.at
    <3>1. i <= n BY <2>2
    <3> QED BY <2>1, <2>4, <3>1 DEF RoundTimesInv
  <2>8. r.at \in Nat /\ e.at \in Nat /\ p.rounds[i].at \in Nat
    BY <1>5, <2>2, <2>4 DEF ReviewSignature, ArchivedRound
  <2> QED BY <2>6, <2>7, <2>8
<1>14. RoundTimesInv' BY <1>7, <1>8, <1>13 DEF RoundTimesInv
<1>15. \A k : Occurrences(k)' = Occurrences(k) BY <1>7, <1>8 DEF Occurrences
<1>16. ReceiptInv' BY <1>8, <1>15, SameReceipts
<1> QED BY <1>10, <1>11, <1>12, <1>14, <1>16

LEMMA FinalizeKeeps == ReviewInv /\ revision < MaxVersion /\ Finalize => ReviewInv'
<1> SUFFICES ASSUME ReviewInv, revision < MaxVersion, Finalize PROVE ReviewInv' OBVIOUS
<1> USE DEF ReviewInv
<1>1. p \in Document BY DEF DocumentType
<1>2. revision \in Nat BY DEF DocumentType, ClosedAt
<1>3. PICK at \in Clock : FinalizePlanned(at) /\ Commit(Finalized(at), at) BY DEF Finalize
<1>4. at \in Nat BY <1>1, ClockAt
<1>5. PICK q : q = Finalized(at) OBVIOUS
<1>6. PICK record : record = FinalRecord(Current(p), revision, at) OBVIOUS
<1>7. /\ q \in Document /\ q.status = record.state /\ q.gate = JsonRoundTrip(record)
      /\ q.transitions = Append(p.transitions, FinalTransition(record))
      /\ q.reviews = p.reviews /\ q.corrections = p.corrections /\ q.rounds = p.rounds
  BY <1>1, <1>2, <1>4, <1>5, <1>6, FinalizedAt
<1>8. record \in GateRecord /\ JsonRoundTrip(record) # None /\ FinalTransition(record) \in DocumentTransition
  <2>1. PICK rs, source : rs = Current(p) /\ source = revision OBVIOUS
  <2>2. source \in Nat /\ record = FinalRecord(rs, source, at) BY <1>2, <1>6, <2>1
  <2> QED BY <1>4, <2>2, RecordAt
<1>9. p' = q /\ Commit(q, at) /\ UNCHANGED execution BY <1>3, <1>5 DEF Commit, Finalize
<1>10. q.status \in Finals /\ q.gate # None BY <1>7, <1>8 DEF GateRecord
<1>11. FullySigned(Current(q))
  <2>1. Current(q) = Current(p) BY <1>7 DEF Current
  <2> QED BY <1>3, <2>1 DEF FinalizePlanned
<1>12. q.transitions # <<>>
  <2>1. p.transitions \in Seq(DocumentTransition) BY <1>1, DocumentAt
  <2> QED BY <1>7, <1>8, <2>1, AppendProperties
<1>13. DocumentType' /\ LoadedInv' /\ FinalInv'
  <2>1. execution' \in Receipts BY <1>9 DEF DocumentType, Receipts
  <2> QED BY <1>4, <1>7, <1>9, <1>10, <1>11, <1>12, <2>1, CommitKeeps DEF Receipts
<1>14. SignedInv' /\ OwnedInv' /\ RoundTimesInv' /\ \A k : Occurrences(k)' = Occurrences(k)
  BY <1>7, <1>9, SameSignatures
<1>15. ReceiptInv' BY <1>9, <1>14, SameReceipts
<1> QED BY <1>13, <1>14, <1>15

LEMMA DiscardKeeps == ReviewInv /\ revision < MaxVersion /\ Discard => ReviewInv'
<1> SUFFICES ASSUME ReviewInv, revision < MaxVersion, Discard PROVE ReviewInv' OBVIOUS
<1> USE DEF ReviewInv
<1>1. p \in Document BY DEF DocumentType
<1>2. PICK at \in Clock : p.status = "awaiting_review" /\ Commit(Discarded(at), at) BY DEF Discard
<1>3. at \in Nat BY <1>1, ClockAt
<1>4. PICK q : q = Discarded(at) OBVIOUS
<1>5. /\ q \in Document /\ q.status = "canceled" /\ q.gate = p.gate
      /\ q.reviews = p.reviews /\ q.corrections = p.corrections /\ q.rounds = p.rounds
  BY <1>1, <1>3, <1>4, DiscardedAt
<1>6. p' = q /\ Commit(q, at) /\ UNCHANGED execution BY <1>2, <1>4 DEF Commit, Discard
<1>7. DocumentType' /\ LoadedInv' /\ FinalInv'
  <2>1. execution' \in Receipts BY <1>6 DEF DocumentType, Receipts
  <2>2. p.status \notin Finals /\ q.status \notin Finals BY <1>2, <1>5 DEF Finals
  <2>3. q.gate = None BY <1>5, <2>2 DEF DocumentType
  <2> QED BY <1>3, <1>5, <1>6, <2>1, <2>2, <2>3, CommitKeeps DEF Receipts
<1>8. SignedInv' /\ OwnedInv' /\ RoundTimesInv' /\ \A k : Occurrences(k)' = Occurrences(k)
  BY <1>5, <1>6, SameSignatures
<1>9. ReceiptInv' BY <1>6, <1>8, SameReceipts
<1> QED BY <1>7, <1>8, <1>9

\* Where a command may be recorded.
LEMMA OccurrenceAt ==
  ASSUME NEW k
  PROVE  /\ \A x \in Occurrences(k) :
              \/ \E i \in Places(p.corrections, k) : x = <<0, i>>
              \/ \E n \in DOMAIN p.rounds : \E i \in Places(p.rounds[n].corrections, k) : x = <<n, i>>
         /\ \A i \in Places(p.corrections, k) : <<0, i>> \in Occurrences(k)
         /\ \A n \in DOMAIN p.rounds : \A i \in Places(p.rounds[n].corrections, k) :
              <<n, i>> \in Occurrences(k)
BY DEF Occurrences

\* A reopening moves the corrections of the round, and records nothing else.
LEMMA ReopeningMoves ==
  ASSUME p \in Document, p' \in Document, NEW e \in ArchivedRound, e.corrections = p.corrections,
         p'.corrections = <<>>, p'.rounds = Append(p.rounds, e), NEW k
  PROVE  /\ Occurrences(k) = {} => Occurrences(k)' = {}
         /\ \A x : Occurrences(k) = {x} => \E y : Occurrences(k)' = {y}
<1>1. PICK n : n = Len(p.rounds) OBVIOUS
<1>2. /\ p.rounds \in Seq(ArchivedRound) /\ n \in Nat /\ DOMAIN p.rounds = 1 .. n
      /\ p'.rounds \in Seq(ArchivedRound) /\ DOMAIN p'.rounds = 1 .. Len(p'.rounds)
  BY <1>1, DocumentAt DEF Document
<1>3. /\ Len(p'.rounds) = n + 1 /\ p'.rounds[n + 1] = e
      /\ \A i \in 1 .. n : p'.rounds[i] = p.rounds[i]
  BY <1>1, <1>2, FrontOfAppend
<1>4. DOMAIN p'.rounds = (1 .. n) \cup {n + 1} /\ n + 1 \notin 1 .. n /\ n + 1 # 0 BY <1>2, <1>3
<1>5. Places(p'.corrections, k) = {} BY DEF Places
<1>6. ASSUME NEW x \in Occurrences(k)'
      PROVE  \/ \E i \in Places(p.corrections, k) : x = <<n + 1, i>>
             \/ \E m \in 1 .. n : \E i \in Places(p.rounds[m].corrections, k) : x = <<m, i>>
  BY <1>3, <1>4, <1>5, <1>6 DEF Occurrences
<1>7. /\ \A i \in Places(p.corrections, k) : <<n + 1, i>> \in Occurrences(k)'
      /\ \A m \in 1 .. n : \A i \in Places(p.rounds[m].corrections, k) : <<m, i>> \in Occurrences(k)'
  BY <1>3, <1>4 DEF Occurrences
<1>8. ASSUME Occurrences(k) = {} PROVE Occurrences(k)' = {}
  BY <1>2, <1>6, <1>8, OccurrenceAt
<1>9. ASSUME NEW x, Occurrences(k) = {x} PROVE \E y : Occurrences(k)' = {y}
  <2>1. /\ \A i \in Places(p.corrections, k) : <<0, i>> = x
        /\ \A m \in 1 .. n : \A i \in Places(p.rounds[m].corrections, k) : <<m, i>> = x
    BY <1>2, <1>9, OccurrenceAt
  <2>2. CASE \E i \in Places(p.corrections, k) : x = <<0, i>>
    <3>1. PICK i \in Places(p.corrections, k) : x = <<0, i>> BY <2>2
    <3>2. \A j \in Places(p.corrections, k) : j = i BY <2>1, <3>1
    <3>3. \A m \in 1 .. n : Places(p.rounds[m].corrections, k) = {}
      <4>1. \A m \in 1 .. n : m # 0 OBVIOUS
      <4> QED BY <2>1, <3>1, <4>1
    <3>4. Occurrences(k)' = {<<n + 1, i>>} BY <1>6, <1>7, <3>1, <3>2, <3>3
    <3> QED BY <3>4
  <2>3. CASE \E m \in 1 .. n : \E i \in Places(p.rounds[m].corrections, k) : x = <<m, i>>
    <3>1. PICK m \in 1 .. n : \E i \in Places(p.rounds[m].corrections, k) : x = <<m, i>> BY <2>3
    <3>2. PICK i \in Places(p.rounds[m].corrections, k) : x = <<m, i>> BY <3>1
    <3>3. m # 0 OBVIOUS
    <3>4. Places(p.corrections, k) = {} BY <2>1, <3>2, <3>3
    <3>5. x \in Occurrences(k)' BY <1>7, <3>2
    <3>6. \A y \in Occurrences(k)' : y = x BY <1>6, <2>1, <3>4
    <3>7. Occurrences(k)' = {x} BY <3>5, <3>6
    <3> QED BY <3>7
  <2>4. x \in Occurrences(k) BY <1>9
  <2>5. \/ \E i \in Places(p.corrections, k) : x = <<0, i>>
        \/ \E m \in DOMAIN p.rounds : \E i \in Places(p.rounds[m].corrections, k) : x = <<m, i>>
    BY <2>4, OccurrenceAt
  <2> QED BY <1>2, <2>2, <2>3, <2>5
<1> QED BY <1>8, <1>9

LEMMA ReopenKeeps == ReviewInv /\ revision < MaxVersion /\ Reopen => ReviewInv'
<1> SUFFICES ASSUME ReviewInv, revision < MaxVersion, Reopen PROVE ReviewInv' OBVIOUS
<1> USE DEF ReviewInv
<1>1. p \in Document /\ revision \in Nat BY DEF DocumentType, ClosedAt
<1>2. PICK at \in Clock : ReopenPlanned(at) /\ Commit(Reopened(at), at) BY DEF Reopen
<1>3. at \in Nat BY <1>1, ClockAt
<1>4. p.status = "rejected" /\ at >= p.gate.at /\ VerifiedFinal(p, revision)
  BY <1>2 DEF ReopenPlanned, CanReopen
<1>5. p.gate # None BY <1>4 DEF DocumentType, Finals
<1>6. PICK q : q = Reopened(at) OBVIOUS
<1>7. PICK e : e = Opening(at) OBVIOUS
<1>8. /\ q \in Document /\ q.status = "awaiting_review" /\ q.gate = None
      /\ q.reviews = Retained(e) /\ q.corrections = <<>> /\ q.rounds = Append(p.rounds, e)
  BY <1>1, <1>3, <1>5, <1>6, <1>7, ReopenedAt
<1>9. /\ e \in ArchivedRound /\ e.reviews = Current(p) /\ e.corrections = p.corrections
      /\ e.at = at
  BY <1>1, <1>3, <1>5, <1>7, OpeningAt
<1>10. p' = q /\ Commit(q, at) /\ UNCHANGED execution BY <1>2, <1>6 DEF Commit, Reopen
<1>11. DocumentType' /\ LoadedInv' /\ FinalInv'
  <2>1. execution' \in Receipts BY <1>10 DEF DocumentType, Receipts
  <2>2. q.status \notin Finals BY <1>8 DEF Finals
  <2> QED BY <1>3, <1>8, <1>10, <2>1, <2>2, CommitKeeps DEF Receipts
<1>12. PICK s \in Document :
         /\ s.reviews = p.reviews /\ s.corrections = p.corrections /\ s.rounds = p.rounds
         /\ Loads(s, p.gate.source, p.gate.at) /\ Current(s) = Current(p) /\ p.gate \in GateRecord
  <2>1. PICK d, v : d = p /\ v = revision OBVIOUS
  <2>2. d \in Document /\ VerifiedFinal(d, v) BY <1>1, <1>4, <2>1
  <2> QED BY <2>1, <2>2, SourceAt
<1>13. q.reviews \subseteq Current(p) BY <1>8, <1>9 DEF Retained
<1>14. SignedInv'
  <2>1. Current(p) = {} \/ Signable(Current(p)) BY <1>12 DEF Loads, Calculable
  <2>2. q.reviews = {} \/ Signable(q.reviews)
    <3>1. PICK rs, qs : rs = Current(p) /\ qs = q.reviews OBVIOUS
    <3>2. qs = {} \/ Signable(qs) BY <1>13, <2>1, <3>1, SignableSubset
    <3> QED BY <3>1, <3>2
  <2> QED BY <1>10, <2>2 DEF SignedInv
<1>15. OwnedInv'
  <2>1. DOMAIN q.corrections = {} BY <1>8
  <2> QED BY <1>10, <2>1 DEF OwnedInv
<1>16. PICK n : n = Len(p.rounds) OBVIOUS
<1>17. /\ p.rounds \in Seq(ArchivedRound) /\ n \in Nat /\ DOMAIN p.rounds = 1 .. n
       /\ \A i \in 1 .. n : p.rounds[i] \in ArchivedRound
       /\ q.rounds \in Seq(ArchivedRound) /\ DOMAIN q.rounds = 1 .. Len(q.rounds)
  BY <1>1, <1>8, <1>16, DocumentAt
<1>18. /\ Len(q.rounds) = n + 1 /\ q.rounds[n + 1] = e /\ \A i \in 1 .. n : q.rounds[i] = p.rounds[i]
       /\ DOMAIN q.rounds = (1 .. n) \cup {n + 1}
  <2>1. Len(q.rounds) = n + 1 /\ q.rounds[n + 1] = e /\ \A i \in 1 .. n : q.rounds[i] = p.rounds[i]
    BY <1>8, <1>9, <1>16, <1>17, FrontOfAppend
  <2> QED BY <1>17, <2>1
<1>19. ASSUME NEW i \in 1 .. n PROVE p.rounds[i].at <= at
  <2>1. p.rounds # <<>> BY <1>17, <1>19, EmptySeq
  <2>2. PICK u, t : u = p.gate.source /\ t = p.gate.at OBVIOUS
  <2>3. p.rounds[i].at <= p.gate.at BY <1>12, <1>17, <2>1, <2>2, RoundsLoaded
  <2>4. p.rounds[i].at \in Nat /\ p.gate.at \in Nat BY <1>12, <1>17 DEF ArchivedRound, GateRecord
  <2> QED BY <1>3, <1>4, <2>3, <2>4
<1>20. RoundTimesInv'
  <2>1. ASSUME NEW i \in DOMAIN q.rounds, NEW j \in DOMAIN q.rounds, i <= j
        PROVE  q.rounds[i].at <= q.rounds[j].at
    <3>1. CASE j \in 1 .. n
      <4>1. i \in 1 .. n BY <1>17, <1>18, <2>1, <3>1
      <4> QED BY <1>17, <1>18, <2>1, <3>1, <4>1 DEF RoundTimesInv
    <3>2. CASE j = n + 1 /\ i \in 1 .. n BY <1>9, <1>18, <1>19, <3>2
    <3>3. CASE j = n + 1 /\ i = n + 1 BY <1>3, <1>9, <1>18, <3>3
    <3> QED BY <1>18, <2>1, <3>1, <3>2, <3>3
  <2>2. ASSUME NEW i \in DOMAIN q.rounds, NEW r \in q.reviews, r.candidate \in q.rounds[i].candidates
        PROVE  r.at >= q.rounds[i].at
    <3>1. i # n + 1 BY <1>8, <1>18, <2>2 DEF Retained
    <3>2. i \in 1 .. n /\ q.rounds[i] = p.rounds[i] BY <1>18, <2>2, <3>1
    <3> QED BY <1>1, <1>13, <1>17, <2>2, <3>2, StandingIsYounger
  <2> QED BY <1>10, <2>1, <2>2 DEF RoundTimesInv
<1>21. ReceiptInv'
  <2>1. \A k : /\ Occurrences(k) = {} => Occurrences(k)' = {}
               /\ \A x : Occurrences(k) = {x} => \E y : Occurrences(k)' = {y}
    BY <1>1, <1>8, <1>9, <1>10, ReopeningMoves
  <2> QED BY <1>10, <2>1 DEF ReceiptInv
<1> QED BY <1>11, <1>14, <1>15, <1>20, <1>21

\* A step of a command alone.
LEMMA CommandMoves ==
  ASSUME ReviewInv, UNCHANGED <<revision, p, frozen>>, execution' \in Receipts
  PROVE  /\ DocumentType' /\ SignedInv' /\ OwnedInv' /\ LoadedInv' /\ FinalInv' /\ RoundTimesInv'
         /\ \A k : Occurrences(k)' = Occurrences(k)
<1> USE DEF ReviewInv
<1>1. DocumentType' BY DEF DocumentType, Receipts
<1>2. SignedInv' BY DEF SignedInv
<1>3. OwnedInv' BY DEF OwnedInv
<1>4. RoundTimesInv' BY DEF RoundTimesInv
<1>5. LoadedInv'
  <2>1. \A q, v, at : Loads(q, v, at)' <=> Loads(q, v, at) BY ReadingFrozen
  <2> QED BY <2>1 DEF LoadedInv
<1>6. FinalInv'
  <2>1. \A q, v : VerifiedFinal(q, v)' <=> VerifiedFinal(q, v) BY ReadingFrozen
  <2> QED BY <2>1 DEF FinalInv
<1>7. \A k : Occurrences(k)' = Occurrences(k) BY DEF Occurrences
<1> QED BY <1>1, <1>2, <1>3, <1>4, <1>5, <1>6, <1>7

LEMMA PlanKeeps == ReviewInv /\ (\E k \in Commands : PlanCorrection(k)) => ReviewInv'
<1> SUFFICES ASSUME ReviewInv, NEW k \in Commands, PlanCorrection(k) PROVE ReviewInv' OBVIOUS
<1>1. p \in Document /\ revision \in Nat /\ execution \in Receipts
  BY DEF ReviewInv, DocumentType, ClosedAt, Receipts
<1>2. PICK at \in Clock, previous \in Current(p), d \in {"approve", "reject"} :
        /\ execution[k] = None
        /\ execution' = [execution EXCEPT ![k] = [state |-> "prepared",
                                                  entry |-> Entry(k, previous, d, at)]]
  BY DEF PlanCorrection
<1>3. at \in Nat BY <1>1, ClockAt
<1>4. PICK entry : entry = Entry(k, previous, d, at) OBVIOUS
<1>5. entry \in CorrectionEntry /\ entry.id = k BY <1>1, <1>3, <1>4, EntryAt
<1>6. execution' \in Receipts BY <1>1, <1>2, <1>4, <1>5 DEF Receipts
<1>7. UNCHANGED <<revision, p, frozen>> BY DEF PlanCorrection
<1>8. /\ DocumentType' /\ SignedInv' /\ OwnedInv' /\ LoadedInv' /\ FinalInv' /\ RoundTimesInv'
      /\ \A j : Occurrences(j)' = Occurrences(j)
  BY <1>6, <1>7, CommandMoves
<1>9. /\ execution'[k].state = "prepared" /\ execution'[k].entry.id = k
      /\ \A j \in Commands : j # k => execution'[j] = execution[j]
  BY <1>1, <1>2, <1>4, <1>5 DEF Receipts
<1>10. execution[k].state = "none" BY <1>2 DEF None
<1>11. Occurrences(k) = {} BY <1>10 DEF ReviewInv, ReceiptInv
<1>12. ReceiptInv'
  <2>1. ASSUME NEW j \in Commands
        PROVE  /\ execution'[j].state = "prepared" => execution'[j].entry.id = j
               /\ IF execution'[j].state = "committed" THEN \E x : Occurrences(j)' = {x}
                  ELSE Occurrences(j)' = {}
    <3>1. CASE j = k BY <1>8, <1>9, <1>11, <3>1
    <3>2. CASE j # k BY <1>8, <1>9, <3>2 DEF ReviewInv, ReceiptInv
    <3> QED BY <3>1, <3>2
  <2> QED BY <2>1 DEF ReceiptInv
<1> QED BY <1>8, <1>12 DEF ReviewInv

LEMMA AbandonKeeps == ReviewInv /\ (\E k \in Commands : AbandonCorrection(k)) => ReviewInv'
<1> SUFFICES ASSUME ReviewInv, NEW k \in Commands, AbandonCorrection(k) PROVE ReviewInv' OBVIOUS
<1>1. execution \in Receipts BY DEF ReviewInv, DocumentType, Receipts
<1>2. /\ execution[k].state = "prepared" /\ UNCHANGED <<revision, p, frozen>>
      /\ execution' = [execution EXCEPT ![k].state = "aborted"]
  BY DEF AbandonCorrection
<1>3. execution[k] \in [state : {"prepared", "committed", "aborted"}, entry : CorrectionEntry]
  BY <1>1, <1>2 DEF Receipts, None
<1>4. /\ execution'[k].state = "aborted"
      /\ \A j \in Commands : j # k => execution'[j] = execution[j]
  BY <1>1, <1>2, <1>3 DEF Receipts
<1>5. execution' \in Receipts BY <1>1, <1>2, <1>3 DEF Receipts
<1>6. /\ DocumentType' /\ SignedInv' /\ OwnedInv' /\ LoadedInv' /\ FinalInv' /\ RoundTimesInv'
      /\ \A j : Occurrences(j)' = Occurrences(j)
  BY <1>2, <1>5, CommandMoves
<1>7. Occurrences(k) = {} BY <1>2 DEF ReviewInv, ReceiptInv
<1>8. ReceiptInv'
  <2>1. ASSUME NEW j \in Commands
        PROVE  /\ execution'[j].state = "prepared" => execution'[j].entry.id = j
               /\ IF execution'[j].state = "committed" THEN \E x : Occurrences(j)' = {x}
                  ELSE Occurrences(j)' = {}
    <3>1. CASE j = k BY <1>4, <1>6, <1>7, <3>1
    <3>2. CASE j # k BY <1>4, <1>6, <3>2 DEF ReviewInv, ReceiptInv
    <3> QED BY <3>1, <3>2
  <2> QED BY <2>1 DEF ReceiptInv
<1> QED BY <1>6, <1>8 DEF ReviewInv

\* A correction is by the signer of what it corrects.
LEMMA CorrectionOwned ==
  ASSUME p \in Document, OwnedInv, NEW entry \in CorrectionEntry, CorrectionPlanned(entry)
  PROVE  \E r \in p.reviews : SameKey(entry.review, r) /\ entry.review.reviewer = r.reviewer
<1>1. PICK cs, n : cs = p.corrections /\ n = Len(cs) OBVIOUS
<1>2. cs \in Seq(CorrectionEntry) /\ n \in Nat BY <1>1, DocumentAt
<1>3. /\ Append(cs, entry) \in Seq(CorrectionEntry) /\ Len(Append(cs, entry)) = n + 1
      /\ Append(cs, entry)[n + 1] = entry
  BY <1>1, <1>2, FrontOfAppend
<1>4. n + 1 \in DOMAIN Append(cs, entry) BY <1>2, <1>3
<1>5. Linked(p.reviews, Append(cs, entry), n + 1, revision + 1)
  BY <1>1, <1>4 DEF CorrectionPlanned, ValidCorrections
<1>6. SameKey(entry.review, entry.previous) /\ entry.review.reviewer = entry.previous.reviewer
  BY <1>3, <1>5 DEF Linked
<1>7. entry.previous \in Effective(p.reviews, SubSeq(p.corrections, 1, n))
  <2>1. SubSeq(cs, 1, n) = cs BY <1>1, <1>2, SubSeqFull
  <2> QED BY <1>1, <2>1 DEF CorrectionPlanned, Current
<1>8. PICK r \in p.reviews : SameKey(entry.previous, r) /\ entry.previous.reviewer = r.reviewer
  BY <1>1, <1>2, <1>7, OwnerAt
<1>9. SameKey(entry.review, r) /\ entry.review.reviewer = r.reviewer BY <1>6, <1>8 DEF SameKey
<1> QED BY <1>9

LEMMA ApplyKeeps == ReviewInv /\ revision < MaxVersion /\ (\E k \in Commands : ApplyCorrection(k)) => ReviewInv'
<1> SUFFICES ASSUME ReviewInv, revision < MaxVersion, NEW k \in Commands, ApplyCorrection(k)
             PROVE  ReviewInv'
  OBVIOUS
<1>1. p \in Document /\ revision \in Nat /\ execution \in Receipts
  BY DEF ReviewInv, DocumentType, ClosedAt, Receipts
<1>2. PICK entry : entry = execution[k].entry OBVIOUS
<1>3. /\ execution[k].state = "prepared" /\ CorrectionPlanned(entry)
      /\ Commit(Corrected(entry), entry.review.at)
      /\ execution' = [execution EXCEPT ![k].state = "committed"]
  BY <1>2 DEF ApplyCorrection
<1>4. execution[k] \in [state : {"prepared", "committed", "aborted"}, entry : CorrectionEntry]
  BY <1>1, <1>3 DEF Receipts, None
<1>5. entry \in CorrectionEntry /\ entry.id = k BY <1>2, <1>3, <1>4 DEF ReviewInv, ReceiptInv
<1>6. entry.review.at \in Nat BY <1>5 DEF CorrectionEntry, ReviewSignature
<1>7. PICK q : q = Corrected(entry) OBVIOUS
<1>8. /\ q \in Document /\ q.corrections = Append(p.corrections, entry)
      /\ q.status = p.status /\ q.reviews = p.reviews /\ q.rounds = p.rounds /\ q.gate = p.gate
  BY <1>1, <1>5, <1>7, CorrectedAt
<1>9. p' = q /\ Commit(q, entry.review.at) BY <1>3, <1>7 DEF Commit
<1>10. execution' \in Receipts BY <1>1, <1>3, <1>4 DEF Receipts
<1>11. DocumentType' /\ LoadedInv' /\ FinalInv'
  <2>1. p.status = "awaiting_review" BY <1>3 DEF CorrectionPlanned
  <2>2. q.status \notin Finals /\ q.gate = None BY <1>8, <2>1 DEF ReviewInv, DocumentType, Finals
  <2> QED BY <1>6, <1>8, <1>9, <1>10, <2>2, CommitKeeps DEF ReviewInv, Receipts
<1>12. SignedInv' BY <1>8, <1>9 DEF ReviewInv, SignedInv
<1>13. RoundTimesInv' BY <1>8, <1>9 DEF ReviewInv, RoundTimesInv
<1>14. PICK cs, n : cs = p.corrections /\ n = Len(cs) OBVIOUS
<1>15. /\ cs \in Seq(CorrectionEntry) /\ n \in Nat /\ DOMAIN cs = 1 .. n
       /\ q.corrections = Append(cs, entry) /\ q.corrections[n + 1] = entry
       /\ \A i \in 1 .. n : q.corrections[i] = cs[i]
       /\ DOMAIN q.corrections = (1 .. n) \cup {n + 1}
  <2>1. cs \in Seq(CorrectionEntry) /\ n \in Nat /\ DOMAIN cs = 1 .. n BY <1>1, <1>14, DocumentAt
  <2>2. /\ Append(cs, entry) \in Seq(CorrectionEntry) /\ Len(Append(cs, entry)) = n + 1
        /\ Append(cs, entry)[n + 1] = entry /\ \A i \in 1 .. n : Append(cs, entry)[i] = cs[i]
    BY <1>5, <1>14, <2>1, FrontOfAppend
  <2>3. DOMAIN Append(cs, entry) = (1 .. n) \cup {n + 1} BY <2>1, <2>2
  <2> QED BY <1>8, <1>14, <2>1, <2>2, <2>3
<1>16. OwnedInv'
  <2>1. \E r \in p.reviews : SameKey(entry.review, r) /\ entry.review.reviewer = r.reviewer
    BY <1>1, <1>3, <1>5, CorrectionOwned DEF ReviewInv
  <2>2. ASSUME NEW i \in DOMAIN q.corrections
        PROVE  \E r \in p.reviews :
                 SameKey(q.corrections[i].review, r) /\ q.corrections[i].review.reviewer = r.reviewer
    <3>1. CASE i = n + 1 BY <1>15, <2>1, <3>1
    <3>2. CASE i \in 1 .. n BY <1>14, <1>15, <3>2 DEF ReviewInv, OwnedInv
    <3> QED BY <1>15, <3>1, <3>2
  <2> QED BY <1>8, <1>9, <2>2 DEF OwnedInv
<1>17. Occurrences(k) = {} BY <1>3 DEF ReviewInv, ReceiptInv
<1>18. \A j : Places(q.corrections, j) = Places(cs, j) \cup (IF j = k THEN {n + 1} ELSE {})
  BY <1>5, <1>15 DEF Places
<1>19. \A j \in Commands : j # k => Occurrences(j)' = Occurrences(j)
  <2>1. ASSUME NEW j \in Commands, j # k PROVE Occurrences(j)' = Occurrences(j)
    <3>0. Places(q.corrections, j) = Places(cs, j) BY <1>18, <2>1
    <3>1. Places(p'.corrections, j) = Places(p.corrections, j) BY <1>9, <1>14, <3>0
    <3>2. p'.rounds = p.rounds BY <1>8, <1>9
    <3> QED BY <3>1, <3>2 DEF Occurrences
  <2> QED BY <2>1
<1>20. Occurrences(k)' = {<<0, n + 1>>}
  <2>1. Places(cs, k) = {} /\ \A m \in DOMAIN p.rounds : Places(p.rounds[m].corrections, k) = {}
    BY <1>14, <1>17, OccurrenceAt
  <2>2. Places(q.corrections, k) = {n + 1} BY <1>18, <2>1
  <2>3. p'.rounds = p.rounds /\ p'.corrections = q.corrections BY <1>8, <1>9
  <2>4. \A x : x \in Occurrences(k)' <=>
          \/ \E i \in Places(p'.corrections, k) : x = <<0, i>>
          \/ \E m \in DOMAIN p'.rounds : \E i \in Places(p'.rounds[m].corrections, k) : x = <<m, i>>
    BY DEF Occurrences
  <2>5. \A x : x \in Occurrences(k)' <=> x = <<0, n + 1>> BY <2>1, <2>2, <2>3, <2>4
  <2> QED BY <2>5
<1>21. /\ execution'[k].state = "committed"
       /\ \A j \in Commands : j # k => execution'[j] = execution[j]
  BY <1>1, <1>3, <1>4 DEF Receipts
<1>22. ReceiptInv'
  <2>1. ASSUME NEW j \in Commands
        PROVE  /\ execution'[j].state = "prepared" => execution'[j].entry.id = j
               /\ IF execution'[j].state = "committed" THEN \E x : Occurrences(j)' = {x}
                  ELSE Occurrences(j)' = {}
    <3>1. CASE j = k BY <1>20, <1>21, <3>1
    <3>2. CASE j # k BY <1>19, <1>21, <3>2 DEF ReviewInv, ReceiptInv
    <3> QED BY <3>1, <3>2
  <2> QED BY <2>1 DEF ReceiptInv
<1> QED BY <1>11, <1>12, <1>13, <1>16, <1>22 DEF ReviewInv

LEMMA ReviewInitInv == ReviewInit => ReviewInv
<1> SUFFICES ASSUME ReviewInit PROVE ReviewInv OBVIOUS
<1>1. /\ revision = 1
      /\ p = [status |-> "awaiting_review", reviews |-> {}, corrections |-> <<>>,
              rounds |-> <<>>, gate |-> None, transitions |-> <<>>]
      /\ execution = [k \in Commands |-> None] /\ frozen \in Evidence
  BY DEF ReviewInit, ClosedAt
<1>2. /\ p.status = "awaiting_review" /\ p.reviews = {} /\ p.corrections = <<>> /\ p.rounds = <<>>
      /\ p.gate = None /\ p.transitions = <<>>
  BY <1>1
<1>3. p \in Document
  <2>1. <<>> \in Seq(CorrectionEntry) /\ <<>> \in Seq(ArchivedRound) /\ <<>> \in Seq(DocumentTransition)
    OBVIOUS
  <2> QED BY <1>1, <2>1 DEF Document, DocumentStates
<1>4. DocumentType
  <2>1. revision \in ClosedAt .. MaxVersion BY <1>1, ReviewAssumption DEF ClosedAt
  <2>2. frozen \in [sound : BOOLEAN, rounding : BOOLEAN] BY <1>1, ReviewAssumption
  <2> QED BY <1>1, <1>2, <1>3, <2>1, <2>2 DEF DocumentType, Finals
<1>5. SignedInv /\ LoadedInv /\ FinalInv BY <1>2 DEF SignedInv, LoadedInv, FinalInv, Audited, Finals
<1>6. DOMAIN p.corrections = {} /\ DOMAIN p.rounds = {} BY <1>2
<1>7. OwnedInv /\ RoundTimesInv BY <1>6 DEF OwnedInv, RoundTimesInv
<1>8. ReceiptInv
  <2>1. \A k : Occurrences(k) = {} BY <1>6 DEF Occurrences, Places
  <2>2. \A k \in Commands : execution[k].state = "none" BY <1>1 DEF None
  <2> QED BY <2>1, <2>2 DEF ReceiptInv
<1> QED BY <1>4, <1>5, <1>7, <1>8 DEF ReviewInv

LEMMA ReviewNextInv == ReviewInv /\ [ReviewNext]_reviewVars => ReviewInv'
<1> SUFFICES ASSUME ReviewInv, [ReviewNext]_reviewVars PROVE ReviewInv' OBVIOUS
<1>1. CASE revision < MaxVersion /\ Review BY <1>1, ReviewKeeps
<1>2. CASE revision < MaxVersion /\ Finalize BY <1>2, FinalizeKeeps
<1>3. CASE revision < MaxVersion /\ Reopen BY <1>3, ReopenKeeps
<1>4. CASE revision < MaxVersion /\ Discard BY <1>4, DiscardKeeps
<1>5. CASE \E k \in Commands : PlanCorrection(k) BY <1>5, PlanKeeps
<1>6. CASE revision < MaxVersion /\ \E k \in Commands : ApplyCorrection(k) BY <1>6, ApplyKeeps
<1>7. CASE \E k \in Commands : AbandonCorrection(k) BY <1>7, AbandonKeeps
<1>8. CASE UNCHANGED reviewVars
  <2>1. UNCHANGED <<revision, p, frozen>> /\ UNCHANGED execution BY <1>8 DEF reviewVars
  <2>2. execution' \in Receipts BY <2>1 DEF ReviewInv, DocumentType, Receipts
  <2>3. /\ DocumentType' /\ SignedInv' /\ OwnedInv' /\ LoadedInv' /\ FinalInv' /\ RoundTimesInv'
        /\ \A k : Occurrences(k)' = Occurrences(k)
    BY <2>1, <2>2, CommandMoves
  <2>4. ReceiptInv' BY <2>1, <2>3, SameReceipts DEF ReviewInv
  <2> QED BY <2>3, <2>4 DEF ReviewInv
<1> QED BY <1>1, <1>2, <1>3, <1>4, <1>5, <1>6, <1>7, <1>8 DEF ReviewNext

\* The review document keeps its inductive invariant.
THEOREM ReviewInvHolds == ReviewSpec => []ReviewInv
BY ReviewInitInv, ReviewNextInv, PTL DEF ReviewSpec

-----------------------------------------------------------------------------
(* What the readers promise.                                                *)

LEMMA ApprovalAccountable == ReviewInv => ApprovedAccountably
<1> SUFFICES ASSUME ReviewInv, p.status = "approved", NEW c \in Candidates
             PROVE  \E a, b \in Current(p) :
                      /\ a.candidate = c /\ b.candidate = c
                      /\ a.role # b.role /\ a.reviewer # b.reviewer
                      /\ a.decision = "approve" /\ b.decision = "approve"
                      /\ \A o \in FailedClaims[c] : a.semantic = o /\ b.semantic = o
                      /\ \A i \in DOMAIN p.rounds :
                           c \in p.rounds[i].candidates =>
                             a.at >= p.rounds[i].at /\ b.at >= p.rounds[i].at
  BY DEF ApprovedAccountably
<1> USE DEF ReviewInv
<1>1. p \in Document BY DEF DocumentType
<1>2. VerifiedFinal(p, revision) /\ FullySigned(Current(p)) BY DEF FinalInv, Finals
<1>3. PICK rs : rs = Current(p) OBVIOUS
<1>4. rs \in SUBSET ReviewSignature
  <2>1. PICK cs, os : cs = p.corrections /\ os = p.reviews OBVIOUS
  <2>2. cs \in Seq(CorrectionEntry) /\ os \in SUBSET ReviewSignature BY <1>1, <2>1, DocumentAt
  <2>3. Effective(os, cs) \in SUBSET ReviewSignature BY <2>2, EffectiveTyped
  <2> QED BY <1>3, <2>1, <2>3 DEF Current
<1>5. rs = {} \/ Signable(rs)
  <2>1. PICK d, v : d = p /\ v = revision OBVIOUS
  <2>2. d \in Document /\ VerifiedFinal(d, v) BY <1>1, <1>2, <2>1
  <2>3. PICK s \in Document : Loads(s, d.gate.source, d.gate.at) /\ Current(s) = Current(d)
    BY <2>2, SourceAt
  <2> QED BY <1>3, <2>1, <2>3 DEF Loads, Calculable
<1>6. FinalStatus(rs) = "approved"
  <2>1. PICK source, at : source = p.gate.source /\ at = p.gate.at OBVIOUS
  <2>2. p.gate = JsonRoundTrip(FinalRecord(rs, source, at)) /\ p.status = p.gate.state
    BY <1>2, <1>3, <2>1 DEF VerifiedFinal
  <2>3. JsonRoundTrip(FinalRecord(rs, source, at)).state = FinalStatus(rs)
    BY DEF JsonRoundTrip, FinalRecord
  <2> QED BY <2>2, <2>3
<1>7. HardFailed(rs) = {} /\ Unanimous(rs) BY <1>6 DEF FinalStatus
<1>8. {r.role : r \in SignaturesOf(rs, c)} = Roles BY <1>2, <1>3 DEF FullySigned
<1>9. PICK a \in SignaturesOf(rs, c) : a.role = "assessment_semantics" BY <1>8 DEF Roles
<1>10. PICK b \in SignaturesOf(rs, c) : b.role = "safety_product" BY <1>8 DEF Roles
<1>11. a \in rs /\ b \in rs /\ a.candidate = c /\ b.candidate = c /\ a # b
  BY <1>9, <1>10 DEF SignaturesOf
<1>12. a.reviewer # b.reviewer /\ a.role # b.role BY <1>5, <1>9, <1>10, <1>11 DEF Signable
<1>13. a.decision = "approve" /\ b.decision = "approve" BY <1>7, <1>11 DEF Unanimous
<1>14. ASSUME NEW o \in FailedClaims[c] PROVE a.semantic = o /\ b.semantic = o
  <2>1. o \notin StandingClaims(rs, c) BY <1>7 DEF HardFailed
  <2>2. \A role \in Roles : \E r \in SignaturesOf(rs, c) : r.role = role /\ r.semantic = o
    BY <2>1 DEF StandingClaims
  <2>3. PICK x \in SignaturesOf(rs, c) : x.role = "assessment_semantics" /\ x.semantic = o
    BY <2>2 DEF Roles
  <2>4. PICK y \in SignaturesOf(rs, c) : y.role = "safety_product" /\ y.semantic = o
    BY <2>2 DEF Roles
  <2>5. x \in rs /\ y \in rs /\ x.candidate = c /\ y.candidate = c BY <2>3, <2>4 DEF SignaturesOf
  <2>6. x = a /\ y = b BY <1>5, <1>9, <1>10, <1>11, <2>3, <2>4, <2>5 DEF Signable
  <2> QED BY <2>3, <2>4, <2>6
<1>15. ASSUME NEW i \in DOMAIN p.rounds, c \in p.rounds[i].candidates
       PROVE  a.at >= p.rounds[i].at /\ b.at >= p.rounds[i].at
  BY <1>1, <1>3, <1>11, <1>15, StandingIsYounger
<1> QED BY <1>3, <1>11, <1>12, <1>13, <1>14, <1>15

\* Accountability of an approval, for any number of candidates, reviewers,
\* corrections and reopenings: every candidate of an approved Run carries the
\* standing approvals of two people in the two roles, both contesting every
\* failed judgment, and younger than every reopening that asked for the
\* candidate (evaluate_quality_gates, effective_candidate_assertions,
\* validate_reopened_reviews).
THEOREM ApprovalsAccountable == ReviewSpec => []ApprovedAccountably
BY ReviewInvHolds, ApprovalAccountable, PTL

LEMMA PlansReadBack == ReviewInv => PlansCommit
<1> SUFFICES ASSUME ReviewInv, revision < MaxVersion, NEW at \in Clock
             PROVE  /\ ReviewOpen(at) => \A values \in Batches(at) :
                         Admitted(values) => ReadView(Reviewed(values), revision + 1, at)
                    /\ \A k \in Commands, previous \in Current(p), d \in {"approve", "reject"} :
                         execution[k] = None /\ CorrectionPlanned(Entry(k, previous, d, at)) =>
                           ReadView(Corrected(Entry(k, previous, d, at)), revision + 1, at)
                    /\ FinalizePlanned(at) => ReadView(Finalized(at), revision + 1, at)
                    /\ p.rounds = <<>> /\ ~frozen.rounding /\ ReopenPlanned(at) =>
                         ReadView(Reopened(at), revision + 1, at)
  BY DEF PlansCommit
<1> USE DEF ReviewInv
<1>1. p \in Document /\ revision \in Nat BY DEF DocumentType, ClosedAt
<1>2. at \in Nat BY <1>1, ClockAt
<1>3. ASSUME ReviewOpen(at), NEW values \in Batches(at), Admitted(values)
      PROVE  ReadView(Reviewed(values), revision + 1, at)
  BY <1>3, BatchReadsBack
<1>4. ASSUME NEW k \in Commands, NEW previous \in Current(p), NEW d \in {"approve", "reject"},
             CorrectionPlanned(Entry(k, previous, d, at))
      PROVE  ReadView(Corrected(Entry(k, previous, d, at)), revision + 1, at)
  <2>1. PICK entry : entry = Entry(k, previous, d, at) OBVIOUS
  <2>2. entry \in CorrectionEntry /\ entry.review.at = at BY <1>1, <1>2, <2>1, EntryAt
  <2>3. ReadView(Corrected(entry), revision + 1, entry.review.at)
    BY <1>1, <1>4, <2>1, <2>2, CorrectionReadsBack
  <2> QED BY <2>1, <2>2, <2>3
<1>5. ASSUME FinalizePlanned(at) PROVE ReadView(Finalized(at), revision + 1, at)
  BY <1>1, <1>2, <1>5, FinalReadsBack
<1>6. ASSUME p.rounds = <<>>, ~frozen.rounding, ReopenPlanned(at)
      PROVE  ReadView(Reopened(at), revision + 1, at)
  <2>1. p.transitions # <<>> BY <1>6 DEF ReopenPlanned, CanReopen, FinalInv, Finals
  <2> QED BY <1>1, <1>2, <1>6, <2>1, ReopeningReadsBack
<1> QED BY <1>3, <1>4, <1>5, <1>6

\* What a planner accepts, its root commits: the readers that validate the
\* written document agree with the planners that wrote it, for signatures,
\* corrections, finalizations and an unrounded first reopening (read_view in
\* the roots of review_state.py, correction_state.py and
\* evaluation_governance_state.py).
THEOREM PlansAlwaysCommit == ReviewSpec => []PlansCommit
BY ReviewInvHolds, PlansReadBack, PTL

\* A correction is told apart by the key it corrects and by its rank in the
\* chain of that key, so that the chains bound the corrections of a round.
LEMMA CorrectionsBounded ==
  ASSUME NEW rs, NEW cs \in Seq(CorrectionEntry), NEW v, \A i \in DOMAIN cs : Linked(rs, cs, i, v)
  PROVE  Len(cs) <= CorrectionLimit * 2 * Cardinality(Candidates)
<1> DEFINE Before(i) == {j \in 1 .. i - 1 : SameKey(cs[j].review, cs[i].review)}
<1>0. PICK l \in Nat : l = CorrectionLimit BY ReviewAssumption
<1>1. PICK n, C : n = Len(cs) /\ l = CorrectionLimit /\ C = Candidates BY <1>0
<1>2. /\ n \in Nat /\ DOMAIN cs = 1 .. n
      /\ \A i \in 1 .. n : cs[i].review.candidate \in C /\ cs[i].review.role \in Roles
  <2>1. n \in Nat /\ DOMAIN cs = 1 .. n /\ \A i \in 1 .. n : cs[i] \in CorrectionEntry
    BY <1>1, LenProperties, ElementOfSeq
  <2> QED BY <1>1, <2>1 DEF CorrectionEntry, ReviewSignature
<1>3. ASSUME NEW i \in 1 .. n PROVE IsFiniteSet(Before(i)) /\ Cardinality(Before(i)) \in Nat
  <2>1. i - 1 \in Int /\ 1 \in Int OBVIOUS
  <2>2. IsFiniteSet(1 .. i - 1) BY <2>1, FS_Interval
  <2>3. Before(i) \in SUBSET (1 .. i - 1) OBVIOUS
  <2>4. IsFiniteSet(Before(i)) BY <2>2, <2>3, FS_Subset
  <2> QED BY <2>4, FS_CardinalityType
<1>4. ASSUME NEW i \in 1 .. n PROVE Cardinality(Before(i)) < l
  <2>1. i - 1 \in 0 .. Len(cs) BY <1>1, <1>2
  <2>2. PICK b : b = SubSeq(cs, 1, i - 1) OBVIOUS
  <2>3. DOMAIN b = 1 .. i - 1 /\ \A j \in 1 .. i - 1 : b[j] = cs[j] BY <2>1, <2>2, PrefixAt
  <2>4. Chain(b, cs[i].review) = Before(i) BY <2>3 DEF Chain
  <2>5. Cardinality(Chain(b, cs[i].review)) < CorrectionLimit BY <1>2, <2>2 DEF Linked
  <2> QED BY <1>1, <2>4, <2>5
<1>5. PICK P : P = (C \X Roles) \X (1 .. l) OBVIOUS
<1>6. PICK f : f = [i \in 1 .. n |->
        <<<<cs[i].review.candidate, cs[i].review.role>>, Cardinality(Before(i)) + 1>>]
  OBVIOUS
<1>7. f \in [1 .. n -> P]
  <2>1. ASSUME NEW i \in 1 .. n PROVE Cardinality(Before(i)) + 1 \in 1 .. l
    <3>1. PICK m : m = Cardinality(Before(i)) OBVIOUS
    <3>2. m \in Nat /\ m < l BY <1>3, <1>4, <3>1
    <3>3. m + 1 \in 1 .. l BY <3>2
    <3> QED BY <3>1, <3>3
  <2>2. \A i \in 1 .. n : <<cs[i].review.candidate, cs[i].review.role>> \in C \X Roles BY <1>2
  <2> HIDE DEF Before
  <2> QED BY <1>5, <1>6, <2>1, <2>2
<1>8. ASSUME NEW i \in 1 .. n, NEW j \in 1 .. n, i < j, f[i] = f[j] PROVE FALSE
  <2>1. SameKey(cs[i].review, cs[j].review) /\ Cardinality(Before(i)) + 1 = Cardinality(Before(j)) + 1
    <3> HIDE DEF Before
    <3> QED BY <1>6, <1>8 DEF SameKey
  <2>2. i \in Before(j) /\ i \notin Before(i) BY <1>8, <2>1
  <2>3. Before(i) \subseteq Before(j) BY <1>8, <2>1 DEF SameKey
  <2>4. PICK A, B : A = Before(i) /\ B = Before(j) OBVIOUS
  <2>5. IsFiniteSet(B) /\ Cardinality(A) \in Nat /\ Cardinality(B) \in Nat BY <1>3, <2>4
  <2>6. A \in SUBSET B /\ A # B BY <2>2, <2>3, <2>4
  <2>7. Cardinality(A) # Cardinality(B) BY <2>5, <2>6, FS_Subset
  <2> QED BY <2>1, <2>4, <2>5, <2>7
<1>9. ASSUME NEW i \in 1 .. n, NEW j \in 1 .. n, f[i] = f[j] PROVE i = j
  <2>1. ~(i < j) /\ ~(j < i) BY <1>8, <1>9
  <2> QED BY <2>1
<1>10. f \in Injection(1 .. n, P) BY <1>7, <1>9 DEF Injection, IsInjective
<1>11. /\ IsFiniteSet(1 .. n) /\ Cardinality(1 .. n) = n
       /\ IsFiniteSet(1 .. l) /\ Cardinality(1 .. l) = l
  <2>1. PICK one \in Int : one = 1 OBVIOUS
  <2>2. /\ IsFiniteSet(one .. l) /\ Cardinality(one .. l) = IF one > l THEN 0 ELSE l - one + 1
    BY FS_Interval
  <2>3. /\ IsFiniteSet(one .. n) /\ Cardinality(one .. n) = IF one > n THEN 0 ELSE n - one + 1
    BY <1>2, FS_Interval
  <2>4. (IF one > l THEN 0 ELSE l - one + 1) = l BY <2>1
  <2>5. (IF one > n THEN 0 ELSE n - one + 1) = n BY <1>2, <2>1
  <2> QED BY <2>1, <2>2, <2>3, <2>4, <2>5
<1>12. IsFiniteSet(C) /\ Cardinality(C) \in Nat BY <1>1, ReviewAssumption, FS_CardinalityType
<1>13. IsFiniteSet(Roles) /\ Cardinality(Roles) = 2
  <2>1. PICK a, b : a = "assessment_semantics" /\ b = "safety_product" OBVIOUS
  <2>2. IsFiniteSet({a}) /\ Cardinality({a}) = 1 /\ b \notin {a} BY <2>1, FS_Singleton
  <2>3. IsFiniteSet({a} \cup {b}) /\ Cardinality({a} \cup {b}) = Cardinality({a}) + 1
    BY <2>2, FS_AddElement
  <2>4. Roles = {a} \cup {b} BY <2>1 DEF Roles
  <2>5. PICK m : m = Cardinality({a}) OBVIOUS
  <2>6. Cardinality(Roles) = m + 1 /\ m = 1 BY <2>2, <2>3, <2>4, <2>5
  <2>7. m + 1 = 2 BY <2>6
  <2> QED BY <2>3, <2>4, <2>6, <2>7
<1>14. IsFiniteSet(C \X Roles) /\ Cardinality(C \X Roles) = Cardinality(C) * 2
  BY <1>12, <1>13, FS_Product
<1>15. IsFiniteSet(P) /\ Cardinality(P) = Cardinality(C \X Roles) * l
  BY <1>5, <1>11, <1>14, FS_Product
<1>16. Cardinality(1 .. n) <= Cardinality(P) BY <1>10, <1>15, FS_Injection
<1>17. PICK c \in Nat : c = Cardinality(C) BY <1>12
<1>18. (c * 2) * l = l * 2 * c OBVIOUS
<1> QED BY <1>1, <1>11, <1>14, <1>15, <1>16, <1>17, <1>18

LEMMA DocumentIsSound == ReviewInv => DocumentSound
<1> SUFFICES ASSUME ReviewInv PROVE DocumentOK /\ WitnessedOnce BY DEF DocumentSound
<1> USE DEF ReviewInv
<1>1. p \in Document BY DEF DocumentType
<1>2. /\ p.reviews \in SUBSET ReviewSignature /\ p.status \in DocumentStates
      /\ p.corrections \in Seq(CorrectionEntry) /\ p.rounds \in Seq(ArchivedRound)
  BY <1>1, DocumentAt
<1>3. Len(p.rounds) <= RoundLimit
  <2>1. CASE p.rounds = <<>> BY <2>1, ReviewAssumption
  <2>2. CASE p.rounds # <<>> BY <2>2 DEF LoadedInv, Audited, Loads, ValidRounds
  <2> QED BY <2>1, <2>2
<1>4. Len(p.corrections) <= CorrectionLimit * 2 * Cardinality(Candidates)
  <2>1. CASE p.corrections = <<>>
    <3>1. \A i \in DOMAIN p.corrections : FALSE BY <2>1
    <3>2. PICK cs : cs = p.corrections OBVIOUS
    <3>3. cs \in Seq(CorrectionEntry) /\ \A i \in DOMAIN cs : Linked({}, cs, i, 0) BY <1>2, <3>1, <3>2
    <3> QED BY <3>2, <3>3, CorrectionsBounded
  <2>2. CASE p.corrections # <<>>
    <3>1. PICK q \in Document, u \in Nat, at \in Nat : q.corrections = p.corrections /\ Loads(q, u, at)
      BY <2>2 DEF LoadedInv, Audited
    <3>2. \A i \in DOMAIN q.corrections : Linked(q.reviews, q.corrections, i, u)
      BY <3>1 DEF Loads, ValidCorrections
    <3>3. q.corrections \in Seq(CorrectionEntry) BY <1>2, <3>1
    <3> QED BY <3>1, <3>2, <3>3, CorrectionsBounded
  <2> QED BY <2>1, <2>2
<1>5. DocumentOK
  <2>1. /\ p.status \in {"awaiting_review", "approved", "rejected", "canceled"}
        /\ p.gate # None <=> p.status \in {"approved", "rejected"}
        /\ revision \in ClosedAt .. MaxVersion
    BY <1>2 DEF DocumentStates, Finals, DocumentType
  <2>2. \A r \in p.reviews : r.role \in Roles /\ r.candidate \in Candidates
    BY <1>2 DEF ReviewSignature
  <2>3. \A k \in Commands : execution[k].state \in {"none", "prepared", "committed", "aborted"}
    BY DEF DocumentType, None
  <2> QED BY <1>3, <1>4, <2>1, <2>2, <2>3 DEF DocumentOK
<1>6. WitnessedOnce
  <2>1. ASSUME NEW k \in Commands
        PROVE  Cardinality(Occurrences(k)) = IF execution[k].state = "committed" THEN 1 ELSE 0
    <3>1. CASE execution[k].state = "committed"
      <4>1. PICK x : Occurrences(k) = {x} BY <3>1 DEF ReceiptInv
      <4> QED BY <3>1, <4>1, FS_Singleton
    <3>2. CASE execution[k].state # "committed"
      <4>1. Occurrences(k) = {} BY <3>2 DEF ReceiptInv
      <4> QED BY <3>2, <4>1, FS_EmptySet
    <3> QED BY <3>1, <3>2
  <2> QED BY <2>1 DEF WitnessedOnce
<1> QED BY <1>5, <1>6

\* The document is well formed and bounded: rounds and corrections stay within
\* their limits, a gate record is there exactly when the status is final, and
\* an execution is committed exactly when the document holds its correction,
\* once (effective_reviews, correction_replayed, apply_correction_state).
THEOREM DocumentAlwaysSound == ReviewSpec => []DocumentSound
BY ReviewInvHolds, DocumentIsSound, PTL

-----------------------------------------------------------------------------
(* Nothing that was signed is lost.                                         *)

Correcting(corrections) == {corrections[i].review : i \in DOMAIN corrections}

LEMMA SignatureAt ==
  ASSUME NEW q, NEW r
  PROVE  r \in Signatures(q) <=>
           \/ r \in q.reviews \/ r \in Correcting(q.corrections)
           \/ \E i \in DOMAIN q.rounds :
                r \in q.rounds[i].reviews \cup q.rounds[i].originals \cup Correcting(q.rounds[i].corrections)
BY DEF Signatures, Correcting

\* A document that only grows keeps its signatures.
LEMMA GrowingKeeps ==
  ASSUME NEW q, NEW s, q.reviews \subseteq s.reviews,
         Correcting(q.corrections) \subseteq Correcting(s.corrections), q.rounds = s.rounds
  PROVE  Signatures(q) \subseteq Signatures(s)
BY SignatureAt

LEMMA ReopeningArchives ==
  ASSUME NEW q \in Document, NEW s, NEW e \in ArchivedRound,
         e.reviews = Current(q), e.corrections = q.corrections,
         e.originals = IF q.corrections = <<>> THEN {} ELSE q.reviews,
         s.rounds = Append(q.rounds, e)
  PROVE  Signatures(q) \subseteq Signatures(s)
<1>1. PICK n, R : R = q.rounds /\ n = Len(R) OBVIOUS
<1>2. R \in Seq(ArchivedRound) /\ n \in Nat /\ DOMAIN R = 1 .. n BY <1>1, DocumentAt
<1>3. /\ Append(R, e) \in Seq(ArchivedRound) /\ Len(Append(R, e)) = n + 1
      /\ Append(R, e)[n + 1] = e /\ \A i \in 1 .. n : Append(R, e)[i] = R[i]
  BY <1>1, <1>2, FrontOfAppend
<1>4. DOMAIN s.rounds = (1 .. n) \cup {n + 1} BY <1>1, <1>2, <1>3
<1>5. s.rounds[n + 1] = e /\ \A i \in 1 .. n : s.rounds[i] = q.rounds[i] BY <1>1, <1>3
<1>6. q.reviews \subseteq e.reviews \cup e.originals
  <2>1. CASE q.corrections = <<>>
    <3>1. PICK rs : rs = q.reviews OBVIOUS
    <3>2. Effective(rs, <<>>) = rs BY NothingCorrected
    <3> QED BY <2>1, <3>1, <3>2 DEF Current
  <2>2. CASE q.corrections # <<>> BY <2>2
  <2> QED BY <2>1, <2>2
<1>7. ASSUME NEW r \in Signatures(q) PROVE r \in Signatures(s)
  <2>1. CASE r \in q.reviews \/ r \in Correcting(q.corrections)
    BY <1>4, <1>5, <1>6, <2>1, SignatureAt
  <2>2. CASE \E i \in DOMAIN q.rounds :
               r \in q.rounds[i].reviews \cup q.rounds[i].originals \cup Correcting(q.rounds[i].corrections)
    BY <1>1, <1>2, <1>4, <1>5, <2>2, SignatureAt
  <2> QED BY <1>7, <2>1, <2>2, SignatureAt
<1> QED BY <1>7

LEMMA StepKeepsSignatures ==
  ReviewInv /\ [ReviewNext]_reviewVars => [Signatures(p) \subseteq Signatures(p')]_reviewVars
<1> SUFFICES ASSUME ReviewInv, ReviewNext PROVE Signatures(p) \subseteq Signatures(p') OBVIOUS
<1>1. p \in Document /\ revision \in Nat /\ execution \in Receipts
  BY DEF ReviewInv, DocumentType, ClosedAt, Receipts
<1>0. PICK b : b = p OBVIOUS
<1>2. CASE Review
  <2>1. PICK at \in Clock : \E values \in Batches(at) : Commit(Reviewed(values), at)
    BY <1>2 DEF Review
  <2>2. PICK values \in Batches(at) : Commit(Reviewed(values), at) BY <2>1
  <2>3. at \in Nat BY <1>1, ClockAt
  <2>4. values \in SUBSET ReviewSignature BY <2>3, BatchAt
  <2>5. PICK q : q = Reviewed(values) OBVIOUS
  <2>6. q.reviews = p.reviews \cup values /\ q.corrections = p.corrections /\ q.rounds = p.rounds
    BY <1>1, <2>4, <2>5, ReviewedAt
  <2>7. p' = q BY <2>2, <2>5 DEF Commit
  <2>8. Signatures(b) \subseteq Signatures(q) BY <1>0, <2>6, GrowingKeeps
  <2> QED BY <1>0, <2>7, <2>8
<1>3. CASE Finalize
  <2>1. PICK at \in Clock : Commit(Finalized(at), at) BY <1>3 DEF Finalize
  <2>2. at \in Nat BY <1>1, ClockAt
  <2>3. PICK q : q = Finalized(at) OBVIOUS
  <2>4. q.reviews = p.reviews /\ q.corrections = p.corrections /\ q.rounds = p.rounds
    BY <1>1, <2>2, <2>3, FinalizedAt
  <2>5. p' = q BY <2>1, <2>3 DEF Commit
  <2>6. Signatures(b) \subseteq Signatures(q) BY <1>0, <2>4, GrowingKeeps
  <2> QED BY <1>0, <2>5, <2>6
<1>4. CASE Reopen
  <2>1. PICK at \in Clock : ReopenPlanned(at) /\ Commit(Reopened(at), at) BY <1>4 DEF Reopen
  <2>2. at \in Nat BY <1>1, ClockAt
  <2>3. p.gate # None
    BY <2>1 DEF ReopenPlanned, CanReopen, ReviewInv, DocumentType, Finals
  <2>4. PICK q, e : q = Reopened(at) /\ e = Opening(at) OBVIOUS
  <2>5. q.rounds = Append(p.rounds, e) BY <1>1, <2>2, <2>3, <2>4, ReopenedAt
  <2>6. /\ e \in ArchivedRound /\ e.reviews = Current(p) /\ e.corrections = p.corrections
        /\ e.originals = IF p.corrections = <<>> THEN {} ELSE p.reviews
    BY <1>1, <2>2, <2>3, <2>4, OpeningAt
  <2>7. p' = q BY <2>1, <2>4 DEF Commit
  <2>8. Signatures(b) \subseteq Signatures(q) BY <1>0, <1>1, <2>5, <2>6, ReopeningArchives
  <2> QED BY <1>0, <2>7, <2>8
<1>5. CASE Discard
  <2>1. PICK at \in Clock : Commit(Discarded(at), at) BY <1>5 DEF Discard
  <2>2. at \in Nat BY <1>1, ClockAt
  <2>3. PICK q : q = Discarded(at) OBVIOUS
  <2>4. q.reviews = p.reviews /\ q.corrections = p.corrections /\ q.rounds = p.rounds
    BY <1>1, <2>2, <2>3, DiscardedAt
  <2>5. p' = q BY <2>1, <2>3 DEF Commit
  <2>6. Signatures(b) \subseteq Signatures(q) BY <1>0, <2>4, GrowingKeeps
  <2> QED BY <1>0, <2>5, <2>6
<1>6. CASE \E k \in Commands : ApplyCorrection(k)
  <2>1. PICK k \in Commands : ApplyCorrection(k) BY <1>6
  <2>2. PICK entry : entry = execution[k].entry OBVIOUS
  <2>3. execution[k].state = "prepared" /\ Commit(Corrected(entry), entry.review.at)
    BY <2>1, <2>2 DEF ApplyCorrection
  <2>4. entry \in CorrectionEntry BY <1>1, <2>2, <2>3 DEF Receipts, None
  <2>5. PICK q : q = Corrected(entry) OBVIOUS
  <2>6. q.corrections = Append(p.corrections, entry) /\ q.reviews = p.reviews /\ q.rounds = p.rounds
    BY <1>1, <2>4, <2>5, CorrectedAt
  <2>7. p' = q BY <2>3, <2>5 DEF Commit
  <2>8. Correcting(p.corrections) \subseteq Correcting(q.corrections)
    <3>1. PICK cs, n : cs = p.corrections /\ n = Len(cs) OBVIOUS
    <3>2. cs \in Seq(CorrectionEntry) /\ n \in Nat /\ DOMAIN cs = 1 .. n BY <1>1, <3>1, DocumentAt
    <3>3. /\ Append(cs, entry) \in Seq(CorrectionEntry) /\ Len(Append(cs, entry)) = n + 1
          /\ \A i \in 1 .. n : Append(cs, entry)[i] = cs[i]
      BY <2>4, <3>1, <3>2, FrontOfAppend
    <3>4. \A i \in 1 .. n : i \in DOMAIN Append(cs, entry) BY <3>2, <3>3
    <3> QED BY <2>6, <3>1, <3>2, <3>3, <3>4 DEF Correcting
  <2>9. Signatures(b) \subseteq Signatures(q) BY <1>0, <2>6, <2>8, GrowingKeeps
  <2> QED BY <1>0, <2>7, <2>9
<1>7. CASE \E k \in Commands : PlanCorrection(k) \/ AbandonCorrection(k)
  <2>1. p' = p BY <1>7 DEF PlanCorrection, AbandonCorrection
  <2> QED BY <2>1
<1> QED BY <1>2, <1>3, <1>4, <1>5, <1>6, <1>7 DEF ReviewNext

\* No correction, reopening, finalization or discard removes or rewrites a
\* signature: what anyone signed, as given and as corrected, stays in the
\* document for good (review_correction.py, reopened_progress).
THEOREM SignaturesAreKept == ReviewSpec => SignaturesKept
BY ReviewInvHolds, StepKeepsSignatures, PTL DEF ReviewSpec, SignaturesKept
==============================================================================
