--------------------- MODULE CandidateEvaluationProofs ---------------------
(***************************************************************************)
(* Theorems about CandidateEvaluation, for any number of slots, any set of *)
(* workers, any limits and any number of faults: the provider is invoked   *)
(* once per dispatch and durable responses decide; a slot is called again  *)
(* only with authority and within its budget; the status of the Run tells  *)
(* the truth about its calls, and its history passes the closing audit;    *)
(* and what happens to the calls is what RunCalls allows.                  *)
(***************************************************************************)
EXTENDS CandidateEvaluation, FiniteSetTheorems, WellFoundedInduction, TLAPS

Busy == {"committed", "cleared", "waiting", "replied", "saved"}
WorkerSteps == {"idle", "planned"} \cup Busy
Settled == {"blocked", "awaiting_review", "canceled"}

-----------------------------------------------------------------------------
(* The inductive invariant: what the tables say by themselves ...           *)

DataType ==
  /\ progress \in [status : Statuses, preflight : {"pending", "passed", "failed"},
                    cancel : BOOLEAN, unresolved : Nat]
  /\ resolved \subseteq Executions
  /\ recovered \subseteq Executions
  /\ version \in Nat
  /\ ledger \in [Slots -> Seq(Kinds)]
  /\ claims \in [Slots -> Nat] /\ \A s \in Slots : claims[s] \in {0, Row(s)}
  /\ lease \in [Slots -> BOOLEAN]
  /\ receipt \in [Executions -> Records]
  /\ evidence \in [Executions -> Records]

\* The evidence of a call allows the next one of its slot.
Allows(s, n) ==
  LET e == <<s, n>> IN
  \/ evidence[e].outcome = "retryable"
  \/ evidence[e].outcome = "succeeded" /\ ledger[s][n] = "generation"
  \/ evidence[e].outcome = "unknown" /\ e \in resolved
  \/ evidence[e].outcome = "contract" /\ e \in recovered

\* A ledger row without evidence is claimed, a claimed row has none, and a
\* row that is not the last allowed the next.
RowInv(e) ==
  /\ evidence[e].outcome = "none" /\ e[2] <= Row(e[1]) => Owns(e)
  /\ Owns(e) \/ e[2] > Row(e[1]) => evidence[e].outcome = "none"

RowsInv == \A e \in Executions : RowInv(e)

Authorized(s) ==
  /\ \A n \in 1 .. Row(s) - 1 : Allows(s, n)
  /\ \A k \in Kinds : Used(s, k) <= Limit[k]

AuthorizedInv == \A s \in Slots : Authorized(s)

\* Decisions were made about what they say they were made about.
DecisionsInv ==
  /\ \A e \in resolved : evidence[e].outcome = "unknown"
  /\ \A e \in recovered : evidence[e].outcome = "contract"

\* A Run that is settled or not yet through its preflight owns no claim.
StatusInv ==
  progress.status \in Settled \/ progress.preflight # "passed" =>
    \A s \in Slots : claims[s] = 0

ReviewInv ==
  progress.status = "awaiting_review" =>
    /\ \A s \in Slots : SlotAction(s, evidence, recovered) = "done"
    /\ progress.unresolved = 0 /\ ~progress.cancel

DataInv ==
  /\ DataType /\ RowsInv /\ AuthorizedInv /\ DecisionsInv /\ StatusInv
  /\ UnknownsCounted /\ ReviewInv /\ ResponseDecides

-----------------------------------------------------------------------------
(* ... and what the workers and the scanner hold.                           *)

WorldType ==
  /\ clock \in Nat
  /\ pc \in [Workers -> WorkerSteps]
  /\ calls \in [Executions -> Nat]
  /\ faults \in 0 .. MaxFaults

\* A plan of the present version is still what the planner would plan.
PlanStands(s) ==
  /\ Collecting /\ claims[s] = 0
  /\ SlotAction(s, evidence, recovered) \in Kinds
  /\ Used(s, SlotAction(s, evidence, recovered)) < Limit[SlotAction(s, evidence, recovered)]

WorkerInv(w) ==
  /\ pc[w] = "planned" =>
       /\ held[w] \in Slots \X Nat /\ held[w][2] <= version
       /\ held[w][2] = version => PlanStands(held[w][1])
  /\ pc[w] \in Busy => held[w] \in Executions /\ held[w][2] <= Row(held[w][1])
  /\ pc[w] \in {"committed", "cleared"} => calls[held[w]] = 0
  /\ pc[w] = "replied" => reply[w].outcome \in Outcomes /\ reply[w].at \in Nat
  /\ pc[w] = "saved" => HasReceipt(held[w])

HeldOK == DOMAIN held = Workers /\ DOMAIN reply = Workers

\* No two workers have the same execution.
Alone ==
  \A v, w \in Workers : pc[v] \in Busy /\ pc[w] \in Busy /\ held[v] = held[w] => v = w

ScanInv == scan # NoWork => scan.exec \in Executions /\ scan.at \in Nat

CallInv(e) == calls[e] <= 1 /\ (e[2] > Row(e[1]) => calls[e] = 0)

WorldInv ==
  /\ WorldType /\ HeldOK /\ Alone /\ ScanInv
  /\ \A w \in Workers : WorkerInv(w)
  /\ \A e \in Executions : CallInv(e)

Inv == DataInv /\ WorldInv

-----------------------------------------------------------------------------
(* Lemmas about executions, counts and the planner.                         *)

LEMMA SlotsAt == Slots \subseteq Nat /\ IsFiniteSet(Slots)
  BY CandidateAssumption, FS_Interval DEF Slots

LEMMA ExecutionsFinite == IsFiniteSet(Executions)
<1>1. IsFiniteSet(1 .. GenerationLimit + SemanticLimit) BY CandidateAssumption, FS_Interval
<1> QED BY <1>1, SlotsAt, FS_Product DEF Executions

LEMMA ExecutionAt ==
  ASSUME NEW e \in Executions
  PROVE  /\ e[1] \in Slots /\ e[2] \in Nat /\ e[2] > 0 /\ e = <<e[1], e[2]>>
         /\ e[2] <= GenerationLimit + SemanticLimit
  BY CandidateAssumption DEF Executions

LEMMA ExecutionOf ==
  ASSUME NEW s \in Slots, NEW n \in Nat, n > 0, n <= GenerationLimit + SemanticLimit
  PROVE  <<s, n>> \in Executions
  BY CandidateAssumption DEF Executions

Count(q, k) == Cardinality({n \in 1 .. Len(q) : q[n] = k})

LEMMA CountNat ==
  ASSUME NEW q \in Seq(Kinds), NEW k
  PROVE  Count(q, k) \in Nat /\ IsFiniteSet({n \in 1 .. Len(q) : q[n] = k})
<1>1. IsFiniteSet(1 .. Len(q)) BY FS_Interval
<1>2. IsFiniteSet({n \in 1 .. Len(q) : q[n] = k}) BY <1>1, FS_Subset
<1> QED BY <1>2, FS_CardinalityType DEF Count

\* One more row of a kind counts one more of it.
LEMMA CountAppend ==
  ASSUME NEW q \in Seq(Kinds), NEW k \in Kinds, NEW j \in Kinds
  PROVE  Count(Append(q, k), j) = IF j = k THEN Count(q, j) + 1 ELSE Count(q, j)
<1>1. PICK old : old = {n \in 1 .. Len(q) : q[n] = j} OBVIOUS
<1>2. IsFiniteSet(old) /\ Cardinality(old) = Count(q, j) BY <1>1, CountNat DEF Count
<1>3. PICK new : new = {n \in 1 .. Len(Append(q, k)) : Append(q, k)[n] = j} OBVIOUS
<1>4. Count(Append(q, k), j) = Cardinality(new) BY <1>3 DEF Count
<1>5. CASE j = k
  <2>1. new = old \cup {Len(q) + 1} BY <1>1, <1>3, <1>5
  <2>2. Len(q) + 1 \notin old BY <1>1
  <2>3. Cardinality(new) = Cardinality(old) + 1 BY <1>2, <2>1, <2>2, FS_AddElement
  <2> QED BY <1>2, <1>4, <1>5, <2>3
<1>6. CASE j # k
  <2>1. new = old BY <1>1, <1>3, <1>6
  <2> QED BY <1>2, <1>4, <1>6, <2>1
<1> QED BY <1>5, <1>6

\* A ledger within its budgets is no longer than both together.
LEMMA LengthBound ==
  ASSUME NEW q \in Seq(Kinds), \A k \in Kinds : Count(q, k) <= Limit[k]
  PROVE  Len(q) <= GenerationLimit + SemanticLimit
<1>1. PICK g, m : /\ g = {n \in 1 .. Len(q) : q[n] = "generation"}
                  /\ m = {n \in 1 .. Len(q) : q[n] = "semantic"}
  OBVIOUS
<1>2. IsFiniteSet(g) /\ IsFiniteSet(m) BY <1>1, CountNat
<1>3. Cardinality(g) <= GenerationLimit /\ Cardinality(m) <= SemanticLimit
  BY <1>1 DEF Count, Kinds, Limit
<1>4. g \cup m = 1 .. Len(q) /\ g \cap m = {} BY <1>1 DEF Kinds
<1>5. PICK a \in Nat, b \in Nat : a = Cardinality(g) /\ b = Cardinality(m)
  BY <1>2, FS_CardinalityType
<1>6. PICK l \in Nat : l = Len(q) OBVIOUS
<1>7. Cardinality(1 .. l) = l
  <2>1. PICK one \in Int : one = 1 OBVIOUS
  <2>2. Cardinality(one .. l) = IF one > l THEN 0 ELSE l - one + 1 BY FS_Interval
  <2>3. (IF one > l THEN 0 ELSE l - one + 1) = l BY <2>1
  <2> QED BY <2>1, <2>2, <2>3
<1>8. Cardinality(g \cap m) = 0 BY <1>4, FS_EmptySet
<1>9. Cardinality(g \cup m) = Cardinality(g) + Cardinality(m) - Cardinality(g \cap m)
  BY <1>2, FS_Union
<1>10. g \cup m = 1 .. l BY <1>4, <1>6
<1>11. Cardinality(g \cup m) = l BY <1>7, <1>10
<1>12. l = a + b - 0 BY <1>5, <1>8, <1>9, <1>11
<1> QED BY <1>3, <1>5, <1>6, <1>12, CandidateAssumption

LEMMA UsedIsCount == ASSUME NEW s, NEW k PROVE Used(s, k) = Count(ledger[s], k)
  BY DEF Used, Count, Row

LEMMA RowAt ==
  ASSUME DataType, AuthorizedInv, NEW s \in Slots
  PROVE  Row(s) \in Nat /\ Row(s) <= GenerationLimit + SemanticLimit
<1>1. ledger[s] \in Seq(Kinds) BY DEF DataType
<1>2. \A k \in Kinds : Count(ledger[s], k) <= Limit[k] BY UsedIsCount DEF AuthorizedInv, Authorized
<1> QED BY <1>1, <1>2, LengthBound DEF Row

\* A slot the planner would call again has a last call that allows it.
LEMMA ReadyAllows ==
  ASSUME DataType, DecisionsInv, NEW s \in Slots, SlotAction(s, evidence, recovered) \in Kinds,
         Row(s) # 0
  PROVE  Allows(s, Row(s))
<1>1. PICK e : e = <<s, Row(s)>> OBVIOUS
<1>2. KindOf(e) = ledger[s][Row(s)] BY <1>1 DEF KindOf
<1>3. CASE evidence[e].outcome = "succeeded"
  <2>1. KindOf(e) = "generation" BY <1>1, <1>3 DEF SlotAction, Kinds
  <2> QED BY <1>1, <1>2, <1>3, <2>1 DEF Allows
<1>4. CASE evidence[e].outcome # "succeeded"
  <2>1. ~(evidence[e].outcome = "unknown" /\ e \notin resolved)
    BY <1>1, <1>4 DEF SlotAction, Kinds, UnknownCause
  <2>2. ledger[s] \in Seq(Kinds) /\ Row(s) \in 1 .. Len(ledger[s]) BY DEF DataType, Row
  <2>3. PICK k \in Kinds : k = KindOf(e) BY <1>2, <2>2
  <2>4. Exhausted[k] \notin Kinds /\ NotAllowed[k] \notin Kinds
    BY <2>3 DEF Exhausted, NotAllowed, Kinds
  <2>5. e \in recovered \cup resolved \/ evidence[e].outcome = "retryable"
    BY <1>1, <1>4, <2>1, <2>3, <2>4 DEF SlotAction
  <2> QED BY <1>1, <2>5 DEF Allows, DecisionsInv
<1> QED BY <1>3, <1>4

-----------------------------------------------------------------------------
(* Steps of the tables.                                                     *)

\* A step that leaves the document, the ledger, the claims and the evidence
\* alone.
LEMMA DataSame ==
  ASSUME DataInv, UNCHANGED audit, UNCHANGED <<ledger, claims, evidence>>,
         lease' \in [Slots -> BOOLEAN], receipt' \in [Executions -> Records], ResponseDecides'
  PROVE  DataInv'
<1>1. UNCHANGED <<progress, resolved, recovered, version>> BY DEF audit
<1>2. DataType' BY <1>1 DEF DataInv, DataType, Row
<1>3. RowsInv' BY DEF DataInv, RowsInv, RowInv, Row, Owns
<1>4. AuthorizedInv'
  BY <1>1 DEF DataInv, AuthorizedInv, Authorized, Allows, Used, Row
<1>5. DecisionsInv' /\ StatusInv' /\ UnknownsCounted'
  BY <1>1 DEF DataInv, DecisionsInv, StatusInv, UnknownsCounted, Unknowns
<1>6. ReviewInv' BY <1>1 DEF DataInv, ReviewInv, SlotAction, Row, KindOf, Used
<1> QED BY <1>2, <1>3, <1>4, <1>5, <1>6 DEF DataInv

\* A dispatch: one row more, claimed, on what its predecessor allows.
LEMMA DispatchData ==
  ASSUME DataInv, NEW s \in Slots, PlanStands(s),
         Claim(s, SlotAction(s, evidence, recovered)),
         version' = version + 1, UNCHANGED <<progress, resolved, recovered>>
  PROVE  /\ DataInv' /\ Row(s)' = Row(s) + 1 /\ <<s, Row(s) + 1>> \in Executions
         /\ \A t \in Slots : t # s => Row(t)' = Row(t)
<1>0. /\ DataType /\ RowsInv /\ AuthorizedInv /\ DecisionsInv /\ UnknownsCounted
      /\ ResponseDecides
  BY DEF DataInv
<1>1. PICK k \in Kinds : k = SlotAction(s, evidence, recovered) BY DEF PlanStands
<1>2. PICK q \in Seq(Kinds) : q = ledger[s] BY <1>0 DEF DataType
<1>3. PICK l \in Nat : l = Len(q) /\ Row(s) = l BY <1>2 DEF Row
<1>4. PICK new \in Seq(Kinds) : new = Append(q, k)
  <2>1. Append(q, k) \in Seq(Kinds) OBVIOUS
  <2> QED BY <2>1
<1>5. /\ Len(new) = l + 1 /\ \A n \in 1 .. l : new[n] = q[n] BY <1>3, <1>4
<1>6. /\ ledger' = [ledger EXCEPT ![s] = new] /\ claims' = [claims EXCEPT ![s] = l + 1]
      /\ lease' = [lease EXCEPT ![s] = TRUE] /\ UNCHANGED <<receipt, evidence>>
  BY <1>1, <1>2, <1>3, <1>4 DEF Claim
<1>7. /\ ledger' \in [Slots -> Seq(Kinds)] /\ ledger'[s] = new
      /\ \A t \in Slots : t # s => ledger'[t] = ledger[t]
      /\ claims' \in [Slots -> Nat] /\ claims'[s] = l + 1
      /\ \A t \in Slots : t # s => claims'[t] = claims[t]
      /\ lease' \in [Slots -> BOOLEAN]
  BY <1>0, <1>3, <1>6 DEF DataType
<1>8. Row(s)' = l + 1 /\ \A t \in Slots : t # s => Row(t)' = Row(t) BY <1>5, <1>7 DEF Row
<1>9. \A t \in Slots : Row(t) \in Nat BY <1>0, RowAt
<1>10. DataType'
  <2>1. \A t \in Slots : claims'[t] \in {0, Row(t)'} BY <1>0, <1>7, <1>8 DEF DataType
  <2>2. version' \in Nat BY <1>0 DEF DataType
  <2> QED BY <1>0, <1>6, <1>7, <2>1, <2>2 DEF DataType
<1>11. \A j \in Kinds : Count(q, j) <= Limit[j] BY <1>0, <1>2, UsedIsCount DEF AuthorizedInv, Authorized
<1>12. Count(q, k) < Limit[k] BY <1>1, <1>2, UsedIsCount DEF PlanStands
<1>13. ASSUME NEW j \in Kinds PROVE Count(new, j) <= Limit[j]
  <2>1. Count(q, j) \in Nat BY CountNat
  <2>2. Limit[j] \in Nat BY CandidateAssumption DEF Limit, Kinds
  <2>3. Count(new, j) = IF j = k THEN Count(q, j) + 1 ELSE Count(q, j) BY <1>4, CountAppend
  <2> QED BY <1>11, <1>12, <2>1, <2>2, <2>3
<1>14. l + 1 <= GenerationLimit + SemanticLimit BY <1>5, <1>13, LengthBound
<1>15. <<s, l + 1>> \in Executions BY <1>14, ExecutionOf
<1>16. claims[s] = 0 /\ progress.status = "collecting" /\ progress.preflight = "passed"
  BY DEF PlanStands, Collecting
<1>17. ASSUME NEW e \in Executions PROVE RowInv(e)'
  <2>1. e[1] \in Slots /\ e[2] \in Nat /\ e[2] > 0 BY ExecutionAt
  <2>2. RowInv(e) BY <1>0 DEF RowsInv
  <2>3. CASE e[1] # s
    BY <1>6, <1>7, <1>8, <2>1, <2>2, <2>3 DEF RowInv, Owns
  <2>4. CASE e[1] = s
    <3>1. ~Owns(e) BY <1>16, <2>1, <2>4 DEF Owns
    <3>2. Owns(e)' <=> e[2] = l + 1 BY <1>7, <2>1, <2>4 DEF Owns
    <3>3. e[2] <= l => evidence[e].outcome # "none" BY <1>3, <2>2, <2>4, <3>1 DEF RowInv
    <3>4. e[2] > l => evidence[e].outcome = "none" BY <1>3, <2>2, <2>4 DEF RowInv
    <3>5. Row(e[1])' = l + 1 BY <1>8, <2>4
    <3>6. e[2] <= l \/ e[2] = l + 1 \/ e[2] > l + 1 BY <2>1
    <3>7. e[2] > l + 1 => e[2] > l BY <2>1
    <3> QED BY <1>6, <2>1, <3>2, <3>3, <3>4, <3>5, <3>6, <3>7 DEF RowInv
  <2> QED BY <2>3, <2>4
<1>18. ASSUME NEW t \in Slots PROVE Authorized(t)'
  <2>1. Authorized(t) BY <1>0 DEF AuthorizedInv
  <2>2. CASE t # s
    <3>1. \A j \in Kinds : Used(t, j)' = Used(t, j) BY <1>7, <2>2 DEF Used, Row
    <3> QED BY <1>6, <1>7, <1>8, <2>1, <2>2, <3>1 DEF Authorized, Allows
  <2>3. CASE t = s
    <3>1. \A j \in Kinds : Used(s, j)' = Count(new, j) BY <1>7 DEF Used, Row, Count
    <3>2. ASSUME NEW n \in 1 .. l PROVE Allows(s, n)
      <4>1. CASE n < l BY <1>3, <2>1, <2>3, <4>1 DEF Authorized
      <4>2. CASE n = l BY <1>0, <1>3, <4>2, ReadyAllows DEF PlanStands
      <4> QED BY <4>1, <4>2
    <3>3. ASSUME NEW n \in 1 .. Row(s)' - 1 PROVE Allows(s, n)'
      <4>1. n \in 1 .. l BY <1>8
      <4>2. ledger'[s][n] = ledger[s][n] BY <1>2, <1>5, <1>7, <4>1
      <4> QED BY <1>6, <3>2, <4>1, <4>2 DEF Allows
    <3>4. \A j \in Kinds : Used(s, j)' <= Limit[j] BY <1>13, <3>1
    <3> QED BY <2>3, <3>3, <3>4 DEF Authorized
  <2> QED BY <2>2, <2>3
<1>19. DecisionsInv' /\ UnknownsCounted' BY <1>0, <1>6 DEF DecisionsInv, UnknownsCounted, Unknowns
<1>20. StatusInv' /\ ReviewInv' BY <1>16 DEF StatusInv, ReviewInv, Settled
<1>21. ResponseDecides' BY <1>0, <1>6 DEF ResponseDecides, Recorded, HasReceipt
<1> QED BY <1>3, <1>8, <1>10, <1>15, <1>17, <1>18, <1>19, <1>20, <1>21
    DEF DataInv, RowsInv, AuthorizedInv

\* The status a completion moves the Run to.
LEMMA TargetAt ==
  ASSUME NEW e, NEW ev, NEW u \in Nat, NEW target, target = CompletionTarget(e, ev, u)
  PROVE  /\ target.to \in {"stays", "blocked", "awaiting_review"}
         /\ target.to # "stays" => Active = {e[1]}
         /\ target.to = "awaiting_review" =>
              /\ u = 0 /\ ~progress.cancel
              /\ \A s \in Slots : SlotAction(s, ev, recovered) = "done"
<1>1. PICK all \in BOOLEAN : all <=> \A s \in Slots : SlotAction(s, ev, recovered) = "done"
  OBVIOUS
<1>2. PICK stuck \in BOOLEAN : stuck <=> Blocked(Slots, ev) # {} /\ Ready(Slots, ev) = {}
  OBVIOUS
<1>3. PICK cause : cause = SlotAction(Min(Blocked(Slots, ev)), ev, recovered) OBVIOUS
<1>4. target = IF Active # {e[1]} THEN [to |-> "stays", cause |-> "stays"]
               ELSE IF u > 0 THEN [to |-> "blocked", cause |-> UnknownCause]
               ELSE IF progress.cancel THEN [to |-> "stays", cause |-> "stays"]
               ELSE IF all THEN [to |-> "awaiting_review", cause |-> "candidate_evidence_complete"]
               ELSE IF stuck THEN [to |-> "blocked", cause |-> cause]
               ELSE [to |-> "stays", cause |-> "stays"]
  BY <1>1, <1>2, <1>3 DEF CompletionTarget
<1>5. CASE Active # {e[1]}
  <2>1. target.to = "stays" BY <1>4, <1>5
  <2> QED BY <2>1
<1>9. CASE Active = {e[1]} /\ ~(u > 0) /\ progress.cancel
  <2>1. target.to = "stays" BY <1>4, <1>9
  <2> QED BY <2>1
<1>10. CASE Active = {e[1]} /\ ~(u > 0) /\ ~progress.cancel /\ ~all /\ ~stuck
  <2>1. target.to = "stays" BY <1>4, <1>10
  <2> QED BY <2>1
<1>6. CASE Active = {e[1]} /\ u > 0
  <2>1. target.to = "blocked" BY <1>4, <1>6
  <2> QED BY <1>6, <2>1
<1>7. CASE Active = {e[1]} /\ ~(u > 0) /\ ~progress.cancel /\ all
  <2>1. target.to = "awaiting_review" BY <1>4, <1>7
  <2>2. u = 0 BY <1>7
  <2> QED BY <1>1, <1>7, <2>1, <2>2
<1>8. CASE Active = {e[1]} /\ ~(u > 0) /\ ~progress.cancel /\ ~all /\ stuck
  <2>1. target.to = "blocked" BY <1>4, <1>8
  <2> QED BY <1>8, <2>1
<1> QED BY <1>5, <1>6, <1>7, <1>8, <1>9, <1>10

\* Exactly the unknown results without a decision are counted.
LEMMA UnknownsFinite == IsFiniteSet(Unknowns \ resolved) /\ Cardinality(Unknowns \ resolved) \in Nat
<1>1. Unknowns \ resolved \subseteq Executions BY DEF Unknowns
<1> QED BY <1>1, ExecutionsFinite, FS_Subset, FS_CardinalityType

\* A completion of a claimed execution with its receipt, or as unknown
\* without one.
LEMMA CompleteData ==
  ASSUME DataInv, NEW e \in Executions, NEW r \in Records, r.outcome # "none", Complete(e, r),
         IF HasReceipt(e) THEN r = receipt[e] ELSE r.outcome = "unknown"
  PROVE  DataInv'
<1>0. /\ DataType /\ RowsInv /\ AuthorizedInv /\ DecisionsInv /\ StatusInv /\ UnknownsCounted
      /\ ResponseDecides
  BY DEF DataInv
<1>1. PICK s \in Slots, n \in Nat : e = <<s, n>> /\ e[1] = s /\ e[2] = n /\ n > 0 BY ExecutionAt
<1>2. Owns(e) /\ progress.status \in {"collecting", "blocked"} BY DEF Complete, Accepts
<1>3. claims[s] = n /\ Row(s) = n BY <1>0, <1>1, <1>2 DEF Owns, DataType
<1>4. evidence[e].outcome = "none" /\ RowInv(e) BY <1>0, <1>2 DEF RowsInv, RowInv
<1>5. e \notin resolved /\ e \notin recovered BY <1>0, <1>4 DEF DecisionsInv
<1>6. progress.status = "collecting" /\ progress.preflight = "passed"
  BY <1>0, <1>1, <1>2, <1>3 DEF StatusInv, Settled
<1>7. PICK u : u = CountUnknown(r) OBVIOUS
<1>8. u \in Nat BY <1>0, <1>7 DEF CountUnknown, DataType
<1>9. PICK ev : ev = With(e, r) OBVIOUS
<1>10. PICK target : target = CompletionTarget(e, ev, u) OBVIOUS
<1>11. /\ target.to \in {"stays", "blocked", "awaiting_review"}
       /\ target.to # "stays" => Active = {e[1]}
       /\ target.to = "awaiting_review" =>
            /\ u = 0 /\ ~progress.cancel
            /\ \A t \in Slots : SlotAction(t, ev, recovered) = "done"
  BY <1>8, <1>10, TargetAt, Zenon
<1>12. /\ evidence' = ev /\ claims' = [claims EXCEPT ![s] = 0] /\ lease' = [lease EXCEPT ![s] = FALSE]
       /\ version' = version + 1 /\ UNCHANGED <<resolved, recovered, ledger, receipt>>
  BY <1>1, <1>9 DEF Complete, Release
<1>13. progress' = [progress EXCEPT !.unresolved = u,
                      !.status = IF target.to \notin {"stays", progress.status} THEN target.to ELSE @]
  BY <1>7, <1>9, <1>10 DEF Complete
<1>14. /\ evidence' \in [Executions -> Records] /\ evidence'[e] = r
       /\ \A f \in Executions : f # e => evidence'[f] = evidence[f]
  BY <1>0, <1>9, <1>12 DEF With, DataType
<1>15. /\ claims' \in [Slots -> Nat] /\ claims'[s] = 0
       /\ \A t \in Slots : t # s => claims'[t] = claims[t]
       /\ lease' \in [Slots -> BOOLEAN]
  BY <1>0, <1>12 DEF DataType
<1>16. \A t \in Slots : Row(t)' = Row(t) /\ Row(t) \in Nat BY <1>0, <1>12, RowAt DEF Row
<1>17. /\ progress' \in [status : Statuses, preflight : {"pending", "passed", "failed"},
                         cancel : BOOLEAN, unresolved : Nat]
       /\ progress'.unresolved = u /\ progress'.cancel = progress.cancel
       /\ progress'.preflight = "passed"
       /\ progress'.status \in Settled => target.to # "stays"
       /\ progress'.status = "awaiting_review" => target.to = "awaiting_review"
  BY <1>0, <1>6, <1>8, <1>11, <1>13 DEF DataType, Statuses, Settled
<1>18. DataType'
  <2>1. \A t \in Slots : claims'[t] \in {0, Row(t)'} BY <1>0, <1>15, <1>16 DEF DataType
  <2>2. version' \in Nat BY <1>0, <1>12 DEF DataType
  <2> QED BY <1>0, <1>12, <1>14, <1>15, <1>17, <2>1, <2>2 DEF DataType
<1>19. ASSUME NEW f \in Executions PROVE RowInv(f)'
  <2>1. f[1] \in Slots /\ f[2] \in Nat /\ f[2] > 0 /\ f = <<f[1], f[2]>> BY ExecutionAt
  <2>2. RowInv(f) BY <1>0 DEF RowsInv
  <2>3. CASE f = e
    <3>1. ~Owns(e)' /\ ~(e[2] > Row(e[1])') BY <1>1, <1>3, <1>15, <1>16 DEF Owns
    <3> QED BY <1>14, <2>3, <3>1 DEF RowInv
  <2>4. CASE f # e /\ f[1] = s
    <3>1. f[2] # n BY <1>1, <2>1, <2>4
    <3>2. ~Owns(f)' /\ ~Owns(f) BY <1>3, <1>15, <2>1, <2>4, <3>1 DEF Owns
    <3> QED BY <1>14, <1>16, <2>1, <2>2, <2>4, <3>2 DEF RowInv
  <2>5. CASE f # e /\ f[1] # s
    <3>1. Owns(f)' <=> Owns(f) BY <1>15, <2>1, <2>5 DEF Owns
    <3> QED BY <1>14, <1>16, <2>1, <2>2, <2>5, <3>1 DEF RowInv
  <2> QED BY <2>3, <2>4, <2>5
<1>20. ASSUME NEW t \in Slots PROVE Authorized(t)'
  <2>1. Authorized(t) BY <1>0 DEF AuthorizedInv
  <2>2. \A j \in Kinds : Used(t, j)' = Used(t, j) BY <1>12 DEF Used, Row
  <2>3. ASSUME NEW i \in 1 .. Row(t)' - 1 PROVE Allows(t, i)'
    <3>1. i \in 1 .. Row(t) - 1 BY <1>16
    <3>2. Allows(t, i) BY <2>1, <3>1 DEF Authorized
    <3>3. <<t, i>> # e BY <1>1, <1>3, <1>16, <3>1
    <3>4. i <= GenerationLimit + SemanticLimit
      BY <1>0, <1>16, <3>1, RowAt, CandidateAssumption
    <3>5. <<t, i>> \in Executions BY <3>1, <3>4, ExecutionOf
    <3> QED BY <1>12, <1>14, <3>2, <3>3, <3>5 DEF Allows
  <2> QED BY <2>1, <2>2, <2>3 DEF Authorized
<1>21. DecisionsInv' BY <1>0, <1>5, <1>12, <1>14 DEF DecisionsInv, DataType
<1>22. StatusInv'
  <2>1. ASSUME target.to # "stays", NEW t \in Slots PROVE claims'[t] = 0
    BY <1>1, <1>11, <1>15, <2>1 DEF Active
  <2> QED BY <1>17, <2>1 DEF StatusInv
<1>23. UnknownsCounted'
  <2>1. PICK old : old = Unknowns \ resolved OBVIOUS
  <2>2. IsFiniteSet(old) /\ Cardinality(old) = progress.unresolved /\ e \notin old
    BY <1>0, <1>4, <2>1, UnknownsFinite DEF UnknownsCounted, Unknowns
  <2>3. CASE r.outcome = "unknown"
    <3>1. (Unknowns \ resolved)' = old \cup {e} BY <1>5, <1>12, <1>14, <2>1, <2>3 DEF Unknowns
    <3>2. Cardinality(old \cup {e}) = Cardinality(old) + 1 BY <2>2, FS_AddElement
    <3>3. u = progress.unresolved + 1 BY <1>7, <2>3 DEF CountUnknown
    <3> QED BY <1>17, <2>2, <3>1, <3>2, <3>3 DEF UnknownsCounted
  <2>4. CASE r.outcome # "unknown"
    <3>1. (Unknowns \ resolved)' = old BY <1>4, <1>12, <1>14, <2>1, <2>4 DEF Unknowns
    <3>2. u = progress.unresolved BY <1>0, <1>7, <2>4 DEF CountUnknown, DataType
    <3> QED BY <1>17, <2>2, <3>1, <3>2 DEF UnknownsCounted
  <2> QED BY <2>3, <2>4
<1>24. ReviewInv'
  <2>1. \A t \in Slots : SlotAction(t, evidence, recovered)' = SlotAction(t, ev, recovered)
    BY <1>12 DEF SlotAction, Row, KindOf, Used
  <2> QED BY <1>11, <1>17, <2>1 DEF ReviewInv
<1>25. ResponseDecides'
  <2>1. ASSUME NEW f \in Executions, evidence'[f].outcome # "none"
        PROVE  IF HasReceipt(f) THEN evidence'[f] = receipt[f] ELSE evidence'[f].outcome = "unknown"
    <3>1. CASE f = e BY <1>14, <3>1
    <3>2. CASE f # e BY <1>0, <1>14, <2>1, <3>2 DEF ResponseDecides, Recorded
    <3> QED BY <3>1, <3>2
  <2> QED BY <1>12, <2>1 DEF ResponseDecides, Recorded, HasReceipt
<1> QED BY <1>18, <1>19, <1>20, <1>21, <1>22, <1>23, <1>24, <1>25
    DEF DataInv, RowsInv, AuthorizedInv

\* A step of the document only: decisions are added, on evidence for them.
LEMMA AuditData ==
  ASSUME DataInv, UNCHANGED rows, version' = version + 1,
         progress' \in [status : Statuses, preflight : {"pending", "passed", "failed"},
                        cancel : BOOLEAN, unresolved : Nat],
         resolved \subseteq resolved', resolved' \subseteq Executions,
         recovered \subseteq recovered', recovered' \subseteq Executions,
         DecisionsInv', StatusInv', UnknownsCounted', progress'.status # "awaiting_review"
  PROVE  DataInv'
<1>1. UNCHANGED <<ledger, claims, lease, receipt, evidence>> BY DEF rows
<1>2. DataType' BY <1>1 DEF DataInv, DataType, Row
<1>3. RowsInv' BY <1>1 DEF DataInv, RowsInv, RowInv, Row, Owns
<1>4. ASSUME NEW s \in Slots PROVE Authorized(s)'
  <2>1. Authorized(s) BY DEF DataInv, AuthorizedInv
  <2>2. \A j \in Kinds : Used(s, j)' = Used(s, j) BY <1>1 DEF Used, Row
  <2>3. Row(s)' = Row(s) BY <1>1 DEF Row
  <2>4. \A n \in 1 .. Row(s) - 1 : Allows(s, n) => Allows(s, n)' BY <1>1 DEF Allows
  <2> QED BY <2>1, <2>2, <2>3, <2>4 DEF Authorized
<1>5. ReviewInv' BY DEF ReviewInv
<1>6. ResponseDecides' BY <1>1 DEF DataInv, ResponseDecides, Recorded, HasReceipt
<1> QED BY <1>2, <1>3, <1>4, <1>5, <1>6 DEF DataInv, AuthorizedInv

-----------------------------------------------------------------------------
(* Steps of the workers and of the scanner.                                 *)

Kept(w) == pc'[w] = pc[w] /\ held'[w] = held[w] /\ reply'[w] = reply[w]

\* Plans made before stand as they stood, or are of an earlier version now.
PlansSafe ==
  \/ version' = version /\ \A s \in Slots : PlanStands(s) => PlanStands(s)'
  \/ version' = version + 1

LEMMA PlanSame ==
  ASSUME UNCHANGED <<progress, resolved, recovered, ledger, claims, evidence>>, NEW s \in Slots
  PROVE  PlanStands(s)' <=> PlanStands(s)
<1>1. PICK a : a = SlotAction(s, evidence, recovered) OBVIOUS
<1>2. SlotAction(s, evidence, recovered)' = a BY <1>1 DEF SlotAction, Used, Row, KindOf
<1>3. Used(s, a)' = Used(s, a) BY DEF Used, Row
<1>4. Collecting' <=> Collecting BY DEF Collecting
<1>5. PlanStands(s) <=> Collecting /\ claims[s] = 0 /\ a \in Kinds /\ Used(s, a) < Limit[a]
  BY <1>1 DEF PlanStands
<1>6. PlanStands(s)' <=> Collecting' /\ claims'[s] = 0 /\ a \in Kinds /\ Used(s, a)' < Limit[a]
  <2>1. Used(s, SlotAction(s, evidence, recovered))' = Used(s, a)' BY <1>2 DEF Used
  <2> QED BY <1>2, <2>1 DEF PlanStands
<1> QED BY <1>3, <1>4, <1>5, <1>6

LEMMA WorkerKept ==
  ASSUME Inv, NEW w \in Workers, Kept(w), PlansSafe,
         \A s \in Slots : Row(s)' \in Nat /\ Row(s)' >= Row(s),
         \A e \in Executions : HasReceipt(e) => HasReceipt(e)',
         pc[w] \in {"committed", "cleared"} => calls'[held[w]] = calls[held[w]]
  PROVE  WorkerInv(w)'
<1>0. WorkerInv(w) /\ DataType /\ AuthorizedInv BY DEF Inv, WorldInv, DataInv
<1>1. pc'[w] = pc[w] /\ held'[w] = held[w] /\ reply'[w] = reply[w] BY DEF Kept
<1>2. CASE pc[w] = "planned"
  <2>1. PICK s \in Slots, n \in Nat : held[w] = <<s, n>> /\ held[w][1] = s /\ held[w][2] = n
    BY <1>0, <1>2 DEF WorkerInv
  <2>2. n <= version /\ (n = version => PlanStands(s)) /\ version \in Nat
    BY <1>0, <1>2, <2>1 DEF WorkerInv, DataType
  <2>3. n <= version' /\ (n = version' => PlanStands(s)') BY <2>2 DEF PlansSafe
  <2>4. /\ held'[w] \in Slots \X Nat /\ held'[w][1] = s /\ held'[w][2] = n BY <1>1, <2>1
  <2>5. PlanStands(held[w][1])' <=> PlanStands(s)' BY <2>4 DEF PlanStands
  <2> QED BY <1>1, <1>2, <2>3, <2>4, <2>5 DEF WorkerInv, Busy
<1>3. CASE pc[w] \in Busy
  <2>1. PICK e \in Executions : e = held[w] BY <1>0, <1>3 DEF WorkerInv
  <2>2. e[1] \in Slots /\ e[2] \in Nat BY ExecutionAt
  <2>3. e[2] <= Row(e[1]) BY <1>0, <1>3, <2>1 DEF WorkerInv
  <2>4. Row(e[1]) \in Nat BY <1>0, <2>2, RowAt
  <2>5. e[2] <= Row(e[1])' BY <2>2, <2>3, <2>4
  <2>6. Row(held[w][1])' = Row(e[1])' BY <1>1, <2>1 DEF Row
  <2>7. pc[w] = "saved" => HasReceipt(held[w])' BY <1>0, <1>1, <2>1 DEF WorkerInv, HasReceipt
  <2>8. pc[w] # "planned" BY <1>3 DEF Busy
  <2> QED BY <1>0, <1>1, <2>1, <2>5, <2>6, <2>7, <2>8 DEF WorkerInv
<1>4. CASE pc[w] \notin Busy /\ pc[w] # "planned" BY <1>1, <1>4 DEF WorkerInv, Busy
<1> QED BY <1>2, <1>3, <1>4

\* A worker that becomes idle holds nothing.
LEMMA IdleAt ==
  ASSUME WorldInv, NEW w \in Workers, Idle(w)
  PROVE  /\ pc' \in [Workers -> WorkerSteps] /\ HeldOK' /\ WorkerInv(w)' /\ pc'[w] = "idle"
         /\ \A v \in Workers : v # w => Kept(v)
         /\ Alone'
<1>0. pc \in [Workers -> WorkerSteps] /\ HeldOK /\ Alone BY DEF WorldInv, WorldType
<1>1. /\ pc' \in [Workers -> WorkerSteps] /\ HeldOK' /\ pc'[w] = "idle"
      /\ \A v \in Workers : v # w => Kept(v)
  BY <1>0 DEF Idle, HeldOK, Kept, WorkerSteps
<1>2. WorkerInv(w)' BY <1>1 DEF WorkerInv, Busy
<1>3. Alone' BY <1>0, <1>1 DEF Alone, Kept, Busy
<1> QED BY <1>1, <1>2, <1>3

\* Everything but one worker's step.
LEMMA WorldStep ==
  ASSUME Inv, WorldType', HeldOK', Alone', ScanInv', PlansSafe,
         \A w \in Workers : Kept(w) \/ WorkerInv(w)',
         \A s \in Slots : Row(s)' \in Nat /\ Row(s)' >= Row(s),
         \A e \in Executions : HasReceipt(e) => HasReceipt(e)',
         \A w \in Workers : Kept(w) /\ pc[w] \in {"committed", "cleared"} =>
            calls'[held[w]] = calls[held[w]],
         \A e \in Executions : CallInv(e)'
  PROVE  WorldInv'
<1>1. ASSUME NEW w \in Workers PROVE WorkerInv(w)'
  <2>1. CASE Kept(w) BY <2>1, WorkerKept
  <2>2. CASE WorkerInv(w)' BY <2>2
  <2> QED BY <2>1, <2>2
<1> QED BY <1>1 DEF WorldInv

\* A step of the document: no worker and no call moves, and the version does.
LEMMA BumpStep ==
  ASSUME Inv, DataInv', version' = version + 1, UNCHANGED <<ledger, receipt, calls, faults>>,
         clock' \in Nat, ScanInv', UNCHANGED local \/ \E w \in Workers : Idle(w)
  PROVE  Inv'
<1>0. WorldInv /\ DataType /\ AuthorizedInv BY DEF Inv, DataInv
<1>1. /\ pc' \in [Workers -> WorkerSteps] /\ HeldOK' /\ Alone'
      /\ \A w \in Workers : Kept(w) \/ WorkerInv(w)'
  <2>1. CASE UNCHANGED local
    BY <1>0, <2>1 DEF local, WorldInv, WorldType, HeldOK, Alone, Kept
  <2>2. CASE \E w \in Workers : Idle(w) BY <1>0, <2>2, IdleAt
  <2> QED BY <2>1, <2>2
<1>2. \A s \in Slots : Row(s)' = Row(s) /\ Row(s) \in Nat BY <1>0, RowAt DEF Row
<1>3. \A e \in Executions : CallInv(e)' BY <1>0, <1>2, ExecutionAt DEF WorldInv, CallInv
<1>4. WorldType' BY <1>0, <1>1 DEF WorldInv, WorldType
<1>5. PlansSafe BY DEF PlansSafe
<1>6. \A e \in Executions : HasReceipt(e) => HasReceipt(e)' BY DEF HasReceipt
<1>7. WorldInv' BY <1>1, <1>2, <1>3, <1>4, <1>5, <1>6, WorldStep
<1> QED BY <1>7 DEF Inv

\* A step that leaves the document and the rows alone.
LEMMA LocalStep ==
  ASSUME Inv, UNCHANGED <<audit, rows>>, clock' \in Nat, faults' \in 0 .. MaxFaults,
         calls' \in [Executions -> Nat], \A e \in Executions : CallInv(e)',
         pc' \in [Workers -> WorkerSteps], HeldOK', Alone', ScanInv',
         \A w \in Workers : Kept(w) \/ WorkerInv(w)',
         \A w \in Workers : Kept(w) /\ pc[w] \in {"committed", "cleared"} =>
            calls'[held[w]] = calls[held[w]]
  PROVE  Inv'
<1>0. DataInv /\ DataType /\ AuthorizedInv /\ ResponseDecides BY DEF Inv, DataInv
<1>1. UNCHANGED <<progress, resolved, recovered, transitions, version>> BY DEF audit
<1>2. UNCHANGED <<ledger, claims, lease, receipt, evidence>> BY DEF rows
<1>3. DataInv'
  <2>1. ResponseDecides' BY <1>0, <1>2 DEF ResponseDecides, Recorded, HasReceipt
  <2>2. lease' \in [Slots -> BOOLEAN] /\ receipt' \in [Executions -> Records] BY <1>0, <1>2 DEF DataType
  <2> QED BY <1>0, <1>2, <2>1, <2>2, DataSame
<1>4. \A s \in Slots : Row(s)' = Row(s) /\ Row(s) \in Nat BY <1>0, <1>2, RowAt DEF Row
<1>5. PlansSafe BY <1>1, <1>2, PlanSame DEF PlansSafe
<1>6. \A e \in Executions : HasReceipt(e) => HasReceipt(e)' BY <1>2 DEF HasReceipt
<1>7. WorldType' BY DEF WorldType
<1>8. WorldInv' BY <1>4, <1>5, <1>6, <1>7, WorldStep
<1> QED BY <1>3, <1>8 DEF Inv

-----------------------------------------------------------------------------
(* One lemma per group of actions.                                          *)

\* A step of worker w to a step with the same execution.
LEMMA MoveAt ==
  ASSUME WorldInv, NEW w \in Workers, NEW to \in WorkerSteps, pc' = [pc EXCEPT ![w] = to],
         UNCHANGED held, DOMAIN reply' = Workers, \A v \in Workers : v # w => reply'[v] = reply[v],
         pc[w] \in Busy
  PROVE  /\ pc' \in [Workers -> WorkerSteps] /\ pc'[w] = to /\ HeldOK' /\ Alone'
         /\ \A v \in Workers : v # w => Kept(v)
<1>0. pc \in [Workers -> WorkerSteps] /\ HeldOK /\ Alone BY DEF WorldInv, WorldType
<1>1. pc' \in [Workers -> WorkerSteps] /\ pc'[w] = to BY <1>0
<1>2. \A v \in Workers : v # w => Kept(v) BY <1>0 DEF Kept
<1>3. HeldOK' BY <1>0 DEF HeldOK
<1>4. Alone' BY <1>0, <1>2 DEF Alone, Kept
<1> QED BY <1>1, <1>2, <1>3, <1>4

LEMMA PlanStep ==
  ASSUME Inv, NEW w \in Workers, Plan(w)
  PROVE  Inv'
<1>0. WorldInv /\ DataInv /\ version \in Nat BY DEF Inv, DataInv, DataType
<1>1. PICK s \in Slots :
        /\ NextToRun(s) /\ WithinBudget(s, SlotAction(s, evidence, recovered))
        /\ held' = [held EXCEPT ![w] = DispatchPlan(s)]
  BY DEF Plan
<1>2. PlanStands(s) BY <1>1 DEF PlanStands, NextToRun, Ready, Active, WithinBudget
<1>3. /\ UNCHANGED <<audit, rows>> /\ UNCHANGED <<clock, reply, scan, calls, faults>>
      /\ pc' = [pc EXCEPT ![w] = "planned"]
  BY DEF Plan
<1>4. /\ pc' \in [Workers -> WorkerSteps] /\ pc'[w] = "planned" /\ HeldOK'
      /\ held'[w] = <<s, version>> /\ \A v \in Workers : v # w => Kept(v)
  BY <1>0, <1>1, <1>3 DEF WorldInv, WorldType, HeldOK, Kept, WorkerSteps, DispatchPlan
<1>5. Alone' BY <1>0, <1>4 DEF WorldInv, Alone, Kept, Busy
<1>6. UNCHANGED <<progress, resolved, recovered, version, ledger, claims, evidence>>
  BY <1>3 DEF audit, rows
<1>7. WorkerInv(w)'
  <2>1. PlanStands(s)' BY <1>2, <1>6, PlanSame
  <2>2. held'[w] \in Slots \X Nat /\ held'[w][1] = s /\ held'[w][2] = version'
    BY <1>0, <1>4, <1>6
  <2>3. PlanStands(held[w][1])' BY <2>1, <2>2 DEF PlanStands
  <2> QED BY <1>0, <1>4, <1>6, <2>2, <2>3 DEF WorkerInv, Busy
<1>8. /\ clock' \in Nat /\ faults' \in 0 .. MaxFaults /\ calls' \in [Executions -> Nat] /\ ScanInv'
  BY <1>0, <1>3 DEF WorldInv, WorldType, ScanInv
<1>9. \A e \in Executions : CallInv(e)' BY <1>0, <1>3, <1>6 DEF WorldInv, CallInv, Row
<1> QED BY <1>3, <1>4, <1>5, <1>7, <1>8, <1>9, LocalStep

LEMMA DispatchStep ==
  ASSUME Inv, NEW w \in Workers, Dispatch(w)
  PROVE  Inv' /\ ~progress.cancel
<1>0. WorldInv /\ DataInv /\ DataType /\ AuthorizedInv BY DEF Inv, DataInv
<1>1. pc[w] = "planned" /\ held[w][2] = version BY DEF Dispatch, SourceHolds
<1>2. PICK s \in Slots : s = held[w][1] BY <1>0, <1>1 DEF WorldInv, WorkerInv
<1>3. PlanStands(s) BY <1>0, <1>1, <1>2 DEF WorldInv, WorkerInv
<1>4. /\ Claim(s, SlotAction(s, evidence, recovered)) /\ version' = version + 1
      /\ pc' = [pc EXCEPT ![w] = "committed"] /\ held' = [held EXCEPT ![w] = <<s, Row(s) + 1>>]
      /\ UNCHANGED <<progress, resolved, recovered>> /\ UNCHANGED <<clock, reply, scan, calls, faults>>
  BY <1>2 DEF Dispatch
<1>5. /\ DataInv' /\ Row(s)' = Row(s) + 1 /\ <<s, Row(s) + 1>> \in Executions
      /\ \A t \in Slots : t # s => Row(t)' = Row(t)
  BY <1>0, <1>3, <1>4, DispatchData
<1>6. \A t \in Slots : Row(t) \in Nat BY <1>0, RowAt
<1>7. PICK e \in Executions : e = <<s, Row(s) + 1>> /\ e[1] = s /\ e[2] = Row(s) + 1 BY <1>5
<1>8. /\ pc' \in [Workers -> WorkerSteps] /\ pc'[w] = "committed" /\ HeldOK' /\ held'[w] = e
      /\ \A v \in Workers : v # w => Kept(v)
  BY <1>0, <1>4, <1>7 DEF WorldInv, WorldType, HeldOK, Kept, WorkerSteps, Busy
<1>9. \A v \in Workers : pc[v] \in Busy => held[v] # e
  BY <1>0, <1>6, <1>7 DEF WorldInv, WorkerInv
<1>10. Alone' BY <1>0, <1>8, <1>9 DEF WorldInv, Alone, Kept
<1>11. calls[e] = 0 BY <1>0, <1>6, <1>7 DEF WorldInv, CallInv
<1>12. WorkerInv(w)'
  <2>1. Row(held[w][1])' = Row(s) + 1 BY <1>5, <1>7, <1>8 DEF Row
  <2> QED BY <1>4, <1>6, <1>7, <1>8, <1>11, <2>1 DEF WorkerInv, Busy
<1>13. \A t \in Slots : Row(t)' \in Nat /\ Row(t)' >= Row(t) BY <1>5, <1>6
<1>14. ASSUME NEW f \in Executions PROVE CallInv(f)'
  <2>1. CallInv(f) /\ f[1] \in Slots /\ f[2] \in Nat BY <1>0, ExecutionAt DEF WorldInv
  <2>2. f[2] > Row(f[1])' => f[2] > Row(f[1]) BY <1>6, <1>13, <2>1
  <2> QED BY <1>4, <2>1, <2>2 DEF CallInv
<1>15. \A f \in Executions : HasReceipt(f) => HasReceipt(f)' BY <1>4 DEF Claim, HasReceipt
<1>16. WorldType' /\ ScanInv' BY <1>0, <1>4, <1>8 DEF WorldInv, WorldType, ScanInv
<1>17. PlansSafe BY <1>4 DEF PlansSafe
<1>18. WorldInv'
  BY <1>4, <1>8, <1>10, <1>12, <1>13, <1>14, <1>15, <1>16, <1>17, WorldStep
<1>19. ~progress.cancel BY <1>3 DEF PlanStands, Collecting
<1> QED BY <1>5, <1>18, <1>19 DEF Inv

\* The steps that end what a worker does.
LEMMA IdleStep ==
  ASSUME Inv, NEW w \in Workers, Idle(w), UNCHANGED <<audit, rows>>,
         UNCHANGED <<clock, scan, calls>>, faults' \in 0 .. MaxFaults
  PROVE  Inv'
<1>0. WorldInv BY DEF Inv
<1>1. /\ pc' \in [Workers -> WorkerSteps] /\ HeldOK' /\ WorkerInv(w)' /\ Alone'
      /\ \A v \in Workers : v # w => Kept(v)
  BY <1>0, IdleAt
<1>2. /\ clock' \in Nat /\ calls' \in [Executions -> Nat] /\ ScanInv'
  BY <1>0 DEF WorldInv, WorldType, ScanInv
<1>3. \A e \in Executions : CallInv(e)' BY <1>0 DEF WorldInv, CallInv, Row, rows
<1> QED BY <1>1, <1>2, <1>3, LocalStep

\* A worker that is busy with execution e.
LEMMA BusyAt ==
  ASSUME Inv, NEW w \in Workers, pc[w] \in Busy
  PROVE  /\ held[w] \in Executions /\ held[w][1] \in Slots /\ held[w][2] \in Nat
         /\ held[w][2] > 0 /\ held[w][2] <= Row(held[w][1])
<1>1. held[w] \in Executions /\ held[w][2] <= Row(held[w][1]) BY DEF Inv, WorldInv, WorkerInv
<1> QED BY <1>1, ExecutionAt

LEMMA HandoffStep ==
  ASSUME Inv, NEW w \in Workers, Handoff(w)
  PROVE  Inv'
<1>0. WorldInv BY DEF Inv
<1>1. /\ pc[w] = "committed" /\ UNCHANGED <<audit, rows>> /\ UNCHANGED <<clock, scan, calls, faults>>
  BY DEF Handoff
<1>2. /\ clock' \in Nat /\ calls' \in [Executions -> Nat] /\ ScanInv' /\ faults' \in 0 .. MaxFaults
  BY <1>0, <1>1 DEF WorldInv, WorldType, ScanInv
<1>3. CASE Idle(w) BY <1>1, <1>2, <1>3, IdleStep
<1>4. CASE pc' = [pc EXCEPT ![w] = "cleared"] /\ UNCHANGED <<held, reply>>
  <2>1. "cleared" \in WorkerSteps /\ pc[w] \in Busy BY <1>1 DEF WorkerSteps, Busy
  <2>2. DOMAIN reply' = Workers BY <1>0, <1>4 DEF WorldInv, HeldOK
  <2>3. /\ pc' \in [Workers -> WorkerSteps] /\ pc'[w] = "cleared" /\ HeldOK' /\ Alone'
        /\ \A v \in Workers : v # w => Kept(v)
    BY <1>0, <1>4, <2>1, <2>2, MoveAt
  <2>4. WorkerInv(w)'
    <3>1. WorkerInv(w) BY <1>0 DEF WorldInv
    <3>2. Row(held[w][1])' = Row(held[w][1]) BY <1>1, <1>4 DEF Row, rows
    <3> QED BY <1>1, <1>4, <2>3, <3>1, <3>2 DEF WorkerInv, Busy
  <2>5. \A e \in Executions : CallInv(e)' BY <1>0, <1>1 DEF WorldInv, CallInv, Row, rows
  <2> QED BY <1>1, <1>2, <2>3, <2>4, <2>5, LocalStep
<1> QED BY <1>3, <1>4 DEF Handoff

LEMMA InvokeStep ==
  ASSUME Inv, NEW w \in Workers, Invoke(w)
  PROVE  Inv'
<1>0. WorldInv /\ Alone BY DEF Inv, WorldInv
<1>1. /\ pc[w] = "cleared" /\ UNCHANGED <<audit, rows>> /\ UNCHANGED <<clock, scan, faults, held, reply>>
      /\ pc' = [pc EXCEPT ![w] = "waiting"] /\ calls' = [calls EXCEPT ![held[w]] = @ + 1]
  BY DEF Invoke
<1>2. "waiting" \in WorkerSteps /\ pc[w] \in Busy BY <1>1 DEF WorkerSteps, Busy
<1>3. PICK e \in Executions : e = held[w] BY <1>2, BusyAt
<1>4. e[1] \in Slots /\ e[2] \in Nat /\ e[2] <= Row(e[1]) BY <1>2, <1>3, BusyAt
<1>5. calls[e] = 0 BY <1>0, <1>1, <1>3 DEF WorldInv, WorkerInv
<1>6. /\ calls' \in [Executions -> Nat] /\ calls'[e] = 1
      /\ \A f \in Executions : f # e => calls'[f] = calls[f]
  BY <1>0, <1>1, <1>3, <1>5 DEF WorldInv, WorldType
<1>7. UNCHANGED ledger BY <1>1 DEF rows
<1>8. ASSUME NEW f \in Executions PROVE CallInv(f)'
  <2>1. CallInv(f) BY <1>0 DEF WorldInv
  <2>2. CASE f = e
    <3>1. Row(e[1]) \in Nat BY <1>4, RowAt DEF Inv, DataInv
    <3>2. ~(e[2] > Row(e[1])') BY <1>4, <1>7, <3>1 DEF Row
    <3> QED BY <1>6, <2>2, <3>2 DEF CallInv
  <2>3. CASE f # e BY <1>6, <1>7, <2>1, <2>3 DEF CallInv, Row
  <2> QED BY <2>2, <2>3
<1>9. DOMAIN reply' = Workers BY <1>0, <1>1 DEF WorldInv, HeldOK
<1>10. /\ pc' \in [Workers -> WorkerSteps] /\ pc'[w] = "waiting" /\ HeldOK' /\ Alone'
       /\ \A v \in Workers : v # w => Kept(v)
  BY <1>0, <1>1, <1>2, <1>9, MoveAt
<1>11. WorkerInv(w)'
  <2>1. Row(held[w][1])' = Row(e[1]) BY <1>1, <1>3, <1>7 DEF Row
  <2> QED BY <1>1, <1>3, <1>4, <1>10, <2>1 DEF WorkerInv, Busy
<1>12. ASSUME NEW v \in Workers, pc[v] \in {"committed", "cleared"}, Kept(v)
       PROVE  calls'[held[v]] = calls[held[v]]
  <2>1. v # w BY <1>1, <1>10, <1>12 DEF Kept
  <2>2. pc[v] \in Busy BY <1>12 DEF Busy
  <2>3. held[v] \in Executions BY <2>2, BusyAt
  <2>4. held[v] # e BY <1>0, <1>2, <1>3, <2>1, <2>2 DEF Alone
  <2> QED BY <1>6, <2>3, <2>4
<1>13. /\ clock' \in Nat /\ ScanInv' /\ faults' \in 0 .. MaxFaults
  BY <1>0, <1>1 DEF WorldInv, WorldType, ScanInv
<1> QED BY <1>1, <1>6, <1>8, <1>10, <1>11, <1>12, <1>13, LocalStep

LEMMA ReplyStep ==
  ASSUME Inv, NEW w \in Workers, NEW outcome \in Outcomes, Reply(w, outcome)
  PROVE  Inv'
<1>0. WorldInv /\ clock \in Nat BY DEF Inv, WorldInv, WorldType
<1>1. /\ pc[w] = "waiting" /\ UNCHANGED <<audit, rows>> /\ UNCHANGED <<scan, calls, faults, held>>
      /\ pc' = [pc EXCEPT ![w] = "replied"] /\ clock' = clock + 1
  BY DEF Reply
<1>2. PICK new : /\ new = [outcome |-> outcome, at |-> clock + 1,
                           timely |-> Owns(held[w]) /\ lease[held[w][1]]]
                 /\ reply' = [reply EXCEPT ![w] = new]
  BY DEF Reply
<1>3. /\ DOMAIN reply' = Workers /\ reply'[w] = new /\ \A v \in Workers : v # w => reply'[v] = reply[v]
  BY <1>0, <1>2 DEF WorldInv, HeldOK
<1>4. new.outcome \in Outcomes /\ new.at \in Nat BY <1>0, <1>2
<1>5. "replied" \in WorkerSteps /\ pc[w] \in Busy BY <1>1 DEF WorkerSteps, Busy
<1>6. /\ pc' \in [Workers -> WorkerSteps] /\ pc'[w] = "replied" /\ HeldOK' /\ Alone'
      /\ \A v \in Workers : v # w => Kept(v)
  BY <1>0, <1>1, <1>3, <1>5, MoveAt
<1>7. WorkerInv(w)'
  <2>1. Row(held[w][1])' = Row(held[w][1]) BY <1>1 DEF Row, rows
  <2>2. held[w] \in Executions /\ held[w][2] <= Row(held[w][1]) BY <1>5, BusyAt
  <2> QED BY <1>1, <1>3, <1>4, <1>6, <2>1, <2>2 DEF WorkerInv, Busy
<1>8. \A e \in Executions : CallInv(e)' BY <1>0, <1>1 DEF WorldInv, CallInv, Row, rows
<1>9. /\ clock' \in Nat /\ calls' \in [Executions -> Nat] /\ ScanInv' /\ faults' \in 0 .. MaxFaults
  BY <1>0, <1>1 DEF WorldInv, WorldType, ScanInv
<1> QED BY <1>1, <1>6, <1>7, <1>8, <1>9, LocalStep

\* A response is stored while its execution is claimed, so there is no
\* evidence it could contradict.
LEMMA SaveStep ==
  ASSUME Inv, NEW w \in Workers, Save(w)
  PROVE  Inv'
<1>0. /\ WorldInv /\ DataInv /\ DataType /\ RowsInv /\ AuthorizedInv /\ ResponseDecides
  BY DEF Inv, DataInv
<1>1. /\ pc[w] = "replied" /\ UNCHANGED audit
      /\ UNCHANGED <<ledger, claims, lease, evidence, clock, scan, calls, faults>>
  BY DEF Save
<1>2. pc[w] \in Busy BY <1>1 DEF Busy
<1>3. CASE Idle(w) /\ UNCHANGED receipt
  <2>1. faults' \in 0 .. MaxFaults BY <1>0, <1>1 DEF WorldInv, WorldType
  <2> QED BY <1>1, <1>3, <2>1, IdleStep DEF rows
<1>4. ASSUME MaySave(w), pc' = [pc EXCEPT ![w] = "saved"], UNCHANGED <<held, reply>>,
             receipt' = [receipt EXCEPT ![held[w]] =
                           [outcome |-> reply[w].outcome, at |-> reply[w].at]]
      PROVE  Inv'
  <2>1. PICK e \in Executions : e = held[w] BY <1>2, BusyAt
  <2>2. Owns(e) /\ evidence[e].outcome = "none" BY <1>0, <1>4, <2>1 DEF MaySave, RowsInv, RowInv
  <2>3. PICK new : new = [outcome |-> reply[w].outcome, at |-> reply[w].at] OBVIOUS
  <2>4. new \in Records /\ new.outcome \in Outcomes
    BY <1>0, <1>1, <2>3 DEF WorldInv, WorkerInv, Records
  <2>5. /\ receipt' \in [Executions -> Records] /\ receipt'[e] = new
        /\ \A f \in Executions : f # e => receipt'[f] = receipt[f]
    BY <1>0, <1>4, <2>1, <2>3, <2>4 DEF DataType
  <2>6. ResponseDecides'
    BY <1>0, <1>1, <2>2, <2>5 DEF ResponseDecides, Recorded, HasReceipt
  <2>7. DataInv' BY <1>0, <1>1, <2>5, <2>6, DataSame DEF DataType
  <2>8. "none" \notin Outcomes BY DEF Outcomes
  <2>9. \A f \in Executions : HasReceipt(f) => HasReceipt(f)' BY <2>4, <2>5, <2>8 DEF HasReceipt
  <2>10. "saved" \in WorkerSteps /\ DOMAIN reply' = Workers
    BY <1>0, <1>4 DEF WorkerSteps, Busy, WorldInv, HeldOK
  <2>11. /\ pc' \in [Workers -> WorkerSteps] /\ pc'[w] = "saved" /\ HeldOK' /\ Alone'
         /\ \A v \in Workers : v # w => Kept(v)
    BY <1>0, <1>2, <1>4, <2>10, MoveAt
  <2>12. \A s \in Slots : Row(s)' = Row(s) /\ Row(s) \in Nat BY <1>0, <1>1, RowAt DEF Row
  <2>13. WorkerInv(w)'
    <3>1. Row(held[w][1])' = Row(held[w][1]) BY <1>1, <1>4 DEF Row
    <3>2. held[w] \in Executions /\ held[w][2] <= Row(held[w][1]) BY <1>2, BusyAt
    <3>3. HasReceipt(held[w])' BY <1>4, <2>1, <2>4, <2>5, <2>8 DEF HasReceipt
    <3> QED BY <1>4, <2>11, <3>1, <3>2, <3>3 DEF WorkerInv, Busy
  <2>14. \A f \in Executions : CallInv(f)' BY <1>0, <1>1 DEF WorldInv, CallInv, Row
  <2>15. WorldType' /\ ScanInv' BY <1>0, <1>1, <2>11 DEF WorldInv, WorldType, ScanInv
  <2>16. PlansSafe
    <3>1. UNCHANGED <<progress, resolved, recovered, version, ledger, claims, evidence>>
      BY <1>1 DEF audit
    <3> QED BY <3>1, PlanSame DEF PlansSafe
  <2>17. WorldInv'
    BY <1>1, <2>9, <2>11, <2>12, <2>13, <2>14, <2>15, <2>16, WorldStep
  <2> QED BY <2>7, <2>17 DEF Inv
<1> QED BY <1>3, <1>4 DEF Save

\* A completion, whoever makes it.
LEMMA CompleteStep ==
  ASSUME Inv, NEW e \in Executions, NEW r \in Records, r.outcome # "none", Complete(e, r),
         IF HasReceipt(e) THEN r = receipt[e] ELSE r.outcome = "unknown",
         UNCHANGED <<clock, faults>>, ScanInv', UNCHANGED local \/ \E w \in Workers : Idle(w)
  PROVE  Inv'
<1>1. DataInv' BY CompleteData DEF Inv
<1>2. version' = version + 1 /\ UNCHANGED <<ledger, receipt, calls>> BY DEF Complete
<1>3. clock' \in Nat BY DEF Inv, WorldInv, WorldType
<1> QED BY <1>1, <1>2, <1>3, BumpStep

LEMMA WorkerCompletesStep ==
  ASSUME Inv, NEW w \in Workers, WorkerCompletes(w)
  PROVE  Inv'
<1>1. /\ pc[w] = "saved" /\ Complete(held[w], receipt[held[w]]) /\ Idle(w)
      /\ UNCHANGED <<clock, scan, faults>>
  BY DEF WorkerCompletes
<1>2. pc[w] \in Busy BY <1>1 DEF Busy
<1>3. PICK e \in Executions : e = held[w] BY <1>2, BusyAt
<1>4. PICK r \in Records : r = receipt[e] BY DEF Inv, DataInv, DataType
<1>5. HasReceipt(e) BY <1>1, <1>3 DEF Inv, WorldInv, WorkerInv
<1>6. r.outcome # "none" /\ Complete(e, r) BY <1>1, <1>3, <1>4, <1>5 DEF HasReceipt
<1>7. ScanInv' BY <1>1 DEF Inv, WorldInv, ScanInv
<1> QED BY <1>1, <1>4, <1>5, <1>6, <1>7, CompleteStep

\* What a claimed slot has claimed.
LEMMA ClaimAt ==
  ASSUME Inv, NEW s \in Slots, claims[s] # 0
  PROVE  <<s, claims[s]>> \in Executions
<1>1. claims[s] \in Nat /\ claims[s] = Row(s) BY DEF Inv, DataInv, DataType
<1>2. Row(s) <= GenerationLimit + SemanticLimit BY RowAt DEF Inv, DataInv
<1> QED BY <1>1, <1>2, ExecutionOf

LEMMA RecoverResponseStep ==
  ASSUME Inv, NEW s \in Slots, RecoverResponse(s)
  PROVE  Inv'
<1>1. /\ claims[s] # 0 /\ HasReceipt(<<s, claims[s]>>)
      /\ Complete(<<s, claims[s]>>, receipt[<<s, claims[s]>>]) /\ UNCHANGED <<clock, local, scan, faults>>
  BY DEF RecoverResponse
<1>2. PICK e \in Executions : e = <<s, claims[s]>> BY <1>1, ClaimAt
<1>3. PICK r \in Records : r = receipt[e] BY DEF Inv, DataInv, DataType
<1>4. HasReceipt(e) /\ r.outcome # "none" /\ Complete(e, r) BY <1>1, <1>2, <1>3 DEF HasReceipt
<1>5. ScanInv' BY <1>1 DEF Inv, WorldInv, ScanInv
<1> QED BY <1>1, <1>3, <1>4, <1>5, CompleteStep

LEMMA ExpireStep ==
  ASSUME Inv, Expire
  PROVE  Inv'
<1>1. /\ scan # NoWork /\ ExpiryHolds /\ Complete(scan.exec, [outcome |-> "unknown", at |-> scan.at])
      /\ scan' = NoWork /\ UNCHANGED <<clock, local, faults>>
  BY DEF Expire
<1>2. PICK e \in Executions : e = scan.exec BY <1>1 DEF Inv, WorldInv, ScanInv
<1>3. PICK r : r = [outcome |-> "unknown", at |-> scan.at] OBVIOUS
<1>4. r \in Records /\ r.outcome = "unknown" BY <1>1, <1>3 DEF Inv, WorldInv, ScanInv, Records, Outcomes
<1>5. ~HasReceipt(e) /\ Complete(e, r) BY <1>1, <1>2, <1>3 DEF ExpiryHolds
<1>6. ScanInv' BY <1>1 DEF ScanInv
<1> QED BY <1>1, <1>4, <1>5, <1>6, CompleteStep

\* The scanner's plans, and the leases that run out.
LEMMA ScannerStep ==
  ASSUME Inv, UNCHANGED <<audit, rows>>, UNCHANGED <<local, calls, faults>>, clock' \in Nat, ScanInv'
  PROVE  Inv'
<1>0. WorldInv BY DEF Inv
<1>1. UNCHANGED <<pc, held, reply, ledger>> BY DEF local, rows
<1>2. /\ pc' \in [Workers -> WorkerSteps] /\ HeldOK' /\ Alone' /\ faults' \in 0 .. MaxFaults
      /\ calls' \in [Executions -> Nat]
  BY <1>0, <1>1 DEF WorldInv, WorldType, HeldOK, Alone
<1>3. \A w \in Workers : Kept(w) BY <1>1 DEF Kept
<1>4. \A e \in Executions : CallInv(e)' BY <1>0, <1>1 DEF WorldInv, CallInv, Row
<1> QED BY <1>2, <1>3, <1>4, LocalStep

LEMMA PlanExpiryStep ==
  ASSUME Inv, NEW s \in Slots, PlanExpiry(s)
  PROVE  Inv'
<1>1. /\ claims[s] # 0 /\ scan' = ExpiryPlan(<<s, claims[s]>>) /\ clock' = clock + 1
      /\ UNCHANGED <<audit, rows>> /\ UNCHANGED <<local, calls, faults>>
  BY DEF PlanExpiry
<1>2. clock \in Nat BY DEF Inv, WorldInv, WorldType
<1>3. PICK e \in Executions : e = <<s, claims[s]>> BY <1>1, ClaimAt
<1>4. scan'.exec = e /\ scan'.at = clock + 1 BY <1>1, <1>3 DEF ExpiryPlan
<1>5. ScanInv' BY <1>2, <1>4 DEF ScanInv
<1> QED BY <1>1, <1>2, <1>5, ScannerStep

LEMMA LeaseStep ==
  ASSUME Inv, NEW s \in Slots, LeaseRunsOut(s)
  PROVE  Inv'
<1>0. /\ WorldInv /\ DataInv /\ DataType /\ AuthorizedInv /\ ResponseDecides
  BY DEF Inv, DataInv
<1>1. /\ lease' = [lease EXCEPT ![s] = FALSE] /\ UNCHANGED audit
      /\ UNCHANGED <<ledger, claims, receipt, evidence>> /\ UNCHANGED <<clock, local, scan, calls>>
      /\ faults' \in {faults, faults + 1} /\ (faults' = faults \/ faults < MaxFaults)
  BY DEF LeaseRunsOut
<1>2. DataInv'
  <2>1. lease' \in [Slots -> BOOLEAN] /\ receipt' \in [Executions -> Records] BY <1>0, <1>1 DEF DataType
  <2>2. ResponseDecides' BY <1>0, <1>1 DEF ResponseDecides, Recorded, HasReceipt
  <2> QED BY <1>0, <1>1, <2>1, <2>2, DataSame
<1>3. UNCHANGED <<pc, held, reply>> BY <1>1 DEF local
<1>4. faults' \in 0 .. MaxFaults BY <1>0, <1>1, CandidateAssumption DEF WorldInv, WorldType
<1>5. WorldType' /\ HeldOK' /\ Alone' /\ ScanInv'
  BY <1>0, <1>1, <1>3, <1>4 DEF WorldInv, WorldType, HeldOK, Alone, ScanInv
<1>6. \A w \in Workers : Kept(w) BY <1>3 DEF Kept
<1>7. \A e \in Executions : CallInv(e)' BY <1>0, <1>1 DEF WorldInv, CallInv, Row
<1>8. \A t \in Slots : Row(t)' = Row(t) /\ Row(t) \in Nat BY <1>0, <1>1, RowAt DEF Row
<1>9. PlansSafe
  <2>1. UNCHANGED <<progress, resolved, recovered, version>> BY <1>1 DEF audit
  <2> QED BY <1>1, <2>1, PlanSame DEF PlansSafe
<1>10. \A e \in Executions : HasReceipt(e) => HasReceipt(e)' BY <1>1 DEF HasReceipt
<1>11. WorldInv' BY <1>1, <1>5, <1>6, <1>7, <1>8, <1>9, <1>10, WorldStep
<1> QED BY <1>2, <1>11 DEF Inv

-----------------------------------------------------------------------------
(* The operator and the drain.                                              *)

LEMMA AuditStep ==
  ASSUME Inv, UNCHANGED rows, UNCHANGED <<local, scan, calls, faults>>, version' = version + 1,
         clock' \in Nat,
         progress' \in [status : Statuses, preflight : {"pending", "passed", "failed"},
                        cancel : BOOLEAN, unresolved : Nat],
         resolved \subseteq resolved', resolved' \subseteq Executions,
         recovered \subseteq recovered', recovered' \subseteq Executions,
         DecisionsInv', StatusInv', UnknownsCounted', progress'.status # "awaiting_review"
  PROVE  Inv'
<1>1. DataInv' BY AuditData DEF Inv
<1>2. UNCHANGED <<ledger, receipt>> BY DEF rows
<1>3. ScanInv' BY DEF Inv, WorldInv, ScanInv
<1> QED BY <1>1, <1>2, <1>3, BumpStep

\* A step of the document that decides nothing and counts nothing.
LEMMA StatusStep ==
  ASSUME Inv, UNCHANGED rows, UNCHANGED <<local, scan, calls, faults, clock>>, version' = version + 1,
         UNCHANGED <<resolved, recovered>>,
         progress' \in [status : Statuses, preflight : {"pending", "passed", "failed"},
                        cancel : BOOLEAN, unresolved : Nat],
         progress'.unresolved = progress.unresolved, progress'.status # "awaiting_review",
         \/ \A s \in Slots : claims[s] = 0
         \/ progress'.status \notin Settled /\ progress'.preflight = "passed"
  PROVE  Inv'
<1>0. DataType /\ DecisionsInv /\ UnknownsCounted BY DEF Inv, DataInv
<1>1. UNCHANGED <<claims, evidence>> BY DEF rows
<1>2. DecisionsInv' /\ UnknownsCounted' BY <1>0, <1>1 DEF DecisionsInv, UnknownsCounted, Unknowns
<1>3. StatusInv' BY <1>1 DEF StatusInv
<1>4. clock' \in Nat BY DEF Inv, WorldInv, WorldType
<1>5. resolved' \subseteq Executions /\ recovered' \subseteq Executions BY <1>0 DEF DataType
<1> QED BY <1>2, <1>3, <1>4, <1>5, AuditStep

\* What the document says of the claims.
LEMMA StatusAt ==
  ASSUME Inv
  PROVE  /\ progress \in [status : Statuses, preflight : {"pending", "passed", "failed"},
                          cancel : BOOLEAN, unresolved : Nat]
         /\ \/ \A s \in Slots : claims[s] = 0
            \/ progress.status \notin Settled /\ progress.preflight = "passed"
  BY DEF Inv, DataInv, DataType, StatusInv

LEMMA StartStep == ASSUME Inv, Start PROVE Inv'
<1>1. /\ progress' = [progress EXCEPT !.status = "collecting"] /\ version' = version + 1
      /\ UNCHANGED rows /\ UNCHANGED <<resolved, recovered, clock, local, scan, calls, faults>>
  BY DEF Start
<1>2. /\ progress' \in [status : Statuses, preflight : {"pending", "passed", "failed"},
                        cancel : BOOLEAN, unresolved : Nat]
      /\ progress'.unresolved = progress.unresolved /\ progress'.status = "collecting"
      /\ progress'.preflight = progress.preflight
  BY <1>1, StatusAt DEF Statuses
<1>3. "collecting" \notin Settled BY DEF Settled
<1> QED BY <1>1, <1>2, <1>3, StatusAt, StatusStep

LEMMA PreflightStep == ASSUME Inv, NEW passed \in BOOLEAN, Preflight(passed) PROVE Inv'
<1>1. /\ version' = version + 1 /\ progress.preflight = "pending" /\ progress.status = "collecting"
      /\ progress' = IF passed THEN [progress EXCEPT !.preflight = "passed"]
                     ELSE [progress EXCEPT !.preflight = "failed", !.status = "blocked"]
      /\ UNCHANGED rows /\ UNCHANGED <<resolved, recovered, clock, local, scan, calls, faults>>
  BY DEF Preflight
<1>2. /\ progress' \in [status : Statuses, preflight : {"pending", "passed", "failed"},
                        cancel : BOOLEAN, unresolved : Nat]
      /\ progress'.unresolved = progress.unresolved /\ progress'.status # "awaiting_review"
  BY <1>1, StatusAt DEF Statuses
<1>3. \A s \in Slots : claims[s] = 0 BY <1>1, StatusAt
<1> QED BY <1>1, <1>2, <1>3, StatusStep

LEMMA RequestCancelStep == ASSUME Inv, RequestCancel PROVE Inv'
<1>1. /\ progress' = [progress EXCEPT !.cancel = TRUE] /\ version' = version + 1
      /\ progress.status \in {"collecting", "blocked"}
      /\ UNCHANGED rows /\ UNCHANGED <<resolved, recovered, clock, local, scan, calls, faults>>
  BY DEF RequestCancel
<1>2. /\ progress' \in [status : Statuses, preflight : {"pending", "passed", "failed"},
                        cancel : BOOLEAN, unresolved : Nat]
      /\ progress'.unresolved = progress.unresolved /\ progress'.status = progress.status
      /\ progress'.preflight = progress.preflight
  BY <1>1, StatusAt
<1> QED BY <1>1, <1>2, StatusAt, StatusStep

LEMMA CanceledStep == ASSUME Inv, Canceled, ~Draining PROVE Inv'
<1>1. /\ progress' = [progress EXCEPT !.status = "canceled"] /\ version' = version + 1
      /\ UNCHANGED rows /\ UNCHANGED <<resolved, recovered, clock, local, scan, calls, faults>>
  BY DEF Canceled
<1>2. /\ progress' \in [status : Statuses, preflight : {"pending", "passed", "failed"},
                        cancel : BOOLEAN, unresolved : Nat]
      /\ progress'.unresolved = progress.unresolved /\ progress'.status = "canceled"
  BY <1>1, StatusAt DEF Statuses
<1>3. \A s \in Slots : claims[s] = 0 BY DEF Draining, Active
<1> QED BY <1>1, <1>2, <1>3, StatusStep

\* A decision takes its unknown result out of the count.
LEMMA ResolutionStep ==
  ASSUME Inv, NEW e \in Executions, NEW status \in {"collecting", "blocked", "canceled"}, NEW cause,
         Resolution(e, status, cause)
  PROVE  Inv'
<1>0. DataType /\ DecisionsInv /\ UnknownsCounted /\ clock \in Nat
  BY DEF Inv, DataInv, WorldInv, WorldType
<1>1. /\ Active = {} /\ evidence[e].outcome = "unknown" /\ e \notin resolved
      /\ resolved' = resolved \cup {e} /\ clock' = clock + 1 /\ version' = version + 1
      /\ progress' = [progress EXCEPT !.status = status, !.unresolved = @ - 1]
      /\ UNCHANGED rows /\ UNCHANGED <<recovered, local, scan, calls, faults>>
  BY DEF Resolution
<1>2. UNCHANGED <<claims, evidence>> BY <1>1 DEF rows
<1>3. PICK old : old = Unknowns \ resolved OBVIOUS
<1>4. IsFiniteSet(old) /\ Cardinality(old) \in Nat /\ progress.unresolved = Cardinality(old)
  BY <1>0, <1>3, UnknownsFinite DEF UnknownsCounted
<1>5. e \in old BY <1>1, <1>3 DEF Unknowns
<1>6. (Unknowns \ resolved)' = old \ {e} BY <1>1, <1>2, <1>3 DEF Unknowns
<1>7. IsFiniteSet(old \ {e}) /\ Cardinality(old \ {e}) = Cardinality(old) - 1
  BY <1>4, <1>5, FS_RemoveElement
<1>8. Cardinality(old \ {e}) \in Nat BY <1>7, FS_CardinalityType
<1>9. /\ progress' \in [status : Statuses, preflight : {"pending", "passed", "failed"},
                        cancel : BOOLEAN, unresolved : Nat]
      /\ progress'.unresolved = Cardinality(old \ {e}) /\ progress'.status = status
  BY <1>1, <1>4, <1>7, <1>8, StatusAt DEF Statuses
<1>10. UnknownsCounted' BY <1>6, <1>9 DEF UnknownsCounted
<1>11. StatusInv' BY <1>1, <1>2 DEF StatusInv, Active
<1>12. DecisionsInv' BY <1>0, <1>1, <1>2 DEF DecisionsInv
<1>13. resolved' \subseteq Executions /\ recovered' \subseteq Executions BY <1>0, <1>1 DEF DataType
<1> QED BY <1>0, <1>1, <1>9, <1>10, <1>11, <1>12, <1>13, AuditStep

LEMMA RecoverContractStep == ASSUME Inv, NEW e \in Executions, RecoverContract(e) PROVE Inv'
<1>0. DataType /\ DecisionsInv /\ UnknownsCounted /\ StatusInv /\ clock \in Nat
  BY DEF Inv, DataInv, WorldInv, WorldType
<1>1. /\ progress.status = "blocked" /\ evidence[e].outcome = "contract"
      /\ recovered' = recovered \cup {e} /\ clock' = clock + 1 /\ version' = version + 1
      /\ progress' = [progress EXCEPT !.status = "collecting"]
      /\ UNCHANGED rows /\ UNCHANGED <<resolved, local, scan, calls, faults>>
  BY DEF RecoverContract
<1>2. UNCHANGED <<claims, evidence>> BY <1>1 DEF rows
<1>3. /\ progress' \in [status : Statuses, preflight : {"pending", "passed", "failed"},
                        cancel : BOOLEAN, unresolved : Nat]
      /\ progress'.unresolved = progress.unresolved /\ progress'.status = "collecting"
  BY <1>1, StatusAt DEF Statuses
<1>4. UnknownsCounted' BY <1>0, <1>1, <1>2, <1>3 DEF UnknownsCounted, Unknowns
<1>5. StatusInv' BY <1>0, <1>1, <1>2 DEF StatusInv, Settled
<1>6. DecisionsInv' BY <1>0, <1>1, <1>2 DEF DecisionsInv
<1>7. resolved' \subseteq Executions /\ recovered' \subseteq Executions BY <1>0, <1>1 DEF DataType
<1> QED BY <1>0, <1>1, <1>3, <1>4, <1>5, <1>6, <1>7, AuditStep

-----------------------------------------------------------------------------
(* The theorems.                                                            *)

LEMMA InitInv == Init => Inv
<1> SUFFICES ASSUME Init PROVE Inv OBVIOUS
<1>1. /\ progress = [status |-> "requested", preflight |-> "pending", cancel |-> FALSE, unresolved |-> 0]
      /\ resolved = {} /\ recovered = {} /\ version = 1 /\ clock = 0 /\ faults = 0 /\ scan = NoWork
  BY DEF Init
<1>2. /\ ledger = [s \in Slots |-> <<>>] /\ claims = [s \in Slots |-> 0]
      /\ lease = [s \in Slots |-> FALSE] /\ receipt = [e \in Executions |-> Nothing]
      /\ evidence = [e \in Executions |-> Nothing] /\ calls = [e \in Executions |-> 0]
      /\ pc = [w \in Workers |-> "idle"] /\ DOMAIN held = Workers /\ DOMAIN reply = Workers
  BY DEF Init
<1>3. Nothing \in Records /\ Nothing.outcome = "none" BY DEF Nothing, Records
<1>4. \A s \in Slots : ledger[s] = <<>> /\ Row(s) = 0 /\ claims[s] = 0 BY <1>2 DEF Row
<1>5. \A e \in Executions : evidence[e].outcome = "none" BY <1>2, <1>3
<1>6. DataType BY <1>1, <1>2, <1>3, <1>4 DEF DataType, Statuses
<1>7. RowsInv
  <2>1. ASSUME NEW e \in Executions PROVE RowInv(e)
    <3>1. e[1] \in Slots /\ e[2] \in Nat /\ e[2] > 0 BY ExecutionAt
    <3>2. ~(e[2] <= Row(e[1])) BY <1>4, <3>1
    <3> QED BY <1>5, <3>2 DEF RowInv
  <2> QED BY <2>1 DEF RowsInv
<1>8. AuthorizedInv
  <2>1. ASSUME NEW s \in Slots, NEW k \in Kinds PROVE Used(s, k) <= Limit[k]
    <3>1. {n \in 1 .. Row(s) : ledger[s][n] = k} = {} BY <1>4
    <3>2. Used(s, k) = 0 BY <3>1, FS_EmptySet DEF Used
    <3> QED BY <3>2, CandidateAssumption DEF Limit, Kinds
  <2>2. \A s \in Slots : 1 .. Row(s) - 1 = {} BY <1>4
  <2> QED BY <2>1, <2>2 DEF AuthorizedInv, Authorized
<1>9. DecisionsInv /\ StatusInv /\ ReviewInv BY <1>1, <1>4 DEF DecisionsInv, StatusInv, ReviewInv
<1>10. UnknownsCounted
  <2>1. Unknowns \ resolved = {} BY <1>5 DEF Unknowns
  <2>2. Cardinality(Unknowns \ resolved) = 0 BY <2>1, FS_EmptySet
  <2> QED BY <1>1, <2>2 DEF UnknownsCounted
<1>11. ResponseDecides BY <1>5 DEF ResponseDecides, Recorded
<1>12. WorldType BY <1>1, <1>2, CandidateAssumption DEF WorldType, WorkerSteps
<1>13. HeldOK /\ Alone /\ ScanInv BY <1>1, <1>2 DEF HeldOK, Alone, ScanInv, Busy
<1>14. \A w \in Workers : WorkerInv(w) BY <1>2 DEF WorkerInv, Busy
<1>15. \A e \in Executions : CallInv(e) BY <1>2 DEF CallInv
<1> QED BY <1>6, <1>7, <1>8, <1>9, <1>10, <1>11, <1>12, <1>13, <1>14, <1>15
    DEF Inv, DataInv, WorldInv

LEMMA StepInv == ASSUME Inv, NEW w \in Workers, Step(w) \/ Stop(w) PROVE Inv'
<1>0. faults \in 0 .. MaxFaults BY DEF Inv, WorldInv, WorldType
<1>1. CASE DispatchConflict(w) \/ WorkerYields(w)
  <2>1. /\ Idle(w) /\ UNCHANGED <<audit, rows>> /\ UNCHANGED <<clock, scan, calls>> /\ UNCHANGED faults
    BY <1>1 DEF DispatchConflict, WorkerYields
  <2> QED BY <1>0, <2>1, IdleStep
<1>2. CASE Stop(w)
  <2>1. /\ Idle(w) /\ UNCHANGED <<audit, rows>> /\ UNCHANGED <<clock, scan, calls>>
        /\ faults' = faults + 1 /\ faults < MaxFaults
    BY <1>2 DEF Stop
  <2>2. faults' \in 0 .. MaxFaults BY <1>0, <2>1, CandidateAssumption
  <2> QED BY <2>1, <2>2, IdleStep
<1>3. CASE \E outcome \in Outcomes : Reply(w, outcome) BY <1>3, ReplyStep
<1> QED BY <1>1, <1>2, <1>3, PlanStep, DispatchStep, HandoffStep, InvokeStep, SaveStep,
           WorkerCompletesStep DEF Step

LEMMA RecoveryInv == ASSUME Inv, Recovery PROVE Inv'
<1>1. CASE ExpiryConflict
  <2>1. /\ UNCHANGED <<audit, rows>> /\ UNCHANGED <<local, calls, faults>> /\ UNCHANGED clock
        /\ scan' = NoWork
    BY <1>1 DEF ExpiryConflict
  <2>2. clock' \in Nat /\ ScanInv' BY <2>1 DEF Inv, WorldInv, WorldType, ScanInv
  <2> QED BY <2>1, <2>2, ScannerStep
<1> QED BY <1>1, RecoverResponseStep, PlanExpiryStep, ExpireStep DEF Recovery

LEMMA OperatorInv == ASSUME Inv, Operator \/ FinishCancellation PROVE Inv'
<1>1. ASSUME NEW e \in Executions, AuthorizeReplacement(e) PROVE Inv'
  <2>1. PICK status \in {"collecting", "blocked", "canceled"} :
          Resolution(e, status, "manual_recovery_approved")
    BY <1>1 DEF AuthorizeReplacement
  <2> QED BY <2>1, ResolutionStep
<1>2. ASSUME NEW e \in Executions, CancelUnknown(e) PROVE Inv'
  <2>1. PICK status \in {"collecting", "blocked", "canceled"} :
          Resolution(e, status, "result_unknown_run_canceled")
    BY <1>2 DEF CancelUnknown
  <2> QED BY <2>1, ResolutionStep
<1>3. CASE Cancel \/ FinishCancellation
  BY <1>3, CanceledStep DEF Cancel, FinishCancellation, MayFinish
<1> QED BY <1>1, <1>2, <1>3, StartStep, RequestCancelStep, RecoverContractStep DEF Operator

LEMMA NextInv == Inv /\ [Next]_vars => Inv'
<1> SUFFICES ASSUME Inv, [Next]_vars PROVE Inv' OBVIOUS
<1>1. CASE UNCHANGED vars
  <2>1. UNCHANGED <<audit, rows>> /\ UNCHANGED <<local, calls, faults>> /\ UNCHANGED <<clock, scan>>
    BY <1>1 DEF vars
  <2>2. clock' \in Nat /\ ScanInv' BY <2>1 DEF Inv, WorldInv, WorldType, ScanInv
  <2> QED BY <2>1, <2>2, ScannerStep
<1> QED BY <1>1, StepInv, PreflightStep, LeaseStep, RecoveryInv, OperatorInv DEF Next

LEMMA InvHolds == Spec => []Inv
  BY InitInv, NextInv, PTL DEF Spec

-----------------------------------------------------------------------------
(* The history: what the transitions, the clock readings and the decisions  *)
(* say of each other.                                                       *)

Manual == "manual_recovery_approved"
Contract == "semantic_contract_recovery_approved"
Blocks == {UnknownCause, NotAllowed["semantic"]}
DeadEnds == {"preflight_failed", NotAllowed["generation"], Exhausted["generation"], Exhausted["semantic"]}
Causes == {"evaluation_requested", "evaluation_started", "candidate_evidence_complete", Manual, Contract,
           "operator_canceled", "result_unknown_run_canceled"} \cup Blocks \cup DeadEnds
Entries == [to : Statuses, cause : Causes, ref : Executions \cup {<<>>}, at : Nat]

\* Every reading lies behind the clock, and what can still complete a claimed
\* call was read after the last transition: nothing is claimed at a transition.
TimesInv ==
  /\ \A e \in Executions : evidence[e].at <= clock /\ receipt[e].at <= clock
  /\ \A e \in Executions : HasReceipt(e) =>
       e[2] <= Row(e[1]) /\ (Owns(e) => LastTransition.at <= receipt[e].at)
  /\ \A w \in Workers : pc[w] = "replied" =>
       reply[w].at <= clock /\ (Owns(held[w]) => LastTransition.at <= reply[w].at)
  /\ scan # NoWork =>
       /\ scan.version \in Nat /\ scan.version <= version /\ scan.at <= clock
       /\ scan.version = version => LastTransition.at <= scan.at

\* A resumption follows the block that it is about.
Linked(t, u) ==
  /\ t.at <= u.at
  /\ u.cause = Manual <=> t.cause = UnknownCause
  /\ u.cause = Contract <=> t.cause = NotAllowed["semantic"]
  /\ u.cause = Contract => u.ref = t.ref

Chain ==
  /\ transitions[1].cause = "evaluation_requested"
  /\ \A n \in 2 .. Len(transitions) : LET t == transitions[n - 1]
                                          u == transitions[n] IN
       /\ Linked(t, u)
       /\ \/ <<t.to, u.to, u.cause>> \in Moves
          \/ n = Len(transitions) /\ u.cause \in DeadEnds
  /\ \A n \in 1 .. Len(transitions) :
       transitions[n].cause \in Blocks \cup DeadEnds => transitions[n].to = "blocked"

\* A block for an unknown result, and a resumption, have an execution of
\* their own, and a block was decided before the Run went on.
References ==
  /\ \A n \in Referred(UnknownCause) : LET t == transitions[n] IN
       /\ t.ref \in Unknowns /\ evidence[t.ref].at = t.at
       /\ n = Len(transitions) \/ t.ref \in resolved
  /\ \A n \in Referred(Manual) : transitions[n].ref \in resolved
  /\ \A n \in Referred(Contract) : transitions[n].ref \in recovered
  /\ \A e \in recovered : \E n \in Referred(Contract) : transitions[n].ref = e
  /\ \A cause \in {UnknownCause, Manual, Contract} : \A n, m \in Referred(cause) :
       transitions[n].ref = transitions[m].ref => n = m

\* The last transition is about the present state.
Present ==
  /\ progress.status = "blocked" =>
       /\ LastTransition.cause = UnknownCause <=> progress.unresolved > 0
       /\ LastTransition.cause = NotAllowed["semantic"] => LastTransition.ref \notin recovered
  /\ progress.status = "awaiting_review" =>
       /\ LastTransition.cause = "candidate_evidence_complete"
       /\ LastTransition.ref \in Executions
       /\ KindOf(LastTransition.ref) = "semantic"
       /\ evidence[LastTransition.ref].outcome = "succeeded"
       /\ evidence[LastTransition.ref].at = LastTransition.at

StoryType ==
  /\ transitions \in Seq(Entries) /\ Len(transitions) >= 1
  /\ LastTransition.to = progress.status /\ LastTransition.at <= clock

Story == Chain /\ References /\ Present

\* Nothing is unknown before the preflight allowed a call.
PreflightInv ==
  /\ progress.preflight # "passed" => progress.unresolved = 0
  /\ progress.status = "requested" => progress.preflight = "pending"

History == StoryType /\ TimesInv /\ PreflightInv /\ (progress.status # "canceled" => Story)

-----------------------------------------------------------------------------
(* Lemmas about least and greatest readings, and about the audited calls.   *)

\* A set of naturals that is not empty has a least element.
LEMMA LeastAt ==
  ASSUME NEW S, S \subseteq Nat, S # {}
  PROVE  \E x \in S : \A y \in S : x <= y
<1>1. PICK R : R = OpToRel(<, Nat) OBVIOUS
<1>2. IsWellFoundedOn(R, Nat) BY <1>1, NatLessThanWellFounded
<1>3. PICK x \in S : \A y \in S : <<y, x>> \notin R BY <1>2, WFMin
<1>4. ASSUME NEW y \in S PROVE x <= y
  <2>1. ~(y < x) BY <1>1, <1>3 DEF OpToRel
  <2> QED BY <2>1
<1> QED BY <1>4

LEMMA MinAt ==
  ASSUME NEW S, S \subseteq Nat, S # {}
  PROVE  Min(S) \in S
  BY LeastAt DEF Min

LEMMA MaxOfTwo ==
  ASSUME NEW a \in Nat, NEW b \in Nat
  PROVE  Max({a, b}) \in {a, b} /\ a <= Max({a, b}) /\ b <= Max({a, b})
<1>1. \E x \in {a, b} : \A y \in {a, b} : x >= y
  <2>1. CASE a <= b BY <2>1
  <2>2. CASE b <= a BY <2>2
  <2> QED BY <2>1, <2>2
<1>2. PICK m : m = Max({a, b}) OBVIOUS
<1>3. m \in {a, b} /\ \A y \in {a, b} : m >= y BY <1>1, <1>2 DEF Max
<1> QED BY <1>2, <1>3

LEMMA MaxOfThree ==
  ASSUME NEW a \in Nat, NEW b \in Nat, NEW c \in Nat
  PROVE  /\ Max({a, b, c}) \in {a, b, c}
         /\ a <= Max({a, b, c}) /\ b <= Max({a, b, c}) /\ c <= Max({a, b, c})
<1>1. \E x \in {a, b, c} : \A y \in {a, b, c} : x >= y
  <2>1. CASE a <= b /\ b <= c BY <2>1
  <2>2. CASE a <= b /\ c <= b BY <2>2
  <2>3. CASE b <= a /\ a <= c BY <2>3
  <2>4. CASE b <= a /\ c <= a BY <2>4
  <2> QED BY <2>1, <2>2, <2>3, <2>4
<1>2. PICK m : m = Max({a, b, c}) OBVIOUS
<1>3. m \in {a, b, c} /\ \A y \in {a, b, c} : m >= y BY <1>1, <1>2 DEF Max
<1> QED BY <1>2, <1>3

\* The calls of a Run stay within what its slots may have together: a call is
\* told apart by its slot and its ordinal.
LEMMA TotalBound ==
  ASSUME DataType, AuthorizedInv, NEW k \in Kinds
  PROVE  Total(k) <= RunLimit(k)
<1>1. PICK S : S = {e \in Executions : e[2] <= Row(e[1]) /\ KindOf(e) = k} OBVIOUS
<1>2. PICK l \in Nat : l = Limit[k] BY CandidateAssumption DEF Limit, Kinds
<1>3. PICK P : P = Slots \X (1 .. l) OBVIOUS
<1>4. PICK f : f = [e \in S |-> <<e[1], Ordinal(e)>>] OBVIOUS
<1>5. ASSUME NEW e \in S
      PROVE  /\ e \in Executions /\ e[1] \in Slots /\ e[2] \in 1 .. Len(ledger[e[1]])
             /\ ledger[e[1]] \in Seq(Kinds) /\ ledger[e[1]][e[2]] = k /\ KindOf(e) = k
             /\ e = <<e[1], e[2]>>
    BY <1>1, ExecutionAt DEF Row, KindOf, DataType
<1>6. ASSUME NEW e \in S PROVE Ordinal(e) \in 1 .. l
  <2>0. PICK q \in Seq(Kinds) : q = ledger[e[1]] BY <1>5
  <2>1. PICK n \in 1 .. Len(q) : q = ledger[e[1]] /\ n = e[2] /\ q[n] = k BY <1>5, <2>0
  <2>2. PICK A : A = {i \in 1 .. n : q[i] = k} OBVIOUS
  <2>3. PICK B : B = {i \in 1 .. Len(q) : q[i] = k} OBVIOUS
  <2>4. A \subseteq B /\ n \in A BY <2>1, <2>2, <2>3
  <2>5. IsFiniteSet(B) /\ Cardinality(B) = Count(q, k) BY <2>3, CountNat DEF Count
  <2>6. IsFiniteSet(A) /\ Cardinality(A) <= Cardinality(B) BY <2>4, <2>5, FS_Subset
  <2>7. Cardinality(A) # 0 BY <2>4, <2>6, FS_EmptySet
  <2>8. Cardinality(A) \in Nat /\ Cardinality(B) \in Nat BY <2>5, <2>6, FS_CardinalityType
  <2>9. Count(q, k) <= l BY <1>2, <1>5, <2>1, UsedIsCount DEF AuthorizedInv, Authorized
  <2>10. Ordinal(e) = Cardinality(A) BY <1>5, <2>1, <2>2 DEF Ordinal
  <2> QED BY <2>5, <2>6, <2>7, <2>8, <2>9, <2>10
<1>7. ASSUME NEW e \in S, NEW d \in S, e[1] = d[1], e[2] < d[2] PROVE Ordinal(e) # Ordinal(d)
  <2>0. PICK q \in Seq(Kinds) : q = ledger[e[1]] BY <1>5
  <2>1. PICK n \in 1 .. Len(q), m \in 1 .. Len(q) :
          q = ledger[e[1]] /\ n = e[2] /\ q[n] = k /\ m = d[2] /\ q[m] = k
    BY <1>5, <1>7, <2>0
  <2>2. PICK A : A = {i \in 1 .. n : q[i] = k} OBVIOUS
  <2>3. PICK B : B = {i \in 1 .. m : q[i] = k} OBVIOUS
  <2>4. A \subseteq B /\ m \in B /\ m \notin A BY <1>7, <2>1, <2>2, <2>3
  <2>5. IsFiniteSet(1 .. m) BY FS_Interval
  <2>6. IsFiniteSet(B) BY <2>3, <2>5, FS_Subset
  <2>7. A # B BY <2>4
  <2>8. Cardinality(A) # Cardinality(B) BY <2>4, <2>6, <2>7, FS_Subset
  <2>9. Ordinal(e) = Cardinality(A) /\ Ordinal(d) = Cardinality(B)
    BY <1>5, <1>7, <2>1, <2>2, <2>3 DEF Ordinal
  <2> QED BY <2>8, <2>9
<1>8. f \in [S -> P] BY <1>3, <1>4, <1>5, <1>6
<1>9. ASSUME NEW e \in S, NEW d \in S, f[e] = f[d] PROVE e = d
  <2>1. e[1] = d[1] /\ Ordinal(e) = Ordinal(d) BY <1>4, <1>9
  <2>2. e[2] \in Nat /\ d[2] \in Nat BY <1>5, ExecutionAt
  <2>3. ~(e[2] < d[2]) /\ ~(d[2] < e[2]) BY <1>7, <2>1
  <2>4. e[2] = d[2] BY <2>2, <2>3
  <2> QED BY <1>5, <2>1, <2>4
<1>10. f \in Injection(S, P) BY <1>8, <1>9 DEF Injection, IsInjective
<1>11. /\ IsFiniteSet(Slots) /\ Cardinality(Slots) = SlotCount
       /\ IsFiniteSet(1 .. l) /\ Cardinality(1 .. l) = l
  <2>1. PICK one \in Int : one = 1 OBVIOUS
  <2>2. Cardinality(one .. l) = IF one > l THEN 0 ELSE l - one + 1 BY FS_Interval
  <2>3. SlotCount \in Nat BY CandidateAssumption
  <2>4. Cardinality(one .. SlotCount) = IF one > SlotCount THEN 0 ELSE SlotCount - one + 1
    BY <2>3, FS_Interval
  <2>5. (IF one > l THEN 0 ELSE l - one + 1) = l BY <2>1
  <2>6. (IF one > SlotCount THEN 0 ELSE SlotCount - one + 1) = SlotCount BY <2>1, <2>3
  <2>7. IsFiniteSet(1 .. l) BY FS_Interval
  <2> QED BY <2>1, <2>2, <2>4, <2>5, <2>6, <2>7, SlotsAt DEF Slots
<1>12. IsFiniteSet(P) /\ Cardinality(P) = SlotCount * l BY <1>3, <1>11, FS_Product
<1>13. IsFiniteSet(S) /\ Cardinality(S) <= Cardinality(P) BY <1>10, <1>12, FS_Injection
<1>14. Total(k) = Cardinality(S) /\ RunLimit(k) = SlotCount * l BY <1>1, <1>2 DEF Total, RunLimit
<1> QED BY <1>12, <1>13, <1>14

-----------------------------------------------------------------------------
(* Steps of the history.                                                    *)

LEMMA LastAt ==
  ASSUME StoryType
  PROVE  /\ Len(transitions) \in Nat /\ LastTransition \in Entries
         /\ LastTransition = transitions[Len(transitions)]
         /\ LastTransition.at \in Nat
         /\ \A n \in 1 .. Len(transitions) : transitions[n] \in Entries
<1>1. /\ Len(transitions) \in Nat /\ Len(transitions) \in 1 .. Len(transitions)
      /\ \A n \in 1 .. Len(transitions) : transitions[n] \in Entries
  BY DEF StoryType
<1> QED BY <1>1 DEF LastTransition, Entries

\* One transition more.
LEMMA NoteAt ==
  ASSUME StoryType, NEW t \in Entries, transitions' = Append(transitions, t)
  PROVE  /\ transitions' \in Seq(Entries) /\ Len(transitions') = Len(transitions) + 1
         /\ \A n \in 1 .. Len(transitions) : transitions'[n] = transitions[n]
         /\ transitions'[Len(transitions) + 1] = t /\ LastTransition' = t
         /\ \A cause : \A n : n \in Referred(cause)' <=>
              \/ n \in Referred(cause)
              \/ n = Len(transitions) + 1 /\ t.cause = cause
<1>1. PICK q \in Seq(Entries) : q = transitions BY DEF StoryType
<1>2. PICK l \in Nat : l = Len(q) BY <1>1
<1>3. /\ Append(q, t) \in Seq(Entries) /\ Len(Append(q, t)) = l + 1
      /\ \A n \in 1 .. l : Append(q, t)[n] = q[n] /\ Append(q, t)[l + 1] = t
  BY <1>1, <1>2
<1>4. Append(q, t)[l + 1] = t BY <1>1, <1>2
<1>5. LastTransition' = t BY <1>1, <1>3, <1>4 DEF LastTransition
<1>6. ASSUME NEW cause, NEW n
      PROVE  n \in Referred(cause)' <=> \/ n \in Referred(cause)
                                        \/ n = l + 1 /\ t.cause = cause
  <2>1. n \in 1 .. l + 1 <=> n \in 1 .. l \/ n = l + 1 BY <1>2
  <2>2. n \in 1 .. l => Append(q, t)[n] = q[n] BY <1>3
  <2>3. n \in Referred(cause)' <=> n \in 1 .. l + 1 /\ Append(q, t)[n].cause = cause
    BY <1>1, <1>3 DEF Referred
  <2>4. n \in Referred(cause) <=> n \in 1 .. l /\ q[n].cause = cause
    BY <1>1, <1>2 DEF Referred
  <2>5. n = l + 1 => n \notin 1 .. l BY <1>2
  <2> QED BY <1>4, <2>1, <2>2, <2>3, <2>4, <2>5
<1> QED BY <1>1, <1>2, <1>3, <1>4, <1>5, <1>6

\* A transition that fits the last one, on decisions that come with it.
LEMMA NoteStory ==
  ASSUME StoryType, Chain, References, NEW t \in Entries, transitions' = Append(transitions, t),
         resolved \subseteq resolved', \A e \in Unknowns : e \in Unknowns' /\ evidence'[e].at = evidence[e].at,
         LastTransition.cause \notin DeadEnds,
         Linked(LastTransition, t),
         <<LastTransition.to, t.to, t.cause>> \in Moves \/ t.cause \in DeadEnds,
         t.cause \in Blocks \cup DeadEnds => t.to = "blocked",
         LastTransition.cause = UnknownCause => LastTransition.ref \in resolved',
         t.cause = UnknownCause =>
           t.ref \in Unknowns' /\ evidence'[t.ref].at = t.at /\ t.ref \notin resolved,
         t.cause = Manual => t.ref \in resolved' /\ t.ref \notin resolved,
         t.cause = Contract => t.ref \notin recovered,
         recovered' = recovered \cup (IF t.cause = Contract THEN {t.ref} ELSE {})
  PROVE  Chain' /\ References'
<1>1. PICK l \in Nat : l = Len(transitions) /\ l >= 1 /\ LastTransition = transitions[l]
  BY LastAt DEF StoryType
<1>2. /\ Len(transitions') = l + 1 /\ \A n \in 1 .. l : transitions'[n] = transitions[n]
      /\ transitions'[l + 1] = t
  BY <1>1, NoteAt
<1>3. \A cause : \A n : n \in Referred(cause)' <=>
              \/ n \in Referred(cause)
              \/ n = l + 1 /\ t.cause = cause
  BY <1>1, NoteAt
<1>4. \A cause : \A n \in Referred(cause) : n \in 1 .. l /\ n # l + 1 /\ transitions[n].cause = cause
                                           /\ transitions'[n] = transitions[n]
  BY <1>1, <1>2 DEF Referred
<1>5. Chain'
  <2>1. transitions'[1].cause = "evaluation_requested" BY <1>1, <1>2 DEF Chain
  <2>2. ASSUME NEW n \in 2 .. l + 1
        PROVE  /\ Linked(transitions'[n - 1], transitions'[n])
               /\ \/ <<transitions'[n - 1].to, transitions'[n].to, transitions'[n].cause>> \in Moves
                  \/ n = l + 1 /\ transitions'[n].cause \in DeadEnds
    <3>1. CASE n = l + 1
      <4>1. transitions'[n - 1] = LastTransition /\ transitions'[n] = t BY <1>1, <1>2, <3>1
      <4> QED BY <3>1, <4>1
    <3>2. CASE n \in 2 .. l
      <4>1. transitions'[n - 1] = transitions[n - 1] /\ transitions'[n] = transitions[n]
        BY <1>1, <1>2, <3>2
      <4>2. /\ Linked(transitions[n - 1], transitions[n])
            /\ \/ <<transitions[n - 1].to, transitions[n].to, transitions[n].cause>> \in Moves
               \/ n = l /\ transitions[n].cause \in DeadEnds
        BY <1>1, <3>2 DEF Chain
      <4> QED BY <1>1, <4>1, <4>2
    <3>3. n = l + 1 \/ n \in 2 .. l BY <1>1
    <3> QED BY <3>1, <3>2, <3>3
  <2>3. ASSUME NEW n \in 1 .. l + 1, transitions'[n].cause \in Blocks \cup DeadEnds
        PROVE  transitions'[n].to = "blocked"
    <3>1. CASE n = l + 1 BY <1>2, <2>3, <3>1
    <3>2. CASE n \in 1 .. l BY <1>1, <1>2, <2>3, <3>2 DEF Chain
    <3> QED BY <1>1, <3>1, <3>2
  <2>4. Moves' = Moves /\ Blocks' = Blocks /\ DeadEnds' = DeadEnds OBVIOUS
  <2> QED BY <1>2, <2>1, <2>2, <2>3, <2>4 DEF Chain, Linked
<1>6. ASSUME NEW n \in Referred(UnknownCause)'
      PROVE  /\ transitions'[n].ref \in Unknowns' /\ evidence'[transitions'[n].ref].at = transitions'[n].at
             /\ n = l + 1 \/ transitions'[n].ref \in resolved'
  <2>1. CASE n = l + 1 /\ t.cause = UnknownCause BY <1>2, <2>1
  <2>2. CASE n \in Referred(UnknownCause)
    <3>1. /\ transitions'[n] = transitions[n] /\ transitions[n].ref \in Unknowns
          /\ evidence[transitions[n].ref].at = transitions[n].at
          /\ n = l \/ transitions[n].ref \in resolved
      BY <1>1, <1>4, <2>2 DEF References
    <3>2. n = l => LastTransition = transitions[n] /\ transitions[n].cause = UnknownCause
      BY <1>1, <1>4, <2>2
    <3> QED BY <3>1, <3>2
  <2> QED BY <1>3, <2>1, <2>2
<1>7. \A n \in Referred(Manual)' : transitions'[n].ref \in resolved'
  BY <1>2, <1>3, <1>4 DEF References
<1>8. \A n \in Referred(Contract)' : transitions'[n].ref \in recovered'
  BY <1>2, <1>3, <1>4 DEF References
<1>9. ASSUME NEW e \in recovered' PROVE \E n \in Referred(Contract)' : transitions'[n].ref = e
  <2>1. CASE e \in recovered
    <3>1. PICK n \in Referred(Contract) : transitions[n].ref = e BY <2>1 DEF References
    <3>2. n \in Referred(Contract)' /\ transitions'[n].ref = e BY <1>3, <1>4, <3>1
    <3> QED BY <3>2
  <2>2. CASE e \notin recovered
    <3>1. t.cause = Contract /\ e = t.ref BY <2>2
    <3>2. l + 1 \in Referred(Contract)' /\ transitions'[l + 1].ref = e BY <1>2, <1>3, <3>1
    <3> QED BY <3>2
  <2> QED BY <2>1, <2>2
<1>10. ASSUME NEW cause \in {UnknownCause, Manual, Contract}, t.cause = cause, NEW n \in Referred(cause)
       PROVE  transitions[n].ref # t.ref
  <2>1. CASE cause = UnknownCause
    <3>1. n # l
      <4>1. UnknownCause # Manual BY DEF UnknownCause, Manual
      <4>2. LastTransition.cause # UnknownCause BY <1>10, <2>1, <4>1 DEF Linked
      <4> QED BY <1>1, <1>4, <2>1, <4>2
    <3>2. transitions[n].ref \in resolved BY <1>1, <2>1, <3>1 DEF References
    <3> QED BY <1>10, <2>1, <3>2
  <2>2. CASE cause = Manual BY <1>10, <2>2 DEF References
  <2>3. CASE cause = Contract BY <1>10, <2>3 DEF References
  <2> QED BY <2>1, <2>2, <2>3
<1>11. ASSUME NEW cause \in {UnknownCause, Manual, Contract},
              NEW n \in Referred(cause)', NEW m \in Referred(cause)', transitions'[n].ref = transitions'[m].ref
       PROVE  n = m
  <2>1. CASE n \in Referred(cause) /\ m \in Referred(cause)
    <3>1. transitions[n].ref = transitions[m].ref BY <1>4, <1>11, <2>1
    <3> QED BY <2>1, <3>1 DEF References
  <2>2. CASE n = l + 1 /\ m = l + 1 BY <2>2
  <2>3. CASE n = l + 1 /\ t.cause = cause /\ m \in Referred(cause) BY <1>2, <1>4, <1>10, <1>11, <2>3
  <2>4. CASE m = l + 1 /\ t.cause = cause /\ n \in Referred(cause) BY <1>2, <1>4, <1>10, <1>11, <2>4
  <2> QED BY <1>3, <2>1, <2>2, <2>3, <2>4
<1>12. References' BY <1>2, <1>6, <1>7, <1>8, <1>9, <1>11 DEF References
<1> QED BY <1>5, <1>12

\* No transition, and what was referred to stays what it was.
LEMMA StoryKept ==
  ASSUME History, UNCHANGED <<transitions, recovered>>, progress'.status = progress.status,
         resolved \subseteq resolved', clock \in Nat, clock' \in Nat, clock <= clock',
         \A e \in Unknowns : e \in Unknowns' /\ evidence'[e].at = evidence[e].at,
         progress.status # "canceled" => Present'
  PROVE  StoryType' /\ (progress'.status # "canceled" => Story')
<1>1. StoryType'
  <2>1. LastTransition' = LastTransition /\ LastTransition.at \in Nat BY LastAt DEF LastTransition, History
  <2> QED BY <2>1 DEF History, StoryType
<1>2. ASSUME progress.status # "canceled" PROVE Chain' /\ References'
  <2>1. Chain /\ References BY <1>2 DEF History, Story
  <2>2. Chain' BY <2>1 DEF Chain, Linked
  <2>3. \A cause : Referred(cause)' = Referred(cause) BY DEF Referred
  <2>4. References' BY <2>1, <2>3 DEF References
  <2> QED BY <2>2, <2>4
<1> QED BY <1>1, <1>2 DEF Story

\* Nothing that the present is about moves.
LEMMA StorySame ==
  ASSUME History, UNCHANGED <<transitions, recovered, resolved, ledger, evidence>>,
         progress'.status = progress.status, progress'.unresolved = progress.unresolved,
         clock \in Nat, clock' \in Nat, clock <= clock'
  PROVE  StoryType' /\ (progress'.status # "canceled" => Story')
<1>1. Present => Present'
  <2>1. LastTransition' = LastTransition BY DEF LastTransition
  <2>2. KindOf(LastTransition.ref)' = KindOf(LastTransition.ref) BY <2>1 DEF KindOf
  <2> QED BY <2>1, <2>2 DEF Present
<1>2. Unknowns' = Unknowns BY DEF Unknowns
<1> QED BY <1>1, <1>2, StoryKept DEF History, Story

\* A worker that holds a result held the same before.
StillReplied(w) ==
  pc'[w] = "replied" => pc[w] = "replied" /\ held'[w] = held[w] /\ reply'[w] = reply[w]

\* What it holds was read now, for a claim of its own.
FreshReply(w) == reply'[w].at = clock'

FreshScan == scan'.version = version' /\ scan'.at = clock'

\* A step that reads the clock but leaves the rows alone.
LEMMA TimesLocal ==
  ASSUME Inv, StoryType, TimesInv, UNCHANGED <<transitions, version, ledger, claims, receipt, evidence>>,
         clock' \in Nat, clock <= clock',
         \A w \in Workers : StillReplied(w) \/ FreshReply(w),
         scan' = scan \/ scan' = NoWork \/ FreshScan
  PROVE  TimesInv'
<1>0. /\ clock \in Nat /\ version \in Nat /\ evidence \in [Executions -> Records]
      /\ receipt \in [Executions -> Records] /\ ScanInv
  BY DEF Inv, DataInv, DataType, WorldInv, WorldType
<1>1. LastTransition' = LastTransition /\ LastTransition.at \in Nat /\ LastTransition.at <= clock'
  BY <1>0, LastAt DEF LastTransition, StoryType
<1>2. \A e \in Executions : evidence[e].at \in Nat /\ receipt[e].at \in Nat BY <1>0 DEF Records
<1>3. \A e \in Executions : evidence'[e].at <= clock' /\ receipt'[e].at <= clock'
  BY <1>0, <1>2 DEF TimesInv
<1>4. \A e \in Executions : HasReceipt(e)' =>
        e[2] <= Row(e[1])' /\ (Owns(e)' => LastTransition'.at <= receipt'[e].at)
  BY <1>1 DEF TimesInv, HasReceipt, Owns, Row
<1>5. ASSUME NEW w \in Workers, pc'[w] = "replied"
      PROVE  reply'[w].at <= clock' /\ (Owns(held[w])' => LastTransition'.at <= reply'[w].at)
  <2>1. CASE StillReplied(w)
    <3>1. /\ pc[w] = "replied" /\ held'[w] = held[w] /\ reply'[w] = reply[w]
      BY <1>5, <2>1 DEF StillReplied
    <3>2. reply[w].at \in Nat BY <3>1 DEF Inv, WorldInv, WorkerInv
    <3>3. reply[w].at <= clock /\ (Owns(held[w]) => LastTransition.at <= reply[w].at)
      BY <3>1 DEF TimesInv
    <3>4. Owns(held[w])' <=> Owns(held[w]) BY <3>1 DEF Owns
    <3> QED BY <1>0, <1>1, <3>1, <3>2, <3>3, <3>4
  <2>2. CASE FreshReply(w) BY <1>1, <2>2 DEF FreshReply
  <2> QED BY <1>5, <2>1, <2>2
<1>6. ASSUME scan' # NoWork
      PROVE  /\ scan'.version \in Nat /\ scan'.version <= version' /\ scan'.at <= clock'
             /\ scan'.version = version' => LastTransition'.at <= scan'.at
  <2>1. CASE scan' = scan
    <3>1. /\ scan.version \in Nat /\ scan.version <= version /\ scan.at <= clock /\ scan.at \in Nat
          /\ scan.version = version => LastTransition.at <= scan.at
      BY <1>0, <1>6, <2>1 DEF TimesInv, ScanInv
    <3> QED BY <1>0, <1>1, <2>1, <3>1
  <2>2. CASE FreshScan BY <1>0, <1>1, <2>2 DEF FreshScan
  <2> QED BY <1>6, <2>1, <2>2
<1> QED BY <1>3, <1>4, <1>5, <1>6 DEF TimesInv

\* A step that makes a new version: a claim that is left was there before, and
\* then there is no transition.
LEMMA TimesBump ==
  ASSUME Inv, StoryType, TimesInv, version' = version + 1, UNCHANGED receipt,
         clock' \in Nat, clock <= clock',
         \A w \in Workers : StillReplied(w),
         scan' = scan \/ scan' = NoWork,
         \A e \in Executions : evidence'[e].at <= clock',
         \A s \in Slots : Row(s)' \in Nat /\ Row(s) <= Row(s)',
         \A e \in Executions : e[2] <= Row(e[1]) /\ Owns(e)' => Owns(e) /\ UNCHANGED transitions
  PROVE  TimesInv'
<1>0. /\ clock \in Nat /\ version \in Nat /\ receipt \in [Executions -> Records] /\ ScanInv
      /\ DataType /\ AuthorizedInv
  BY DEF Inv, DataInv, DataType, WorldInv, WorldType
<1>1. \A e \in Executions : receipt[e].at \in Nat /\ receipt'[e] = receipt[e]
  BY <1>0 DEF Records
<1>2. \A e \in Executions : receipt'[e].at <= clock' BY <1>0, <1>1 DEF TimesInv
<1>3. ASSUME NEW e \in Executions, HasReceipt(e)'
      PROVE  e[2] <= Row(e[1])' /\ (Owns(e)' => LastTransition'.at <= receipt'[e].at)
  <2>1. HasReceipt(e) BY <1>1, <1>3 DEF HasReceipt
  <2>2. e[2] <= Row(e[1]) /\ (Owns(e) => LastTransition.at <= receipt[e].at) BY <2>1 DEF TimesInv
  <2>3. e[1] \in Slots /\ e[2] \in Nat BY ExecutionAt
  <2>4. Row(e[1]) \in Nat BY <1>0, <2>3, RowAt
  <2>5. e[2] <= Row(e[1])' BY <2>2, <2>3, <2>4
  <2>6. ASSUME Owns(e)' PROVE LastTransition'.at <= receipt'[e].at
    <3>1. Owns(e) /\ UNCHANGED transitions BY <2>2, <2>6
    <3>2. LastTransition' = LastTransition BY <3>1 DEF LastTransition
    <3> QED BY <1>1, <2>2, <3>1, <3>2
  <2> QED BY <2>5, <2>6
<1>4. ASSUME NEW w \in Workers, pc'[w] = "replied"
      PROVE  reply'[w].at <= clock' /\ (Owns(held[w])' => LastTransition'.at <= reply'[w].at)
  <2>1. pc[w] = "replied" /\ held'[w] = held[w] /\ reply'[w] = reply[w] BY <1>4 DEF StillReplied
  <2>2. pc[w] \in Busy BY <2>1 DEF Busy
  <2>3. PICK e \in Executions : e = held[w] /\ e[2] <= Row(e[1]) BY <2>2, BusyAt
  <2>4. reply[w].at \in Nat BY <2>1 DEF Inv, WorldInv, WorkerInv
  <2>5. reply[w].at <= clock /\ (Owns(e) => LastTransition.at <= reply[w].at) BY <2>1, <2>3 DEF TimesInv
  <2>6. ASSUME Owns(e)' PROVE LastTransition'.at <= reply'[w].at
    <3>1. Owns(e) /\ UNCHANGED transitions BY <2>3, <2>6
    <3>2. LastTransition' = LastTransition BY <3>1 DEF LastTransition
    <3> QED BY <2>1, <2>5, <3>1, <3>2
  <2>7. Owns(held[w])' <=> Owns(e)' BY <2>1, <2>3 DEF Owns
  <2> QED BY <1>0, <2>1, <2>4, <2>5, <2>6, <2>7
<1>5. ASSUME scan' # NoWork
      PROVE  scan'.version \in Nat /\ scan'.version < version' /\ scan'.at <= clock'
  <2>1. scan' = scan BY <1>5
  <2>2. scan.version \in Nat /\ scan.version <= version /\ scan.at <= clock /\ scan.at \in Nat
    BY <1>0, <1>5, <2>1 DEF TimesInv, ScanInv
  <2> QED BY <1>0, <2>1, <2>2
<1>6. scan' # NoWork =>
        /\ scan'.version \in Nat /\ scan'.version <= version' /\ scan'.at <= clock'
        /\ scan'.version = version' => LastTransition'.at <= scan'.at
  BY <1>0, <1>5
<1> QED BY <1>2, <1>3, <1>4, <1>6 DEF TimesInv

LEMMA QuietStep ==
  ASSUME Inv, History, UNCHANGED audit, UNCHANGED <<ledger, claims, receipt, evidence>>,
         clock' \in Nat, clock <= clock', \A w \in Workers : StillReplied(w) \/ FreshReply(w),
         scan' = scan \/ scan' = NoWork \/ FreshScan
  PROVE  History'
<1>1. UNCHANGED <<progress, resolved, recovered, transitions, version>> BY DEF audit
<1>2. clock \in Nat BY DEF Inv, WorldInv, WorldType
<1>3. StoryType' /\ (progress'.status # "canceled" => Story') BY <1>1, <1>2, StorySame
<1>4. TimesInv' BY <1>1, TimesLocal DEF History
<1> QED BY <1>1, <1>3, <1>4 DEF History, PreflightInv

LEMMA IdleReplied ==
  ASSUME Inv, NEW w \in Workers, Idle(w)
  PROVE  \A v \in Workers : StillReplied(v)
<1>1. pc'[w] = "idle" /\ \A v \in Workers : v # w => Kept(v) BY IdleAt DEF Inv
<1> QED BY <1>1 DEF StillReplied, Kept

\* A worker that moves to another step than that.
LEMMA MoveReplied ==
  ASSUME Inv, NEW w \in Workers, NEW to, to # "replied", pc' = [pc EXCEPT ![w] = to],
         \A v \in Workers : v # w => held'[v] = held[v], UNCHANGED reply
  PROVE  \A v \in Workers : StillReplied(v)
<1>1. pc \in [Workers -> WorkerSteps] BY DEF Inv, WorldInv, WorldType
<1>2. pc'[w] = to /\ \A v \in Workers : v # w => pc'[v] = pc[v] BY <1>1
<1> QED BY <1>2 DEF StillReplied

LEMMA WorkerHistory ==
  ASSUME Inv, History, NEW w \in Workers,
         Plan(w) \/ DispatchConflict(w) \/ Handoff(w) \/ Invoke(w) \/ WorkerYields(w) \/ Stop(w)
  PROVE  History'
<1>1. UNCHANGED audit /\ UNCHANGED rows /\ UNCHANGED <<clock, scan>>
  BY DEF Plan, DispatchConflict, Handoff, Invoke, WorkerYields, Stop
<1>2. UNCHANGED <<ledger, claims, receipt, evidence>> BY <1>1 DEF rows
<1>3. clock \in Nat /\ HeldOK BY DEF Inv, WorldInv, WorldType
<1>4. CASE Idle(w) BY <1>1, <1>2, <1>3, <1>4, IdleReplied, QuietStep
<1>5. CASE \E to \in {"planned", "cleared", "waiting"} : pc' = [pc EXCEPT ![w] = to]
  <2>1. PICK to \in {"planned", "cleared", "waiting"} : pc' = [pc EXCEPT ![w] = to] BY <1>5
  <2>2. CASE Idle(w) BY <1>4, <2>2
  <2>3. CASE ~Idle(w)
    <3>1. UNCHANGED reply BY <2>3 DEF Plan, DispatchConflict, Handoff, Invoke, WorkerYields, Stop
    <3>2. \A v \in Workers : v # w => held'[v] = held[v]
      BY <1>3, <2>3 DEF Plan, DispatchConflict, Handoff, Invoke, WorkerYields, Stop, HeldOK
    <3>3. \A v \in Workers : StillReplied(v) BY <2>1, <3>1, <3>2, MoveReplied
    <3> QED BY <1>1, <1>2, <1>3, <3>3, QuietStep
  <2> QED BY <2>2, <2>3
<1> QED BY <1>4, <1>5 DEF Plan, DispatchConflict, Handoff, Invoke, WorkerYields, Stop

LEMMA ReplyHistory ==
  ASSUME Inv, History, NEW w \in Workers, NEW outcome, Reply(w, outcome)
  PROVE  History'
<1>1. /\ UNCHANGED audit /\ UNCHANGED rows /\ clock' = clock + 1 /\ UNCHANGED <<scan, held>>
      /\ pc' = [pc EXCEPT ![w] = "replied"]
  BY DEF Reply
<1>2. UNCHANGED <<ledger, claims, receipt, evidence>> BY <1>1 DEF rows
<1>3. clock \in Nat /\ pc \in [Workers -> WorkerSteps] /\ DOMAIN reply = Workers
  BY DEF Inv, WorldInv, WorldType, HeldOK
<1>4. PICK r : r.at = clock + 1 /\ reply' = [reply EXCEPT ![w] = r]
  <2>1. PICK r : r = [outcome |-> outcome, at |-> clock + 1, timely |-> Owns(held[w]) /\ lease[held[w][1]]]
    OBVIOUS
  <2>2. reply' = [reply EXCEPT ![w] = r] BY <2>1, Zenon DEF Reply
  <2>3. r.at = clock + 1 BY <2>1
  <2> QED BY <2>2, <2>3
<1>5. reply'[w].at = clock' /\ \A v \in Workers : v # w => reply'[v] = reply[v] /\ pc'[v] = pc[v]
  BY <1>1, <1>3, <1>4
<1>6. \A v \in Workers : StillReplied(v) \/ FreshReply(v) BY <1>1, <1>5 DEF StillReplied, FreshReply
<1> QED BY <1>1, <1>2, <1>3, <1>6, QuietStep

LEMMA ScannerHistory ==
  ASSUME Inv, History, (\E s \in Slots : PlanExpiry(s)) \/ ExpiryConflict
  PROVE  History'
<1>0. clock \in Nat BY DEF Inv, WorldInv, WorldType
<1>1. UNCHANGED audit /\ UNCHANGED rows /\ UNCHANGED local BY DEF PlanExpiry, ExpiryConflict
<1>2. UNCHANGED <<ledger, claims, receipt, evidence>> /\ UNCHANGED <<pc, held, reply, version>>
  BY <1>1 DEF rows, local, audit
<1>3. \A w \in Workers : StillReplied(w) BY <1>2 DEF StillReplied
<1>4. CASE \E s \in Slots : PlanExpiry(s)
  <2>1. PICK e : scan' = ExpiryPlan(e) /\ clock' = clock + 1 BY <1>4 DEF PlanExpiry
  <2>2. FreshScan BY <1>2, <2>1 DEF FreshScan, ExpiryPlan
  <2> QED BY <1>0, <1>1, <1>2, <1>3, <2>1, <2>2, QuietStep
<1>5. CASE ExpiryConflict
  <2>1. scan' = NoWork /\ UNCHANGED clock BY <1>5 DEF ExpiryConflict
  <2> QED BY <1>0, <1>1, <1>2, <1>3, <2>1, QuietStep
<1> QED BY <1>4, <1>5

LEMMA LeaseHistory ==
  ASSUME Inv, History, NEW s \in Slots, LeaseRunsOut(s)
  PROVE  History'
<1>1. /\ UNCHANGED audit /\ UNCHANGED <<ledger, claims, receipt, evidence>>
      /\ UNCHANGED local /\ UNCHANGED <<clock, scan>>
  BY DEF LeaseRunsOut
<1>2. \A w \in Workers : StillReplied(w) BY <1>1 DEF StillReplied, local
<1>3. clock \in Nat BY DEF Inv, WorldInv, WorldType
<1> QED BY <1>1, <1>2, <1>3, QuietStep

\* A response is saved under the claim it was read for.
LEMMA SaveHistory ==
  ASSUME Inv, History, NEW w \in Workers, Save(w)
  PROVE  History'
<1>0. /\ clock \in Nat /\ pc \in [Workers -> WorkerSteps] /\ receipt \in [Executions -> Records]
  BY DEF Inv, DataInv, DataType, WorldInv, WorldType
<1>1. /\ pc[w] = "replied" /\ UNCHANGED audit /\ UNCHANGED <<ledger, claims, evidence>>
      /\ UNCHANGED <<clock, scan>>
  BY DEF Save
<1>2. UNCHANGED <<progress, resolved, recovered, transitions, version>> BY <1>1 DEF audit
<1>3. CASE ~MaySave(w)
  <2>1. Idle(w) /\ UNCHANGED receipt BY <1>3 DEF Save
  <2> QED BY <1>0, <1>1, <2>1, IdleReplied, QuietStep
<1>4. CASE MaySave(w)
  <2>1. pc[w] \in Busy BY <1>1 DEF Busy
  <2>2. PICK e \in Executions : e = held[w] /\ e[2] <= Row(e[1]) BY <2>1, BusyAt
  <2>3. PICK r : r = [outcome |-> reply[w].outcome, at |-> reply[w].at] OBVIOUS
  <2>4. /\ receipt' = [receipt EXCEPT ![e] = r] /\ pc' = [pc EXCEPT ![w] = "saved"]
        /\ UNCHANGED <<held, reply>>
    BY <1>4, <2>2, <2>3 DEF Save
  <2>5. \A v \in Workers : StillReplied(v) BY <2>4, MoveReplied
  <2>6. /\ reply[w].at \in Nat /\ reply[w].at <= clock /\ (Owns(e) => LastTransition.at <= reply[w].at)
    BY <1>1, <2>2 DEF Inv, WorldInv, WorkerInv, History, TimesInv
  <2>7. receipt'[e].at = reply[w].at /\ \A f \in Executions : f # e => receipt'[f] = receipt[f]
    BY <1>0, <2>3, <2>4
  <2>8. LastTransition' = LastTransition BY <1>2 DEF LastTransition
  <2>9. TimesInv BY DEF History
  <2>10. \A f \in Executions : evidence'[f].at <= clock' /\ receipt'[f].at <= clock'
    BY <1>1, <2>6, <2>7, <2>9 DEF TimesInv
  <2>11. ASSUME NEW f \in Executions, HasReceipt(f)'
         PROVE  f[2] <= Row(f[1])' /\ (Owns(f)' => LastTransition'.at <= receipt'[f].at)
    <3>1. Row(f[1])' = Row(f[1]) /\ (Owns(f)' <=> Owns(f)) BY <1>1 DEF Row, Owns
    <3>2. CASE f = e BY <2>2, <2>6, <2>7, <2>8, <3>1, <3>2
    <3>3. CASE f # e
      <4>1. HasReceipt(f) BY <2>7, <2>11, <3>3 DEF HasReceipt
      <4> QED BY <2>7, <2>8, <2>9, <3>1, <3>3, <4>1 DEF TimesInv
    <3> QED BY <3>2, <3>3
  <2>12. ASSUME NEW v \in Workers, pc'[v] = "replied"
         PROVE  reply'[v].at <= clock' /\ (Owns(held[v])' => LastTransition'.at <= reply'[v].at)
    <3>1. pc[v] = "replied" BY <2>5, <2>12 DEF StillReplied
    <3>2. Owns(held[v])' <=> Owns(held[v]) BY <1>1, <2>4 DEF Owns
    <3> QED BY <1>1, <2>4, <2>8, <2>9, <3>1, <3>2 DEF TimesInv
  <2>13. scan' # NoWork =>
           /\ scan'.version \in Nat /\ scan'.version <= version' /\ scan'.at <= clock'
           /\ scan'.version = version' => LastTransition'.at <= scan'.at
    BY <1>1, <1>2, <2>8, <2>9 DEF TimesInv
  <2>14. TimesInv' BY <2>10, <2>11, <2>12, <2>13 DEF TimesInv
  <2>15. StoryType' /\ (progress'.status # "canceled" => Story') BY <1>0, <1>1, <1>2, StorySame
  <2> QED BY <1>2, <2>14, <2>15 DEF History, PreflightInv
<1> QED BY <1>3, <1>4

LEMMA DispatchHistory ==
  ASSUME Inv, Inv', History, NEW w \in Workers, Dispatch(w)
  PROVE  History'
<1>0. /\ clock \in Nat /\ DataType /\ AuthorizedInv /\ WorldInv /\ DOMAIN held = Workers
      /\ evidence \in [Executions -> Records] /\ claims \in [Slots -> Nat]
  BY DEF Inv, DataInv, DataType, WorldInv, WorldType, HeldOK
<1>1. pc[w] = "planned" /\ held[w][2] = version BY DEF Dispatch, SourceHolds
<1>2. PICK s \in Slots : s = held[w][1] BY <1>0, <1>1 DEF WorldInv, WorkerInv
<1>3. progress.status = "collecting"
  <2>1. PlanStands(s) BY <1>0, <1>1, <1>2 DEF WorldInv, WorkerInv
  <2> QED BY <2>1 DEF PlanStands, Collecting
<1>4. PICK k : /\ claims' = [claims EXCEPT ![s] = Row(s) + 1] /\ UNCHANGED <<receipt, evidence>>
               /\ ledger' = [ledger EXCEPT ![s] = Append(@, k)]
               /\ version' = version + 1 /\ pc' = [pc EXCEPT ![w] = "committed"]
               /\ held' = [held EXCEPT ![w] = <<s, Row(s) + 1>>]
               /\ UNCHANGED <<progress, resolved, recovered, transitions, clock, reply, scan>>
  BY <1>2 DEF Dispatch, Claim
<1>5. \A v \in Workers : StillReplied(v)
  <2>1. \A v \in Workers : v # w => held'[v] = held[v] BY <1>0, <1>4
  <2> QED BY <1>4, <2>1, MoveReplied
<1>6. \A t \in Slots : Row(t) \in Nat /\ Row(t)' \in Nat
  <2>1. DataType' /\ AuthorizedInv' BY DEF Inv, DataInv
  <2> QED BY <1>0, <2>1, RowAt DEF DataType, Row
<1>7. \A t \in Slots : Row(t) <= Row(t)'
  <2>1. PICK q : q = ledger[s] /\ ledger' = [ledger EXCEPT ![s] = Append(q, k)] BY <1>4
  <2>2. ledger' \in [Slots -> Seq(Kinds)] /\ ledger \in [Slots -> Seq(Kinds)] BY DEF Inv, DataInv, DataType
  <2>3. \A t \in Slots : t # s => ledger'[t] = ledger[t] BY <2>1, <2>2
  <2>4. ledger'[s] = Append(q, k) BY <2>1, <2>2
  <2>5. Len(ledger'[s]) = Len(ledger[s]) + 1
    <3>1. q \in Seq(Kinds) BY <2>1, <2>2
    <3>2. Len(Append(q, k)) = Len(q) + 1 BY <3>1
    <3> QED BY <2>1, <2>4, <3>2
  <2> QED BY <1>6, <2>3, <2>5 DEF Row
<1>8. ASSUME NEW e \in Executions, e[2] <= Row(e[1]), Owns(e)' PROVE Owns(e)
  <2>1. e[1] \in Slots /\ e[2] \in Nat BY ExecutionAt
  <2>2. CASE e[1] = s
    <3>1. e[2] = Row(s) + 1 BY <1>0, <1>4, <1>8, <2>2 DEF Owns
    <3> QED BY <1>6, <1>8, <2>2, <3>1
  <2>3. CASE e[1] # s BY <1>0, <1>4, <1>8, <2>1, <2>3 DEF Owns
  <2> QED BY <2>2, <2>3
<1>9. \A e \in Executions : evidence'[e].at <= clock' BY <1>4 DEF History, TimesInv
<1>10. TimesInv' BY <1>0, <1>4, <1>5, <1>6, <1>7, <1>8, <1>9, TimesBump DEF History
<1>11. Present' BY <1>3, <1>4 DEF Present
<1>12. Unknowns' = Unknowns BY <1>4 DEF Unknowns
<1>13. StoryType' /\ (progress'.status # "canceled" => Story')
  BY <1>0, <1>4, <1>11, <1>12, StoryKept
<1> QED BY <1>4, <1>10, <1>13 DEF History, PreflightInv

-----------------------------------------------------------------------------
(* The history under the operator's steps.                                  *)

LEMMA AuditTimes ==
  ASSUME Inv, History, UNCHANGED rows, UNCHANGED <<local, scan>>, version' = version + 1,
         clock' \in Nat, clock <= clock', UNCHANGED transitions \/ \A s \in Slots : claims[s] = 0
  PROVE  TimesInv'
<1>0. /\ clock \in Nat /\ DataType /\ AuthorizedInv /\ evidence \in [Executions -> Records]
  BY DEF Inv, DataInv, DataType, WorldInv, WorldType
<1>1. UNCHANGED <<ledger, claims, receipt, evidence>> BY DEF rows
<1>2. \A w \in Workers : StillReplied(w) BY DEF StillReplied, local
<1>3. \A s \in Slots : Row(s)' \in Nat /\ Row(s) <= Row(s)' BY <1>0, <1>1, RowAt DEF Row
<1>4. \A e \in Executions : evidence'[e].at <= clock'
  <2>1. \A e \in Executions : evidence[e].at \in Nat BY <1>0 DEF Records
  <2> QED BY <1>0, <1>1, <2>1 DEF History, TimesInv
<1>5. ASSUME NEW e \in Executions, Owns(e)' PROVE Owns(e) /\ UNCHANGED transitions
  <2>1. Owns(e) BY <1>1, <1>5 DEF Owns
  <2>2. claims[e[1]] # 0 /\ e[1] \in Slots BY <2>1, ExecutionAt DEF Owns
  <2> QED BY <2>1, <2>2
<1> QED BY <1>1, <1>2, <1>3, <1>4, <1>5, TimesBump DEF History

\* Only a blocked Run has a block for its last transition.
LEMMA NotBlocked ==
  ASSUME History, progress.status \notin {"blocked", "canceled"}
  PROVE  /\ LastTransition.cause \notin Blocks \cup DeadEnds
         /\ Chain /\ References /\ LastTransition.to = progress.status
<1>1. StoryType /\ Chain /\ References /\ LastTransition.to = progress.status
  BY DEF History, Story, StoryType
<1>2. Len(transitions) \in 1 .. Len(transitions) /\ LastTransition = transitions[Len(transitions)]
  BY <1>1, LastAt DEF StoryType
<1> QED BY <1>1, <1>2 DEF Chain

\* The transition leads to the status.
LEMMA NoteType ==
  ASSUME Inv, StoryType, NEW t \in Entries, transitions' = Append(transitions, t),
         t.to = progress'.status, t.at <= clock'
  PROVE  StoryType'
<1>1. /\ transitions' \in Seq(Entries) /\ Len(transitions') = Len(transitions) + 1 /\ LastTransition' = t
  BY NoteAt
<1>2. Len(transitions) \in Nat BY LastAt
<1> QED BY <1>1, <1>2 DEF StoryType

LEMMA CausesDiffer ==
  /\ Manual \notin Blocks \cup DeadEnds /\ Contract \notin Blocks \cup DeadEnds
  /\ Manual # Contract /\ UnknownCause # NotAllowed["semantic"] /\ Blocks \cap DeadEnds = {}
  /\ UnknownCause \in Blocks /\ NotAllowed["semantic"] \in Blocks
  /\ "preflight_failed" \in DeadEnds
  /\ "evaluation_started" \notin Blocks \cup DeadEnds \cup {Manual, Contract}
  /\ "candidate_evidence_complete" \notin Blocks \cup DeadEnds \cup {Manual, Contract}
  /\ "preflight_failed" \notin {Manual, Contract}
  BY DEF Manual, Contract, Blocks, DeadEnds, UnknownCause, NotAllowed, Exhausted

LEMMA StartHistory ==
  ASSUME Inv, History, Start
  PROVE  History'
<1>0. clock \in Nat /\ StatusInv /\ DataType BY DEF Inv, DataInv, WorldInv, WorldType
<1>1. PICK t : t = [to |-> "collecting", cause |-> "evaluation_started", ref |-> <<>>, at |-> clock]
  OBVIOUS
<1>2. /\ progress.status = "requested" /\ progress' = [progress EXCEPT !.status = "collecting"]
      /\ transitions' = Append(transitions, t) /\ version' = version + 1 /\ UNCHANGED rows
      /\ UNCHANGED <<resolved, recovered, clock, local, scan>>
  BY <1>1 DEF Start, Note
<1>3. /\ t \in Entries /\ t.to = "collecting" /\ t.cause = "evaluation_started" /\ t.at = clock
  BY <1>0, <1>1 DEF Entries, Statuses, Causes
<1>4. /\ progress'.status = "collecting" /\ progress'.unresolved = progress.unresolved
      /\ progress'.preflight = progress.preflight
  BY <1>0, <1>2 DEF DataType
<1>5. /\ LastTransition.cause \notin Blocks \cup DeadEnds /\ Chain /\ References
      /\ LastTransition.to = "requested"
  BY <1>2, NotBlocked
<1>6. StoryType /\ LastTransition.at <= clock BY DEF History, StoryType
<1>7. Linked(LastTransition, t) BY <1>3, <1>5, <1>6, CausesDiffer DEF Linked
<1>8. <<LastTransition.to, t.to, t.cause>> \in Moves BY <1>3, <1>5 DEF Moves
<1>9. \A e \in Unknowns : e \in Unknowns' /\ evidence'[e].at = evidence[e].at
  BY <1>2 DEF rows, Unknowns
<1>10. Chain' /\ References'
  <2>1. LastTransition.cause # UnknownCause /\ LastTransition.cause \notin DeadEnds BY <1>5, CausesDiffer
  <2>2. t.cause \notin Blocks \cup DeadEnds \cup {UnknownCause, Manual, Contract}
    BY <1>3, CausesDiffer
  <2>3. recovered' = recovered \cup (IF t.cause = Contract THEN {t.ref} ELSE {}) BY <1>2, <2>2
  <2> QED BY <1>2, <1>3, <1>5, <1>6, <1>7, <1>8, <1>9, <2>1, <2>2, <2>3, NoteStory
<1>11. Present' BY <1>4 DEF Present
<1>12. StoryType' BY <1>2, <1>3, <1>4, <1>6, NoteType, <1>0
<1>13. PreflightInv' BY <1>4 DEF History, PreflightInv
<1>14. \A s \in Slots : claims[s] = 0
  BY <1>0, <1>2 DEF StatusInv, History, PreflightInv
<1>15. TimesInv' BY <1>0, <1>2, <1>14, AuditTimes
<1> QED BY <1>10, <1>11, <1>12, <1>13, <1>15 DEF History, Story

LEMMA PreflightHistory ==
  ASSUME Inv, History, NEW passed \in BOOLEAN, Preflight(passed)
  PROVE  History'
<1>0. clock \in Nat /\ StatusInv /\ DataType BY DEF Inv, DataInv, WorldInv, WorldType
<1>1. /\ progress.status = "collecting" /\ progress.preflight = "pending" /\ version' = version + 1
      /\ UNCHANGED rows /\ UNCHANGED <<resolved, recovered, clock, local, scan>>
  BY DEF Preflight
<1>2. \A s \in Slots : claims[s] = 0 BY <1>0, <1>1 DEF StatusInv
<1>3. TimesInv' BY <1>0, <1>1, <1>2, AuditTimes
<1>4. progress.unresolved = 0 BY <1>1 DEF History, PreflightInv
<1>5. CASE passed
  <2>1. progress' = [progress EXCEPT !.preflight = "passed"] /\ UNCHANGED transitions
    BY <1>5 DEF Preflight
  <2>2. /\ progress'.status = progress.status /\ progress'.unresolved = progress.unresolved
        /\ progress'.preflight = "passed"
    BY <1>0, <2>1 DEF DataType
  <2>3. StoryType' /\ (progress'.status # "canceled" => Story')
    BY <1>0, <1>1, <2>1, <2>2, StorySame DEF rows
  <2>4. PreflightInv' BY <1>1, <2>2 DEF PreflightInv
  <2> QED BY <1>3, <2>3, <2>4 DEF History
<1>6. CASE ~passed
  <2>1. PICK t : t = [to |-> "blocked", cause |-> "preflight_failed", ref |-> <<>>, at |-> clock]
    OBVIOUS
  <2>2. /\ progress' = [progress EXCEPT !.preflight = "failed", !.status = "blocked"]
        /\ transitions' = Append(transitions, t)
    BY <1>6, <2>1 DEF Preflight, Note
  <2>3. /\ t \in Entries /\ t.to = "blocked" /\ t.cause = "preflight_failed" /\ t.at = clock
    BY <1>0, <2>1 DEF Entries, Statuses, Causes, DeadEnds
  <2>4. progress'.status = "blocked" /\ progress'.unresolved = 0 BY <1>0, <1>4, <2>2 DEF DataType
  <2>5. /\ LastTransition.cause \notin Blocks \cup DeadEnds /\ Chain /\ References
    BY <1>1, NotBlocked
  <2>6. StoryType /\ LastTransition.at <= clock BY DEF History, StoryType
  <2>7. Linked(LastTransition, t) BY <2>3, <2>5, <2>6, CausesDiffer DEF Linked
  <2>8. t.cause \in DeadEnds /\ t.cause \notin Blocks \cup {UnknownCause, Manual, Contract}
    BY <2>3, CausesDiffer
  <2>9. \A e \in Unknowns : e \in Unknowns' /\ evidence'[e].at = evidence[e].at
    BY <1>1 DEF rows, Unknowns
  <2>10. Chain' /\ References'
    <3>1. LastTransition.cause # UnknownCause /\ LastTransition.cause \notin DeadEnds
      BY <2>5, CausesDiffer
    <3>2. recovered' = recovered \cup (IF t.cause = Contract THEN {t.ref} ELSE {}) BY <1>1, <2>8
    <3> QED BY <1>1, <2>2, <2>3, <2>5, <2>6, <2>7, <2>8, <2>9, <3>1, <3>2, NoteStory
  <2>11. LastTransition' = t BY <2>2, <2>3, <2>6, NoteAt
  <2>12. Present'
    <3>1. t.cause \notin {UnknownCause, NotAllowed["semantic"]} BY <2>8, CausesDiffer
    <3> QED BY <2>4, <2>11, <3>1 DEF Present
  <2>13. StoryType' BY <1>0, <1>1, <2>2, <2>3, <2>4, <2>6, NoteType
  <2>14. PreflightInv' BY <2>4 DEF PreflightInv
  <2> QED BY <1>3, <2>10, <2>12, <2>13, <2>14 DEF History, Story
<1> QED BY <1>5, <1>6

LEMMA RequestCancelHistory ==
  ASSUME Inv, History, RequestCancel
  PROVE  History'
<1>0. clock \in Nat /\ DataType BY DEF Inv, DataInv, WorldInv, WorldType
<1>1. /\ progress' = [progress EXCEPT !.cancel = TRUE] /\ version' = version + 1
      /\ UNCHANGED rows /\ UNCHANGED <<resolved, recovered, transitions, clock, local, scan>>
  BY DEF RequestCancel
<1>2. /\ progress'.status = progress.status /\ progress'.unresolved = progress.unresolved
      /\ progress'.preflight = progress.preflight
  BY <1>0, <1>1 DEF DataType
<1>3. StoryType' /\ (progress'.status # "canceled" => Story')
  BY <1>0, <1>1, <1>2, StorySame DEF rows
<1>4. TimesInv' BY <1>0, <1>1, AuditTimes
<1>5. PreflightInv' BY <1>2 DEF History, PreflightInv
<1> QED BY <1>3, <1>4, <1>5 DEF History

LEMMA CanceledHistory ==
  ASSUME Inv, History, Canceled, ~Draining
  PROVE  History'
<1>0. clock \in Nat /\ DataType BY DEF Inv, DataInv, WorldInv, WorldType
<1>1. PICK t : t = [to |-> "canceled", cause |-> "operator_canceled", ref |-> <<>>, at |-> clock]
  OBVIOUS
<1>2. /\ progress' = [progress EXCEPT !.status = "canceled"]
      /\ transitions' = Append(transitions, t) /\ version' = version + 1
      /\ UNCHANGED rows /\ UNCHANGED <<resolved, recovered, clock, local, scan>>
  BY <1>1 DEF Canceled, Note
<1>3. t \in Entries /\ t.to = "canceled" /\ t.at = clock
  BY <1>0, <1>1 DEF Entries, Statuses, Causes
<1>4. /\ progress'.status = "canceled" /\ progress'.unresolved = progress.unresolved
      /\ progress'.preflight = progress.preflight
  BY <1>0, <1>2 DEF DataType
<1>5. StoryType' BY <1>0, <1>2, <1>3, <1>4, NoteType DEF History
<1>6. \A s \in Slots : claims[s] = 0 BY DEF Draining, Active
<1>7. TimesInv' BY <1>0, <1>2, <1>6, AuditTimes
<1>8. PreflightInv' BY <1>4 DEF History, PreflightInv
<1> QED BY <1>4, <1>5, <1>7, <1>8 DEF History

\* An unknown result is decided.
LEMMA ResolutionHistory ==
  ASSUME Inv, Inv', History, NEW e \in Executions, NEW status, NEW cause, Resolution(e, status, cause),
         \/ status = "canceled" /\ cause = "result_unknown_run_canceled"
         \/ status = "blocked" /\ progress.unresolved # 1
         \/ status = "collecting" /\ cause = Manual /\ progress.unresolved = 1
  PROVE  History'
<1>0. clock \in Nat /\ DataType /\ UnknownsCounted /\ UnknownsCounted'
  BY DEF Inv, DataInv, WorldInv, WorldType
<1>1. /\ progress.status = "blocked" /\ Active = {} /\ evidence[e].outcome = "unknown" /\ e \notin resolved
      /\ resolved' = resolved \cup {e} /\ clock' = clock + 1 /\ version' = version + 1
      /\ progress' = [progress EXCEPT !.status = status, !.unresolved = @ - 1]
      /\ UNCHANGED rows /\ UNCHANGED <<recovered, local, scan>>
  BY DEF Resolution
<1>2. UNCHANGED evidence /\ Unknowns' = Unknowns BY <1>1 DEF rows, Unknowns
<1>3. progress.unresolved \in Nat /\ progress.unresolved # 0
  <2>1. e \in Unknowns \ resolved BY <1>1 DEF Unknowns
  <2>2. Cardinality(Unknowns \ resolved) # 0 BY <2>1, UnknownsFinite, FS_EmptySet
  <2> QED BY <1>0, <2>2 DEF UnknownsCounted, DataType
<1>4. /\ progress'.status = status /\ progress'.unresolved = progress.unresolved - 1
      /\ progress'.preflight = progress.preflight
  BY <1>0, <1>1, <1>3 DEF DataType
<1>5. \A s \in Slots : claims[s] = 0 BY <1>1 DEF Active
<1>6. TimesInv' BY <1>0, <1>1, <1>5, AuditTimes
<1>7. PreflightInv' BY <1>3, <1>4 DEF History, PreflightInv
<1>8. /\ StoryType /\ Chain /\ References /\ LastTransition.cause = UnknownCause
      /\ LastTransition.to = "blocked" /\ LastTransition.at <= clock
  BY <1>1, <1>3 DEF History, Story, Present, StoryType
<1>9. CASE status = "blocked" /\ progress.unresolved # 1
  <2>1. UNCHANGED transitions BY <1>9 DEF Resolution
  <2>2. LastTransition' = LastTransition BY <2>1 DEF LastTransition
  <2>3. Present'
    <3>1. progress'.unresolved > 0 BY <1>3, <1>4, <1>9
    <3>2. UnknownCause # NotAllowed["semantic"] BY CausesDiffer
    <3> QED BY <1>4, <1>8, <1>9, <2>2, <3>1, <3>2 DEF Present
  <2>4. StoryType' /\ (progress'.status # "canceled" => Story')
    BY <1>0, <1>1, <1>2, <1>4, <1>9, <2>1, <2>3, StoryKept
  <2> QED BY <1>6, <1>7, <2>4 DEF History
<1>10. CASE status # "blocked"
  <2>1. PICK t : t = [to |-> status, cause |-> cause, ref |-> e, at |-> clock + 1] OBVIOUS
  <2>2. transitions' = Append(transitions, t) BY <1>10, <2>1 DEF Resolution, Note
  <2>3. /\ t \in Entries /\ t.to = status /\ t.cause = cause /\ t.ref = e /\ t.at = clock'
    BY <1>0, <1>1, <1>10, <2>1 DEF Entries, Statuses, Causes
  <2>4. StoryType'
    <3>1. t.at <= clock' BY <1>0, <1>1, <2>3
    <3> QED BY <1>4, <1>8, <2>2, <2>3, <3>1, NoteType
  <2>5. CASE status = "canceled" BY <1>4, <1>6, <1>7, <2>4, <2>5 DEF History
  <2>6. CASE status = "collecting" /\ cause = Manual /\ progress.unresolved = 1
    <3>1. Unknowns \subseteq resolved'
      <4>1. Cardinality(Unknowns \ resolved)' = 0 BY <1>0, <1>4, <2>6 DEF UnknownsCounted
      <4>2. (Unknowns \ resolved)' = Unknowns \ resolved' BY <1>2
      <4>3. IsFiniteSet(Unknowns \ resolved')
        <5>1. Unknowns \ resolved' \subseteq Executions BY DEF Unknowns
        <5> QED BY <5>1, ExecutionsFinite, FS_Subset
      <4>4. Unknowns \ resolved' = {} BY <4>1, <4>2, <4>3, FS_EmptySet
      <4> QED BY <4>4
    <3>2. LastTransition.ref \in Unknowns
      <4>1. Len(transitions) \in Referred(UnknownCause)
        BY <1>8, LastAt DEF Referred, StoryType
      <4> QED BY <1>8, <4>1, LastAt DEF References
    <3>3. Linked(LastTransition, t)
      <4>1. LastTransition.at <= t.at BY <1>0, <1>1, <1>8, <2>3, LastAt
      <4> QED BY <1>8, <2>3, <2>6, <4>1, CausesDiffer DEF Linked
    <3>4. <<LastTransition.to, t.to, t.cause>> \in Moves BY <1>8, <2>3, <2>6 DEF Moves, Manual
    <3>5. /\ t.cause \notin Blocks \cup DeadEnds /\ t.cause # UnknownCause /\ t.cause # Contract
          /\ LastTransition.cause \notin DeadEnds
      BY <1>8, <2>3, <2>6, CausesDiffer
    <3>6. recovered' = recovered \cup (IF t.cause = Contract THEN {t.ref} ELSE {}) BY <1>1, <3>5
    <3>7. \A f \in Unknowns : f \in Unknowns' /\ evidence'[f].at = evidence[f].at BY <1>2
    <3>8. resolved \subseteq resolved' /\ t.ref \in resolved' /\ t.ref \notin resolved BY <1>1, <2>3
    <3>9. Chain' /\ References'
      BY <1>8, <2>2, <2>3, <3>1, <3>2, <3>3, <3>4, <3>5, <3>6, <3>7, <3>8, NoteStory
    <3>10. Present' BY <1>4, <2>6 DEF Present
    <3> QED BY <1>6, <1>7, <2>4, <3>9, <3>10 DEF History, Story
  <2> QED BY <1>10, <2>5, <2>6
<1> QED BY <1>9, <1>10

LEMMA RecoverContractHistory ==
  ASSUME Inv, History, NEW e \in Executions, RecoverContract(e)
  PROVE  History'
<1>0. clock \in Nat /\ DataType /\ StatusInv BY DEF Inv, DataInv, WorldInv, WorldType
<1>1. PICK t : t = [to |-> "collecting", cause |-> Contract, ref |-> e, at |-> clock + 1] OBVIOUS
<1>2. /\ progress.status = "blocked" /\ LastTransition.cause = NotAllowed["semantic"]
      /\ LastTransition.ref = e /\ recovered' = recovered \cup {e}
      /\ progress' = [progress EXCEPT !.status = "collecting"]
      /\ transitions' = Append(transitions, t) /\ clock' = clock + 1 /\ version' = version + 1
      /\ UNCHANGED rows /\ UNCHANGED <<resolved, local, scan>>
  BY <1>1 DEF RecoverContract, Note, Contract
<1>3. /\ t \in Entries /\ t.to = "collecting" /\ t.cause = Contract /\ t.ref = e /\ t.at = clock + 1
  BY <1>0, <1>1 DEF Entries, Statuses, Causes
<1>4. /\ progress'.status = "collecting" /\ progress'.unresolved = progress.unresolved
      /\ progress'.preflight = progress.preflight
  BY <1>0, <1>2 DEF DataType
<1>5. /\ StoryType /\ Chain /\ References /\ LastTransition.ref \notin recovered
      /\ LastTransition.to = "blocked" /\ LastTransition.at <= clock
  BY <1>2 DEF History, Story, Present, StoryType
<1>6. Linked(LastTransition, t)
  <2>1. LastTransition.at <= t.at BY <1>0, <1>3, <1>5, LastAt
  <2> QED BY <1>2, <1>3, <2>1, CausesDiffer DEF Linked
<1>7. <<LastTransition.to, t.to, t.cause>> \in Moves BY <1>3, <1>5 DEF Moves, Contract
<1>8. /\ t.cause \notin Blocks \cup DeadEnds /\ t.cause # UnknownCause /\ t.cause # Manual
      /\ LastTransition.cause \notin DeadEnds /\ LastTransition.cause # UnknownCause
  BY <1>2, <1>3, CausesDiffer
<1>9. recovered' = recovered \cup (IF t.cause = Contract THEN {t.ref} ELSE {}) BY <1>2, <1>3
<1>10. \A f \in Unknowns : f \in Unknowns' /\ evidence'[f].at = evidence[f].at
  BY <1>2 DEF rows, Unknowns
<1>11. Chain' /\ References'
  BY <1>2, <1>3, <1>5, <1>6, <1>7, <1>8, <1>9, <1>10, NoteStory
<1>12. Present' BY <1>4 DEF Present
<1>13. StoryType'
  <2>1. t.at <= clock' BY <1>0, <1>2, <1>3
  <2> QED BY <1>2, <1>3, <1>4, <1>5, <2>1, NoteType
<1>14. PreflightInv' BY <1>4 DEF History, PreflightInv
<1>15. \A s \in Slots : claims[s] = 0 BY <1>0, <1>2 DEF StatusInv, Settled
<1>16. TimesInv' BY <1>0, <1>2, <1>15, AuditTimes
<1> QED BY <1>11, <1>12, <1>13, <1>14, <1>16 DEF History, Story

-----------------------------------------------------------------------------
(* The history under a completion.                                          *)

\* Why a completion moves the Run.
LEMMA TargetCause ==
  ASSUME NEW e, NEW ev, NEW u \in Nat, NEW target, target = CompletionTarget(e, ev, u)
  PROVE  /\ target.to = "awaiting_review" => target.cause = "candidate_evidence_complete"
         /\ target.to = "blocked" =>
              \/ u > 0 /\ target.cause = UnknownCause
              \/ /\ u = 0 /\ Blocked(Slots, ev) # {}
                 /\ target.cause = SlotAction(Min(Blocked(Slots, ev)), ev, recovered)
<1>1. PICK all \in BOOLEAN : all <=> \A s \in Slots : SlotAction(s, ev, recovered) = "done"
  OBVIOUS
<1>2. PICK some \in BOOLEAN : some <=> Blocked(Slots, ev) # {} OBVIOUS
<1>3. PICK none \in BOOLEAN : none <=> Ready(Slots, ev) = {} OBVIOUS
<1>4. PICK cause : cause = SlotAction(Min(Blocked(Slots, ev)), ev, recovered) OBVIOUS
<1>5. target = IF Active # {e[1]} THEN [to |-> "stays", cause |-> "stays"]
               ELSE IF u > 0 THEN [to |-> "blocked", cause |-> UnknownCause]
               ELSE IF progress.cancel THEN [to |-> "stays", cause |-> "stays"]
               ELSE IF all THEN [to |-> "awaiting_review", cause |-> "candidate_evidence_complete"]
               ELSE IF some /\ none THEN [to |-> "blocked", cause |-> cause]
               ELSE [to |-> "stays", cause |-> "stays"]
  BY <1>1, <1>2, <1>3, <1>4 DEF CompletionTarget
<1>6. /\ target.to = "awaiting_review" => target.cause = "candidate_evidence_complete"
      /\ target.to = "blocked" => \/ u > 0 /\ target.cause = UnknownCause
                                  \/ ~(u > 0) /\ some /\ target.cause = cause
  BY <1>5
<1>7. ~(u > 0) => u = 0 OBVIOUS
<1> QED BY <1>2, <1>4, <1>6, <1>7

\* What the planner says of a slot whose last call has evidence.
LEMMA BlockedAt ==
  ASSUME DataType, AuthorizedInv, NEW ev, NEW s \in Slots, s \in Blocked(Slots, ev),
         NEW f, f = <<s, Row(s)>>, ~(ev[f].outcome = "unknown" /\ f \notin resolved)
  PROVE  /\ f \in Executions
         /\ SlotAction(s, ev, recovered) \in {NotAllowed["semantic"]} \cup DeadEnds
         /\ SlotAction(s, ev, recovered) = NotAllowed["semantic"] => f \notin recovered
<1>1. PICK a : a = SlotAction(s, ev, recovered) OBVIOUS
<1>2. a \notin Kinds \cup {"done"} BY <1>1 DEF Blocked
<1>3. Row(s) \in Nat /\ Row(s) <= GenerationLimit + SemanticLimit BY RowAt
<1>4. Row(s) # 0 BY <1>1, <1>2 DEF SlotAction, Kinds
<1>5. f \in Executions BY <1>3, <1>4, ExecutionOf
<1>6. PICK k \in Kinds : k = KindOf(f)
  <2>1. ledger[s] \in Seq(Kinds) /\ Row(s) \in 1 .. Len(ledger[s]) BY <1>3, <1>4 DEF DataType, Row
  <2> QED BY <2>1 DEF KindOf
<1>7. a = IF ev[f].outcome = "succeeded"
          THEN IF k = "generation" THEN "semantic" ELSE "done"
          ELSE IF Used(s, k) >= Limit[k] THEN Exhausted[k]
          ELSE IF f \in recovered \cup resolved \/ ev[f].outcome = "retryable" THEN k
          ELSE NotAllowed[k]
  BY <1>1, <1>4, <1>6 DEF SlotAction
<1>8. /\ a \in {Exhausted[k], NotAllowed[k]}
      /\ a # Exhausted[k] => f \notin recovered
  BY <1>2, <1>7 DEF Kinds
<1>9. /\ Exhausted[k] \in DeadEnds /\ NotAllowed[k] \in DeadEnds \cup {NotAllowed["semantic"]}
      /\ Exhausted[k] # NotAllowed["semantic"]
  BY <1>6 DEF Exhausted, NotAllowed, DeadEnds, Kinds
<1> QED BY <1>1, <1>5, <1>8, <1>9

\* The execution that an unknown result blocks the Run for.
LEMMA BlockedUnknown ==
  ASSUME NEW ev \in [Executions -> Records], NEW g \in Executions,
         ev[g].outcome = "unknown", g \notin resolved
  PROVE  /\ BlockedExecution(ev, UnknownCause) \in Executions
         /\ ev[BlockedExecution(ev, UnknownCause)].outcome = "unknown"
         /\ BlockedExecution(ev, UnknownCause) \notin resolved
<1>1. PICK U : U = {f \in Executions : ev[f].outcome = "unknown" /\ f \notin resolved} OBVIOUS
<1>2. PICK S : S = {ev[f].at : f \in U} OBVIOUS
<1>3. S \subseteq Nat /\ S # {} BY <1>1, <1>2 DEF Records
<1>4. PICK x \in S : \A y \in S : x <= y BY <1>3, LeastAt
<1>5. PICK f \in U : x = ev[f].at BY <1>2, <1>4
<1>6. \A h \in U : ev[f].at <= ev[h].at BY <1>2, <1>4, <1>5
<1>7. \E h \in Executions :
        /\ ev[h].outcome = "unknown" /\ h \notin resolved
        /\ \A i \in Executions \ resolved : ev[i].outcome = "unknown" => ev[h].at <= ev[i].at
  BY <1>1, <1>5, <1>6
<1>8. BlockedExecution(ev, UnknownCause) =
        CHOOSE h \in Executions :
          /\ ev[h].outcome = "unknown" /\ h \notin resolved
          /\ \A i \in Executions \ resolved : ev[i].outcome = "unknown" => ev[h].at <= ev[i].at
  BY DEF BlockedExecution
<1> QED BY <1>7, <1>8

\* A slot that is done has a judged candidate.
LEMMA DoneAt ==
  ASSUME NEW s, NEW ev, NEW rec, SlotAction(s, ev, rec) = "done", Row(s) # 0, KindOf(<<s, Row(s)>>) \in Kinds
  PROVE  ev[<<s, Row(s)>>].outcome = "succeeded" /\ KindOf(<<s, Row(s)>>) = "semantic"
<1>1. PICK f : f = <<s, Row(s)>> OBVIOUS
<1>2. PICK k \in Kinds : k = KindOf(f) BY <1>1
<1>3. UnknownCause # "done" /\ Exhausted[k] # "done" /\ NotAllowed[k] # "done" /\ k # "done"
  BY <1>2 DEF UnknownCause, Exhausted, NotAllowed, Kinds
<1>4. ev[f].outcome = "succeeded" BY <1>1, <1>2, <1>3 DEF SlotAction
<1>5. k # "generation" BY <1>1, <1>2, <1>4 DEF SlotAction
<1> QED BY <1>1, <1>2, <1>4, <1>5 DEF Kinds

\* The transition of a completion that moves the Run.
LEMMA CompletionNote ==
  ASSUME Inv, Inv', History, NEW e \in Executions, NEW r \in Records, r.outcome # "none", Complete(e, r),
         Owns(e), progress.status = "collecting",
         LastTransition.at <= r.at, r.at <= clock, progress'.status # "collecting"
  PROVE  \E t \in Entries :
           /\ transitions' = Append(transitions, t) /\ t.to = progress'.status
           /\ LastTransition.at <= t.at /\ t.at <= clock
           /\ \/ /\ t.to = "awaiting_review" /\ t.cause = "candidate_evidence_complete" /\ t.ref = e
                 /\ evidence'[e].outcome = "succeeded" /\ evidence'[e].at = t.at
                 /\ KindOf(e) = "semantic"
              \/ /\ t.to = "blocked" /\ t.cause = UnknownCause /\ progress'.unresolved > 0
                 /\ t.ref \in Unknowns' /\ t.ref \notin resolved /\ evidence'[t.ref].at = t.at
              \/ /\ t.to = "blocked" /\ t.cause \in {NotAllowed["semantic"]} \cup DeadEnds
                 /\ progress'.unresolved = 0
                 /\ t.cause = NotAllowed["semantic"] => t.ref \notin recovered
<1>0. /\ DataType /\ AuthorizedInv /\ clock \in Nat /\ StoryType /\ TimesInv /\ UnknownsCounted'
      /\ evidence \in [Executions -> Records] /\ DataType'
  BY DEF Inv, DataInv, DataType, WorldInv, WorldType, History
<1>1. PICK u \in Nat : u = CountUnknown(r)
  <2>1. progress.unresolved \in Nat BY <1>0 DEF DataType
  <2>2. CountUnknown(r) \in Nat BY <2>1 DEF CountUnknown
  <2> QED BY <2>2
<1>2. PICK ev \in [Executions -> Records] : ev = With(e, r) BY <1>0 DEF With
<1>3. PICK target : target = CompletionTarget(e, ev, u) OBVIOUS
<1>4. PICK ref : ref = IF target.to = "blocked" THEN BlockedExecution(ev, target.cause) ELSE e OBVIOUS
<1>5. PICK at : at = IF target.to # "blocked" THEN Max({r.at, LastTransition.at})
                     ELSE IF target.cause = NotAllowed["semantic"]
                       THEN Max({r.at, ev[ref].at, LastTransition.at})
                     ELSE ev[ref].at
  OBVIOUS
<1>6. /\ target.to \in {"stays", "blocked", "awaiting_review"}
      /\ target.to = "awaiting_review" =>
           \A s \in Slots : SlotAction(s, ev, recovered) = "done"
  BY <1>1, <1>3, TargetAt, Zenon
<1>7. /\ evidence' = ev /\ UNCHANGED <<resolved, recovered, ledger>>
      /\ progress' = [progress EXCEPT !.unresolved = u,
                        !.status = IF target.to \notin {"stays", progress.status} THEN target.to ELSE @]
      /\ target.to \notin {"stays", progress.status} =>
           transitions' = Append(transitions, [to |-> target.to, cause |-> target.cause, ref |-> ref, at |-> at])
  BY <1>1, <1>2, <1>3, <1>4, <1>5 DEF Complete, Note
<1>8. progress'.unresolved = u /\ progress'.status = target.to /\ target.to \in {"blocked", "awaiting_review"}
  BY <1>0, <1>6, <1>7 DEF DataType
<1>9. PICK t : t = [to |-> target.to, cause |-> target.cause, ref |-> ref, at |-> at] OBVIOUS
<1>10. transitions' = Append(transitions, t) BY <1>7, <1>8, <1>9
<1>11. ~Predates(ev, target) BY <1>1, <1>2, <1>3 DEF Complete, Accepts
<1>12. t.to = target.to /\ t.cause = target.cause /\ t.ref = ref /\ t.at = at BY <1>9
<1>13. LastTransition.at \in Nat /\ r.at \in Nat /\ LastTransition.at <= clock
  BY <1>0, LastAt DEF Records, StoryType
<1>14. \A f \in Executions : ev[f].at \in Nat /\ ev[f].at <= clock
  <2>1. ev[e] = r /\ \A f \in Executions : f # e => ev[f] = evidence[f] BY <1>0, <1>2 DEF With
  <2> QED BY <1>0, <1>13, <2>1 DEF TimesInv, Records
<1>15. target.to = "blocked" =>
         \/ u > 0 /\ target.cause = UnknownCause
         \/ /\ u = 0 /\ Blocked(Slots, ev) # {}
            /\ target.cause = SlotAction(Min(Blocked(Slots, ev)), ev, recovered)
  BY <1>1, <1>3, TargetCause
<1>16. CASE target.to = "awaiting_review"
  <2>1. target.cause = "candidate_evidence_complete" BY <1>1, <1>3, <1>16, TargetCause
  <2>2. ref = e /\ at = Max({r.at, LastTransition.at}) BY <1>4, <1>5, <1>16
  <2>3. at = r.at BY <1>13, <2>2, MaxOfTwo
  <2>4. t \in Entries BY <1>9, <1>13, <1>16, <2>1, <2>2, <2>3 DEF Entries, Statuses, Causes
  <2>5. PICK s \in Slots : s = e[1] /\ e = <<s, Row(s)>> /\ Row(s) # 0
    <3>1. e[1] \in Slots /\ e[2] \in Nat /\ e[2] > 0 /\ e = <<e[1], e[2]>> BY ExecutionAt
    <3>2. Row(e[1]) = e[2] BY <1>0, <3>1 DEF Owns, DataType
    <3> QED BY <3>1, <3>2
  <2>6. KindOf(e) \in Kinds
    <3>1. ledger[s] \in Seq(Kinds) /\ Row(s) \in 1 .. Len(ledger[s]) BY <1>0, <2>5 DEF DataType, Row
    <3> QED BY <2>5, <3>1 DEF KindOf
  <2>7. SlotAction(s, ev, recovered) = "done" BY <1>6, <1>16
  <2>8. ev[e].outcome = "succeeded" /\ KindOf(e) = "semantic" BY <2>5, <2>6, <2>7, DoneAt
  <2>9. ev[e].at = r.at BY <1>0, <1>2 DEF With
  <2> QED BY <1>7, <1>8, <1>10, <1>12, <1>13, <1>16, <2>1, <2>2, <2>3, <2>4, <2>8, <2>9
<1>17. CASE target.to = "blocked" /\ u > 0 /\ target.cause = UnknownCause
  <2>1. PICK g \in Executions : ev[g].outcome = "unknown" /\ g \notin resolved
    <3>1. Cardinality((Unknowns \ resolved)') = u BY <1>0, <1>8 DEF UnknownsCounted
    <3>2. (Unknowns \ resolved)' # {} BY <1>17, <3>1, FS_EmptySet
    <3> QED BY <1>7, <3>2 DEF Unknowns
  <2>2. ref = BlockedExecution(ev, UnknownCause) BY <1>4, <1>17
  <2>3. ref \in Executions /\ ev[ref].outcome = "unknown" /\ ref \notin resolved
    BY <2>1, <2>2, BlockedUnknown
  <2>4. UnknownCause # NotAllowed["semantic"] BY CausesDiffer
  <2>5. at = ev[ref].at BY <1>5, <1>17, <2>4
  <2>6. at \in Nat /\ at <= clock /\ LastTransition.at <= at
    BY <1>11, <1>13, <1>14, <1>17, <2>2, <2>3, <2>4, <2>5 DEF Predates
  <2>7. t \in Entries BY <1>9, <1>17, <2>3, <2>6 DEF Entries, Statuses, Causes, Blocks
  <2>8. ref \in Unknowns' BY <1>7, <2>3 DEF Unknowns
  <2> QED BY <1>7, <1>8, <1>10, <1>12, <1>17, <2>3, <2>5, <2>6, <2>7, <2>8
<1>18. CASE /\ target.to = "blocked" /\ u = 0 /\ Blocked(Slots, ev) # {}
            /\ target.cause = SlotAction(Min(Blocked(Slots, ev)), ev, recovered)
  <2>1. PICK b : b = Min(Blocked(Slots, ev)) OBVIOUS
  <2>2. b \in Blocked(Slots, ev) /\ b \in Slots
    <3>1. Blocked(Slots, ev) \subseteq Nat /\ Blocked(Slots, ev) \subseteq Slots BY SlotsAt DEF Blocked
    <3> QED BY <1>18, <2>1, <3>1, MinAt
  <2>3. PICK f : f = <<b, Row(b)>> OBVIOUS
  <2>4. ~(ev[f].outcome = "unknown" /\ f \notin resolved)
    <3>1. Cardinality((Unknowns \ resolved)') = 0 BY <1>0, <1>8, <1>18 DEF UnknownsCounted
    <3>2. (Unknowns \ resolved)' \subseteq Executions BY DEF Unknowns
    <3>3. (Unknowns \ resolved)' = {} BY <3>1, <3>2, ExecutionsFinite, FS_Subset, FS_EmptySet
    <3>4. f \in Executions => ~(ev[f].outcome = "unknown" /\ f \notin resolved)
      BY <1>7, <3>3 DEF Unknowns
    <3>5. CASE Row(b) # 0
      <4>1. Row(b) \in Nat /\ Row(b) <= GenerationLimit + SemanticLimit BY <1>0, <2>2, RowAt
      <4> QED BY <2>2, <2>3, <3>4, <3>5, <4>1, ExecutionOf
    <3>6. CASE Row(b) = 0
      <4>1. SlotAction(b, ev, recovered) = "generation" BY <3>6 DEF SlotAction
      <4> QED BY <2>2, <4>1 DEF Blocked, Kinds
    <3> QED BY <3>5, <3>6
  <2>5. /\ f \in Executions /\ target.cause \in {NotAllowed["semantic"]} \cup DeadEnds
        /\ target.cause = NotAllowed["semantic"] => f \notin recovered
    BY <1>0, <1>18, <2>1, <2>2, <2>3, <2>4, BlockedAt
  <2>6. target.cause # UnknownCause BY <2>5, CausesDiffer
  <2>7. BlockedExecution(ev, target.cause) = f BY <2>1, <2>3, <2>6 DEF BlockedExecution
  <2>8. ref = f BY <1>4, <1>18, <2>7
  <2>9. at \in Nat /\ at <= clock /\ LastTransition.at <= at
    <3>1. CASE target.cause = NotAllowed["semantic"]
      <4>1. at = Max({r.at, ev[f].at, LastTransition.at}) BY <1>5, <1>18, <2>8, <3>1
      <4> QED BY <1>13, <1>14, <2>5, <4>1, MaxOfThree
    <3>2. CASE target.cause # NotAllowed["semantic"]
      <4>1. at = ev[f].at BY <1>5, <1>18, <2>8, <3>2
      <4> QED BY <1>11, <1>13, <1>14, <1>18, <2>5, <2>7, <3>2, <4>1 DEF Predates
    <3> QED BY <3>1, <3>2
  <2>10. t \in Entries BY <1>9, <1>18, <2>5, <2>8, <2>9 DEF Entries, Statuses, Causes, Blocks
  <2> QED BY <1>8, <1>10, <1>12, <1>18, <2>5, <2>8, <2>9, <2>10
<1> QED BY <1>8, <1>15, <1>16, <1>17, <1>18

\* A completion, whoever makes it, with a result read after the last transition.
LEMMA CompleteHistory ==
  ASSUME Inv, Inv', History, NEW e \in Executions, NEW r \in Records, r.outcome # "none", Complete(e, r),
         LastTransition.at <= r.at, r.at <= clock, UNCHANGED clock,
         \A w \in Workers : StillReplied(w), scan' = scan \/ scan' = NoWork
  PROVE  History'
<1>0. /\ DataType /\ AuthorizedInv /\ RowsInv /\ StatusInv /\ StatusInv' /\ clock \in Nat /\ StoryType
      /\ DataType' /\ evidence \in [Executions -> Records] /\ claims \in [Slots -> Nat]
  BY DEF Inv, DataInv, DataType, WorldInv, WorldType, History
<1>1. PICK s \in Slots, n \in Nat : e = <<s, n>> /\ e[1] = s /\ e[2] = n /\ n > 0 BY ExecutionAt
<1>2. Owns(e) /\ progress.status \in {"collecting", "blocked"} BY DEF Complete, Accepts
<1>3. evidence[e].outcome = "none" BY <1>0, <1>2 DEF RowsInv, RowInv
<1>4. claims[s] # 0 BY <1>1, <1>2 DEF Owns
<1>5. progress.status = "collecting" /\ progress.preflight = "passed"
  BY <1>0, <1>2, <1>4 DEF StatusInv, Settled
<1>6. /\ evidence' = [evidence EXCEPT ![e] = r] /\ claims' = [claims EXCEPT ![s] = 0]
      /\ version' = version + 1 /\ UNCHANGED <<resolved, recovered, ledger, receipt>>
  BY <1>1 DEF Complete, Release, With
<1>7. evidence'[e] = r /\ \A f \in Executions : f # e => evidence'[f] = evidence[f] BY <1>0, <1>6
<1>8. \A f \in Unknowns : f \in Unknowns' /\ evidence'[f].at = evidence[f].at
  BY <1>3, <1>7 DEF Unknowns
<1>9. progress'.status = progress.status => UNCHANGED transitions
  <2>1. PICK target : target = CompletionTarget(e, With(e, r), CountUnknown(r)) OBVIOUS
  <2>2. PICK u : u = CountUnknown(r) OBVIOUS
  <2>3. progress' = [progress EXCEPT !.unresolved = u,
                       !.status = IF target.to \notin {"stays", progress.status} THEN target.to ELSE @]
    BY <2>1, <2>2 DEF Complete
  <2>4. target.to \in {"stays", progress.status} => UNCHANGED transitions BY <2>1 DEF Complete
  <2>5. progress'.status = IF target.to \notin {"stays", progress.status} THEN target.to ELSE progress.status
    BY <1>0, <2>3 DEF DataType
  <2> QED BY <2>4, <2>5
<1>10. progress'.preflight = "passed"
  <2>1. PICK u, x : progress' = [progress EXCEPT !.unresolved = u, !.status = x] BY DEF Complete
  <2> QED BY <1>0, <1>5, <2>1 DEF DataType
<1>11. progress'.status \in {"collecting", "blocked", "awaiting_review"}
  <2>1. PICK target : target = CompletionTarget(e, With(e, r), CountUnknown(r)) OBVIOUS
  <2>2. PICK u : u = CountUnknown(r) OBVIOUS
  <2>3. u \in Nat
    <3>1. progress.unresolved \in Nat BY <1>0 DEF DataType
    <3> QED BY <2>2, <3>1 DEF CountUnknown
  <2>4. target.to \in {"stays", "blocked", "awaiting_review"} BY <2>1, <2>2, <2>3, TargetAt, Zenon
  <2>5. progress' = [progress EXCEPT !.unresolved = u,
                       !.status = IF target.to \notin {"stays", progress.status} THEN target.to ELSE @]
    BY <2>1, <2>2 DEF Complete
  <2> QED BY <1>0, <1>5, <2>4, <2>5 DEF DataType
<1>12. PreflightInv' BY <1>10, <1>11 DEF PreflightInv
<1>13. TimesInv'
  <2>1. \A t \in Slots : Row(t)' \in Nat /\ Row(t) <= Row(t)' BY <1>0, <1>6, RowAt DEF Row
  <2>2. \A f \in Executions : evidence'[f].at <= clock' BY <1>7 DEF History, TimesInv
  <2>3. ASSUME NEW f \in Executions, Owns(f)' PROVE Owns(f) /\ UNCHANGED transitions
    <3>1. f[1] \in Slots /\ f[2] \in Nat /\ f[2] > 0 BY ExecutionAt
    <3>2. claims'[f[1]] = f[2] BY <2>3 DEF Owns
    <3>3. f[1] # s BY <1>0, <1>6, <3>1, <3>2
    <3>4. Owns(f) BY <1>0, <1>6, <3>1, <3>2, <3>3 DEF Owns
    <3>5. progress'.status \notin Settled BY <1>0, <3>1, <3>2 DEF StatusInv
    <3>6. progress'.status = progress.status BY <1>5, <1>11, <3>5 DEF Settled
    <3> QED BY <1>9, <3>4, <3>6
  <2> QED BY <1>0, <1>6, <2>1, <2>2, <2>3, TimesBump DEF History
<1>14. CASE progress'.status = "collecting"
  <2>1. Present' BY <1>14 DEF Present
  <2>2. StoryType' /\ (progress'.status # "canceled" => Story')
    BY <1>0, <1>5, <1>6, <1>8, <1>9, <1>14, <2>1, StoryKept
  <2> QED BY <1>12, <1>13, <2>2 DEF History
<1>15. CASE progress'.status # "collecting"
  <2>1. PICK t \in Entries :
           /\ transitions' = Append(transitions, t) /\ t.to = progress'.status
           /\ LastTransition.at <= t.at /\ t.at <= clock
           /\ \/ /\ t.to = "awaiting_review" /\ t.cause = "candidate_evidence_complete" /\ t.ref = e
                 /\ evidence'[e].outcome = "succeeded" /\ evidence'[e].at = t.at
                 /\ KindOf(e) = "semantic"
              \/ /\ t.to = "blocked" /\ t.cause = UnknownCause /\ progress'.unresolved > 0
                 /\ t.ref \in Unknowns' /\ t.ref \notin resolved /\ evidence'[t.ref].at = t.at
              \/ /\ t.to = "blocked" /\ t.cause \in {NotAllowed["semantic"]} \cup DeadEnds
                 /\ progress'.unresolved = 0
                 /\ t.cause = NotAllowed["semantic"] => t.ref \notin recovered
    BY <1>2, <1>5, <1>15, CompletionNote
  <2>2. /\ LastTransition.cause \notin Blocks \cup DeadEnds /\ Chain /\ References
        /\ LastTransition.to = "collecting"
    BY <1>5, NotBlocked
  <2>3. t.cause \notin {Manual, Contract} BY <2>1, CausesDiffer
  <2>4. Linked(LastTransition, t) BY <2>1, <2>2, <2>3, CausesDiffer DEF Linked
  <2>5. <<LastTransition.to, t.to, t.cause>> \in Moves \/ t.cause \in DeadEnds BY <2>1, <2>2 DEF Moves
  <2>6. t.cause \in Blocks \cup DeadEnds => t.to = "blocked" BY <2>1, CausesDiffer
  <2>7. t.cause = UnknownCause =>
          t.ref \in Unknowns' /\ evidence'[t.ref].at = t.at /\ t.ref \notin resolved
    BY <2>1, CausesDiffer
  <2>8. recovered' = recovered \cup (IF t.cause = Contract THEN {t.ref} ELSE {}) BY <1>6, <2>3
  <2>9. LastTransition.cause # UnknownCause /\ LastTransition.cause \notin DeadEnds
    BY <2>2, CausesDiffer
  <2>10. Chain' /\ References'
    BY <1>0, <1>6, <1>8, <2>1, <2>2, <2>3, <2>4, <2>5, <2>6, <2>7, <2>8, <2>9, NoteStory
  <2>11. LastTransition' = t BY <1>0, <2>1, NoteAt
  <2>12. KindOf(e)' = KindOf(e) BY <1>6 DEF KindOf
  <2>13. Present'
    <3>1. progress'.status = "blocked" =>
            /\ t.cause = UnknownCause <=> progress'.unresolved > 0
            /\ t.cause = NotAllowed["semantic"] => t.ref \notin recovered'
      BY <1>6, <2>1, CausesDiffer
    <3>2. progress'.status = "awaiting_review" =>
            /\ t.cause = "candidate_evidence_complete" /\ t.ref = e /\ KindOf(e) = "semantic"
            /\ evidence'[e].outcome = "succeeded" /\ evidence'[e].at = t.at
      BY <2>1
    <3>3. t.ref = e => KindOf(LastTransition.ref)' = KindOf(e) BY <2>11, <2>12 DEF KindOf
    <3> QED BY <2>11, <3>1, <3>2, <3>3 DEF Present
  <2>14. StoryType' BY <1>0, <2>1, NoteType
  <2> QED BY <1>12, <1>13, <2>10, <2>13, <2>14 DEF History, Story
<1> QED BY <1>14, <1>15

LEMMA CompletionHistory ==
  ASSUME Inv, Inv', History,
         (\E w \in Workers : WorkerCompletes(w)) \/ (\E s \in Slots : RecoverResponse(s)) \/ Expire
  PROVE  History'
<1>0. clock \in Nat /\ receipt \in [Executions -> Records] /\ TimesInv
  BY DEF Inv, DataInv, DataType, WorldInv, WorldType, History
<1>1. ASSUME NEW e \in Executions, Complete(e, receipt[e]), HasReceipt(e), UNCHANGED clock,
             \A w \in Workers : StillReplied(w), scan' = scan \/ scan' = NoWork
      PROVE  History'
  <2>1. Owns(e) BY <1>1 DEF Complete, Accepts
  <2>2. PICK r \in Records : r = receipt[e] BY <1>0
  <2>3. LastTransition.at <= r.at /\ r.at <= clock BY <1>0, <1>1, <2>1, <2>2 DEF TimesInv
  <2>4. r.outcome # "none" BY <1>1, <2>2 DEF HasReceipt
  <2> QED BY <1>1, <2>2, <2>3, <2>4, CompleteHistory
<1>2. ASSUME NEW w \in Workers, WorkerCompletes(w) PROVE History'
  <2>1. /\ pc[w] = "saved" /\ Complete(held[w], receipt[held[w]]) /\ Idle(w) /\ UNCHANGED <<clock, scan>>
    BY <1>2 DEF WorkerCompletes
  <2>2. pc[w] \in Busy BY <2>1 DEF Busy
  <2>3. PICK e \in Executions : e = held[w] BY <2>2, BusyAt
  <2>4. HasReceipt(e) BY <2>1, <2>3 DEF Inv, WorldInv, WorkerInv
  <2> QED BY <1>1, <2>1, <2>3, <2>4, IdleReplied
<1>3. ASSUME NEW s \in Slots, RecoverResponse(s) PROVE History'
  <2>1. /\ claims[s] # 0 /\ HasReceipt(<<s, claims[s]>>)
        /\ Complete(<<s, claims[s]>>, receipt[<<s, claims[s]>>]) /\ UNCHANGED <<clock, local, scan>>
    BY <1>3 DEF RecoverResponse
  <2>2. PICK e \in Executions : e = <<s, claims[s]>> BY <2>1, ClaimAt
  <2>3. \A w \in Workers : StillReplied(w) BY <2>1 DEF StillReplied, local
  <2> QED BY <1>1, <2>1, <2>2, <2>3
<1>4. CASE Expire
  <2>1. /\ scan # NoWork /\ ExpiryHolds /\ Complete(scan.exec, [outcome |-> "unknown", at |-> scan.at])
        /\ scan' = NoWork /\ UNCHANGED <<clock, local>>
    BY <1>4 DEF Expire
  <2>2. PICK e \in Executions : e = scan.exec BY <2>1 DEF Inv, WorldInv, ScanInv
  <2>3. PICK r : r = [outcome |-> "unknown", at |-> scan.at] OBVIOUS
  <2>4. r \in Records /\ r.outcome = "unknown" /\ r.at = scan.at
    BY <2>1, <2>3 DEF Inv, WorldInv, ScanInv, Records, Outcomes
  <2>5. scan.version = version BY <2>1 DEF ExpiryHolds
  <2>6. LastTransition.at <= r.at /\ r.at <= clock BY <1>0, <2>1, <2>4, <2>5 DEF TimesInv
  <2>7. \A w \in Workers : StillReplied(w) BY <2>1 DEF StillReplied, local
  <2> QED BY <2>1, <2>2, <2>3, <2>4, <2>6, <2>7, CompleteHistory
<1> QED BY <1>2, <1>3, <1>4

LEMMA OperatorHistory ==
  ASSUME Inv, Inv', History, Operator \/ FinishCancellation
  PROVE  History'
<1>1. CASE Start BY <1>1, StartHistory
<1>2. CASE RequestCancel BY <1>2, RequestCancelHistory
<1>3. CASE Cancel BY <1>3, CanceledHistory DEF Cancel
<1>4. CASE FinishCancellation BY <1>4, CanceledHistory DEF FinishCancellation, MayFinish
<1>5. ASSUME NEW e \in Executions, AuthorizeReplacement(e) PROVE History'
  <2>1. CASE progress.unresolved = 1
    <3>1. Resolution(e, "collecting", Manual) BY <1>5, <2>1 DEF AuthorizeReplacement, Manual
    <3> QED BY <2>1, <3>1, ResolutionHistory
  <2>2. CASE progress.unresolved # 1
    <3>1. Resolution(e, "blocked", Manual) BY <1>5, <2>2 DEF AuthorizeReplacement, Manual
    <3> QED BY <2>2, <3>1, ResolutionHistory
  <2> QED BY <2>1, <2>2
<1>6. ASSUME NEW e \in Executions, CancelUnknown(e) PROVE History'
  <2>1. Resolution(e, "canceled", "result_unknown_run_canceled") BY <1>6 DEF CancelUnknown
  <2> QED BY <2>1, ResolutionHistory
<1>7. ASSUME NEW e \in Executions, RecoverContract(e) PROVE History'
  BY <1>7, RecoverContractHistory
<1> QED BY <1>1, <1>2, <1>3, <1>4, <1>5, <1>6, <1>7 DEF Operator

LEMMA NextHistory == Inv /\ Inv' /\ History /\ [Next]_vars => History'
<1> SUFFICES ASSUME Inv, Inv', History, [Next]_vars PROVE History' OBVIOUS
<1>1. ASSUME NEW w \in Workers, Step(w) \/ Stop(w) PROVE History'
  <2>1. CASE WorkerCompletes(w) BY <2>1, CompletionHistory
  <2>2. CASE Dispatch(w) BY <2>2, DispatchHistory
  <2>3. CASE Save(w) BY <2>3, SaveHistory
  <2>4. CASE \E outcome \in Outcomes : Reply(w, outcome) BY <2>4, ReplyHistory
  <2>5. CASE Plan(w) \/ DispatchConflict(w) \/ Handoff(w) \/ Invoke(w) \/ WorkerYields(w) \/ Stop(w)
    BY <2>5, WorkerHistory
  <2> QED BY <1>1, <2>1, <2>2, <2>3, <2>4, <2>5 DEF Step
<1>2. ASSUME NEW passed \in BOOLEAN, Preflight(passed) PROVE History' BY <1>2, PreflightHistory
<1>3. ASSUME NEW s \in Slots, LeaseRunsOut(s) PROVE History' BY <1>3, LeaseHistory
<1>4. CASE Recovery BY <1>4, CompletionHistory, ScannerHistory DEF Recovery
<1>5. CASE FinishCancellation \/ Operator BY <1>5, OperatorHistory
<1>6. CASE UNCHANGED vars
  <2>1. /\ UNCHANGED audit /\ UNCHANGED rows /\ UNCHANGED local /\ UNCHANGED <<clock, scan>>
    BY <1>6 DEF vars
  <2>2. UNCHANGED <<ledger, claims, receipt, evidence>> BY <2>1 DEF rows
  <2>3. \A w \in Workers : StillReplied(w) BY <2>1 DEF StillReplied, local
  <2>4. clock \in Nat BY DEF Inv, WorldInv, WorldType
  <2> QED BY <2>1, <2>2, <2>3, <2>4, QuietStep
<1> QED BY <1>1, <1>2, <1>3, <1>4, <1>5, <1>6 DEF Next

LEMMA InitHistory == Init => History
<1> SUFFICES ASSUME Init PROVE History OBVIOUS
<1>1. PICK t : t = [to |-> "requested", cause |-> "evaluation_requested", ref |-> <<>>, at |-> 0] OBVIOUS
<1>2. transitions = <<t>> BY <1>1 DEF Init
<1>3. t \in Entries /\ t.to = "requested" /\ t.cause = "evaluation_requested" /\ t.at = 0
  BY <1>1 DEF Entries, Statuses, Causes
<1>4. transitions \in Seq(Entries) /\ Len(transitions) = 1 /\ transitions[1] = t /\ LastTransition = t
  BY <1>2, <1>3 DEF LastTransition
<1>5. /\ progress.status = "requested" /\ progress.unresolved = 0 /\ progress.preflight = "pending"
      /\ clock = 0 /\ recovered = {} /\ scan = NoWork /\ pc = [w \in Workers |-> "idle"]
      /\ receipt = [e \in Executions |-> Nothing] /\ evidence = [e \in Executions |-> Nothing]
  BY DEF Init
<1>6. StoryType BY <1>3, <1>4, <1>5 DEF StoryType
<1>7. PreflightInv BY <1>5 DEF PreflightInv
<1>8. TimesInv BY <1>5 DEF TimesInv, HasReceipt, Nothing
<1>9. t.cause \notin Blocks \cup DeadEnds \cup {Manual, Contract}
  BY <1>3 DEF Blocks, DeadEnds, Manual, Contract, UnknownCause, NotAllowed, Exhausted
<1>10. Chain BY <1>3, <1>4, <1>9 DEF Chain
<1>11. Referred(UnknownCause) = {} /\ Referred(Manual) = {} /\ Referred(Contract) = {}
  BY <1>4, <1>9, CausesDiffer DEF Referred
<1>12. References BY <1>5, <1>11 DEF References
<1>13. Present BY <1>5 DEF Present
<1> QED BY <1>6, <1>7, <1>8, <1>10, <1>12, <1>13 DEF History, Story

-----------------------------------------------------------------------------
(* The audit of a Run under review.                                         *)

\* Each of S is referred to once by the transitions in A.
LEMMA OnceEach ==
  ASSUME NEW A, NEW S, IsFiniteSet(S), \A n \in A : transitions[n].ref \in S,
         \A n, m \in A : transitions[n].ref = transitions[m].ref => n = m,
         \A e \in S : \E n \in A : transitions[n].ref = e
  PROVE  /\ IsFiniteSet(A) /\ Cardinality(A) = Cardinality(S)
         /\ {transitions[n].ref : n \in A} = S
<1>1. PICK f : f = [n \in A |-> transitions[n].ref] OBVIOUS
<1>2. f \in [A -> S] BY <1>1
<1>3. f \in Injection(A, S) BY <1>1, <1>2 DEF Injection, IsInjective
<1>4. f \in Surjection(A, S) BY <1>1, <1>2 DEF Surjection
<1>5. IsFiniteSet(A) /\ Cardinality(A) = Cardinality(S) BY <1>3, <1>4, FS_Injection
<1>6. {transitions[n].ref : n \in A} = S OBVIOUS
<1> QED BY <1>5, <1>6

\* A set of positions and the positions after them.
LEMMA NextPositions ==
  ASSUME NEW A, NEW B, A \subseteq Int, B \subseteq Int, IsFiniteSet(A), \A n \in A : n + 1 \in B, \A m \in B : m - 1 \in A
  PROVE  IsFiniteSet(B) /\ Cardinality(B) = Cardinality(A)
<1>1. PICK f : f = [n \in A |-> n + 1] OBVIOUS
<1>2. f \in [A -> B] BY <1>1
<1>3. ASSUME NEW n \in A, NEW m \in A, f[n] = f[m] PROVE n = m BY <1>1, <1>3
<1>4. f \in Injection(A, B) BY <1>2, <1>3 DEF Injection, IsInjective
<1>5. ASSUME NEW m \in B PROVE \E n \in A : f[n] = m
  <2>1. m - 1 \in A /\ (m - 1) + 1 = m OBVIOUS
  <2>2. f[m - 1] = m BY <1>1, <2>1
  <2> QED BY <2>1, <2>2
<1>6. f \in Surjection(A, B) BY <1>2, <1>5 DEF Surjection
<1> QED BY <1>4, <1>6, FS_Surjection

LEMMA AuditPasses ==
  ASSUME Inv, History, progress.status = "awaiting_review", InOrder
  PROVE  ClosedInventory
<1>0. /\ DataType /\ AuthorizedInv /\ DecisionsInv /\ UnknownsCounted /\ ReviewInv
      /\ StoryType /\ Chain /\ References /\ Present
  BY DEF Inv, DataInv, History, Story
<1>1. PICK l \in Nat : l = Len(transitions) /\ l >= 1 /\ LastTransition = transitions[l]
  BY <1>0, LastAt DEF StoryType
<1>2. /\ LastTransition.cause = "candidate_evidence_complete"
      /\ KindOf(LastTransition.ref) = "semantic" /\ evidence[LastTransition.ref].outcome = "succeeded"
      /\ evidence[LastTransition.ref].at = LastTransition.at
  BY <1>0 DEF Present
<1>3. LastTransition.cause \notin DeadEnds \cup Blocks BY <1>2, CausesDiffer
<1>4. ASSUME NEW n \in 2 .. l
      PROVE  /\ Linked(transitions[n - 1], transitions[n])
             /\ <<transitions[n - 1].to, transitions[n].to, transitions[n].cause>> \in Moves
  <2>1. /\ Linked(transitions[n - 1], transitions[n])
        /\ \/ <<transitions[n - 1].to, transitions[n].to, transitions[n].cause>> \in Moves
           \/ n = l /\ transitions[n].cause \in DeadEnds
    BY <1>0, <1>1 DEF Chain
  <2> QED BY <1>1, <1>3, <2>1
<1>5. ASSUME NEW n \in 2 .. l, transitions[n].cause = UnknownCause
      PROVE  evidence[transitions[n].ref].at = transitions[n].at
  <2>1. n \in Referred(UnknownCause) BY <1>1, <1>5 DEF Referred
  <2> QED BY <1>0, <2>1 DEF References
<1>6. IsFiniteSet(Unknowns) /\ IsFiniteSet(recovered)
  <2>1. Unknowns \subseteq Executions /\ recovered \subseteq Executions BY <1>0 DEF Unknowns, DataType
  <2> QED BY <2>1, ExecutionsFinite, FS_Subset
<1>7. \A cause : Referred(cause) \subseteq Int /\ \A n \in Referred(cause) : n \in 1 .. l /\ transitions[n].cause = cause
  BY <1>1 DEF Referred
<1>8. \A cause : \A n \in 1 .. l : transitions[n].cause = cause => n \in Referred(cause)
  BY <1>1 DEF Referred
<1>9. resolved \subseteq Unknowns BY <1>0 DEF DecisionsInv, Unknowns, DataType
<1>10. Unknowns \subseteq resolved
  <2>1. Cardinality(Unknowns \ resolved) = 0 BY <1>0 DEF UnknownsCounted, ReviewInv
  <2>2. Unknowns \ resolved = {} BY <2>1, UnknownsFinite, FS_EmptySet
  <2> QED BY <2>2
<1>11. /\ IsFiniteSet(Referred(UnknownCause))
       /\ Cardinality(Referred(UnknownCause)) = Cardinality(Unknowns)
       /\ {transitions[n].ref : n \in Referred(UnknownCause)} = Unknowns
  <2>1. \A n \in Referred(UnknownCause) : transitions[n].ref \in Unknowns BY <1>0 DEF References
  <2>2. \A n, m \in Referred(UnknownCause) : transitions[n].ref = transitions[m].ref => n = m
    BY <1>0 DEF References
  <2>3. \A e \in Unknowns : \E n \in Referred(UnknownCause) : transitions[n].ref = e BY DEF InOrder
  <2> QED BY <1>6, <2>1, <2>2, <2>3, OnceEach
\* Each block but the last transition is followed by its resumption.
<1>12. ASSUME NEW c, NEW d, d # "evaluation_requested", LastTransition.cause # c,
              \A n \in 2 .. l : transitions[n].cause = d <=> transitions[n - 1].cause = c
       PROVE  /\ \A n \in Referred(c) : n + 1 \in Referred(d) /\ n + 1 \in 2 .. l
              /\ \A m \in Referred(d) : m - 1 \in Referred(c) /\ m \in 2 .. l
  <2>1. ASSUME NEW n \in Referred(c) PROVE n + 1 \in Referred(d) /\ n + 1 \in 2 .. l
    <3>1. n \in 1 .. l /\ n # l BY <1>1, <1>7, <1>12
    <3>2. n + 1 \in 2 .. l /\ (n + 1) - 1 = n /\ n + 1 \in 1 .. l BY <1>1, <3>1
    <3>3. transitions[n + 1].cause = d BY <1>7, <1>12, <3>2
    <3> QED BY <1>8, <3>2, <3>3
  <2>2. ASSUME NEW m \in Referred(d) PROVE m - 1 \in Referred(c) /\ m \in 2 .. l
    <3>1. m \in 1 .. l /\ m # 1 BY <1>0, <1>7, <1>12 DEF Chain
    <3>2. m \in 2 .. l /\ m - 1 \in 1 .. l BY <1>1, <3>1
    <3>3. transitions[m - 1].cause = c BY <1>7, <1>12, <3>2
    <3> QED BY <1>8, <3>2, <3>3
  <2> QED BY <2>1, <2>2
<1>13. Manual # "evaluation_requested" /\ Contract # "evaluation_requested" BY DEF Manual, Contract
<1>14. LastTransition.cause # UnknownCause /\ LastTransition.cause # NotAllowed["semantic"]
  BY <1>3, CausesDiffer
<1>15. /\ Cardinality(Referred(Manual)) = Cardinality(Unknowns)
       /\ {transitions[n].ref : n \in Referred(Manual)} = Unknowns
  <2>1. /\ \A n \in Referred(UnknownCause) : n + 1 \in Referred(Manual)
        /\ \A m \in Referred(Manual) : m - 1 \in Referred(UnknownCause)
    BY <1>4, <1>12, <1>13, <1>14 DEF Linked
  <2>2. /\ IsFiniteSet(Referred(Manual))
        /\ Cardinality(Referred(Manual)) = Cardinality(Referred(UnknownCause))
    BY <1>7, <1>11, <2>1, NextPositions
  <2>3. PICK f : f = [n \in Referred(Manual) |-> transitions[n].ref] OBVIOUS
  <2>4. \A n \in Referred(Manual) : transitions[n].ref \in Unknowns BY <1>0, <1>9 DEF References
  <2>5. \A n, m \in Referred(Manual) : transitions[n].ref = transitions[m].ref => n = m
    BY <1>0 DEF References
  <2>6. f \in Injection(Referred(Manual), Unknowns) BY <2>3, <2>4, <2>5 DEF Injection, IsInjective
  <2>7. f \in Surjection(Referred(Manual), Unknowns) BY <1>6, <1>11, <2>2, <2>6, FS_Injection
  <2>8. \A e \in Unknowns : \E n \in Referred(Manual) : transitions[n].ref = e
    BY <2>3, <2>7 DEF Surjection
  <2> QED BY <1>6, <2>4, <2>5, <2>8, OnceEach
<1>16. /\ IsFiniteSet(Referred(Contract)) /\ Cardinality(Referred(Contract)) = Cardinality(recovered)
       /\ {transitions[n].ref : n \in Referred(Contract)} = recovered
  <2>1. \A n \in Referred(Contract) : transitions[n].ref \in recovered BY <1>0 DEF References
  <2>2. \A n, m \in Referred(Contract) : transitions[n].ref = transitions[m].ref => n = m
    BY <1>0 DEF References
  <2>3. \A e \in recovered : \E n \in Referred(Contract) : transitions[n].ref = e BY <1>0 DEF References
  <2> QED BY <1>6, <2>1, <2>2, <2>3, OnceEach
<1>17. /\ Cardinality(Referred(NotAllowed["semantic"])) = Cardinality(recovered)
       /\ {transitions[n].ref : n \in Referred(NotAllowed["semantic"])} = recovered
  <2>0. PICK c : c = NotAllowed["semantic"] OBVIOUS
  <2>1. /\ \A n \in Referred(c) : n + 1 \in Referred(Contract) /\ n + 1 \in 2 .. l
        /\ \A m \in Referred(Contract) : m - 1 \in Referred(c) /\ m \in 2 .. l
    BY <1>4, <1>12, <1>13, <1>14, <2>0 DEF Linked
  <2>2. ASSUME NEW m \in Referred(Contract) PROVE transitions[m - 1].ref = transitions[m].ref
    <3>1. m \in 2 .. l /\ transitions[m].cause = Contract BY <1>7, <2>1
    <3>2. Linked(transitions[m - 1], transitions[m]) BY <1>4, <3>1
    <3> QED BY <3>1, <3>2 DEF Linked
  <2>3. ASSUME NEW n \in Referred(c) PROVE transitions[n].ref = transitions[n + 1].ref
    <3>1. n + 1 \in Referred(Contract) BY <2>1
    <3>2. (n + 1) - 1 = n BY <1>7
    <3> QED BY <2>2, <3>1, <3>2
  <2>4. \A n \in Referred(c) : transitions[n].ref \in recovered BY <1>0, <2>1, <2>3 DEF References
  <2>5. ASSUME NEW n \in Referred(c), NEW m \in Referred(c), transitions[n].ref = transitions[m].ref
        PROVE  n = m
    <3>1. transitions[n + 1].ref = transitions[m + 1].ref BY <2>3, <2>5
    <3>2. n + 1 = m + 1 BY <1>0, <2>1, <3>1 DEF References
    <3> QED BY <1>7, <3>2
  <2>6. ASSUME NEW e \in recovered PROVE \E n \in Referred(c) : transitions[n].ref = e
    <3>1. PICK m \in Referred(Contract) : transitions[m].ref = e BY <1>0 DEF References
    <3> QED BY <2>1, <2>2, <3>1
  <2>7. Cardinality(Referred(c)) = Cardinality(recovered) /\ {transitions[n].ref : n \in Referred(c)} = recovered
    BY <1>6, <2>4, <2>5, <2>6, OnceEach
  <2> QED BY <2>0, <2>7
<1>18. \A k \in Kinds : Total(k) <= RunLimit(k) BY <1>0, TotalBound
<1>19. \A e \in Recorded : evidence[e].at <= LastTransition.at BY DEF InOrder
<1>20. \A n \in 2 .. Len(transitions) :
         /\ transitions[n - 1].at <= transitions[n].at
         /\ <<transitions[n - 1].to, transitions[n].to, transitions[n].cause>> \in Moves
         /\ transitions[n].cause = UnknownCause => evidence[transitions[n].ref].at = transitions[n].at
  BY <1>1, <1>4, <1>5 DEF Linked
<1>21. Unknowns = resolved BY <1>9, <1>10
<1> QED BY <1>2, <1>11, <1>15, <1>16, <1>17, <1>18, <1>19, <1>20, <1>21, Zenon
    DEF ClosedInventory, Manual, Contract

LEMMA HistoryHolds == Spec => []History
<1>1. Init => History BY InitHistory
<1>2. Inv /\ Inv' /\ History /\ [Next]_vars => History' BY NextHistory
<1> QED BY <1>1, <1>2, InvHolds, PTL DEF Spec

\* A settled Run owns no live call, the open unknown results are counted,
\* and review starts on complete evidence.
LEMMA SettledAt ==
  ASSUME Inv
  PROVE  Drained /\ UnknownsCounted /\ EvidenceComplete
<1>0. /\ DataType /\ RowsInv /\ AuthorizedInv /\ StatusInv /\ ReviewInv /\ UnknownsCounted
  BY DEF Inv, DataInv
<1>1. ASSUME progress.status \in Settled
      PROVE  Active = {} /\ \A s \in Slots : \A n \in 1 .. Row(s) : <<s, n>> \in Recorded
  <2>1. \A s \in Slots : claims[s] = 0 BY <1>0, <1>1 DEF StatusInv
  <2>2. ASSUME NEW s \in Slots, NEW n \in 1 .. Row(s) PROVE <<s, n>> \in Recorded
    <3>1. Row(s) \in Nat /\ Row(s) <= GenerationLimit + SemanticLimit BY <1>0, RowAt
    <3>2. n \in Nat /\ n > 0 /\ n <= Row(s) /\ n <= GenerationLimit + SemanticLimit
      BY <3>1, CandidateAssumption
    <3>3. PICK e \in Executions : e = <<s, n>> /\ e[1] = s /\ e[2] = n BY <3>2, ExecutionOf
    <3>4. ~Owns(e) BY <2>1, <3>2, <3>3 DEF Owns
    <3>5. evidence[e].outcome # "none" BY <1>0, <3>2, <3>3, <3>4 DEF RowsInv, RowInv
    <3> QED BY <3>3, <3>5 DEF Recorded
  <2> QED BY <2>1, <2>2 DEF Active
<1>2. Drained BY <1>1 DEF Drained, Settled
<1>3. EvidenceComplete
  <2> SUFFICES ASSUME progress.status = "awaiting_review"
               PROVE  /\ \A s \in Slots : LET e == <<s, Row(s)>> IN
                           Row(s) > 0 /\ KindOf(e) = "semantic" /\ evidence[e].outcome = "succeeded"
                      /\ Unknowns \subseteq resolved /\ ~progress.cancel
    BY DEF EvidenceComplete
  <2>1. ASSUME NEW s \in Slots
        PROVE  /\ Row(s) > 0 /\ KindOf(<<s, Row(s)>>) = "semantic"
               /\ evidence[<<s, Row(s)>>].outcome = "succeeded"
    <3>1. SlotAction(s, evidence, recovered) = "done" BY <1>0 DEF ReviewInv
    <3>2. Row(s) \in Nat /\ Row(s) # 0 BY <1>0, <3>1, RowAt DEF SlotAction
    <3>3. PICK e : e = <<s, Row(s)>> OBVIOUS
    <3>4. KindOf(e) \in Kinds
      <4>1. ledger[s] \in Seq(Kinds) /\ Row(s) \in 1 .. Len(ledger[s]) BY <1>0, <3>2 DEF DataType, Row
      <4>2. KindOf(e) = ledger[s][Row(s)] BY <3>3 DEF KindOf
      <4> QED BY <4>1, <4>2
    <3>5. evidence[e].outcome = "succeeded"
      BY <3>1, <3>2, <3>3, <3>4 DEF SlotAction, Kinds, UnknownCause, Exhausted, NotAllowed
    <3>6. KindOf(e) # "generation" BY <3>1, <3>2, <3>3, <3>5 DEF SlotAction
    <3> QED BY <3>2, <3>3, <3>4, <3>5, <3>6 DEF Kinds
  <2>2. Unknowns \subseteq resolved
    <3>1. Cardinality(Unknowns \ resolved) = 0 BY <1>0 DEF ReviewInv, UnknownsCounted
    <3>2. Unknowns \ resolved = {} BY <3>1, UnknownsFinite, FS_EmptySet
    <3> QED BY <3>2
  <2> QED BY <1>0, <2>1, <2>2 DEF ReviewInv
<1> QED BY <1>0, <1>2, <1>3

-----------------------------------------------------------------------------
(* The calls, as RunCalls sees them.                                        *)

Invoked == {"waiting", "replied", "saved"}

\* What was answered was invoked.
AnsweredInv ==
  /\ \A w \in Workers : pc[w] \in Invoked => calls[held[w]] = 1
  /\ \A e \in Executions : HasReceipt(e) => calls[e] = 1

\* One of the first n calls of a slot produced its candidate.
Produced(s, n) ==
  \E m \in 1 .. n : ledger[s][m] = "generation" /\ evidence[<<s, m>>].outcome = "succeeded"

\* A slot's calls are judgements from the moment it has a candidate on.
KindsInv ==
  \A s \in Slots : \A n \in 1 .. Row(s) : ledger[s][n] = "semantic" <=> Produced(s, n - 1)

CallsInv == AnsweredInv /\ KindsInv

LEMMA IssuedAt ==
  ASSUME NEW e \in Executions
  PROVE  /\ e[2] <= Row(e[1]) =>
              Issued[e] = <<e[1], KindOf(e)>> /\ Issued[e] # <<>> /\ Issued[e][1] = e[1] /\ Issued[e][2] = KindOf(e)
         /\ ~(e[2] <= Row(e[1])) => Issued[e] = <<>>
  BY DEF Issued

LEMMA DispatchedAt ==
  ASSUME NEW e \in Executions
  PROVE  e \in Book!Dispatched <=> e[2] <= Row(e[1])
  BY IssuedAt DEF Book!Dispatched

LEMMA KindIn ==
  ASSUME DataType, AuthorizedInv, NEW s \in Slots, NEW n \in 1 .. Row(s)
  PROVE  /\ ledger[s][n] \in Kinds /\ Row(s) \in Nat /\ n \in Nat /\ n > 0 /\ n <= Row(s)
         /\ <<s, n>> \in Executions
<1>1. Row(s) \in Nat /\ Row(s) <= GenerationLimit + SemanticLimit BY RowAt
<1>2. n \in Nat /\ n > 0 /\ n <= Row(s) /\ n <= GenerationLimit + SemanticLimit
  BY <1>1, CandidateAssumption
<1>3. ledger[s] \in Seq(Kinds) /\ n \in 1 .. Len(ledger[s]) BY DEF DataType, Row
<1> QED BY <1>1, <1>2, <1>3, ExecutionOf

\* A step that changes no call.
LEMMA CallsSame ==
  ASSUME UNCHANGED <<ledger, evidence, calls, resolved, recovered>>, RunPhase' = RunPhase
  PROVE  UNCHANGED Book!callVars
<1>1. Issued' = Issued /\ Ended' = Ended BY DEF Issued, Ended, Row, KindOf
<1> QED BY <1>1 DEF Book!callVars

\* What the planner asks for is what the slot's calls so far leave to do.
LEMMA PlannedKind ==
  ASSUME DataType, AuthorizedInv, KindsInv, NEW s \in Slots,
         SlotAction(s, evidence, recovered) \in Kinds
  PROVE  SlotAction(s, evidence, recovered) = "semantic" <=> Produced(s, Row(s))
<1>1. Row(s) \in Nat BY RowAt
<1>2. CASE Row(s) = 0
  <2>1. SlotAction(s, evidence, recovered) = "generation" BY <1>2 DEF SlotAction
  <2>2. ~Produced(s, Row(s)) BY <1>2 DEF Produced
  <2> QED BY <2>1, <2>2
<1>3. CASE Row(s) # 0
  <2>1. PICK n \in 1 .. Row(s) : n = Row(s) BY <1>1, <1>3
  <2>2. PICK k \in Kinds : k = ledger[s][n] BY KindIn
  <2>3. PICK e : e = <<s, n>> OBVIOUS
  <2>4. KindOf(e) = k BY <2>2, <2>3 DEF KindOf
  <2>5. k = "semantic" <=> Produced(s, n - 1) BY <2>2 DEF KindsInv
  <2>6. Produced(s, n) <=> Produced(s, n - 1) \/ (k = "generation" /\ evidence[e].outcome = "succeeded")
    <3>1. \A m : m \in 1 .. n <=> m \in 1 .. n - 1 \/ m = n BY <1>1, <2>1
    <3> QED BY <2>2, <2>3, <3>1 DEF Produced
  <2>7. SlotAction(s, evidence, recovered) =
           IF evidence[e].outcome = "succeeded" /\ k = "generation" THEN "semantic" ELSE k
    <3>1. Exhausted[k] \notin Kinds /\ NotAllowed[k] \notin Kinds /\ UnknownCause \notin Kinds /\ "done" \notin Kinds
      BY <2>2 DEF Exhausted, NotAllowed, Kinds, UnknownCause
    <3>2. SlotAction(s, evidence, recovered) =
            IF evidence[e].outcome = "succeeded"
              THEN IF k = "generation" THEN "semantic" ELSE "done"
            ELSE IF evidence[e].outcome = "unknown" /\ e \notin resolved THEN UnknownCause
            ELSE IF Used(s, k) >= Limit[k] THEN Exhausted[k]
            ELSE IF e \in recovered \cup resolved \/ evidence[e].outcome = "retryable" THEN k
            ELSE NotAllowed[k]
      BY <1>3, <2>1, <2>3, <2>4 DEF SlotAction
    <3> QED BY <3>1, <3>2
  <2> QED BY <2>1, <2>2, <2>5, <2>6, <2>7 DEF Kinds
<1> QED BY <1>2, <1>3

\* Only the last call of a slot ends.
LEMMA KindsKept ==
  ASSUME DataType, AuthorizedInv, KindsInv, UNCHANGED ledger,
         \A e \in Executions : e[2] < Row(e[1]) => evidence'[e] = evidence[e]
  PROVE  KindsInv'
<1> SUFFICES ASSUME NEW s \in Slots, NEW n \in 1 .. Row(s)
             PROVE  ledger[s][n] = "semantic" <=> Produced(s, n - 1)'
  BY DEF KindsInv, Row
<1>1. \A m \in 1 .. n - 1 : evidence'[<<s, m>>] = evidence[<<s, m>>]
  <2> TAKE m \in 1 .. n - 1
  <2>1. Row(s) \in Nat /\ n \in Nat /\ n <= Row(s) BY KindIn
  <2>2. m \in 1 .. Row(s) /\ m < Row(s) BY <2>1
  <2>3. <<s, m>> \in Executions BY <2>2, KindIn
  <2> QED BY <2>2, <2>3
<1>2. Produced(s, n - 1)' <=> Produced(s, n - 1) BY <1>1 DEF Produced
<1> QED BY <1>2 DEF KindsInv

\* A dispatch takes the kind that is due, on what every earlier call allows.
LEMMA DispatchCalls ==
  ASSUME Inv, CallsInv, NEW w \in Workers, Dispatch(w)
  PROVE  CallsInv' /\ \E e \in Executions, s \in Slots : Book!DispatchCall(e, s)
<1>0. /\ WorldInv /\ DataInv /\ DataType /\ AuthorizedInv /\ RowsInv /\ DecisionsInv
      /\ KindsInv /\ AnsweredInv
  BY DEF Inv, DataInv, CallsInv
<1>1. pc[w] = "planned" /\ held[w][2] = version BY DEF Dispatch, SourceHolds
<1>2. PICK s \in Slots : s = held[w][1] BY <1>0, <1>1 DEF WorldInv, WorkerInv
<1>3. PlanStands(s) BY <1>0, <1>1, <1>2 DEF WorldInv, WorkerInv
<1>4. PICK k \in Kinds : k = SlotAction(s, evidence, recovered) BY <1>3 DEF PlanStands
<1>5. /\ Claim(s, k) /\ pc' = [pc EXCEPT ![w] = "committed"] /\ held' = [held EXCEPT ![w] = <<s, Row(s) + 1>>]
      /\ version' = version + 1 /\ UNCHANGED <<progress, resolved, recovered>> /\ UNCHANGED calls
  BY <1>2, <1>4 DEF Dispatch
<1>6. /\ Row(s)' = Row(s) + 1 /\ <<s, Row(s) + 1>> \in Executions
      /\ \A t \in Slots : t # s => Row(t)' = Row(t)
  BY <1>0, <1>3, <1>4, <1>5, DispatchData
<1>7. /\ ledger' = [ledger EXCEPT ![s] = Append(@, k)] /\ UNCHANGED <<receipt, evidence>> BY <1>5 DEF Claim
<1>8. PICK q \in Seq(Kinds) : q = ledger[s] BY <1>0 DEF DataType
<1>9. /\ ledger'[s] = Append(q, k) /\ \A t \in Slots : t # s => ledger'[t] = ledger[t]
  BY <1>0, <1>7, <1>8 DEF DataType
<1>10. Row(s) = Len(q) /\ Row(s) \in Nat /\ \A n \in 1 .. Row(s) : ledger'[s][n] = ledger[s][n]
  BY <1>8, <1>9 DEF Row
<1>11. ledger'[s][Row(s) + 1] = k BY <1>8, <1>9, <1>10
<1>12. k = "semantic" <=> Produced(s, Row(s)) BY <1>0, <1>4, PlannedKind
<1>13. KindsInv'
  <2> SUFFICES ASSUME NEW t \in Slots, NEW n \in (1 .. Row(t))'
               PROVE  (ledger[t][n] = "semantic" <=> Produced(t, n - 1))'
    BY DEF KindsInv
  <2>1. CASE t # s
    <3>1. Produced(t, n - 1)' <=> Produced(t, n - 1) BY <1>7, <1>9, <2>1 DEF Produced
    <3> QED BY <1>0, <1>6, <1>9, <2>1, <3>1 DEF KindsInv
  <2>2. CASE t = s
    <3>1. n \in 1 .. Row(s) \/ n = Row(s) + 1 BY <1>6, <1>10, <2>2
    <3>2. \A m \in 1 .. n - 1 : m \in 1 .. Row(s) BY <1>10, <3>1
    <3>3. Produced(s, n - 1)' <=> Produced(s, n - 1) BY <1>7, <1>10, <3>2 DEF Produced
    <3>4. CASE n \in 1 .. Row(s) BY <1>0, <1>10, <2>2, <3>3, <3>4 DEF KindsInv
    <3>5. CASE n = Row(s) + 1
      <4>1. n - 1 = Row(s) BY <1>10, <3>5
      <4> QED BY <1>11, <1>12, <2>2, <3>3, <3>5, <4>1
    <3> QED BY <3>1, <3>4, <3>5
  <2> QED BY <2>1, <2>2
<1>14. AnsweredInv'
  <2>1. pc'[w] = "committed" /\ \A v \in Workers : v # w => pc'[v] = pc[v] /\ held'[v] = held[v]
    BY <1>0, <1>5 DEF WorldInv, WorldType, HeldOK
  <2> QED BY <1>0, <1>5, <1>7, <2>1 DEF AnsweredInv, HasReceipt, Invoked
<1>15. PICK e \in Executions : e = <<s, Row(s) + 1>> /\ e[1] = s /\ e[2] = Row(s) + 1 BY <1>6
<1>16. Book!DispatchCall(e, s)
  <2>1. RunPhase = "open" /\ RunPhase' = RunPhase
    BY <1>3, <1>5 DEF RunPhase, PlanStands, Collecting
  <2>2. Issued[e] = <<>> BY <1>10, <1>15, IssuedAt
  <2>3. ASSUME NEW d \in Book!Dispatched, Issued[d][1] = s PROVE Book!Allows(d)
    <3>1. d \in Executions /\ d[2] <= Row(d[1]) BY <2>3, DispatchedAt DEF Book!Dispatched
    <3>2. d = <<s, d[2]>> /\ d[2] \in 1 .. Row(s) /\ Issued[d][2] = KindOf(d)
      BY <1>10, <2>3, <3>1, IssuedAt, ExecutionAt
    <3>3. Allows(s, d[2])
      <4>1. CASE d[2] = Row(s) BY <1>0, <1>4, <1>10, <3>2, <4>1, ReadyAllows
      <4>2. CASE d[2] # Row(s)
        <5>1. d[2] \in 1 .. Row(s) - 1 BY <1>10, <3>2, <4>2
        <5> QED BY <1>0, <5>1 DEF AuthorizedInv, Authorized
      <4> QED BY <4>1, <4>2
    <3>4. KindOf(d) = ledger[s][d[2]] BY <3>2 DEF KindOf
    <3>5. Ended[d] = evidence[d].outcome BY <3>1 DEF Ended
    <3> QED BY <3>2, <3>3, <3>4, <3>5 DEF Allows, Book!Allows
  <2>4. Book!Candidate(s) <=> Produced(s, Row(s))
    <3>1. ASSUME NEW c \in Executions, Issued[c] = <<s, "generation">>, Ended[c] = "succeeded"
          PROVE  Produced(s, Row(s))
      <4>0. Issued[c] # <<>> BY <3>1
      <4>1. c[2] <= Row(c[1]) BY <4>0, IssuedAt
      <4>2. c[1] = s /\ KindOf(c) = "generation" /\ c[2] \in Nat /\ c[2] > 0 /\ c = <<s, c[2]>>
        BY <3>1, <4>1, IssuedAt, ExecutionAt
      <4>3. c[2] \in 1 .. Row(s) BY <1>10, <4>1, <4>2
      <4> QED BY <3>1, <4>2, <4>3 DEF Produced, KindOf, Ended
    <3>2. ASSUME NEW m \in 1 .. Row(s), ledger[s][m] = "generation",
                 evidence[<<s, m>>].outcome = "succeeded"
          PROVE  Book!Candidate(s)
      <4>1. PICK c \in Executions : c = <<s, m>> /\ c[1] = s /\ c[2] = m BY <1>0, KindIn
      <4>2. Issued[c] = <<s, "generation">> /\ Ended[c] = "succeeded"
        <5>1. c[2] <= Row(c[1]) BY <1>10, <4>1
        <5>2. Issued[c] = <<c[1], KindOf(c)>> BY <5>1, IssuedAt
        <5>3. KindOf(c) = "generation" BY <3>2, <4>1 DEF KindOf
        <5>4. Ended[c] = "succeeded" BY <3>2, <4>1 DEF Ended
        <5> QED BY <4>1, <5>2, <5>3, <5>4
      <4> QED BY <4>2 DEF Book!Candidate
    <3> QED BY <3>1, <3>2 DEF Produced, Book!Candidate
  <2>5. k = IF Book!Candidate(s) THEN "semantic" ELSE "generation" BY <1>12, <2>4 DEF Kinds
  <2>6. Issued' = [Issued EXCEPT ![e] = <<s, k>>]
    <3>1. ASSUME NEW f \in Executions PROVE Issued'[f] = IF f = e THEN <<s, k>> ELSE Issued[f]
      <4>1. f[1] \in Slots /\ f[2] \in Nat /\ f[2] > 0 /\ f = <<f[1], f[2]>> BY ExecutionAt
      <4>2. Issued'[f] = IF f[2] <= Row(f[1])' THEN <<f[1], ledger'[f[1]][f[2]]>> ELSE <<>>
        BY DEF Issued, KindOf
      <4>3. Issued[f] = IF f[2] <= Row(f[1]) THEN <<f[1], ledger[f[1]][f[2]]>> ELSE <<>>
        BY DEF Issued, KindOf
      <4>4. CASE f[1] # s
        <5>1. ledger'[f[1]] = ledger[f[1]] /\ Row(f[1])' = Row(f[1]) BY <1>6, <1>9, <4>1, <4>4
        <5> QED BY <1>15, <4>2, <4>3, <4>4, <5>1
      <4>5. CASE f[1] = s /\ f[2] <= Row(s)
        <5>1. f # e /\ f[2] <= Row(s)' /\ f[2] \in 1 .. Row(s) BY <1>6, <1>10, <1>15, <4>1, <4>5
        <5>2. ledger'[s][f[2]] = ledger[s][f[2]] BY <1>10, <5>1
        <5> QED BY <4>2, <4>3, <4>5, <5>1, <5>2
      <4>6. CASE f[1] = s /\ f[2] = Row(s) + 1
        <5>1. f = e /\ f[2] <= Row(s)' BY <1>6, <1>10, <1>15, <4>1, <4>6
        <5>2. ledger'[f[1]][f[2]] = k BY <1>11, <4>6
        <5> QED BY <4>2, <4>6, <5>1, <5>2
      <4>7. CASE f[1] = s /\ f[2] > Row(s) + 1
        <5>1. f # e /\ ~(f[2] <= Row(s)') /\ ~(f[2] <= Row(s)) BY <1>6, <1>10, <1>15, <4>1, <4>7
        <5> QED BY <4>2, <4>3, <4>7, <5>1
      <4> QED BY <1>10, <4>1, <4>4, <4>5, <4>6, <4>7
    <3>2. DOMAIN Issued = Executions /\ Issued' = [f \in Executions |-> Issued'[f]] BY DEF Issued
    <3> QED BY <3>1, <3>2
  <2>7. Ended' = Ended BY <1>7 DEF Ended
  <2> QED BY <1>5, <2>1, <2>2, <2>3, <2>5, <2>6, <2>7 DEF Book!DispatchCall
<1> QED BY <1>13, <1>14, <1>15, <1>16 DEF CallsInv

\* What a state says of the calls of its Run.
BookInv ==
  /\ Active = {} => Book!Quiescent
  /\ progress.unresolved = 0 => Book!Decided
  /\ progress.status = "awaiting_review" =>
       Active = {} /\ progress.unresolved = 0 /\ ~progress.cancel /\ Book!Judged

LEMMA BookAt == Inv => BookInv
<1> SUFFICES ASSUME Inv PROVE BookInv OBVIOUS
<1>0. /\ DataType /\ RowsInv /\ AuthorizedInv /\ StatusInv /\ ReviewInv /\ UnknownsCounted
  BY DEF Inv, DataInv
<1>1. ASSUME Active = {}, NEW e \in Book!Dispatched PROVE Ended[e] # "none"
  <2>1. e \in Executions /\ e[2] <= Row(e[1]) BY DispatchedAt DEF Book!Dispatched
  <2>2. e[1] \in Slots /\ e[2] > 0 /\ e[2] \in Nat BY <2>1, ExecutionAt
  <2>3. claims[e[1]] = 0 BY <1>1, <2>2 DEF Active
  <2>4. ~Owns(e) BY <2>2, <2>3 DEF Owns
  <2> QED BY <1>0, <2>1, <2>4 DEF RowsInv, RowInv, Ended
<1>2. ASSUME progress.unresolved = 0 PROVE Book!Decided
  <2>1. Cardinality(Unknowns \ resolved) = 0 BY <1>0, <1>2 DEF UnknownsCounted
  <2>2. Unknowns \ resolved = {} BY <2>1, UnknownsFinite, FS_EmptySet
  <2> QED BY <2>2 DEF Book!Decided, Unknowns, Ended
<1>3. ASSUME progress.status = "awaiting_review"
      PROVE  Active = {} /\ progress.unresolved = 0 /\ ~progress.cancel /\ Book!Judged
  <2>1. Active = {} BY <1>0, <1>3 DEF StatusInv, Active, Settled
  <2>2. EvidenceComplete BY SettledAt
  <2>3. ASSUME NEW s \in Slots
        PROVE  \E c \in Executions : Issued[c] = <<s, "semantic">> /\ Ended[c] = "succeeded"
    <3>1. /\ Row(s) > 0 /\ KindOf(<<s, Row(s)>>) = "semantic"
          /\ evidence[<<s, Row(s)>>].outcome = "succeeded"
      BY <1>3, <2>2 DEF EvidenceComplete
    <3>2. Row(s) \in Nat /\ Row(s) \in 1 .. Row(s) BY <1>0, <3>1, RowAt
    <3>3. PICK c \in Executions : c = <<s, Row(s)>> /\ c[1] = s /\ c[2] = Row(s)
      BY <1>0, <3>2, KindIn
    <3>4. Issued[c] = <<s, "semantic">> BY <3>1, <3>2, <3>3, IssuedAt
    <3> QED BY <3>1, <3>3, <3>4 DEF Ended
  <2> QED BY <1>0, <1>3, <2>1, <2>3 DEF ReviewInv, Book!Judged
<1> QED BY <1>1, <1>2, <1>3 DEF BookInv, Book!Quiescent

\* Workers that go on with what they have, or are idle.
LEMMA AnsweredKept ==
  ASSUME Inv, AnsweredInv, UNCHANGED <<receipt, calls>>, UNCHANGED local \/ \E w \in Workers : Idle(w)
  PROVE  AnsweredInv'
<1>1. CASE UNCHANGED local BY <1>1 DEF AnsweredInv, HasReceipt, local
<1>2. ASSUME NEW w \in Workers, Idle(w) PROVE AnsweredInv'
  <2>1. pc'[w] = "idle" /\ \A v \in Workers : v # w => pc'[v] = pc[v] /\ held'[v] = held[v]
    BY <1>2 DEF Idle, Inv, WorldInv, WorldType, HeldOK
  <2> QED BY <2>1 DEF AnsweredInv, HasReceipt, Invoked
<1> QED BY <1>1, <1>2

\* A completion ends its call, with what the provider answered if it did.
LEMMA CompleteCalls ==
  ASSUME Inv, CallsInv, BookInv', NEW e \in Executions, NEW r \in Records, r.outcome # "none",
         Complete(e, r), IF HasReceipt(e) THEN r = receipt[e] ELSE r.outcome = "unknown",
         UNCHANGED local \/ \E w \in Workers : Idle(w)
  PROVE  CallsInv' /\ \E c \in Executions, outcome \in Outcomes : Book!EndCall(c, outcome)
<1>0. /\ WorldInv /\ DataType /\ AuthorizedInv /\ RowsInv /\ KindsInv /\ AnsweredInv
  BY DEF Inv, DataInv, CallsInv
<1>1. PICK target : target = CompletionTarget(e, With(e, r), CountUnknown(r)) OBVIOUS
<1>2. PICK to : to = (IF target.to \notin {"stays", progress.status} THEN target.to ELSE progress.status)
  OBVIOUS
<1>3. /\ Owns(e) /\ progress.status \in {"collecting", "blocked"}
      /\ evidence' = [evidence EXCEPT ![e] = r]
      /\ progress' = [progress EXCEPT !.unresolved = CountUnknown(r), !.status = to]
      /\ UNCHANGED <<resolved, recovered, ledger, receipt, calls>>
  BY <1>1, <1>2 DEF Complete, Accepts, With
<1>4. e[1] \in Slots /\ e[2] \in Nat /\ e[2] > 0 BY ExecutionAt
<1>5. e[2] = Row(e[1]) /\ evidence[e].outcome = "none"
  BY <1>0, <1>3, <1>4 DEF DataType, Owns, RowsInv, RowInv
<1>6. KindsInv'
  <2>1. \A f \in Executions : f[2] < Row(f[1]) => evidence'[f] = evidence[f]
    <3> TAKE f \in Executions
    <3> HAVE f[2] < Row(f[1])
    <3>1. f # e BY <1>4, <1>5
    <3> QED BY <1>0, <1>3, <3>1 DEF DataType
  <2> QED BY <1>0, <1>3, <2>1, KindsKept
<1>7. AnsweredInv' BY <1>0, <1>3, AnsweredKept
<1>8. CountUnknown(r) \in Nat BY <1>0 DEF CountUnknown, DataType
<1>9. to \in {"collecting", "blocked", "awaiting_review"}
  <2>1. target.to \in {"stays", "blocked", "awaiting_review"} BY <1>1, <1>8, TargetAt
  <2> QED BY <1>2, <1>3, <2>1
<1>10. progress'.status = to /\ progress'.cancel = progress.cancel
  BY <1>0, <1>3 DEF DataType
<1>11. /\ RunPhase \in {"open", "closing"}
       /\ to # "awaiting_review" => RunPhase' = RunPhase
       /\ to = "awaiting_review" => RunPhase' = "review"
  BY <1>3, <1>9, <1>10 DEF RunPhase
<1>12. to = "awaiting_review" => RunPhase = "open" /\ (Book!Quiescent /\ Book!Decided /\ Book!Judged)'
  BY <1>3, <1>10 DEF BookInv, RunPhase
<1>13. PICK outcome \in Outcomes : outcome = r.outcome BY DEF Records
<1>14. e \in Book!Dispatched /\ Ended[e] = "none" BY <1>4, <1>5, DispatchedAt DEF Ended
<1>15. outcome # "unknown" => calls[e] = 1
  <2>1. outcome # "unknown" => HasReceipt(e) BY <1>13
  <2> QED BY <1>0, <2>1 DEF AnsweredInv
<1>16. Issued' = Issued BY <1>3 DEF Issued, Row, KindOf
<1>17. Ended' = [Ended EXCEPT ![e] = outcome]
  <2>1. \A f \in Executions : evidence'[f] = IF f = e THEN r ELSE evidence[f]
    BY <1>0, <1>3 DEF DataType
  <2> QED BY <1>13, <2>1 DEF Ended
<1>18. Book!EndCall(e, outcome)
  <2>1. \/ RunPhase' = RunPhase
        \/ RunPhase = "open" /\ RunPhase' = "review" /\ (Book!Quiescent /\ Book!Decided /\ Book!Judged)'
    BY <1>11, <1>12
  <2> QED BY <1>3, <1>11, <1>14, <1>15, <1>16, <1>17, <2>1 DEF Book!EndCall
<1> QED BY <1>6, <1>7, <1>18 DEF CallsInv

\* The provider is invoked for a dispatched call that has no answer yet.
LEMMA InvokeCalls ==
  ASSUME Inv, CallsInv, NEW w \in Workers, Invoke(w)
  PROVE  CallsInv' /\ \E c \in Executions : Book!MakeCall(c)
<1>0. /\ WorldInv /\ DataType /\ AuthorizedInv /\ ResponseDecides /\ KindsInv /\ AnsweredInv
  BY DEF Inv, DataInv, CallsInv
<1>1. /\ pc[w] = "cleared" /\ UNCHANGED <<audit, rows>> /\ UNCHANGED held
      /\ pc' = [pc EXCEPT ![w] = "waiting"] /\ calls' = [calls EXCEPT ![held[w]] = @ + 1]
  BY DEF Invoke
<1>2. UNCHANGED <<progress, resolved, recovered>> /\ UNCHANGED <<ledger, receipt, evidence>>
  BY <1>1 DEF audit, rows
<1>3. pc[w] \in Busy BY <1>1 DEF Busy
<1>4. PICK e \in Executions : e = held[w] /\ e[2] <= Row(e[1]) BY <1>3, BusyAt
<1>5. calls[e] = 0 BY <1>0, <1>1, <1>4 DEF WorldInv, WorkerInv
<1>6. calls' = [calls EXCEPT ![e] = 1] /\ calls'[e] = 1 /\ \A f \in Executions : f # e => calls'[f] = calls[f]
  BY <1>0, <1>1, <1>4, <1>5 DEF WorldInv, WorldType
<1>7. AnsweredInv'
  <2>1. ASSUME NEW v \in Workers, pc'[v] \in Invoked PROVE calls'[held'[v]] = 1
    <3>1. CASE v = w BY <1>1, <1>4, <1>6, <3>1
    <3>2. CASE v # w
      <4>1. pc[v] \in Invoked /\ held'[v] = held[v]
        BY <1>0, <1>1, <2>1, <3>2 DEF WorldInv, WorldType
      <4>2. pc[v] \in Busy BY <4>1 DEF Busy, Invoked
      <4>3. held[v] \in Executions /\ calls[held[v]] = 1 BY <1>0, <4>1, <4>2, BusyAt DEF AnsweredInv
      <4> QED BY <1>6, <4>1, <4>3
    <3> QED BY <3>1, <3>2
  <2>2. \A f \in Executions : HasReceipt(f)' => calls'[f] = 1
    BY <1>0, <1>2, <1>6 DEF AnsweredInv, HasReceipt
  <2> QED BY <2>1, <2>2 DEF AnsweredInv
<1>8. KindsInv' BY <1>0, <1>2, KindsKept
<1>9. ~HasReceipt(e) BY <1>0, <1>5 DEF AnsweredInv
<1>10. Ended[e] \in {"none", "unknown"} BY <1>0, <1>9 DEF ResponseDecides, Recorded, Ended
<1>11. Issued' = Issued /\ Ended' = Ended /\ RunPhase' = RunPhase
  BY <1>2 DEF Issued, Ended, RunPhase, Row, KindOf
<1>12. Book!MakeCall(e) BY <1>2, <1>4, <1>5, <1>6, <1>10, <1>11, DispatchedAt DEF Book!MakeCall
<1> QED BY <1>7, <1>8, <1>12 DEF CallsInv

\* A response is stored by the worker that invoked the call.
LEMMA SaveCalls ==
  ASSUME Inv, AnsweredInv, NEW w \in Workers, Save(w)
  PROVE  AnsweredInv' /\ UNCHANGED <<audit, ledger, evidence, calls>>
<1>0. WorldInv /\ DataType BY DEF Inv, DataInv
<1>1. /\ pc[w] = "replied" /\ UNCHANGED audit /\ UNCHANGED <<ledger, evidence, calls>> BY DEF Save
<1>2. CASE Idle(w) /\ UNCHANGED receipt BY <1>1, <1>2, AnsweredKept
<1>3. ASSUME pc' = [pc EXCEPT ![w] = "saved"], UNCHANGED <<held, reply>>,
             receipt' = [receipt EXCEPT ![held[w]] =
                           [outcome |-> reply[w].outcome, at |-> reply[w].at]]
      PROVE  AnsweredInv'
  <2>1. pc[w] \in Busy /\ pc[w] \in Invoked BY <1>1 DEF Busy, Invoked
  <2>2. PICK e \in Executions : e = held[w] BY <2>1, BusyAt
  <2>3. calls[e] = 1 BY <2>1, <2>2 DEF AnsweredInv
  <2>4. \A f \in Executions : f # e => receipt'[f] = receipt[f] BY <1>0, <1>3, <2>2 DEF DataType
  <2>5. \A v \in Workers : pc'[v] \in Invoked => pc[v] \in Invoked
    BY <1>0, <1>3, <2>1 DEF WorldInv, WorldType
  <2> QED BY <1>1, <1>3, <2>3, <2>4, <2>5 DEF AnsweredInv, HasReceipt
<1> QED BY <1>1, <1>2, <1>3 DEF Save

\* A worker plans, hands over or takes an answer.
LEMMA MoveCalls ==
  ASSUME Inv, AnsweredInv, NEW w \in Workers,
         Plan(w) \/ Handoff(w) \/ \E outcome \in Outcomes : Reply(w, outcome)
  PROVE  AnsweredInv' /\ UNCHANGED <<audit, ledger, evidence, calls>>
<1>0. WorldInv BY DEF Inv
<1>1. UNCHANGED <<audit, rows, calls>> BY DEF Plan, Handoff, Reply
<1>2. UNCHANGED <<ledger, evidence, receipt, calls>> BY <1>1 DEF rows
<1>3. CASE Idle(w) BY <1>1, <1>2, <1>3, AnsweredKept
<1>4. CASE ~Idle(w)
  <2>1. \A v \in Workers : pc'[v] \in Invoked => pc[v] \in Invoked /\ held'[v] = held[v]
    <3> TAKE v \in Workers
    <3>1. CASE v = w
      BY <1>0, <1>4, <3>1 DEF Plan, Handoff, Reply, Invoked, WorldInv, WorldType, HeldOK
    <3>2. CASE v # w
      BY <1>0, <1>4, <3>2 DEF Plan, Handoff, Reply, Invoked, WorldInv, WorldType, HeldOK
    <3> QED BY <3>1, <3>2
  <2>2. AnsweredInv' BY <1>2, <2>1 DEF AnsweredInv, HasReceipt
  <2> QED BY <1>1, <1>2, <2>2
<1> QED BY <1>3, <1>4

\* A step of nobody's calls.
LEMMA OtherCalls ==
  ASSUME Inv, KindsInv, AnsweredInv', UNCHANGED <<ledger, evidence, calls, resolved, recovered>>,
         RunPhase' = RunPhase
  PROVE  CallsInv' /\ [Book!CallsNext]_(Book!callVars)
<1>1. KindsInv' BY KindsKept DEF Inv, DataInv
<1> QED BY <1>1, CallsSame DEF CallsInv

\* An operator decides on an unknown result ...
LEMMA ResolutionCalls ==
  ASSUME Inv, BookInv, CallsInv, NEW e \in Executions, NEW status \in {"collecting", "blocked", "canceled"},
         NEW cause, Resolution(e, status, cause)
  PROVE  CallsInv' /\ Book!Grant(e)
<1>0. DataType /\ AuthorizedInv /\ DecisionsInv /\ KindsInv /\ AnsweredInv
  BY DEF Inv, DataInv, CallsInv
<1>1. /\ progress.status = "blocked" /\ Active = {} /\ evidence[e].outcome = "unknown" /\ e \notin resolved
      /\ resolved' = resolved \cup {e}
      /\ progress' = [progress EXCEPT !.status = status, !.unresolved = @ - 1]
      /\ UNCHANGED rows /\ UNCHANGED <<recovered, local, calls>>
  BY DEF Resolution
<1>2. UNCHANGED <<ledger, receipt, evidence>> BY <1>1 DEF rows
<1>3. CallsInv' BY <1>0, <1>1, <1>2, KindsKept, AnsweredKept DEF CallsInv
<1>4. e \notin recovered BY <1>0, <1>1 DEF DecisionsInv
<1>5. progress'.status = status /\ progress'.cancel = progress.cancel BY <1>0, <1>1 DEF DataType
<1>6. RunPhase \in {"open", "closing"} /\ RunPhase' \in {RunPhase, "canceled"}
  BY <1>1, <1>5 DEF RunPhase
<1>7. Issued' = Issued /\ Ended' = Ended BY <1>2 DEF Issued, Ended, Row, KindOf
<1>8. Book!Quiescent /\ Ended[e] = "unknown" BY <1>1 DEF BookInv, Ended
<1>9. (resolved \cup recovered)' = (resolved \cup recovered) \cup {e} BY <1>1
<1> QED BY <1>1, <1>3, <1>4, <1>6, <1>7, <1>8, <1>9 DEF Book!Grant

\* ... or on a contract failure.
LEMMA RecoverContractCalls ==
  ASSUME Inv, BookInv, CallsInv, NEW e \in Executions, RecoverContract(e)
  PROVE  CallsInv' /\ [Book!CallsNext]_(Book!callVars)
<1>0. DataType /\ AuthorizedInv /\ DecisionsInv /\ StatusInv /\ KindsInv /\ AnsweredInv
  BY DEF Inv, DataInv, CallsInv
<1>1. /\ progress.status = "blocked" /\ evidence[e].outcome = "contract"
      /\ recovered' = recovered \cup {e} /\ progress' = [progress EXCEPT !.status = "collecting"]
      /\ UNCHANGED rows /\ UNCHANGED <<resolved, local, calls>>
  BY DEF RecoverContract
<1>2. UNCHANGED <<ledger, receipt, evidence>> BY <1>1 DEF rows
<1>3. AnsweredInv' BY <1>0, <1>1, <1>2, AnsweredKept
<1>4. progress'.status = "collecting" /\ progress'.cancel = progress.cancel BY <1>0, <1>1 DEF DataType
<1>5. RunPhase \in {"open", "closing"} /\ RunPhase' = RunPhase BY <1>1, <1>4 DEF RunPhase
<1>6. CASE e \in recovered
  <2>1. UNCHANGED recovered BY <1>1, <1>6
  <2> QED BY <1>0, <1>1, <1>2, <1>3, <1>5, <2>1, OtherCalls
<1>7. CASE e \notin recovered
  <2>1. CallsInv' BY <1>0, <1>2, <1>3, KindsKept DEF CallsInv
  <2>2. e \notin resolved BY <1>0, <1>1 DEF DecisionsInv
  <2>3. Active = {} BY <1>0, <1>1 DEF StatusInv, Active, Settled
  <2>4. Book!Quiescent /\ Ended[e] = "contract" BY <1>1, <2>3 DEF BookInv, Ended
  <2>5. Issued' = Issued /\ Ended' = Ended BY <1>2 DEF Issued, Ended, Row, KindOf
  <2>6. (resolved \cup recovered)' = (resolved \cup recovered) \cup {e} BY <1>1
  <2>7. Book!Grant(e) BY <1>1, <1>5, <1>7, <2>2, <2>4, <2>5, <2>6 DEF Book!Grant
  <2> QED BY <2>1, <2>7 DEF Book!CallsNext
<1> QED BY <1>6, <1>7

\* A cancellation is requested, or takes effect.
LEMMA CancelCalls ==
  ASSUME Inv, BookInv, CallsInv, RequestCancel \/ Cancel \/ FinishCancellation
  PROVE  CallsInv' /\ [Book!CallsNext]_(Book!callVars)
<1>0. DataType /\ AuthorizedInv /\ KindsInv /\ AnsweredInv BY DEF Inv, DataInv, CallsInv
<1>1. UNCHANGED rows /\ UNCHANGED <<resolved, recovered, local, calls>>
  BY DEF RequestCancel, Cancel, FinishCancellation, Canceled
<1>2. UNCHANGED <<ledger, receipt, evidence>> BY <1>1 DEF rows
<1>3. CallsInv' BY <1>0, <1>1, <1>2, KindsKept, AnsweredKept DEF CallsInv
<1>4. Issued' = Issued /\ Ended' = Ended BY <1>2 DEF Issued, Ended, Row, KindOf
<1>5. CASE RequestCancel
  <2>1. /\ progress.status \in {"collecting", "blocked"} /\ ~progress.cancel
        /\ progress' = [progress EXCEPT !.cancel = TRUE]
    BY <1>5 DEF RequestCancel
  <2>2. progress'.status = progress.status /\ progress'.cancel BY <1>0, <2>1 DEF DataType
  <2>3. RunPhase = "open" /\ RunPhase' = "closing" BY <2>1, <2>2 DEF RunPhase
  <2>4. Book!RequestCancel BY <1>1, <1>4, <2>3 DEF Book!RequestCancel
  <2> QED BY <1>3, <2>4 DEF Book!CallsNext
<1>6. CASE Cancel \/ FinishCancellation
  <2>1. /\ ~Draining /\ progress.status # "canceled" /\ progress' = [progress EXCEPT !.status = "canceled"]
    BY <1>6 DEF Cancel, FinishCancellation, MayFinish, Canceled
  <2>2. Active = {} /\ progress.unresolved = 0 BY <1>0, <2>1 DEF Draining, DataType
  <2>3. Book!Quiescent /\ Book!Decided BY <2>2 DEF BookInv
  <2>4. progress'.status = "canceled" BY <1>0, <2>1 DEF DataType
  <2>5. RunPhase # "canceled" /\ RunPhase' = "canceled" BY <2>1, <2>4 DEF RunPhase
  <2>6. Book!CancelRun BY <1>1, <1>4, <2>3, <2>5 DEF Book!CancelRun
  <2> QED BY <1>3, <2>6 DEF Book!CallsNext
<1> QED BY <1>5, <1>6

\* One step of a worker.
LEMMA WorkerCalls ==
  ASSUME Inv, CallsInv, BookInv', NEW w \in Workers, Step(w) \/ Stop(w)
  PROVE  CallsInv' /\ [Book!CallsNext]_(Book!callVars)
<1>0. KindsInv /\ AnsweredInv BY DEF CallsInv
<1>1. CASE Dispatch(w)
  <2>1. CallsInv' /\ \E e \in Executions, s \in Slots : Book!DispatchCall(e, s) BY <1>1, DispatchCalls
  <2> QED BY <2>1 DEF Book!CallsNext
<1>2. CASE Invoke(w)
  <2>1. CallsInv' /\ \E e \in Executions : Book!MakeCall(e) BY <1>2, InvokeCalls
  <2> QED BY <2>1 DEF Book!CallsNext
<1>3. CASE WorkerCompletes(w)
  <2>1. pc[w] = "saved" /\ Complete(held[w], receipt[held[w]]) /\ Idle(w) BY <1>3 DEF WorkerCompletes
  <2>2. pc[w] \in Busy BY <2>1 DEF Busy
  <2>3. PICK e \in Executions : e = held[w] BY <2>2, BusyAt
  <2>4. PICK r \in Records : r = receipt[e] BY DEF Inv, DataInv, DataType
  <2>5. HasReceipt(e) BY <2>1, <2>3 DEF Inv, WorldInv, WorkerInv
  <2>6. r.outcome # "none" /\ Complete(e, r) BY <2>1, <2>3, <2>4, <2>5 DEF HasReceipt
  <2>7. CallsInv' /\ \E c \in Executions, outcome \in Outcomes : Book!EndCall(c, outcome)
    BY <2>1, <2>4, <2>5, <2>6, CompleteCalls
  <2> QED BY <2>7 DEF Book!CallsNext, Outcomes
<1>4. ASSUME AnsweredInv', UNCHANGED <<audit, ledger, evidence, calls>>
      PROVE  CallsInv' /\ [Book!CallsNext]_(Book!callVars)
  <2>1. UNCHANGED <<progress, resolved, recovered>> BY <1>4 DEF audit
  <2>2. RunPhase' = RunPhase BY <2>1 DEF RunPhase
  <2> QED BY <1>0, <1>4, <2>1, <2>2, OtherCalls
<1>5. CASE DispatchConflict(w) \/ WorkerYields(w) \/ Stop(w)
  <2>1. Idle(w) /\ UNCHANGED <<audit, rows, calls>> BY <1>5 DEF DispatchConflict, WorkerYields, Stop
  <2>2. UNCHANGED <<ledger, evidence, receipt>> BY <2>1 DEF rows
  <2>3. AnsweredInv' BY <1>0, <2>1, <2>2, AnsweredKept
  <2> QED BY <1>4, <2>1, <2>2, <2>3
<1>6. CASE Plan(w) \/ Handoff(w) \/ \E outcome \in Outcomes : Reply(w, outcome)
  BY <1>0, <1>4, <1>6, MoveCalls
<1>7. CASE Save(w) BY <1>0, <1>4, <1>7, SaveCalls
<1> QED BY <1>1, <1>2, <1>3, <1>5, <1>6, <1>7 DEF Step

\* One step of the scanner.
LEMMA RecoveryCalls ==
  ASSUME Inv, CallsInv, BookInv', Recovery
  PROVE  CallsInv' /\ [Book!CallsNext]_(Book!callVars)
<1>0. KindsInv /\ AnsweredInv BY DEF CallsInv
<1>1. ASSUME NEW s \in Slots, RecoverResponse(s)
      PROVE  CallsInv' /\ [Book!CallsNext]_(Book!callVars)
  <2>1. /\ claims[s] # 0 /\ HasReceipt(<<s, claims[s]>>)
        /\ Complete(<<s, claims[s]>>, receipt[<<s, claims[s]>>]) /\ UNCHANGED local
    BY <1>1 DEF RecoverResponse
  <2>2. PICK e \in Executions : e = <<s, claims[s]>> BY <2>1, ClaimAt
  <2>3. PICK r \in Records : r = receipt[e] BY DEF Inv, DataInv, DataType
  <2>4. HasReceipt(e) /\ r.outcome # "none" /\ Complete(e, r) BY <2>1, <2>2, <2>3 DEF HasReceipt
  <2>5. CallsInv' /\ \E c \in Executions, outcome \in Outcomes : Book!EndCall(c, outcome)
    BY <2>1, <2>3, <2>4, CompleteCalls
  <2> QED BY <2>5 DEF Book!CallsNext, Outcomes
<1>2. CASE Expire
  <2>1. /\ scan # NoWork /\ ExpiryHolds /\ Complete(scan.exec, [outcome |-> "unknown", at |-> scan.at])
        /\ UNCHANGED local
    BY <1>2 DEF Expire
  <2>2. PICK e \in Executions : e = scan.exec BY <2>1 DEF Inv, WorldInv, ScanInv
  <2>3. PICK r : r = [outcome |-> "unknown", at |-> scan.at] OBVIOUS
  <2>4. r \in Records /\ r.outcome = "unknown" BY <2>1, <2>3 DEF Inv, WorldInv, ScanInv, Records, Outcomes
  <2>5. ~HasReceipt(e) /\ Complete(e, r) BY <2>1, <2>2, <2>3 DEF ExpiryHolds
  <2>6. CallsInv' /\ \E c \in Executions, outcome \in Outcomes : Book!EndCall(c, outcome)
    BY <2>1, <2>4, <2>5, CompleteCalls
  <2> QED BY <2>6 DEF Book!CallsNext, Outcomes
<1>3. CASE ExpiryConflict \/ \E s \in Slots : PlanExpiry(s)
  <2>1. UNCHANGED <<audit, rows, local, calls>> BY <1>3 DEF ExpiryConflict, PlanExpiry
  <2>2. UNCHANGED <<progress, resolved, recovered>> /\ UNCHANGED <<ledger, evidence, receipt>>
    BY <2>1 DEF audit, rows
  <2>3. AnsweredInv' BY <1>0, <2>1, <2>2, AnsweredKept
  <2>4. RunPhase' = RunPhase BY <2>2 DEF RunPhase
  <2> QED BY <1>0, <2>1, <2>2, <2>3, <2>4, OtherCalls
<1> QED BY <1>1, <1>2, <1>3 DEF Recovery

\* The Run starts, its preflight ends, a lease runs out.
LEMMA QuietCalls ==
  ASSUME Inv, CallsInv,
         \/ UNCHANGED vars \/ Start
         \/ \E passed \in BOOLEAN : Preflight(passed)
         \/ \E s \in Slots : LeaseRunsOut(s)
  PROVE  CallsInv' /\ [Book!CallsNext]_(Book!callVars)
<1>0. DataType /\ KindsInv /\ AnsweredInv BY DEF Inv, DataInv, CallsInv
<1>1. UNCHANGED <<resolved, recovered, ledger, evidence, receipt, local, calls>>
  BY DEF vars, audit, rows, Start, Preflight, LeaseRunsOut
<1>2. AnsweredInv' BY <1>0, <1>1, AnsweredKept
<1>3. RunPhase' = RunPhase
  <2>1. CASE Start
    <3>1. progress.status = "requested" /\ progress'.status = "collecting" /\ progress'.cancel = progress.cancel
      BY <1>0, <2>1 DEF Start, DataType
    <3> QED BY <3>1 DEF RunPhase
  <2>2. ASSUME NEW passed \in BOOLEAN, Preflight(passed) PROVE RunPhase' = RunPhase
    <3>1. /\ progress.status = "collecting" /\ progress'.status \in {"collecting", "blocked"}
          /\ progress'.cancel = progress.cancel
      BY <1>0, <2>2 DEF Preflight, DataType
    <3> QED BY <3>1 DEF RunPhase
  <2>3. CASE UNCHANGED progress BY <2>3 DEF RunPhase
  <2> QED BY <2>1, <2>2, <2>3 DEF vars, audit, LeaseRunsOut
<1> QED BY <1>0, <1>1, <1>2, <1>3, OtherCalls

LEMMA NextCalls ==
  Inv /\ BookInv /\ BookInv' /\ CallsInv /\ [Next]_vars =>
    CallsInv' /\ [Book!CallsNext]_(Book!callVars)
<1> SUFFICES ASSUME Inv, BookInv, BookInv', CallsInv, [Next]_vars
             PROVE  CallsInv' /\ [Book!CallsNext]_(Book!callVars)
  OBVIOUS
<1>1. ASSUME NEW e \in Executions, AuthorizeReplacement(e) \/ CancelUnknown(e)
      PROVE  CallsInv' /\ [Book!CallsNext]_(Book!callVars)
  <2>1. PICK status \in {"collecting", "blocked", "canceled"} : \E cause : Resolution(e, status, cause)
    BY <1>1 DEF AuthorizeReplacement, CancelUnknown
  <2>2. PICK cause : Resolution(e, status, cause) BY <2>1
  <2>3. CallsInv' /\ Book!Grant(e) BY <2>2, ResolutionCalls
  <2> QED BY <2>3 DEF Book!CallsNext
<1>2. CASE Operator BY <1>1, <1>2, QuietCalls, CancelCalls, RecoverContractCalls DEF Operator
<1> QED BY <1>2, WorkerCalls, RecoveryCalls, QuietCalls, CancelCalls DEF Next

LEMMA InitCalls == Init => CallsInv /\ Book!CallsInit
<1> SUFFICES ASSUME Init PROVE CallsInv /\ Book!CallsInit OBVIOUS
<1>1. \A s \in Slots : Row(s) = 0 BY DEF Init, Row
<1>2. KindsInv BY <1>1 DEF KindsInv
<1>3. AnsweredInv BY DEF Init, AnsweredInv, HasReceipt, Nothing, Invoked
<1>4. \A e \in Executions : Issued[e] = <<>>
  <2> TAKE e \in Executions
  <2>1. e[1] \in Slots /\ e[2] > 0 /\ e[2] \in Nat BY ExecutionAt
  <2>2. ~(e[2] <= Row(e[1])) BY <1>1, <2>1
  <2> QED BY <2>2, IssuedAt
<1>5. Issued = [e \in Executions |-> <<>>] BY <1>4 DEF Issued
<1>6. Ended = [e \in Executions |-> "none"] BY DEF Init, Ended, Nothing
<1>7. RunPhase = "open" BY DEF Init, RunPhase
<1>8. calls = [e \in Executions |-> 0] /\ resolved \cup recovered = {} BY DEF Init
<1> QED BY <1>2, <1>3, <1>5, <1>6, <1>7, <1>8 DEF CallsInv, Book!CallsInit

-----------------------------------------------------------------------------
(* The theorems.                                                            *)

\* The provider is invoked at most once per dispatch, and never for one that
\* is not durable; a durable response is what its execution is completed with
\* (CandidateDispatchSender._send, save_response, apply_candidate_expiry).
THEOREM ExecutionsAreSound == Spec => []ExecutionsSound
<1>1. Inv => ExecutionsSound
  <2> SUFFICES ASSUME Inv PROVE ExecutionsSound OBVIOUS
  <2>1. TypeOK
    BY DEF Inv, DataInv, WorldInv, DataType, WorldType, TypeOK, WorkerSteps, Busy
  <2>2. CalledOnce
    <3>1. ASSUME NEW e \in Executions PROVE calls[e] <= 1 /\ (calls[e] = 1 => e[2] <= Row(e[1]))
      <4>1. CallInv(e) /\ calls[e] \in Nat BY DEF Inv, WorldInv, WorldType
      <4>2. Row(e[1]) \in Nat /\ e[2] \in Nat BY ExecutionAt, RowAt DEF Inv, DataInv
      <4> QED BY <4>1, <4>2 DEF CallInv
    <3> QED BY <3>1 DEF CalledOnce
  <2>3. ResponseDecides BY DEF Inv, DataInv
  <2> QED BY <2>1, <2>2, <2>3 DEF ExecutionsSound
<1> QED BY <1>1, InvHolds, PTL

\* A slot is called again only after evidence or a recorded decision that
\* allows it, and within its budget (slot_action, plan_dispatch_record).
THEOREM RepeatsAreAuthorized == Spec => []RepeatsAuthorized
<1>1. Inv => RepeatsAuthorized
  BY DEF Inv, DataInv, AuthorizedInv, Authorized, Allows, RepeatsAuthorized
<1> QED BY <1>1, InvHolds, PTL

\* A settled Run owns no live call, its count of open unknown results is
\* right, review starts on complete evidence, without a pending cancellation,
\* and the history of a Run under review whose calls were recorded in order
\* passes the closing audit (complete_claim, plan_cancellation,
\* plan_resolution, validate_closed_inventory).
THEOREM StatusIsTrue == Spec => []SettledOnEvidence
<1>1. Inv => Drained /\ UnknownsCounted /\ EvidenceComplete BY SettledAt
<1>2. Inv /\ History => HistoryAudited BY AuditPasses DEF HistoryAudited
<1>3. Inv /\ History => SettledOnEvidence BY <1>1, <1>2 DEF SettledOnEvidence
<1> QED BY <1>3, InvHolds, HistoryHolds, PTL

\* Every behaviour of the Run, with any number of calls in flight, keeps what
\* RunCalls promises of them: calls are preceded by calls that allow them, are
\* made once and end once, with a result they had, and none is dispatched
\* after a cancellation was requested (slot_action, complete_claim,
\* CandidateDispatchWrite, plan_resolution, plan_cancellation).
THEOREM CallsAreKept == Spec => KeepsCalls
<1>1. Inv => BookInv BY BookAt
<1>2. Init => CallsInv /\ Book!CallsInit BY InitCalls
<1>3. Inv /\ BookInv /\ BookInv' /\ CallsInv /\ [Next]_vars =>
        CallsInv' /\ [Book!CallsNext]_(Book!callVars)
  BY NextCalls
<1> QED BY <1>1, <1>2, <1>3, InvHolds, PTL DEF Spec, KeepsCalls, Book!CallsSpec

=============================================================================
