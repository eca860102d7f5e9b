------------------------ MODULE CandidateEvaluation ------------------------
(***************************************************************************)
(* One evaluation Run in candidate mode (candidate_v2): its progress, the  *)
(* slot claims with their leases, the immutable dispatch ledger, response  *)
(* receipts and terminal evidence, and everyone who changes them: the      *)
(* workers that plan, dispatch, invoke the model and complete; the scanner *)
(* that recovers expired claims; the operator who cancels, resolves an     *)
(* unknown result or authorizes a contract recovery.                       *)
(*                                                                         *)
(* Every transaction locks the Run coordinator row and bumps its version   *)
(* (saving a response only locks it), so one action is one committed       *)
(* transaction.  What a worker or the scanner read before its transaction  *)
(* is a value it holds; the transaction compares it again.                 *)
(*                                                                         *)
(* An execution is <<slot, n>>: the n-th ledger row of the slot.  Clock    *)
(* readings that are stored (finished_at, resolved_at, a transition's at)  *)
(* are readings of one logical clock.  Identities, hashes, prompts and     *)
(* outputs are left out; an outcome is the class the planner tells apart.  *)
(*                                                                         *)
(* An operator named X_Flaw is X with a plausible bug; the specification   *)
(* uses none of them, and PROJECT.json says which property each violates.  *)
(***************************************************************************)
EXTENDS Integers, Sequences, FiniteSets, FiniteSetsExt, SequencesExt

CONSTANTS
  SlotCount,         \* frozen slots, in the order of the plan
  Workers,           \* evaluation consumers
  NoWork,            \* what an idle worker or scanner holds
  GenerationLimit,   \* max_executions_per_slot
  SemanticLimit,     \* max_executions_per_candidate
  Parallel,          \* per_run_parallel_calls
  GenerationReplies, \* outcomes a generation call may have
  SemanticReplies,   \* outcomes a semantic call may have
  MaxFaults          \* bounds process stops and late heartbeats

Outcomes == {"succeeded", "retryable", "refused", "contract", "unknown"}

ASSUME CandidateAssumption ==
  /\ SlotCount \in Nat \ {0}
  /\ GenerationLimit \in Nat \ {0}
  /\ SemanticLimit \in Nat \ {0}
  /\ Parallel \in 1 .. 32
  /\ GenerationReplies \subseteq Outcomes \ {"contract"}
  /\ SemanticReplies \subseteq Outcomes
  /\ MaxFaults \in Nat

VARIABLES
  progress,    \* progress_json: [status, preflight, cancel, unresolved]
  resolved,    \* result_unknown_resolutions: the executions decided on
  recovered,   \* semantic_contract_recoveries
  transitions, \* the audited transitions: [to, cause, ref, at]
  version,     \* evaluation_checkpoints.version
  ledger,      \* evaluation_dispatches of a slot: the kinds, in order
  claims,      \* evaluation_slot_claims: the claimed row of the slot, or 0
  lease,       \* is the claim's lease unexpired?
  receipt,     \* evaluation_response_receipts: [outcome, at]
  evidence,    \* generation and semantic completions: [outcome, at]
  clock,       \* the last clock reading
  pc,          \* where each worker is
  held,        \* a worker's plan [slot, version], or its execution
  reply,       \* a worker's provider result: [outcome, at, timely]
  scan,        \* an expiry the scanner planned: [exec, version, at]
  calls,       \* how often the provider was invoked for the execution
  faults

rows == <<ledger, claims, lease, receipt, evidence>>
audit == <<progress, resolved, recovered, transitions, version>>
local == <<pc, held, reply>>
vars == <<audit, rows, clock, local, scan, calls, faults>>

Slots == 1 .. SlotCount
Kinds == {"generation", "semantic"}
Executions == Slots \X (1 .. GenerationLimit + SemanticLimit)
Nothing == [outcome |-> "none", at |-> 0]
NoReply == [outcome |-> "none", at |-> 0, timely |-> FALSE]

Limit == [generation |-> GenerationLimit, semantic |-> SemanticLimit]
RunLimit(k) == SlotCount * Limit[k]
Replies == [generation |-> GenerationReplies, semantic |-> SemanticReplies]

UnknownCause == "result_unknown_requires_review"
Exhausted == [generation |-> "generation_budget_exhausted",
              semantic |-> "semantic_budget_exhausted"]
NotAllowed == [generation |-> "generation_recovery_not_allowed",
               semantic |-> "semantic_recovery_not_allowed"]

---------------------------------------------------------------------------
(* The ledger.                                                             *)

Row(s) == Len(ledger[s])
KindOf(e) == ledger[e[1]][e[2]]
Ordinal(e) == Cardinality({n \in 1 .. e[2] : ledger[e[1]][n] = KindOf(e)})

Used(s, k) == Cardinality({n \in 1 .. Row(s) : ledger[s][n] = k})
Total(k) == Cardinality({e \in Executions : e[2] <= Row(e[1]) /\ KindOf(e) = k})

Active == {s \in Slots : claims[s] # 0}
Recorded == {e \in Executions : evidence[e].outcome # "none"}
Unknowns == {e \in Executions : evidence[e].outcome = "unknown"}

---------------------------------------------------------------------------
(* Planning.                                                               *)

(* What slot s needs next, from terminal evidence ev and the authorized    *)
(* contract recoveries rec: a call, nothing ("done"), or the cause that    *)
(* blocks it.                                                              *)
SlotAction_Unauthorized(s, ev, rec) ==
  LET e == <<s, Row(s)>>
      k == KindOf(e)
  IN  IF Row(s) = 0 THEN "generation"
      ELSE IF ev[e].outcome = "succeeded"
        THEN IF k = "generation" THEN "semantic" ELSE "done"
      ELSE IF Used(s, k) >= Limit[k] THEN Exhausted[k]
      ELSE IF ev[e].outcome # "refused" THEN k ELSE NotAllowed[k]

SlotAction(s, ev, rec) ==
  LET e == <<s, Row(s)>>
      k == KindOf(e)
  IN  IF Row(s) = 0 THEN "generation"
      ELSE IF ev[e].outcome = "succeeded"
        THEN IF k = "generation" THEN "semantic" ELSE "done"
      ELSE IF ev[e].outcome = "unknown" /\ e \notin resolved THEN UnknownCause
      ELSE IF Used(s, k) >= Limit[k] THEN Exhausted[k]
      ELSE IF e \in rec \cup resolved \/ ev[e].outcome = "retryable" THEN k
      ELSE NotAllowed[k]

Ready(S, ev) == {s \in S : SlotAction(s, ev, recovered) \in Kinds}
Blocked(S, ev) == {s \in S : SlotAction(s, ev, recovered) \notin Kinds \cup {"done"}}

(* The Run accepts new work.                                               *)
Collecting_IgnoresCancel ==
  /\ progress.status = "collecting"
  /\ progress.preflight = "passed"
  /\ progress.unresolved = 0

Collecting ==
  /\ progress.status = "collecting"
  /\ progress.preflight = "passed"
  /\ ~progress.cancel
  /\ progress.unresolved = 0

NextToRun(s) ==
  /\ Collecting
  /\ Cardinality(Active) < Parallel
  /\ s \in Ready(Slots \ Active, evidence)
  /\ \A other \in Ready(Slots \ Active, evidence) : s <= other

WithinBudget(s, k) == Used(s, k) < Limit[k] /\ Total(k) < RunLimit(k)

---------------------------------------------------------------------------
Init ==
  /\ progress = [status |-> "requested", preflight |-> "pending",
                 cancel |-> FALSE, unresolved |-> 0]
  /\ resolved = {}
  /\ recovered = {}
  /\ transitions = <<[to |-> "requested", cause |-> "evaluation_requested",
                      ref |-> <<>>, at |-> 0]>>
  /\ version = 1
  /\ ledger = [s \in Slots |-> <<>>]
  /\ claims = [s \in Slots |-> 0]
  /\ lease = [s \in Slots |-> FALSE]
  /\ receipt = [e \in Executions |-> Nothing]
  /\ evidence = [e \in Executions |-> Nothing]
  /\ clock = 0
  /\ pc = [w \in Workers |-> "idle"]
  /\ held = [w \in Workers |-> NoWork]
  /\ reply = [w \in Workers |-> NoReply]
  /\ scan = NoWork
  /\ calls = [e \in Executions |-> 0]
  /\ faults = 0

Note(to, cause, ref, at) ==
  transitions' = Append(transitions, [to |-> to, cause |-> cause, ref |-> ref, at |-> at])

LastTransition == transitions[Len(transitions)]

(* transition_requested: the operator starts the Run.                      *)
Start ==
  /\ progress.status = "requested"
  /\ progress' = [progress EXCEPT !.status = "collecting"]
  /\ Note("collecting", "evaluation_started", <<>>, clock)
  /\ version' = version + 1
  /\ UNCHANGED <<resolved, recovered, rows, clock, local, scan, calls, faults>>

(* complete_preflight: one case is checked without a model call.           *)
Preflight(passed) ==
  /\ progress.status = "collecting"
  /\ progress.preflight = "pending"
  /\ ~progress.cancel
  /\ progress' = IF passed THEN [progress EXCEPT !.preflight = "passed"]
                 ELSE [progress EXCEPT !.preflight = "failed", !.status = "blocked"]
  /\ IF passed THEN UNCHANGED transitions
     ELSE Note("blocked", "preflight_failed", <<>>, clock)
  /\ version' = version + 1
  /\ UNCHANGED <<resolved, recovered, rows, clock, local, scan, calls, faults>>

---------------------------------------------------------------------------
(* A worker: plan, dispatch, invoke, save, complete.                       *)

(* CandidateDispatchOperation: the slot, and the version it was read at.   *)
DispatchPlan(s) == <<s, version>>

(* CandidateDispatchPlanner.candidate reads a snapshot.                    *)
Plan(w) ==
  /\ pc[w] = "idle"
  /\ \E s \in Slots :
       /\ NextToRun(s)
       /\ WithinBudget(s, SlotAction(s, evidence, recovered))
       /\ held' = [held EXCEPT ![w] = DispatchPlan(s)]
  /\ pc' = [pc EXCEPT ![w] = "planned"]
  /\ UNCHANGED <<audit, rows, clock, reply, scan, calls, faults>>

(* The claim and the ledger row are inserted together.                     *)
Claim(s, k) ==
  /\ ledger' = [ledger EXCEPT ![s] = Append(@, k)]
  /\ claims' = [claims EXCEPT ![s] = Row(s) + 1]
  /\ lease' = [lease EXCEPT ![s] = TRUE]
  /\ UNCHANGED <<receipt, evidence>>

(* The plan's source is unchanged: any commit in between bumped version.   *)
SourceHolds(w) == held[w][2] = version

(* CandidateDispatchWrite: recheck, claim, reserve, commit.                *)
Dispatch(w) ==
  LET s == held[w][1] IN
  /\ pc[w] = "planned"
  /\ SourceHolds(w)
  /\ Claim(s, SlotAction(s, evidence, recovered))
  /\ version' = version + 1
  /\ pc' = [pc EXCEPT ![w] = "committed"]
  /\ held' = [held EXCEPT ![w] = <<s, Row(s) + 1>>]
  /\ UNCHANGED <<progress, resolved, recovered, transitions, clock, reply, scan, calls, faults>>

Idle(w) ==
  /\ pc' = [pc EXCEPT ![w] = "idle"]
  /\ held' = [held EXCEPT ![w] = NoWork]
  /\ reply' = [reply EXCEPT ![w] = NoReply]

(* The coordinator moved on: CheckpointConflict, the next poll plans anew. *)
DispatchConflict(w) ==
  /\ pc[w] = "planned"
  /\ ~SourceHolds(w)
  /\ Idle(w)
  /\ UNCHANGED <<audit, rows, clock, scan, calls, faults>>

Owns(e) == claims[e[1]] = e[2]

(* After the commit the sender reads the claim again before it hands the   *)
(* call over; an expired or lost claim is never sent.                      *)
Handoff(w) ==
  /\ pc[w] = "committed"
  /\ IF Owns(held[w]) /\ lease[held[w][1]]
     THEN pc' = [pc EXCEPT ![w] = "cleared"] /\ UNCHANGED <<held, reply>>
     ELSE Idle(w)
  /\ UNCHANGED <<audit, rows, clock, scan, calls, faults>>

Invoke(w) ==
  /\ pc[w] = "cleared"
  /\ calls' = [calls EXCEPT ![held[w]] = @ + 1]
  /\ pc' = [pc EXCEPT ![w] = "waiting"]
  /\ UNCHANGED <<audit, rows, clock, held, reply, scan, faults>>

(* The gateway returns or fails; finished_at and the clock reading that    *)
(* save_response compares with the lease are taken here.                   *)
Reply(w, outcome) ==
  /\ pc[w] = "waiting"
  /\ outcome \in Replies[KindOf(held[w])]
  /\ reply' = [reply EXCEPT ![w] =
                 [outcome |-> outcome, at |-> clock + 1,
                  timely |-> Owns(held[w]) /\ lease[held[w][1]]]]
  /\ clock' = clock + 1
  /\ pc' = [pc EXCEPT ![w] = "replied"]
  /\ UNCHANGED <<audit, rows, held, scan, calls, faults>>

(* save_response: the exact claim, and the lease not expired by the        *)
(* reading taken above.                                                    *)
MaySave(w) == Owns(held[w]) /\ reply[w].timely

Save(w) ==
  /\ pc[w] = "replied"
  /\ IF MaySave(w)
     THEN /\ receipt' = [receipt EXCEPT ![held[w]] =
                           [outcome |-> reply[w].outcome, at |-> reply[w].at]]
          /\ pc' = [pc EXCEPT ![w] = "saved"]
          /\ UNCHANGED <<held, reply>>
     ELSE Idle(w) /\ UNCHANGED receipt
  /\ UNCHANGED <<audit, ledger, claims, lease, evidence, clock, scan, calls, faults>>

---------------------------------------------------------------------------
(* Completion.                                                             *)

(* The status the Run takes once claim e is released and ev, unresolved    *)
(* are the records; "stays" leaves it alone.                               *)
CompletionTarget_Early(e, ev, unresolved) ==
  LET none == [to |-> "stays", cause |-> "stays"]
  IN  IF Active # {e[1]} THEN none
      ELSE IF unresolved > 0
        THEN [to |-> "blocked", cause |-> UnknownCause]
      ELSE IF progress.cancel THEN none
      ELSE IF Ready(Slots, ev) = {}
        THEN [to |-> "awaiting_review", cause |-> "candidate_evidence_complete"]
      ELSE none

CompletionTarget(e, ev, unresolved) ==
  LET none == [to |-> "stays", cause |-> "stays"]
  IN  IF Active # {e[1]} THEN none
      ELSE IF unresolved > 0
        THEN [to |-> "blocked", cause |-> UnknownCause]
      ELSE IF progress.cancel THEN none
      ELSE IF \A s \in Slots : SlotAction(s, ev, recovered) = "done"
        THEN [to |-> "awaiting_review", cause |-> "candidate_evidence_complete"]
      ELSE IF Blocked(Slots, ev) # {} /\ Ready(Slots, ev) = {}
        THEN [to |-> "blocked", cause |-> SlotAction(Min(Blocked(Slots, ev)), ev, recovered)]
      ELSE none

(* The terminal execution a block refers to: the earliest unresolved       *)
(* unknown, or the last execution of the first blocked slot.               *)
BlockedExecution(ev, cause) ==
  IF cause = UnknownCause
  THEN CHOOSE e \in Executions :
         /\ ev[e].outcome = "unknown" /\ e \notin resolved
         /\ \A f \in Executions \ resolved :
              ev[f].outcome = "unknown" => ev[e].at <= ev[f].at
  ELSE LET s == Min(Blocked(Slots, ev)) IN <<s, Row(s)>>

(* Only a semantic block records its evidence time apart from its own; any *)
(* other block takes the time of its evidence and is refused when that     *)
(* precedes the last transition.                                           *)
Predates(ev, target) ==
  /\ target.to = "blocked"
  /\ target.cause # NotAllowed["semantic"]
  /\ ev[BlockedExecution(ev, target.cause)].at < LastTransition.at

With(e, r) == [evidence EXCEPT ![e] = r]
CountUnknown(r) == progress.unresolved + (IF r.outcome = "unknown" THEN 1 ELSE 0)

(* complete_claim accepts the terminal record r of claim e ...             *)
Accepts(e, ev, target) ==
  /\ Owns(e)
  /\ progress.status \in {"collecting", "blocked"}
  /\ ~Predates(ev, target)

Completable(e, r) ==
  Accepts(e, With(e, r), CompletionTarget(e, With(e, r), CountUnknown(r)))

(* complete_claim: the slot is free again.                                 *)
Release(e) ==
  /\ claims' = [claims EXCEPT ![e[1]] = 0]
  /\ lease' = [lease EXCEPT ![e[1]] = FALSE]

(* ... and records it, releases the claim and moves the Run.               *)
Complete(e, r) ==
  \E ev \in {With(e, r)} : \E target \in {CompletionTarget(e, ev, CountUnknown(r))} :
  LET ref == IF target.to = "blocked" THEN BlockedExecution(ev, target.cause) ELSE e
      at == IF target.to # "blocked" THEN Max({r.at, LastTransition.at})
            ELSE IF target.cause = NotAllowed["semantic"]
              THEN Max({r.at, ev[ref].at, LastTransition.at})
            ELSE ev[ref].at
      moves == target.to \notin {"stays", progress.status}
  IN  /\ Accepts(e, ev, target)
      /\ evidence' = ev
      /\ Release(e)
      /\ progress' = [progress EXCEPT
                        !.unresolved = CountUnknown(r),
                        !.status = IF moves THEN target.to ELSE @]
      /\ IF moves THEN Note(target.to, target.cause, ref, at)
         ELSE UNCHANGED transitions
      /\ version' = version + 1
      /\ UNCHANGED <<resolved, recovered, ledger, receipt, calls>>

WorkerCompletes(w) ==
  /\ pc[w] = "saved"
  /\ Complete(held[w], receipt[held[w]])
  /\ Idle(w)
  /\ UNCHANGED <<clock, scan, faults>>

(* Recovery completed it first (a read), or the completion is refused.     *)
WorkerYields(w) ==
  /\ pc[w] = "saved"
  /\ ~Completable(held[w], receipt[held[w]])
  /\ Idle(w)
  /\ UNCHANGED <<audit, rows, clock, scan, calls, faults>>

(* The process stops, loses its heartbeat task, or meets a conflict.       *)
Stop(w) ==
  /\ pc[w] # "idle"
  /\ faults < MaxFaults
  /\ faults' = faults + 1
  /\ Idle(w)
  /\ UNCHANGED <<audit, rows, clock, scan, calls>>

---------------------------------------------------------------------------
(* Expired claims.                                                         *)

Attended(s) ==
  \E w \in Workers : pc[w] \notin {"idle", "planned"} /\ held[w] = <<s, claims[s]>>

(* renew_claim stops: the owner is gone, or its heartbeat is late.         *)
LeaseRunsOut(s) ==
  /\ claims[s] # 0 /\ lease[s]
  /\ lease' = [lease EXCEPT ![s] = FALSE]
  /\ IF Attended(s) THEN faults < MaxFaults /\ faults' = faults + 1 ELSE UNCHANGED faults
  /\ UNCHANGED <<audit, ledger, claims, receipt, evidence, clock, local, scan, calls>>

HasReceipt(e) == receipt[e].outcome # "none"

(* The scanner finds a durable response: the original result is completed. *)
RecoverResponse(s) ==
  /\ claims[s] # 0 /\ ~lease[s]
  /\ scan = NoWork
  /\ HasReceipt(<<s, claims[s]>>)
  /\ Complete(<<s, claims[s]>>, receipt[<<s, claims[s]>>])
  /\ UNCHANGED <<clock, local, scan, faults>>

(* CandidateExpiryRequest: the call, the version and the time of the scan. *)
ExpiryPlan(e) == [exec |-> e, version |-> version, at |-> clock + 1]

(* None: it plans to declare the result unknown, at this time ...          *)
PlanExpiry(s) ==
  /\ claims[s] # 0 /\ ~lease[s]
  /\ scan = NoWork
  /\ ~HasReceipt(<<s, claims[s]>>)
  /\ scan' = ExpiryPlan(<<s, claims[s]>>)
  /\ clock' = clock + 1
  /\ UNCHANGED <<audit, rows, local, calls, faults>>

(* ... and applies the plan under the locks, if nothing changed.           *)
ExpiryHolds_Stale == scan.version = version /\ Owns(scan.exec)

ExpiryHolds ==
  /\ scan.version = version
  /\ Owns(scan.exec)
  /\ ~HasReceipt(scan.exec)

Expire ==
  /\ scan # NoWork
  /\ ExpiryHolds
  /\ Complete(scan.exec, [outcome |-> "unknown", at |-> scan.at])
  /\ scan' = NoWork
  /\ UNCHANGED <<clock, local, faults>>

ExpiryConflict ==
  /\ scan # NoWork
  /\ ~(ExpiryHolds /\ Completable(scan.exec, [outcome |-> "unknown", at |-> scan.at]))
  /\ scan' = NoWork
  /\ UNCHANGED <<audit, rows, clock, local, calls, faults>>

---------------------------------------------------------------------------
(* The operator.                                                           *)

Draining == Active # {} \/ progress.unresolved > 0

(* plan_cancellation while work is live: only the intent is recorded.      *)
RequestCancel ==
  /\ Draining
  /\ progress.status \in {"collecting", "blocked"}
  /\ ~progress.cancel
  /\ progress' = [progress EXCEPT !.cancel = TRUE]
  /\ version' = version + 1
  /\ UNCHANGED <<resolved, recovered, transitions, rows, clock, local, scan, calls, faults>>

Canceled ==
  /\ progress' = [progress EXCEPT !.status = "canceled"]
  /\ Note("canceled", "operator_canceled", <<>>, clock)
  /\ version' = version + 1
  /\ UNCHANGED <<resolved, recovered, rows, clock, local, scan, calls, faults>>

Cancel ==
  /\ ~Draining
  /\ progress.status \in {"requested", "collecting", "blocked", "awaiting_review"}
  /\ Canceled

(* finish_cancellation, from the worker's poll.                            *)
MayFinish_Never == FALSE

MayFinish == progress.cancel /\ progress.status # "canceled" /\ ~Draining

FinishCancellation == MayFinish /\ Canceled

Resolution(e, status, cause) ==
  /\ progress.status = "blocked"
  /\ Active = {}
  /\ evidence[e].outcome = "unknown" /\ e \notin resolved
  /\ resolved' = resolved \cup {e}
  /\ progress' = [progress EXCEPT !.status = status, !.unresolved = @ - 1]
  /\ IF status # "blocked" THEN Note(status, cause, e, clock + 1) ELSE UNCHANGED transitions
  /\ clock' = clock + 1
  /\ version' = version + 1
  /\ UNCHANGED <<recovered, rows, local, scan, calls, faults>>

MayReplace(e) == e[2] <= Row(e[1]) /\ Ordinal(e) < Limit[KindOf(e)]

MayCancelRun(e) == ~(progress.cancel /\ progress.unresolved > 1)

AuthorizeReplacement(e) ==
  /\ MayReplace(e)
  /\ Resolution(e, IF progress.unresolved = 1 THEN "collecting" ELSE "blocked",
                "manual_recovery_approved")

CancelUnknown(e) ==
  /\ MayCancelRun(e)
  /\ Resolution(e, "canceled", "result_unknown_run_canceled")

(* authorize_contract_recovery: the current block is this semantic         *)
(* contract failure, and the plan would resume exactly there.              *)
RecoverContract(e) ==
  LET s == e[1] IN
  /\ progress.status = "blocked"
  /\ LastTransition.cause = NotAllowed["semantic"] /\ LastTransition.ref = e
  /\ evidence[e].outcome = "contract"
  /\ Unknowns \subseteq resolved
  /\ Ordinal(e) < SemanticLimit /\ Total("semantic") < RunLimit("semantic")
  /\ e[2] = Row(s)
  /\ \A t \in 1 .. s - 1 : SlotAction(t, evidence, recovered \cup {e}) = "done"
  /\ SlotAction(s, evidence, recovered \cup {e}) = "semantic"
  /\ recovered' = recovered \cup {e}
  /\ progress' = [progress EXCEPT !.status = "collecting"]
  /\ Note("collecting", "semantic_contract_recovery_approved", e, clock + 1)
  /\ clock' = clock + 1
  /\ version' = version + 1
  /\ UNCHANGED <<resolved, rows, local, scan, calls, faults>>

---------------------------------------------------------------------------
Step(w) ==
  \/ Plan(w) \/ Dispatch(w) \/ DispatchConflict(w) \/ Handoff(w) \/ Invoke(w)
  \/ \E outcome \in Outcomes : Reply(w, outcome)
  \/ Save(w) \/ WorkerCompletes(w) \/ WorkerYields(w)

Recovery ==
  \/ \E s \in Slots : RecoverResponse(s) \/ PlanExpiry(s)
  \/ Expire \/ ExpiryConflict

Operator ==
  \/ Start \/ RequestCancel \/ Cancel
  \/ \E e \in Executions : AuthorizeReplacement(e) \/ CancelUnknown(e) \/ RecoverContract(e)

Next ==
  \/ \E w \in Workers : Step(w) \/ Stop(w)
  \/ \E passed \in BOOLEAN : Preflight(passed)
  \/ \E s \in Slots : LeaseRunsOut(s)
  \/ Recovery
  \/ FinishCancellation
  \/ Operator

Spec == Init /\ [][Next]_vars

(* Consumers poll in a loop: a worker takes its next step, some worker     *)
(* scans expired claims and drains cancellations, and the lease of a claim *)
(* nobody renews runs out.  Nothing is assumed of the operator.            *)
FairSpec ==
  /\ Spec
  /\ \A w \in Workers : WF_vars(Step(w))
  /\ WF_vars(\E passed \in BOOLEAN : Preflight(passed))
  /\ \A s \in Slots : WF_vars(~Attended(s) /\ LeaseRunsOut(s))
  /\ WF_vars(Recovery)
  /\ WF_vars(FinishCancellation)
---------------------------------------------------------------------------
(* Properties.                                                             *)

Statuses == {"requested", "collecting", "blocked", "awaiting_review", "canceled"}
Records == [outcome : Outcomes \cup {"none"}, at : Nat]

(* Type correctness; a claim names the last ledger row of its slot.        *)
TypeOK ==
  /\ progress \in [status : Statuses, preflight : {"pending", "passed", "failed"},
                    cancel : BOOLEAN, unresolved : Nat]
  /\ resolved \subseteq Executions
  /\ recovered \subseteq Executions
  /\ version \in Nat
  /\ ledger \in [Slots -> Seq(Kinds)]
  /\ \A s \in Slots : claims[s] \in {0, Row(s)}
  /\ lease \in [Slots -> BOOLEAN]
  /\ receipt \in [Executions -> Records]
  /\ evidence \in [Executions -> Records]
  /\ clock \in Nat
  /\ pc \in [Workers -> {"idle", "planned", "committed", "cleared", "waiting",
                         "replied", "saved"}]
  /\ calls \in [Executions -> Nat]
  /\ faults \in 0 .. MaxFaults

(* The provider is invoked at most once per ledger row, and never for a    *)
(* row that is not durable: a worker that meets an existing dispatch for   *)
(* its version must not send it again (CandidateDispatchSender._send).     *)
CalledOnce ==
  \A e \in Executions : calls[e] <= 1 /\ (calls[e] = 1 => e[2] <= Row(e[1]))

(* A slot is called again only after its previous call has terminal        *)
(* evidence that allows it - a retryable failure, a success whose candidate *)
(* is judged next, or a recorded operator decision for an unknown result   *)
(* or a contract failure - and within its frozen budget, which failed and  *)
(* unknown calls spend too (slot_action, plan_resolution,                  *)
(* plan_dispatch_record).                                                  *)
RepeatsAuthorized ==
  \A s \in Slots :
    /\ \A n \in 1 .. Row(s) - 1 :
         LET e == <<s, n>> IN
         \/ evidence[e].outcome = "retryable"
         \/ evidence[e].outcome = "succeeded" /\ ledger[s][n] = "generation"
         \/ evidence[e].outcome = "unknown" /\ e \in resolved
         \/ evidence[e].outcome = "contract" /\ e \in recovered
    /\ \A k \in Kinds : Used(s, k) <= Limit[k]

(* A durable response is what the execution is completed with; without one *)
(* it ends as unknown.  A worker whose lease expired cannot add a response *)
(* afterwards, and the scanner that saw none cannot overlook one saved     *)
(* before its commit (save_response, apply_candidate_expiry).              *)
ResponseDecides ==
  \A e \in Recorded :
    IF HasReceipt(e) THEN evidence[e] = receipt[e] ELSE evidence[e].outcome = "unknown"

(* What is durable about a call is what happened to it: one invocation, one *)
(* outcome, in well typed rows.                                            *)
ExecutionsSound == TypeOK /\ CalledOnce /\ ResponseDecides

(* A Run that is blocked, awaits review or is canceled owns no live call:  *)
(* every claim is released and every dispatched call has its evidence.     *)
Drained ==
  progress.status \in {"blocked", "awaiting_review", "canceled"} =>
    /\ Active = {}
    /\ \A s \in Slots : \A n \in 1 .. Row(s) : <<s, n>> \in Recorded

(* progress_json's count of unresolved unknown results equals what the     *)
(* completions and resolutions say, although concurrent completions each   *)
(* rewrite the whole document.                                             *)
UnknownsCounted == progress.unresolved = Cardinality(Unknowns \ resolved)

(* The moves of a Run that reaches its review, with their causes.          *)
Moves ==
  {<<"requested", "collecting", "evaluation_started">>,
   <<"collecting", "blocked", UnknownCause>>,
   <<"collecting", "blocked", NotAllowed["semantic"]>>,
   <<"blocked", "collecting", "manual_recovery_approved">>,
   <<"blocked", "collecting", "semantic_contract_recovery_approved">>,
   <<"collecting", "awaiting_review", "candidate_evidence_complete">>}

Referred(cause) == {n \in 1 .. Len(transitions) : transitions[n].cause = cause}

(* validate_closed_inventory, which the release gates run before they      *)
(* compute anything: the transitions form a chain of allowed moves in time *)
(* order, each block and each recovery refers to its own execution or      *)
(* decision, and the closing transition to an accepted judgement.          *)
ClosedInventory ==
  LET last == LastTransition
      Once(cause, S) == /\ Cardinality(Referred(cause)) = Cardinality(S)
                        /\ {transitions[n].ref : n \in Referred(cause)} = S
  IN
  /\ \A n \in 2 .. Len(transitions) : LET t == transitions[n] IN
       /\ transitions[n - 1].at <= t.at
       /\ <<transitions[n - 1].to, t.to, t.cause>> \in Moves
       /\ t.cause = UnknownCause => evidence[t.ref].at = t.at
  /\ evidence[last.ref].outcome = "succeeded" /\ KindOf(last.ref) = "semantic"
  /\ evidence[last.ref].at = last.at
  /\ \A e \in Recorded : evidence[e].at <= last.at
  /\ Once(UnknownCause, Unknowns) /\ Once("manual_recovery_approved", Unknowns)
  /\ Once(NotAllowed["semantic"], recovered)
  /\ Once("semantic_contract_recovery_approved", recovered)
  /\ Unknowns = resolved
  /\ \A k \in Kinds : Total(k) <= RunLimit(k)

(* Completions were recorded in the order the calls finished, as far as    *)
(* the audit depends on it: no block covered two unknown results, and the  *)
(* call that closed the collection was the last to finish.                 *)
InOrder ==
  /\ \A e \in Unknowns : \E n \in Referred(UnknownCause) : transitions[n].ref = e
  /\ \A e \in Recorded : evidence[e].at <= LastTransition.at

(* Review starts only on complete evidence: every slot has a judged        *)
(* candidate, no unknown result is open, no cancellation is pending.       *)
EvidenceComplete ==
  progress.status = "awaiting_review" =>
    /\ \A s \in Slots : LET e == <<s, Row(s)>> IN
         Row(s) > 0 /\ KindOf(e) = "semantic" /\ evidence[e].outcome = "succeeded"
    /\ Unknowns \subseteq resolved
    /\ ~progress.cancel

(* If its calls were recorded in order, the history of a Run under review  *)
(* passes the audit the release gates will hold it to.                     *)
HistoryAudited ==
  progress.status = "awaiting_review" /\ InOrder => ClosedInventory

(* The status of a Run tells the truth about its calls, whatever the order *)
(* in which they end, expire, are decided or repeated.                     *)
SettledOnEvidence == Drained /\ UnknownsCounted /\ EvidenceComplete /\ HistoryAudited

(* A call of RunCalls is a ledger row, and the operator's decisions about  *)
(* unknown results and contract failures are what grants one.              *)
Issued ==
  [e \in Executions |-> IF e[2] <= Row(e[1]) THEN <<e[1], KindOf(e)>> ELSE <<>>]

Ended == [e \in Executions |-> evidence[e].outcome]

RunPhase ==
  IF progress.status = "awaiting_review" THEN "review"
  ELSE IF progress.status = "canceled" THEN "canceled"
  ELSE IF progress.cancel THEN "closing" ELSE "open"

Book ==
  INSTANCE RunCalls WITH
    Calls <- Executions, of <- Issued, made <- calls, ended <- Ended,
    granted <- resolved \cup recovered, phase <- RunPhase

(* With any number of calls in flight, and whoever completes, expires,     *)
(* decides or cancels them, the Run keeps what RunCalls promises: every    *)
(* call is preceded by calls that allow it, is made once and not after its *)
(* result is known, ends once and with a result it had; a requested        *)
(* cancellation stops new dispatches, although plans made before it are    *)
(* still in flight; a settled Run's calls are left alone (slot_action,     *)
(* complete_claim, plan_resolution, plan_cancellation).                    *)
KeepsCalls == Book!CallsSpec

(* A requested cancellation finishes, unless an unknown result is left for *)
(* the operator: claims drain by completion or expiry and the poll drains  *)
(* the Run.                                                                *)
CancellationDrains ==
  progress.cancel ~> (progress.status = "canceled" \/ progress.unresolved > 0)

(* The one response no completion accepts: every other slot is done or     *)
(* blocked, and the block that remains is older than a recovery that has   *)
(* reopened the Run since.                                                 *)
Overtaken ==
  \E s \in Active : LET e == <<s, claims[s]>> IN
    /\ HasReceipt(e)
    /\ Predates(With(e, receipt[e]),
                CompletionTarget(e, With(e, receipt[e]), CountUnknown(receipt[e])))

(* A collecting Run whose preflight passed reaches review, or a block that *)
(* an operator decides on, or is canceled - or its last response is        *)
(* overtaken, and only a cancellation can end it (complete_claim).         *)
RunSettles ==
  (progress.status = "collecting" /\ progress.preflight = "passed")
    ~> (progress.status # "collecting" \/ Overtaken)

(* Nothing of a Run stays under way for ever, except a response that was   *)
(* overtaken while no cancellation is requested.                           *)
EverythingSettles == CancellationDrains /\ RunSettles

=============================================================================
