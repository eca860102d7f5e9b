-------------------------- MODULE SerialEvaluation --------------------------
(***************************************************************************)
(* One evaluation Run in serial mode (serial_v1), after its preflight: one *)
(* checkpoint, one call at a time, and the SDK executions that make each   *)
(* step durable.  Where CandidateEvaluation takes a transactional send as  *)
(* one step, this module has its parts: an execution is reserved under the *)
(* identity of its intent, its root commits or aborts it, an execution     *)
(* whose owner is gone is aborted by the SDK, and who meets an aborted one *)
(* retries its frozen plan or replans.                                     *)
(*                                                                         *)
(* An intent is a dispatch of a version, the completion of an invocation   *)
(* with its durable response, or the expiry of a version's checkpoint.     *)
(* Every business change bumps the version, so a plan is the version it    *)
(* was made on; reading, planning and reserving are one action, because a  *)
(* plan that is outrun before its reservation ends like one that is outrun *)
(* before its root.  The lease of a checkpoint is five minutes and nobody  *)
(* renews it: it may run out under a call that is still in flight.         *)
(*                                                                         *)
(* An operator named X_Flaw is X with a plausible bug; the specification   *)
(* uses none of them, and PROJECT.json says which property each violates.  *)
(***************************************************************************)
EXTENDS Integers, Sequences, FiniteSets, FiniteSetsExt

CONSTANTS
  SlotCount,         \* frozen slots, in the order of the plan
  Workers,           \* evaluation consumers; each polls, scans and drains
  NoWork,            \* what an idle worker holds
  GenerationLimit,   \* max_executions_per_slot
  SemanticLimit,     \* max_executions_per_candidate
  Outcomes,          \* outcomes a call may have
  MaxFaults          \* bounds process stops and hasty aborts of the SDK

ASSUME SerialAssumption ==
  /\ SlotCount \in Nat \ {0}
  /\ GenerationLimit \in Nat \ {0} /\ SemanticLimit \in Nat \ {0}
  /\ Outcomes \subseteq {"succeeded", "retryable", "refused", "unknown"}
  /\ NoWork \notin Workers
  /\ MaxFaults \in Nat

Slots == 1 .. SlotCount
Kinds == {"generation", "semantic"}
Limit == [generation |-> GenerationLimit, semantic |-> SemanticLimit]
RunLimit(k) == SlotCount * Limit[k]   \* max_executions_per_run

\* Invocations are numbered as they are dispatched.
Invocations == 1 .. SlotCount * (GenerationLimit + SemanticLimit)

\* Created, started, preflight passed; a call is dispatched, completed and
\* perhaps resolved, and a cancellation requested and finished.
FirstVersion == 3
Versions == FirstVersion .. FirstVersion + 4 * Cardinality(Invocations) + 2

Dispatching(v) == [op |-> "dispatch", of |-> v]
Completing(i) == [op |-> "completion", of |-> i]
Expiring(v) == [op |-> "expiry", of |-> v]
Intents == {Dispatching(v) : v \in Versions} \cup {Completing(i) : i \in Invocations}
             \cup {Expiring(v) : v \in Versions}

VARIABLES
  run,      \* progress_json: [status, cancel, unresolved, resolved]; cancel is
            \* the source_version of the request, or 0
  version,  \* evaluation_checkpoints.version
  cp,       \* checkpoint_json: the dispatching invocation, or 0
  expired,  \* has its lease run out?
  ledger,   \* evaluation_dispatches: [slot, kind, version]
  receipt,  \* evaluation_response_receipts
  evidence, \* generation and semantic completions
  exec,     \* the SDK executions, by intent: [state, by, source]
  pc,       \* where each worker is
  held,     \* its intent, its invocation, or what its scan observed
  reply,    \* the result its call returned
  calls,    \* how often the provider was invoked
  faults

records == <<ledger, receipt, evidence>>
business == <<run, version, cp, expired, records>>
local == <<pc, held, reply>>
vars == <<business, exec, local, calls, faults>>

-----------------------------------------------------------------------------
(* The plan.                                                               *)

RowsOf(s, k) == {i \in 1 .. Len(ledger) : ledger[i].slot = s /\ ledger[i].kind = k}
Used(s, k) == Cardinality(RowsOf(s, k))
Total(k) == Cardinality({i \in 1 .. Len(ledger) : ledger[i].kind = k})

\* slot_action, from terminal evidence ev.
SlotAction(s, ev) ==
  LET rows == RowsOf(s, "generation") \cup RowsOf(s, "semantic")
      last == Max(rows)
      k == ledger[last].kind
  IN  IF rows = {} THEN "generation"
      ELSE IF ev[last] = "succeeded" THEN (IF k = "generation" THEN "semantic" ELSE "done")
      ELSE IF Used(s, k) < Limit[k] /\ (last \in run.resolved \/ ev[last] = "retryable")
        THEN k
      ELSE "block"

Unfinished(ev) == {s \in Slots : SlotAction(s, ev) # "done"}
NextSlot == Min(Unfinished(evidence))

WithinBudget(s, k) == Used(s, k) < Limit[k] /\ Total(k) < RunLimit(k)

\* plan_prepare_execution and plan_dispatch_record: the Run takes a new call.
Dispatchable_IgnoresCancel ==
  /\ cp = 0
  /\ run.status = "collecting" /\ run.unresolved = 0
  /\ Unfinished(evidence) # {}
  /\ LET k == SlotAction(NextSlot, evidence)
     IN  k \in Kinds /\ WithinBudget(NextSlot, k)

Dispatchable ==
  /\ cp = 0
  /\ run.status = "collecting" /\ run.cancel = 0 /\ run.unresolved = 0
  /\ Unfinished(evidence) # {}
  /\ LET k == SlotAction(NextSlot, evidence)
     IN  k \in Kinds /\ WithinBudget(NextSlot, k)

-----------------------------------------------------------------------------
(* SDK executions.                                                         *)

\* An execution has an owner while it is prepared; source is the version its
\* plan was frozen on.
ExecOf(t) ==
  IF t \in DOMAIN exec THEN exec[t] ELSE [state |-> "none", by |-> NoWork, source |-> 0]
Put(t, execution) ==
  exec' = [u \in DOMAIN exec \cup {t} |-> IF u = t THEN execution ELSE exec[u]]
Resolved(t, state) == Put(t, [exec[t] EXCEPT !.state = state, !.by = NoWork])

Init ==
  /\ run = [status |-> "collecting", cancel |-> 0, unresolved |-> 0, resolved |-> {}]
  /\ version = FirstVersion
  /\ cp = 0 /\ expired = FALSE
  /\ ledger = <<>>
  /\ receipt = [i \in Invocations |-> "none"]
  /\ evidence = [i \in Invocations |-> "none"]
  /\ exec = [t \in {} |-> NoWork]
  /\ pc = [w \in Workers |-> "idle"]
  /\ held = [w \in Workers |-> NoWork]
  /\ reply = [w \in Workers |-> "none"]
  /\ calls = [i \in Invocations |-> 0]
  /\ faults = 0

GoTo(w, at, what) ==
  /\ pc' = [pc EXCEPT ![w] = at]
  /\ held' = [held EXCEPT ![w] = what]
  /\ reply' = [reply EXCEPT ![w] = "none"]
Idle(w) == GoTo(w, "idle", NoWork)

\* reserve, retry or replan acquired the execution of t for a plan on source.
Reserve(w, t, source) ==
  /\ Put(t, [state |-> "prepared", by |-> w, source |-> source])
  /\ GoTo(w, "reserved", t)
  /\ UNCHANGED <<business, calls, faults>>

\* The root is bound to the execution its worker acquired.
Owned_Unfenced(w, t) == pc[w] = "reserved" /\ held[w] = t
Owned(w, t) ==
  /\ pc[w] = "reserved" /\ held[w] = t
  /\ ExecOf(t).state = "prepared" /\ ExecOf(t).by = w

\* The SDK resolves an execution that stays prepared: its owner is gone, or
\* slow enough to look so.
Abort(t) ==
  /\ exec[t].state = "prepared"
  /\ Resolved(t, "aborted")
  /\ IF \E w \in Workers : Owned(w, t)
     THEN faults < MaxFaults /\ faults' = faults + 1
     ELSE UNCHANGED faults
  /\ UNCHANGED <<business, local, calls>>

-----------------------------------------------------------------------------
(* Dispatch and call.                                                      *)

\* WorkerDispatchRecovery: a first dispatch of this version, or a replan of an
\* aborted one; any other execution belongs to someone else.
ReserveDispatch(w) ==
  LET t == Dispatching(version) IN
  /\ pc[w] = "idle" /\ Dispatchable
  /\ ExecOf(t).state \in {"none", "aborted"}
  /\ Reserve(w, t, version)

DispatchHolds(v) == version = v /\ Dispatchable

\* WorkerDispatchWrite: prepare_execution and reserve_dispatch in one root,
\* whose fresh commit hands the call to this worker.
CommitDispatch(w) ==
  LET t == Dispatching(version)
      i == Len(ledger) + 1
  IN
  /\ Owned(w, t) /\ DispatchHolds(t.of)
  /\ ledger' = Append(ledger, [slot |-> NextSlot, kind |-> SlotAction(NextSlot, evidence),
                               version |-> version + 2])
  /\ cp' = i /\ expired' = FALSE
  /\ version' = version + 2
  /\ Resolved(t, "committed")
  /\ GoTo(w, "cleared", i)
  /\ UNCHANGED <<run, receipt, evidence, calls, faults>>

Invoke(w) ==
  /\ pc[w] = "cleared"
  /\ calls' = [calls EXCEPT ![held[w]] = @ + 1]
  /\ pc' = [pc EXCEPT ![w] = "waiting"]
  /\ UNCHANGED <<business, exec, held, reply, faults>>

Reply(w, outcome) ==
  /\ pc[w] = "waiting"
  /\ reply' = [reply EXCEPT ![w] = outcome]
  /\ pc' = [pc EXCEPT ![w] = "replied"]
  /\ UNCHANGED <<business, exec, held, calls, faults>>

\* Only the recorded cancellation request may have moved the version since
\* the dispatch.
VersionFollows(i) ==
  \/ version = ledger[i].version
  \/ run.cancel = ledger[i].version /\ version = run.cancel + 1

\* save_serial_response: the dispatched checkpoint, whatever its lease.
MaySave(i) == cp = i /\ VersionFollows(i)

Save(w) ==
  LET i == held[w] IN
  /\ pc[w] = "replied"
  /\ IF MaySave(i)
     THEN receipt' = [receipt EXCEPT ![i] = reply[w]] /\ GoTo(w, "saved", i)
     ELSE UNCHANGED receipt /\ Idle(w)
  /\ UNCHANGED <<run, version, cp, expired, ledger, evidence, exec, calls, faults>>

-----------------------------------------------------------------------------
(* Completion.                                                             *)

\* generation_completion_progress and semantic_completion_progress
Blocks(i, outcome) ==
  LET s == ledger[i].slot
      k == ledger[i].kind
  IN  outcome # "succeeded" /\ ~(outcome = "retryable" /\ Used(s, k) < Limit[k])

\* project_semantic_progress: only a judgement can end the collection.
ReadyForReview(i, outcome) ==
  /\ ledger[i].kind = "semantic" /\ outcome = "succeeded" /\ run.cancel = 0
  /\ Unfinished([evidence EXCEPT ![i] = outcome]) = {}

CompletedStatus(i, outcome) ==
  IF Blocks(i, outcome) THEN "blocked"
  ELSE IF ReadyForReview(i, outcome) THEN "awaiting_review" ELSE "collecting"

\* read_generation_acceptance: no candidate yet, every earlier execution ended.
GenerationAcceptable(i) ==
  \A j \in RowsOf(ledger[i].slot, "generation") :
    IF j < i THEN evidence[j] \notin {"none", "succeeded"} ELSE evidence[j] = "none"

\* read_semantic_acceptance: a candidate, not judged yet.
SemanticAcceptable(i) ==
  /\ \E j \in RowsOf(ledger[i].slot, "generation") : evidence[j] = "succeeded"
  /\ \A j \in RowsOf(ledger[i].slot, "semantic") :
       IF j < i THEN evidence[j] \notin {"none", "succeeded"} ELSE evidence[j] = "none"

Acceptable(i) ==
  IF ledger[i].kind = "generation" THEN GenerationAcceptable(i) ELSE SemanticAcceptable(i)

\* complete_generation and complete_semantic: evidence, progress, no checkpoint.
Complete(i, outcome) ==
  /\ evidence' = [evidence EXCEPT ![i] = outcome]
  /\ run' = [run EXCEPT !.status = CompletedStatus(i, outcome),
                        !.unresolved = @ + (IF outcome = "unknown" THEN 1 ELSE 0)]
  /\ cp' = 0 /\ expired' = FALSE
  /\ version' = version + 1
  /\ UNCHANGED <<ledger, receipt, calls, faults>>

HasReceipt(i) == receipt[i] # "none"

\* prepare_step_completion: evidence is derived again from the saved response, a
\* deterministic reading, so a receipt is known by the outcome it yields.
OutcomeOf(i) == receipt[i]

\* _load of a completion planner and of its root.
Loadable(i) ==
  /\ HasReceipt(i)
  /\ cp = i /\ run.status = "collecting" /\ VersionFollows(i)

\* The worker's own completion: a first one only.
ReserveCompletion(w) ==
  LET t == Completing(held[w]) IN
  /\ pc[w] = "saved"
  /\ ExecOf(t).state = "none" /\ Loadable(held[w])
  /\ Reserve(w, t, version)

\* Someone else owns it, resolved it, or the Run moved on.
LeaveCompletion(w) ==
  /\ pc[w] = "saved"
  /\ ExecOf(Completing(held[w])).state # "none" \/ ~Loadable(held[w])
  /\ Idle(w)
  /\ UNCHANGED <<business, exec, calls, faults>>

CompletionHolds(t) ==
  Loadable(t.of) /\ version = ExecOf(t).source /\ Acceptable(t.of)

CommitCompletion(w, kind) ==
  \E i \in 1 .. Len(ledger) : LET t == Completing(i) IN
    /\ ledger[i].kind = kind
    /\ Owned(w, t) /\ CompletionHolds(t)
    /\ Complete(i, OutcomeOf(i))
    /\ Resolved(t, "committed")
    /\ Idle(w)

\* SerialGenerationWrite and SerialSemanticWrite
CommitGeneration(w) == CommitCompletion(w, "generation")
CommitSemantic(w) == CommitCompletion(w, "semantic")

-----------------------------------------------------------------------------
(* Recovery of an expired checkpoint.                                      *)

LeaseRunsOut ==
  /\ cp # 0 /\ ~expired
  /\ expired' = TRUE
  /\ UNCHANGED <<run, version, cp, records, exec, local, calls, faults>>

\* recover_next and SerialRecoveryRuntime.__call__: what one snapshot shows.
Scan(w) ==
  /\ pc[w] = "idle" /\ cp # 0 /\ expired /\ run.status = "collecting"
  /\ GoTo(w, "scanned", [call |-> cp, version |-> version, found |-> HasReceipt(cp)])
  /\ UNCHANGED <<business, exec, calls, faults>>

\* _finish_response: a first completion; an aborted one is retried on its own
\* source version and replanned on a later one.
Retries(w) ==
  LET old == ExecOf(Completing(held[w].call))
  IN  /\ old.state = "aborted" /\ held[w].version = old.source /\ version = old.source
Replans_Never(w) == ExecOf(Completing(held[w].call)).state = "none"
Replans(w) ==
  LET old == ExecOf(Completing(held[w].call))
  IN  \/ old.state = "none"
      \/ old.state = "aborted" /\ held[w].version > old.source

RecoverResponse(w) ==
  /\ pc[w] = "scanned" /\ held[w].found
  /\ Loadable(held[w].call) /\ (Retries(w) \/ Replans(w))
  /\ Reserve(w, Completing(held[w].call), version)

\* project_expired_recovery: exactly this expired checkpoint, and no response.
ExpiryHolds_Blind(v) == version = v /\ cp # 0 /\ expired /\ run.status = "collecting"
ExpiryHolds(v) ==
  /\ version = v /\ cp # 0 /\ expired /\ run.status = "collecting"
  /\ ~HasReceipt(cp) /\ Acceptable(cp)

\* _finish_expiry: plan it, or retry the aborted plan as it was frozen.
RecoverExpiry(w) ==
  LET v == held[w].version
      t == Expiring(v)
  IN
  /\ pc[w] = "scanned" /\ ~held[w].found
  /\ \/ ExecOf(t).state = "none" /\ ExpiryHolds(v)
     \/ ExecOf(t).state = "aborted"
  /\ Reserve(w, t, v)

\* A conflict, or an execution that someone else owns or resolved.
LeaveScan(w) ==
  LET v == held[w].version
      t == Expiring(v)
  IN
  /\ pc[w] = "scanned"
  /\ IF held[w].found
     THEN ~(Loadable(held[w].call) /\ (Retries(w) \/ Replans(w)))
     ELSE ~(\/ ExecOf(t).state = "none" /\ ExpiryHolds(v)
            \/ ExecOf(t).state = "aborted")
  /\ Idle(w)
  /\ UNCHANGED <<business, exec, calls, faults>>

\* apply_expired_recovery, recover_expired
CommitExpiry(w) ==
  LET t == Expiring(version) IN
  /\ Owned(w, t) /\ ExpiryHolds(t.of)
  /\ Complete(cp, "unknown")
  /\ Resolved(t, "committed")
  /\ Idle(w)

RootHolds(t) ==
  CASE t.op = "dispatch" -> DispatchHolds(t.of)
    [] t.op = "completion" -> CompletionHolds(t)
    [] t.op = "expiry" -> ExpiryHolds(t.of)

\* The root raises: the worker's own execution is aborted.  An execution it no
\* longer owns is left alone, committed or not.
RefuseRoot(w) ==
  LET t == held[w] IN
  /\ pc[w] = "reserved" /\ ~(Owned(w, t) /\ RootHolds(t))
  /\ IF Owned(w, t) THEN Resolved(t, "aborted") ELSE UNCHANGED exec
  /\ Idle(w)
  /\ UNCHANGED <<business, calls, faults>>

Stop(w) ==
  /\ pc[w] # "idle"
  /\ faults < MaxFaults /\ faults' = faults + 1
  /\ Idle(w)
  /\ UNCHANGED <<business, exec, calls>>

-----------------------------------------------------------------------------
(* The operator, and the drain of a cancellation.                          *)

Decide(progress) ==
  /\ run' = progress
  /\ version' = version + 1
  /\ UNCHANGED <<cp, expired, records, exec, local, calls, faults>>

Draining == cp # 0 \/ run.unresolved > 0

RequestCancel ==
  /\ Draining /\ run.status \in {"collecting", "blocked"} /\ run.cancel = 0
  /\ Decide([run EXCEPT !.cancel = version])

Cancel ==
  /\ ~Draining /\ run.status \in {"collecting", "blocked", "awaiting_review"}
  /\ Decide([run EXCEPT !.status = "canceled"])

FinishCancellation ==
  /\ ~Draining /\ run.cancel # 0 /\ run.status # "canceled"
  /\ Decide([run EXCEPT !.status = "canceled"])

\* plan_resolution of an unknown result: replace the call, or give up the Run.
Resolve(i, status) ==
  /\ run.status = "blocked" /\ cp = 0
  /\ evidence[i] = "unknown" /\ i \notin run.resolved
  /\ Decide([run EXCEPT !.status = status, !.unresolved = @ - 1,
                        !.resolved = @ \cup {i}])

Replace(i) ==
  /\ i <= Len(ledger) /\ Used(ledger[i].slot, ledger[i].kind) < Limit[ledger[i].kind]
  /\ Resolve(i, "collecting")

CancelUnknown(i) == Resolve(i, "canceled")

-----------------------------------------------------------------------------
Step(w) ==
  \/ ReserveDispatch(w) \/ CommitDispatch(w) \/ Invoke(w)
  \/ \E outcome \in Outcomes : Reply(w, outcome)
  \/ Save(w) \/ ReserveCompletion(w) \/ LeaveCompletion(w)
  \/ CommitGeneration(w) \/ CommitSemantic(w)
  \/ Scan(w) \/ RecoverResponse(w) \/ RecoverExpiry(w) \/ LeaveScan(w) \/ CommitExpiry(w)
  \/ RefuseRoot(w)

Operator ==
  \/ RequestCancel \/ Cancel
  \/ \E i \in Invocations : Replace(i) \/ CancelUnknown(i)

Next ==
  \/ \E w \in Workers : Step(w) \/ Stop(w)
  \/ \E t \in DOMAIN exec : Abort(t)
  \/ LeaseRunsOut \/ FinishCancellation \/ Operator

Spec == Init /\ [][Next]_vars

Disowned(t) == ~\E w \in Workers : Owned(w, t)

\* Consumers poll in a loop, leases run out, a model call returns or times out,
\* the drain polls, and the SDK aborts what no live owner holds.
FairSpec ==
  /\ Spec
  /\ \A w \in Workers : WF_vars(Step(w))
  /\ WF_vars(\E t \in DOMAIN exec : Disowned(t) /\ Abort(t))
  /\ WF_vars(LeaseRunsOut) /\ WF_vars(FinishCancellation)

-----------------------------------------------------------------------------
(* Properties.                                                             *)

\* The types of the tables; the checkpoint is the last dispatch of a
\* collecting Run and has no evidence yet.
TypeOK ==
  /\ run.status \in {"collecting", "blocked", "awaiting_review", "canceled"}
  /\ run.cancel \in Versions \cup {0} /\ run.unresolved \in {0, 1}
  /\ run.resolved \subseteq Invocations
  /\ version \in Versions
  /\ Len(ledger) <= Cardinality(Invocations)
  /\ cp # 0 => cp = Len(ledger) /\ evidence[cp] = "none" /\ run.status = "collecting"
  /\ DOMAIN exec \subseteq Intents
  /\ \A t \in DOMAIN exec :
       /\ exec[t].state \in {"prepared", "aborted", "committed"}
       /\ exec[t].by = NoWork <=> exec[t].state # "prepared"

\* The provider is invoked at most once per dispatch, whoever retries, replans
\* or recovers it, and a slot is called again only when the call before it has
\* evidence that allows it (WorkerDispatchSender._send, slot_action).
CalledOnce ==
  /\ \A i \in Invocations : calls[i] <= 1 /\ (calls[i] = 1 => i <= Len(ledger))
  /\ \A i \in 1 .. Len(ledger) - 1 :
       \/ evidence[i] \in {"succeeded", "retryable"}
       \/ evidence[i] = "unknown" /\ i \in run.resolved

\* A response that is durable decides its call: an expiry planned before it was
\* saved, retried after it or raced by a cancellation never turns it into an
\* unknown result (project_expired_recovery, DurableSerialResponseAvailable).
ReceiptDecides ==
  \A i \in 1 .. Len(ledger) : evidence[i] # "none" =>
    IF HasReceipt(i) THEN evidence[i] = receipt[i] ELSE evidence[i] = "unknown"

\* What is durable about a call is what happened to it: one invocation, one
\* outcome, in well typed rows.
ExecutionsSound == TypeOK /\ CalledOnce /\ ReceiptDecides

\* An SDK execution is committed exactly when its business effect exists, so
\* that a later reader of the witness is told the truth: dispatches have their
\* ledger row, and each call is settled by its completion or by one expiry.
WitnessTrue ==
  /\ \A v \in Versions :
       ExecOf(Dispatching(v)).state = "committed"
         <=> \E i \in 1 .. Len(ledger) : ledger[i].version = v + 2
  /\ \A i \in 1 .. Len(ledger) :
       evidence[i] # "none" <=>
         Cardinality({t \in {Completing(i)}
                            \cup {Expiring(v) : v \in {ledger[i].version, ledger[i].version + 1}} :
                      ExecOf(t).state = "committed"}) = 1

\* A call of RunCalls is a ledger row; the decision to replace a call whose
\* result is unknown, or to give up the Run with it, is what grants one.
Issued ==
  [i \in Invocations |->
     IF i <= Len(ledger) THEN <<ledger[i].slot, ledger[i].kind>> ELSE <<>>]

RunPhase ==
  IF run.status = "awaiting_review" THEN "review"
  ELSE IF run.status = "canceled" THEN "canceled"
  ELSE IF run.cancel # 0 THEN "closing" ELSE "open"

Book ==
  INSTANCE RunCalls WITH
    Calls <- Invocations, of <- Issued, made <- calls, ended <- evidence,
    granted <- run.resolved, phase <- RunPhase

\* The Run keeps what RunCalls promises of its calls, as it does when several
\* of them are in flight: whoever retries, replans, recovers or cancels, every
\* call is preceded by calls that allow it, is made once and not after its
\* result is known, and ends once and with a result it had (slot_action,
\* complete_generation, complete_semantic, recover_expired, plan_resolution).
KeepsCalls == Book!CallsSpec

\* Every dispatched call gets its evidence, whatever fails on the way and
\* whenever the operator cancels: nothing waits for an execution that nobody
\* will resolve (SerialRecoveryRuntime, ExpiredRecoveryRecovery).
CallsSettle == []<>(\A i \in 1 .. Len(ledger) : evidence[i] # "none")
=============================================================================
