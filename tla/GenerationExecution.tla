------------------------- MODULE GenerationExecution -------------------------
(***************************************************************************)
(* The execution core of participant interpretations: the Session and Run  *)
(* state machines, the job queue with its fenced lease, the durable        *)
(* model-call marker, the participant slot, the Artifact and the state     *)
(* outbox, as the MySQL transactions of the service change them, and the   *)
(* worker processes that run between those transactions.                   *)
(*                                                                         *)
(* Each transaction locks Session, then Job and Lease, then the            *)
(* organization, so one action is one committed transaction.  A worker     *)
(* holds only what it read: a claim source (read without a lock) or a      *)
(* Claim (run, session version, fence).  A process may stop, and its lease *)
(* may lapse, between any two of its steps; a commit whose outcome the     *)
(* caller never learns is the commit followed by the stop.                 *)
(*                                                                         *)
(* An operator named X_Flaw is X with a plausible bug; the specification   *)
(* uses none of them, and PROJECT.json says which property each violates.  *)
(***************************************************************************)
EXTENDS ParticipantCapacity

CONSTANTS
  Workers,       \* worker processes
  MaxRuns,       \* Runs one Session may have: bounds participant retries
  AttemptLimit,  \* executions of a job before it is given up (3 in the code)
  Requests,      \* model requests a worker may build for a Session
  NoRequest,     \* a null request
  MaxDay,        \* bounds the days that pass
  MaxFaults      \* bounds process stops and late heartbeats

ASSUME ExecutionAssumption ==
  /\ MaxRuns \in Nat \ {0}
  /\ AttemptLimit \in Nat \ {0}
  /\ MaxDay \in Nat
  /\ MaxFaults \in Nat
  /\ NoRequest \notin Requests

VARIABLES
  session,    \* sessions: [status, version, active, failure]
  run,        \* runs.status
  job,        \* jobs: [status, attempt, fence, due]
  lease,      \* execution_leases: [fence, live]; no row is fence 0
  call,       \* model_calls: [status, fence, req]
  slot,       \* participant_capacity_reservations: [state, day]
  retried,    \* participant_retries of the Run: [req, risk]
  configured, \* Sessions with an accepted execution configuration
  artifacts,  \* Runs whose Artifact row was inserted
  outbox,     \* result_outbox: <<session, version, status>>
  sent,       \* how often the provider gateway was invoked for the Run
  today,      \* the budget day
  pc,         \* where each worker is
  source,     \* the claim source a worker read without a lock
  claim,      \* the Claim a worker was handed
  result,     \* the outcome a worker carries to its next transaction
  faults      \* faults so far

tables == <<session, run, job, lease, call, slot, retried, configured,
            artifacts, outbox>>
vars == <<tables, sent, today, pc, source, claim, result, faults>>

Runs == Sessions \X (1 .. MaxRuns)
NoRun == <<"none", 0>>
Current(s) == <<s, session[s].active>>

SessionStatus == {"absent", "queued", "running", "blocked", "cancelled",
                  "completed"}
RunStatus == SessionStatus
JobStatus == {"absent", "queued", "leased", "done", "dead", "cancelled"}
CallStatus == {"none", "dispatched", "response_received", "unknown", "failed"}
SlotState == {"none", "reserved", "active", "released"}
FailureCodes == {"none", "refused", "attempts_exhausted",
                 "provider_result_unknown", "failed"}
Results == {"none", "response", "artifact", "provider_result_unknown",
            "failed"}
Steps == {"idle", "source", "defer", "handoff", "claimed", "begin", "send",
          "record", "validate", "finish"}

NoSource == [version |-> 0, status |-> "absent", jobStatus |-> "absent",
             attempt |-> 0, jobFence |-> 0, leaseFence |-> 0]
NoClaim == [run |-> NoRun, version |-> 0, fence |-> 0]

Init ==
  /\ session = [s \in Sessions |-> [status |-> "absent", version |-> 0,
                                    active |-> 0, failure |-> "none"]]
  /\ run = [r \in Runs |-> "absent"]
  /\ job = [r \in Runs |-> [status |-> "absent", attempt |-> 0, fence |-> 0,
                            due |-> FALSE]]
  /\ lease = [s \in Sessions |-> [fence |-> 0, live |-> FALSE]]
  /\ call = [r \in Runs |-> [status |-> "none", fence |-> 0,
                             req |-> NoRequest]]
  /\ slot = [r \in Runs |-> [state |-> "none", day |-> 0]]
  /\ retried = [r \in Runs |-> [req |-> NoRequest, risk |-> FALSE]]
  /\ configured = {}
  /\ artifacts = {}
  /\ outbox = {}
  /\ sent = [r \in Runs |-> 0]
  /\ today = 0
  /\ pc = [w \in Workers |-> "idle"]
  /\ source = [w \in Workers |-> NoSource]
  /\ claim = [w \in Workers |-> NoClaim]
  /\ result = [w \in Workers |-> "none"]
  /\ faults = 0

-----------------------------------------------------------------------------
(* The Session aggregate, and the save that stages its state event.         *)

\* save: the Session row and, in the same transaction, the event of its new
\* version; a second save of one version keeps the first event.
Stage(s, version, status) ==
  outbox \cup (IF \E e \in outbox : e[1] = s /\ e[2] = version
               THEN {} ELSE {<<s, version, status>>})

Save(s, status, steps, active, failure) ==
  LET version == session[s].version + steps IN
  /\ session' = [session EXCEPT ![s] =
                   [status |-> status, version |-> version,
                    active |-> active, failure |-> failure]]
  /\ outbox' = Stage(s, version, status)

ActiveRows == {r \in Runs : slot[r].state = "active"}
DayRows == {r \in Runs : slot[r].state # "none" /\ slot[r].day = today}

\* release: only a slot that is held is given back, never the day's budget.
Release_Never(r) == slot' = slot
Release(r) ==
  slot' = [slot EXCEPT ![r].state = IF @ = "active" THEN "released" ELSE @]

\* enqueue: reserve the day's budget for the Run, insert the Run and its job.
Enqueue(r) ==
  /\ Fits(DayRows, r[1], DailyLimits)
  /\ slot' = [slot EXCEPT ![r] = [state |-> "reserved", day |-> today]]
  /\ run' = [run EXCEPT ![r] = "queued"]
  /\ job' = [job EXCEPT ![r] = [status |-> "queued", attempt |-> 0,
                                fence |-> 0, due |-> TRUE]]

NoWorkerStep == UNCHANGED <<sent, today, pc, source, claim, result, faults>>

-----------------------------------------------------------------------------
(* Commands.                                                                *)

\* start_external, accepted: the Session is created queued (version 1, then
\* queue), its configuration is bound and its first Run enqueued.
StartAccepted(s) ==
  /\ session[s].status = "absent"
  /\ Enqueue(<<s, 1>>)
  /\ Save(s, "queued", 2, 1, "none")
  /\ configured' = configured \cup {s}
  /\ UNCHANGED <<lease, call, retried, artifacts>>
  /\ NoWorkerStep

\* start_external, refused: evidence or configuration is invalid (nothing is
\* bound) or, after the configuration was bound, the day's budget is spent.
\* The refusal is a blocked Session with a Run and no job.
StartRefused(s, bound) ==
  /\ session[s].status = "absent"
  /\ bound => ~Fits(DayRows, s, DailyLimits)
  /\ run' = [run EXCEPT ![<<s, 1>>] = "blocked"]
  /\ Save(s, "blocked", 4, 1, "refused")
  /\ configured' = IF bound THEN configured \cup {s} ELSE configured
  /\ UNCHANGED <<job, lease, call, slot, retried, artifacts>>
  /\ NoWorkerStep

\* Session.cancel refuses what has ended; cancel_jobs takes what is in flight.
Final == {"cancelled", "completed"}

Queued(r) == job[r].status \in {"queued", "leased"}

\* cancel: jobs and Runs still in flight are cancelled, the fence moves on and
\* the active Run's slot is released.
Cancel(s) ==
  /\ session[s].status \notin Final \cup {"absent"}
  /\ job' = [r \in Runs |->
               IF r[1] = s /\ Queued(r)
               THEN [job[r] EXCEPT !.status = "cancelled"] ELSE job[r]]
  /\ run' = [r \in Runs |->
               IF r[1] = s /\ run[r] \in {"queued", "running"}
               THEN "cancelled" ELSE run[r]]
  /\ lease' = IF lease[s].fence = 0 THEN lease
              ELSE [lease EXCEPT ![s] = [fence |-> @.fence + 1,
                                         live |-> FALSE]]
  /\ Release(Current(s))
  /\ Save(s, "cancelled", 1, session[s].active, session[s].failure)
  /\ UNCHANGED <<call, retried, configured, artifacts>>
  /\ NoWorkerStep

\* The provider may hold this Run's request with a result nobody recorded.
ResultUnknown_Settled(r) == call[r].status = "unknown"
ResultUnknown(r) == call[r].status \in {"dispatched", "unknown"}

\* The request a retry of Run r must send: the one r dispatched, or had itself
\* inherited when it was blocked before its dispatch.
Frozen(r) == IF call[r].status # "none" THEN call[r].req ELSE retried[r].req

\* retry: an operator starts a new Run of a blocked Session.  A source Run
\* whose result is unknown needs the risk to be accepted.
Retry(s, risk) ==
  LET from == Current(s)
      to == <<s, session[s].active + 1>> IN
  /\ session[s].status = "blocked"
  /\ session[s].active < MaxRuns
  /\ run[from] = "blocked"
  /\ job[from].status \in {"absent", "done", "dead"}
  /\ ResultUnknown(from) => risk
  /\ s \in configured
  /\ Enqueue(to)
  /\ retried' = [retried EXCEPT ![to] = [req |-> Frozen(from), risk |-> risk]]
  /\ Save(s, "queued", 1, session[s].active + 1, "none")
  /\ UNCHANGED <<lease, call, configured, artifacts>>
  /\ NoWorkerStep

-----------------------------------------------------------------------------
(* Claiming a job.                                                          *)

\* _eligible_jobs.  lease_until is written after expires_at in every
\* transaction, so a leased job is due exactly when its lease has expired.
Eligible_QueuedOnly(r) == job[r].status = "queued" /\ job[r].due
Eligible(r) ==
  \/ job[r].status = "queued" /\ job[r].due
  \/ job[r].status = "leased" /\ ~lease[r[1]].live

Exhausted(r) == job[r].attempt >= AttemptLimit

HasResponse(r) == call[r].status = "response_received"

\* read_claim_source: what makes job r claimable, and what is remembered of it.
Claimable(r) ==
  LET s == r[1] IN
  /\ Eligible(r)
  /\ session[s].active = r[2]
  /\ session[s].status \in {"queued", "running"}
  /\ Exhausted(r) \/ ~lease[s].live
  /\ ~HasResponse(r)

SourceOf(r) ==
  [version |-> session[r[1]].version, status |-> session[r[1]].status,
   jobStatus |-> job[r].status, attempt |-> job[r].attempt,
   jobFence |-> job[r].fence, leaseFence |-> lease[r[1]].fence]

\* The worker goes back to its scan with nothing.
GoIdle(w) ==
  /\ pc' = [pc EXCEPT ![w] = "idle"]
  /\ source' = [source EXCEPT ![w] = NoSource]
  /\ claim' = [claim EXCEPT ![w] = NoClaim]
  /\ result' = [result EXCEPT ![w] = "none"]

GoTo(w, step, value) ==
  /\ pc' = [pc EXCEPT ![w] = step]
  /\ result' = [result EXCEPT ![w] = value]
  /\ UNCHANGED <<source, claim>>

ReadSource(w, r) ==
  /\ pc[w] = "idle"
  /\ Claimable(r)
  /\ pc' = [pc EXCEPT ![w] = "source"]
  /\ source' = [source EXCEPT ![w] = SourceOf(r)]
  /\ claim' = [claim EXCEPT ![w].run = r]
  /\ UNCHANGED <<tables, sent, today, result, faults>>

\* The locked recheck of InterpretationClaimWrite.
SourceHolds(w) ==
  LET r == claim[w].run IN Claimable(r) /\ SourceOf(r) = source[w]

SlotFree(r) ==
  \/ slot[r].state = "active"
  \/ slot[r].state = "reserved" /\ Fits(ActiveRows, r[1], ActiveLimits)

\* A new lease under the next fence, which the job records with it.
NextFence(r) == lease[r[1]].fence + 1

TakeLease_LeaseOnly(r, attempts) ==
  /\ lease' = [lease EXCEPT ![r[1]] = [fence |-> NextFence(r), live |-> TRUE]]
  /\ job' = [job EXCEPT ![r] =
               [status |-> "leased", attempt |-> @.attempt + attempts,
                fence |-> IF attempts = 0 THEN @.fence ELSE NextFence(r),
                due |-> @.due]]
TakeLease(r, attempts) ==
  /\ lease' = [lease EXCEPT ![r[1]] = [fence |-> NextFence(r), live |-> TRUE]]
  /\ job' = [job EXCEPT ![r] =
               [status |-> "leased", attempt |-> @.attempt + attempts,
                fence |-> NextFence(r), due |-> @.due]]

\* claim_in, claimed: take the slot, advance the fence, run the Session.
Claim(w) ==
  LET r == claim[w].run
      s == r[1] IN
  /\ pc[w] = "source"
  /\ SourceHolds(w)
  /\ ~Exhausted(r)
  /\ SlotFree(r)
  /\ slot' = [slot EXCEPT ![r].state = "active"]
  /\ Save(s, "running", 1, r[2], session[s].failure)
  /\ TakeLease(r, 1)
  /\ run' = [run EXCEPT ![r] = "running"]
  /\ claim' = [claim EXCEPT ![w] = [run |-> r, fence |-> NextFence(r),
                                    version |-> session[s].version + 1]]
  /\ pc' = [pc EXCEPT ![w] = "handoff"]
  /\ source' = [source EXCEPT ![w] = NoSource]
  /\ UNCHANGED <<call, retried, configured, artifacts>>
  /\ UNCHANGED <<sent, today, result, faults>>

\* claim_in, exhausted: a job that was executed AttemptLimit times and left no
\* response becomes a visible blocked Session.
Exhaust(w) ==
  LET r == claim[w].run
      s == r[1] IN
  /\ pc[w] = "source"
  /\ SourceHolds(w)
  /\ Exhausted(r)
  /\ Save(s, "blocked", 2, r[2], "attempts_exhausted")
  /\ job' = [job EXCEPT ![r].status = "dead"]
  /\ run' = [run EXCEPT ![r] = "blocked"]
  /\ lease' = [lease EXCEPT ![s] = [fence |-> @.fence + 1, live |-> FALSE]]
  /\ Release(r)
  /\ GoIdle(w)
  /\ UNCHANGED <<call, retried, configured, artifacts>>
  /\ UNCHANGED <<sent, today, faults>>

\* The claim root found the slot refused and was rolled back: the worker still
\* has to delay the job, in a transaction of its own.
SlotRefused(w) ==
  /\ pc[w] = "source"
  /\ SourceHolds(w)
  /\ ~Exhausted(claim[w].run)
  /\ ~SlotFree(claim[w].run)
  /\ pc' = [pc EXCEPT ![w] = "defer"]
  /\ UNCHANGED <<tables, sent, today, source, claim, result, faults>>

\* InterpretationClaimDeferral: delay the same job if it is still refused.  A
\* slot that has become free meanwhile is not taken here.
Defer(w) ==
  /\ pc[w] = "defer"
  /\ job' = IF SourceHolds(w) /\ ~SlotFree(claim[w].run)
            THEN [job EXCEPT ![claim[w].run].due = FALSE] ELSE job
  /\ GoIdle(w)
  /\ UNCHANGED <<session, run, lease, call, slot, retried, configured,
                 artifacts, outbox, sent, today, faults>>

\* The source changed before the lock was taken: nothing is written.
ClaimMissed(w) ==
  /\ pc[w] = "source"
  /\ ~SourceHolds(w)
  /\ GoIdle(w)
  /\ UNCHANGED <<tables, sent, today, faults>>

\* claim_finalization: a recorded response outlives its worker.  Take over the
\* lease only; no attempt, version, event or slot changes.
ClaimFinalization(w, r) ==
  LET s == r[1] IN
  /\ pc[w] = "idle"
  /\ HasResponse(r)
  /\ session[s].status = "running"
  /\ session[s].active = r[2]
  /\ job[r].status = "leased"
  /\ ~lease[s].live
  /\ lease[s].fence = job[r].fence
  /\ 0 < call[r].fence /\ call[r].fence <= lease[s].fence
  /\ slot[r].state = "active"
  /\ TakeLease(r, 0)
  /\ claim' = [claim EXCEPT ![w] = [run |-> r, fence |-> NextFence(r),
                                    version |-> session[s].version]]
  /\ pc' = [pc EXCEPT ![w] = "claimed"]
  /\ UNCHANGED <<session, run, call, slot, retried, configured, artifacts,
                 outbox, sent, today, source, result, faults>>

-----------------------------------------------------------------------------
(* Executing a claim.                                                       *)

\* read_claim under lock: the Claim still owns its Session.
Owns_RunOnly(w) ==
  /\ claim[w].run # NoRun
  /\ session[claim[w].run[1]].status = "running"
  /\ session[claim[w].run[1]].active = claim[w].run[2]
Owns(w) ==
  LET c == claim[w]
      s == c.run[1] IN
  /\ c.run # NoRun
  /\ session[s].status = "running"
  /\ session[s].active = c.run[2]
  /\ session[s].version = c.version
  /\ job[c.run].status = "leased"
  /\ job[c.run].fence = c.fence
  /\ lease[s].fence = c.fence
  /\ lease[s].live

Executing == {"handoff", "claimed", "begin", "send", "record", "validate",
              "finish"}

\* record_model_response: the marker is still this dispatch's.
Records(w) ==
  LET r == claim[w].run IN
  call[r].status = "dispatched" /\ call[r].fence = claim[w].fence

NoTableStep == UNCHANGED <<tables, sent, today, faults>>

\* _handoff: the committed claim is read again before the model is admitted.
Handoff(w) ==
  /\ pc[w] = "handoff" /\ Owns(w)
  /\ GoTo(w, "claimed", "none")
  /\ NoTableStep

\* authorize, evidence (which checks the claim) and prepare_explanation.
Prepare(w) ==
  /\ pc[w] = "claimed"
  /\ \/ Owns(w) /\ GoTo(w, "begin", "none")
     \/ GoTo(w, "finish", "failed")
  /\ NoTableStep

\* begin_model_call with no row: commit the dispatch marker, with the request a
\* retry inherited or the one just built.  A request that differs from the
\* frozen one is refused after the marker was committed, and is never sent.
BeginNew(w, q) ==
  LET r == claim[w].run
      frozen == IF retried[r].req # NoRequest THEN retried[r].req ELSE q IN
  /\ pc[w] = "begin" /\ Owns(w)
  /\ call[r].status = "none"
  /\ call' = [call EXCEPT ![r] = [status |-> "dispatched", req |-> frozen,
                                  fence |-> claim[w].fence]]
  /\ IF frozen = q THEN GoTo(w, "send", "none") ELSE GoTo(w, "finish", "failed")
  /\ UNCHANGED <<session, run, job, lease, slot, retried, configured,
                 artifacts, outbox, sent, today, faults>>

\* begin_model_call that finds a row: the step and outcome its status allows.
Replay_Resends(r) ==
  IF ResultUnknown(r) THEN <<"send", "none">> ELSE <<"validate", "response">>
Replay(r) ==
  CASE HasResponse(r) -> <<"validate", "response">>
    [] ResultUnknown(r) -> <<"finish", "provider_result_unknown">>
    [] OTHER -> <<"finish", "failed">>

BeginExisting(w, q) ==
  LET r == claim[w].run
      next == IF call[r].req = q THEN Replay(r) ELSE <<"finish", "failed">> IN
  /\ pc[w] = "begin" /\ Owns(w)
  /\ call[r].status # "none"
  /\ GoTo(w, next[1], next[2])
  /\ NoTableStep

\* validate_generation refuses the request before anything is written.
BeginRefused(w) ==
  /\ pc[w] = "begin" /\ Owns(w)
  /\ GoTo(w, "finish", "failed")
  /\ NoTableStep

\* gateway.generate.  Nothing is checked between the marker's commit and the
\* send, so a worker that has lost its lease meanwhile sends all the same.
Send(w) ==
  /\ pc[w] = "send"
  /\ sent' = [sent EXCEPT ![claim[w].run] = @ + 1]
  /\ \E outcome \in {"response", "provider_result_unknown", "failed"} :
        GoTo(w, "record", outcome)
  /\ UNCHANGED <<tables, today, faults>>

\* record_model_response.
Record(w) ==
  LET r == claim[w].run
      status == CASE result[w] = "response" -> "response_received"
                  [] result[w] = "provider_result_unknown" -> "unknown"
                  [] OTHER -> "failed" IN
  /\ pc[w] = "record" /\ Owns(w) /\ Records(w)
  /\ call' = [call EXCEPT ![r].status = status]
  /\ GoTo(w, IF result[w] = "response" THEN "validate" ELSE "finish", result[w])
  /\ UNCHANGED <<session, run, job, lease, slot, retried, configured,
                 artifacts, outbox, sent, today, faults>>

\* build_artifact and the second authorize: an invalid output or a revoked
\* access turns the response into a failure.
Validate(w) ==
  /\ pc[w] = "validate"
  /\ \E outcome \in {"artifact", "failed"} : GoTo(w, "finish", outcome)
  /\ NoTableStep

\* finish_in: end the Run, its job, its lease and its slot in one transaction.
Finish(w) ==
  LET r == claim[w].run
      s == r[1]
      ended == IF result[w] = "artifact" THEN "completed" ELSE "blocked" IN
  /\ pc[w] = "finish" /\ Owns(w)
  /\ result[w] = "artifact" => HasResponse(r)
  /\ artifacts' = IF result[w] = "artifact" THEN artifacts \cup {r}
                  ELSE artifacts
  /\ Save(s, ended, 1, r[2], IF result[w] = "artifact" THEN "none"
                             ELSE result[w])
  /\ run' = [run EXCEPT ![r] = ended]
  /\ job' = [job EXCEPT ![r].status = "done"]
  /\ lease' = [lease EXCEPT ![s].live = FALSE]
  /\ Release(r)
  /\ GoIdle(w)
  /\ UNCHANGED <<call, retried, configured, sent, today, faults>>

\* A worker whose claim no longer owns the Session learns it from the guard of
\* its next transaction, or from its heartbeat, and drops the work.
LoseClaim(w) ==
  /\ pc[w] \in Executing
  /\ ~Owns(w) \/ (pc[w] = "record" /\ ~Records(w))
  /\ GoIdle(w)
  /\ NoTableStep

-----------------------------------------------------------------------------
(* Time and faults.                                                         *)

SetLive(s, live) ==
  /\ lease' = [lease EXCEPT ![s].live = live]
  /\ UNCHANGED <<session, run, job, call, slot, retried, configured,
                 artifacts, outbox, sent, today, pc, source, claim, result>>

\* A lease nobody renews runs out.  While its owner lives, renew moves
\* expires_at on (and can never bring an expired lease back).
LeaseRunsOut(s) ==
  /\ lease[s].live
  /\ ~\E w \in Workers : claim[w].run # NoRun /\ claim[w].run[1] = s /\ Owns(w)
  /\ SetLive(s, FALSE)
  /\ UNCHANGED faults

\* The owner lives but its heartbeat came too late.
LeaseLapses(s) ==
  /\ faults < MaxFaults
  /\ lease[s].live
  /\ SetLive(s, FALSE)
  /\ faults' = faults + 1

\* The process stops, is cancelled, or never learns that its commit succeeded.
Stop(w) ==
  /\ faults < MaxFaults
  /\ pc[w] # "idle"
  /\ GoIdle(w)
  /\ faults' = faults + 1
  /\ UNCHANGED <<tables, sent, today>>

BecomeDue(r) ==
  /\ job[r].status = "queued" /\ ~job[r].due
  /\ job' = [job EXCEPT ![r].due = TRUE]
  /\ UNCHANGED <<session, run, lease, call, slot, retried, configured,
                 artifacts, outbox>>
  /\ NoWorkerStep

NextDay ==
  /\ today < MaxDay
  /\ today' = today + 1
  /\ UNCHANGED <<tables, sent, pc, source, claim, result, faults>>

-----------------------------------------------------------------------------
Command(s) ==
  \/ StartAccepted(s)
  \/ \E bound \in BOOLEAN : StartRefused(s, bound)
  \/ Cancel(s)
  \/ \E risk \in BOOLEAN : Retry(s, risk)

Scan(w, r) == ReadSource(w, r) \/ ClaimFinalization(w, r)

Work(w) ==
  \/ Claim(w) \/ Exhaust(w) \/ SlotRefused(w) \/ Defer(w) \/ ClaimMissed(w)
  \/ Handoff(w) \/ Prepare(w)
  \/ \E q \in Requests : BeginNew(w, q) \/ BeginExisting(w, q)
  \/ BeginRefused(w) \/ Send(w) \/ Record(w) \/ Validate(w) \/ Finish(w)
  \/ LoseClaim(w)

Next ==
  \/ \E s \in Sessions : Command(s) \/ LeaseRunsOut(s) \/ LeaseLapses(s)
  \/ \E w \in Workers : Work(w) \/ Stop(w) \/ \E r \in Runs : Scan(w, r)
  \/ \E r \in Runs : BecomeDue(r)
  \/ NextDay

Spec == Init /\ [][Next]_vars

\* Every worker process keeps running (run_loop restarts its step after any
\* error), time passes, and one scan tries every due candidate in turn, so a
\* job that is due again and again is tried.
Fairness ==
  /\ \A w \in Workers : WF_vars(Work(w))
  /\ \A r \in Runs : SF_vars(\E w \in Workers : Scan(w, r))
  /\ \A s \in Sessions : WF_vars(LeaseRunsOut(s))
  /\ \A r \in Runs : WF_vars(BecomeDue(r))

FairSpec == Spec /\ Fairness

-----------------------------------------------------------------------------
(* Properties.                                                              *)

SessionTable == [Sessions -> [status : SessionStatus, version : Nat,
                              active : 0 .. MaxRuns, failure : FailureCodes]]
RunTable == [Runs -> RunStatus]
JobTable == [Runs -> [status : JobStatus, attempt : 0 .. AttemptLimit,
                      fence : Nat, due : BOOLEAN]]
LeaseTable == [Sessions -> [fence : Nat, live : BOOLEAN]]
CallTable == [Runs -> [status : CallStatus, fence : Nat,
                       req : Requests \cup {NoRequest}]]
SlotTable == [Runs -> [state : SlotState, day : 0 .. MaxDay]]
RetryTable == [Runs -> [req : Requests \cup {NoRequest}, risk : BOOLEAN]]
OutboxTable == SUBSET (Sessions \X Nat \X SessionStatus)
Source == [version : Nat, status : SessionStatus, jobStatus : JobStatus,
           attempt : Nat, jobFence : Nat, leaseFence : Nat]
ClaimRow == [run : Runs \cup {NoRun}, version : Nat, fence : Nat]

\* The type of every table row and of every worker's memory.
TypeOK ==
  /\ session \in SessionTable
  /\ run \in RunTable
  /\ job \in JobTable
  /\ lease \in LeaseTable
  /\ call \in CallTable
  /\ slot \in SlotTable
  /\ retried \in RetryTable
  /\ configured \subseteq Sessions
  /\ artifacts \subseteq Runs
  /\ outbox \in OutboxTable
  /\ sent \in [Runs -> Nat]
  /\ today \in 0 .. MaxDay
  /\ pc \in [Workers -> Steps]
  /\ source \in [Workers -> Source]
  /\ claim \in [Workers -> ClaimRow]
  /\ result \in [Workers -> Results]
  /\ faults \in 0 .. MaxFaults

\* begin_model_call promises "Only its creator may send once": whatever
\* crashes, lapses and takeovers happen, the provider is invoked at most once
\* for a Run.
SingleSend == \A r \in Runs : sent[r] <= 1

\* Two processes never pass read_claim for the same Session at the same time.
SingleOwner ==
  \A v, w \in Workers :
    v # w /\ Owns(v) /\ Owns(w) => claim[v].run[1] # claim[w].run[1]

\* A Session is completed exactly when its active Run has the one Artifact of
\* the Session, and that Run's response was durably recorded.
ArtifactFromResponse ==
  /\ \A r \in artifacts :
       /\ call[r].status = "response_received"
       /\ session[r[1]].status = "completed" /\ session[r[1]].active = r[2]
  /\ \A s \in Sessions :
       session[s].status = "completed" => Current(s) \in artifacts

\* participant_retries: a Run that may already have reached the provider with
\* an unknown result is retried only with the risk accepted - also when the
\* marker's creator was still about to send when the retry was ordered.
NoBlindRetry ==
  \A r \in Runs :
    LET next == <<r[1], r[2] + 1>> IN
    /\ next \in Runs
    /\ run[next] # "absent"
    /\ sent[r] > 0 \/ \E w \in Workers : pc[w] = "send" /\ claim[w].run = r
    => \/ retried[next].risk
       \/ call[r].status \in {"response_received", "failed"}

\* A retry sends the request its source Run froze, also through a Run of the
\* chain that was blocked before it dispatched anything.
RequestInherited ==
  \A r \in Runs : call[r].status # "none" =>
    \A q \in Runs :
      r[1] = q[1] /\ r[2] < q[2] /\ call[q].status # "none"
        => call[q].req = call[r].req

\* A participant slot is held exactly while the Run's job is leased - through
\* lease expiry and takeover, until finish, exhaustion or cancellation - and
\* the slots held at one time stay within the three active limits.
SlotsHeld ==
  /\ \A r \in Runs : slot[r].state = "active" <=> job[r].status = "leased"
  /\ Within(ActiveRows, ActiveLimits)

\* The reservations of a day, refused ones never refunded, stay within the
\* three daily limits.
DailyBudget ==
  \A d \in 0 .. MaxDay :
    Within({r \in Runs : slot[r].state # "none" /\ slot[r].day = d},
           DailyLimits)

\* A recorded response can always be finalised: when its lease is gone, none
\* of the evidence conflicts claim_finalization refuses with LeaseLost exists,
\* and giving a job up after AttemptLimit executions never throws it away.
ResponseRecoverable ==
  \A r \in Runs :
    LET s == r[1] IN
    call[r].status = "response_received" /\ session[s].active = r[2] =>
      /\ session[s].failure # "attempts_exhausted"
      /\ session[s].status = "running" =>
           /\ job[r].status = "leased"
           /\ lease[s].fence = job[r].fence
           /\ 0 < call[r].fence /\ call[r].fence <= lease[s].fence
           /\ slot[r].state = "active"

\* The row of the Session, of its active Run and of that Run's job tell the
\* same story, no earlier Run is still in flight, and the outbox holds one
\* event per version a Session was saved with, the last of them its present
\* state.
RowsAgree ==
  \A s \in Sessions :
    /\ session[s].status # "absent" =>
         /\ run[Current(s)] = session[s].status \/ session[s].status = "cancelled"
         /\ <<s, session[s].version, session[s].status>> \in outbox
    /\ session[s].status = "queued" => job[Current(s)].status = "queued"
    /\ session[s].status = "running" => job[Current(s)].status = "leased"
    /\ \A r \in Runs :
         r[1] = s /\ {job[r].status, run[r]} \cap {"queued", "leased", "running"} # {}
           => session[s].status \in {"queued", "running"} /\ r = Current(s)
    /\ \A e \in outbox : e[1] = s =>
         /\ e[2] <= session[s].version
         /\ \A other \in SessionStatus \ {e[3]} : <<s, e[2], other>> \notin outbox

\* The tables of a Session tell one story, from which whoever takes it over
\* can go on: no job was executed more often than AttemptLimit allows (a
\* bound of TypeOK), and a recorded response is neither lost nor overtaken.
TablesAgree == TypeOK /\ RowsAgree /\ ArtifactFromResponse /\ ResponseRecoverable

\* A retry neither repeats a call blindly nor changes what is asked.
RetriesSafe == NoBlindRetry /\ RequestInherited

\* Only the worker that committed the marker, under the fence it committed it
\* with, settles a model call, and a settled call is never rewritten.
CallSettledOnce ==
  [][\A r \in Runs : call'[r] # call[r] =>
       \/ call[r].status = "none" /\ call'[r].status = "dispatched"
       \/ /\ call[r].status = "dispatched"
          /\ call'[r] = [call[r] EXCEPT !.status = call'[r].status]
          /\ sent[r] = 1
          /\ lease[r[1]].fence = call[r].fence]_vars

\* Every accepted interpretation ends: completed, visibly blocked or cancelled.
EveryRunEnds ==
  \A s \in Sessions :
    session[s].status \in {"queued", "running"}
      ~> session[s].status \in {"blocked", "completed", "cancelled"}
=============================================================================
