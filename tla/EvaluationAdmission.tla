------------------------ MODULE EvaluationAdmission -------------------------
(***************************************************************************)
(* Evaluation Runs from creation to admission: a Run is created once,      *)
(* directly or by a transaction execution; a start, or the resolution of   *)
(* its last unknown call, admits it against the organization's limits      *)
(* under the admission lock; operators change the limits meanwhile.        *)
(*                                                                         *)
(* One organization.  The admission lock row and a Run row held FOR UPDATE *)
(* are held in the pc of a call.  What happens to a Run under way is       *)
(* reduced to whether it still counts as active (CandidateEvaluation and   *)
(* SerialEvaluation model it).                                             *)
(***************************************************************************)
EXTENDS Naturals, FiniteSets, Sequences, TLC

CONSTANTS
    Runs,      \* Run identities chosen by operators
    Existing,  \* Runs created earlier
    Inputs,    \* creation inputs: release, reason and operator
    Callers,   \* calls in progress at the hosts
    Limits,    \* quota values: active Runs and provider calls a day
    Default,   \* the deployment's default, within the ceiling
    Ceiling,   \* the deployment's ceiling
    Lowered,   \* the ceiling after a later deployment
    Cost,      \* worst-case provider calls of a Run's frozen policy
    LastDay,   \* bound on the days
    MaxCalls,  \* bound on the calls submitted
    MaxVersion, \* bound on the versions of a Run
    MaxRevision, \* bound on the quota revisions
    QuotaCommands, \* identities of quota commands
    None

VARIABLES
    row,      \* Run, checkpoint version and progress
    reserved, \* capacity reservations: the budget day of each Run
    exec,     \* transaction executions of creations, by Run
    quota,    \* quota versions, oldest first; the pointer is the last
    ceiling,  \* the ceiling of the deployment
    call,     \* the call each caller has in progress
    day,      \* UTC day
    calls     \* calls submitted so far

vars == <<row, reserved, exec, quota, ceiling, call, day, calls>>

Days == 1..LastDay
Idle == [pc |-> "idle", op |-> None]

\* The columns of a Run, of an execution and of a quota.
Rows ==
    [input : Inputs, by : {"direct", "root"},
     status : {"requested", "collecting", "blocked", "awaiting_review", "canceled"},
     cause : {None, "unknown", "contract"}, cancel : BOOLEAN, admitted : BOOLEAN, version : Nat]
Executions == [input : Inputs, state : {"pending", "committed", "aborted"}]
Values == [active : Nat \ {0}, daily : Nat \ {0}]

ASSUME AdmissionAssumption ==
    /\ IsFiniteSet(Runs) /\ Existing \subseteq Runs /\ Inputs # {}
    /\ Limits \subseteq Values /\ {Default, Ceiling, Lowered} \subseteq Values
    /\ Lowered.active <= Ceiling.active /\ Lowered.daily <= Ceiling.daily
    /\ Cost \in Nat /\ LastDay \in Nat \ {0}
    /\ None \notin Rows /\ None \notin Executions /\ None \notin Nat

\* A created Run.  by says which way it was created; admitted, whether an
\* admission made it active.
Created(input, by) ==
    [input |-> input, by |-> by, status |-> "requested", cause |-> None,
     cancel |-> FALSE, admitted |-> FALSE, version |-> 1]

Init ==
    /\ row = [r \in Runs |-> IF r \in Existing THEN Created(CHOOSE i \in Inputs : TRUE, "direct")
                             ELSE None]
    /\ reserved = [r \in Runs |-> None]
    /\ exec = [r \in Runs |-> None]
    /\ quota = <<>>
    /\ ceiling = Ceiling
    /\ call = [k \in Callers |-> Idle]
    /\ day = 1
    /\ calls = 0

To(k, pc) == call' = [call EXCEPT ![k].pc = pc]
End(k) == call' = [call EXCEPT ![k] = Idle]
Begin(k, c) ==
    /\ call[k] = Idle
    /\ calls < MaxCalls
    /\ call' = [call EXCEPT ![k] = c]
    /\ calls' = calls + 1

limits == <<quota, ceiling>>

-----------------------------------------------------------------------------
(* Creation.  The direct creator inserts and reads the winner of a         *)
(* duplicate key; the transactional one looks for an execution and for a   *)
(* receipt before it plans, reserves and runs its root.                    *)

SubmitCreation(k) ==
    /\ \E r \in Runs, i \in Inputs, pc \in {"insert", "lookup"} :
          Begin(k, [pc |-> pc, op |-> "create", run |-> r, input |-> i])
    /\ UNCHANGED <<row, reserved, exec, limits, day>>

Insert(k) ==
    LET r == call[k].run IN
    /\ call[k].pc = "insert"
    /\ IF row[r] = None
       THEN /\ row' = [row EXCEPT ![r] = Created(call[k].input, "direct")]
            /\ To(k, "told")
       ELSE /\ To(k, "duplicate")
            /\ UNCHANGED row
    /\ UNCHANGED <<reserved, exec, limits, day, calls>>

\* The Run's creation receipt is that of this request.
SameInput(k) == row[call[k].run].input = call[k].input

\* A creation whose Run exists is told of it only if it asked for the same.
Reread(k) ==
    /\ call[k].pc = "duplicate"
    /\ IF SameInput(k) THEN To(k, "told") ELSE End(k)
    /\ UNCHANGED <<row, reserved, exec, limits, day, calls>>

\* The execution of a creation, frozen with its input before its root runs.
Execution(input) == [input |-> input, state |-> "pending"]

SameExecution(k) == exec[call[k].run].input = call[k].input

\* The execution decides the replay: another input conflicts, a committed
\* root is verified and read, anything else stays pending.
Replayed(k) ==
    IF SameExecution(k) /\ exec[call[k].run].state = "committed" /\ SameInput(k)
    THEN To(k, "told") ELSE End(k)

Lookup(k) ==
    /\ call[k].pc = "lookup"
    /\ IF exec[call[k].run] = None THEN To(k, "receipt") ELSE Replayed(k)
    /\ UNCHANGED <<row, reserved, exec, limits, day, calls>>

ReadReceipt(k) ==
    /\ call[k].pc = "receipt"
    /\ IF row[call[k].run] = None THEN To(k, "plan")
       ELSE IF SameInput(k) THEN To(k, "again") ELSE End(k)
    /\ UNCHANGED <<row, reserved, exec, limits, day, calls>>

\* One fresh lookup closes the race between the first lookup and the read.
LookupAgain(k) ==
    /\ call[k].pc = "again"
    /\ IF exec[call[k].run] = None THEN To(k, "told") ELSE Replayed(k)
    /\ UNCHANGED <<row, reserved, exec, limits, day, calls>>

Reserve(k) ==
    LET r == call[k].run IN
    /\ call[k].pc = "plan"
    /\ IF exec[r] = None
       THEN /\ exec' = [exec EXCEPT ![r] = Execution(call[k].input)]
            /\ To(k, "root")
       ELSE /\ Replayed(k)
            /\ UNCHANGED exec
    /\ UNCHANGED <<row, reserved, limits, day, calls>>

\* Flawed variant: an existing Run is taken over as the root's own.
CreationRoot_Flaw(k) ==
    LET r == call[k].run IN
    /\ call[k].pc = "root"
    /\ exec[r].state = "pending"
    /\ exec' = [exec EXCEPT ![r].state = "committed"]
    /\ row' = IF row[r] = None THEN [row EXCEPT ![r] = Created(call[k].input, "root")] ELSE row
    /\ To(k, "told")
    /\ UNCHANGED <<reserved, limits, day, calls>>

\* The root commits the Run with its witness, or finds the identity taken
\* and is aborted.
CreationRoot(k) ==
    LET r == call[k].run IN
    /\ call[k].pc = "root"
    /\ exec[r].state = "pending"
    /\ IF row[r] = None
       THEN /\ row' = [row EXCEPT ![r] = Created(call[k].input, "root")]
            /\ exec' = [exec EXCEPT ![r].state = "committed"]
            /\ To(k, "told")
       ELSE /\ exec' = [exec EXCEPT ![r].state = "aborted"]
            /\ End(k)
            /\ UNCHANGED row
    /\ UNCHANGED <<reserved, limits, day, calls>>

\* The library aborts an execution that its host did not finish.
AbortExecution(r) ==
    /\ exec[r] # None /\ exec[r].state = "pending"
    /\ exec' = [exec EXCEPT ![r].state = "aborted"]
    /\ UNCHANGED <<row, reserved, limits, call, day, calls>>

-----------------------------------------------------------------------------
(* Capacity. *)

Existent == {r \in Runs : row[r] # None}

\* active_run_predicate: a blocked Run counts while its cancellation waits.
Active(x) == x.status = "collecting" \/ (x.status = "blocked" /\ x.cancel)

Smaller(a, b) == IF a < b THEN a ELSE b

\* The values of the current revision, or the default.
Configured == IF quota = <<>> THEN Default ELSE quota[Len(quota)].values

\* Each bounded by the ceiling.
Effective ==
    [active |-> Smaller(Configured.active, ceiling.active),
     daily |-> Smaller(Configured.daily, ceiling.daily)]

ActiveOthers(r) == Cardinality({o \in Existent \ {r} : Active(row[o])})

Used(d) == Cost * Cardinality({r \in Runs : reserved[r] = d})

\* plan_admission.
Capacity(r, d) ==
    /\ ActiveOthers(r) < Effective.active
    /\ reserved[r] = None => Used(d) + Cost <= Effective.daily

\* What the request does to its Run: start it, resume it, or finish the
\* cancellation its last unknown call was holding up.
Outcome(c) ==
    CASE c.op = "start" -> "collecting"
      [] row[c.run].cancel -> "canceled"
      [] OTHER -> "collecting"

\* The Run is where the operator saw it.
Applicable(c) ==
    LET x == row[c.run] IN
    /\ x.version = c.version
    /\ IF c.op = "start" THEN x.status = "requested"
       ELSE x.status = "blocked" /\ x.cause = "unknown"

Decision(c) ==
    Applicable(c) /\ (Outcome(c) = "collecting" => Capacity(c.run, c.day))

-----------------------------------------------------------------------------
(* Start and resolution. *)

\* Flawed variant: nothing waits for the admission lock.
AdmissionHeld_Flaw == FALSE

AdmissionHeld == \E k \in Callers : call[k].pc \in {"locked", "admitted"}
RunHeld(r) == \E k \in Callers : call[k].pc = "admitted" /\ call[k].run = r

Admission(pc, op, r, frozen) ==
    [pc |-> pc, op |-> op, run |-> r, version |-> row[r].version, day |-> day, frozen |-> frozen]

SubmitAdmission(k) ==
    /\ \E r \in Existent, op \in {"start", "resolve"} :
          Begin(k, Admission("begun", op, r, None))
    /\ UNCHANGED <<row, reserved, exec, limits, day>>

\* The planner of starts reads without locks and freezes its decision, a
\* refusal too, with the Run's version and the day.
FreezeStart(k) ==
    /\ \E r \in Existent :
          LET c == Admission("begun", "start", r, None) IN
          Begin(k, [c EXCEPT !.frozen = Decision(c)])
    /\ UNCHANGED <<row, reserved, exec, limits, day>>

\* The planner of resolutions answers a refusal at once.
FreezeResolution(k) ==
    /\ \E r \in Existent :
          LET c == Admission("begun", "resolve", r, None) IN
          Decision(c) /\ Begin(k, [c EXCEPT !.frozen = TRUE])
    /\ UNCHANGED <<row, reserved, exec, limits, day>>

LockAdmission(k) ==
    /\ call[k].pc = "begun"
    /\ ~AdmissionHeld
    /\ To(k, "locked")
    /\ UNCHANGED <<row, reserved, exec, limits, day, calls>>

\* A frozen start holds only for the Run's version and the budget day it was
\* planned for, and only if the frozen decision comes out again.
FrozenStartStands(c) ==
    row[c.run].version = c.version /\ c.day = day /\ Decision(c) = c.frozen

\* A frozen resolution holds for the Run's version; it keeps its own day.
FrozenResolutionStands(c) == row[c.run].version = c.version

FrozenStands(c) ==
    c.frozen # None =>
        IF c.op = "start" THEN FrozenStartStands(c) ELSE FrozenResolutionStands(c)

\* The snapshot is read under the lock; the Run row is locked as well.
Check(k) ==
    /\ call[k].pc = "locked"
    /\ ~RunHeld(call[k].run)
    /\ IF FrozenStands(call[k]) /\ Decision(call[k]) THEN To(k, "admitted") ELSE End(k)
    /\ UNCHANGED <<row, reserved, exec, limits, day, calls>>

\* A resumed Run keeps the reservation of its start.
Reservation(r, d) == IF reserved[r] = None THEN d ELSE reserved[r]

\* The transition and the reservation commit together.
Commit(k) ==
    LET c == call[k]
        r == c.run
        resumed == Outcome(c) = "collecting"
    IN
    /\ c.pc = "admitted"
    /\ row' = [row EXCEPT ![r].status = Outcome(c), ![r].cause = None,
                          ![r].admitted = resumed, ![r].version = @ + 1]
    /\ reserved' = IF resumed THEN [reserved EXCEPT ![r] = Reservation(r, c.day)]
                   ELSE reserved
    /\ End(k)
    /\ UNCHANGED <<exec, limits, day, calls>>

\* The answer is taken, or the host is lost and its transaction rolls back.
Leave(k) ==
    /\ call[k] # Idle
    /\ End(k)
    /\ UNCHANGED <<row, reserved, exec, limits, day, calls>>

-----------------------------------------------------------------------------
(* Runs under way, none of it under the admission lock. *)

Change(r) ==
    /\ row[r] # None
    /\ ~RunHeld(r)
    /\ row[r].version < MaxVersion
    /\ UNCHANGED <<reserved, exec, limits, call, day, calls>>

Put(r, new) == row' = [row EXCEPT ![r] = [new EXCEPT !.version = @ + 1]]

\* An unknown call or a rejected semantic output blocks the Run.  It keeps
\* counting only if its cancellation was already requested.
Block(r) ==
    /\ Change(r)
    /\ row[r].status = "collecting"
    /\ \E cause \in {"unknown", "contract"} :
          Put(r, [row[r] EXCEPT !.status = "blocked", !.cause = cause,
                                !.admitted = row[r].admitted /\ row[r].cancel])

Complete(r) ==
    /\ Change(r)
    /\ row[r].status = "collecting" /\ ~row[r].cancel
    /\ Put(r, [row[r] EXCEPT !.status = "awaiting_review", !.admitted = FALSE])

\* Cancellation waits for calls in flight and for unknown calls, else it is
\* final.
Cancel(r) ==
    /\ Change(r)
    /\ row[r].status \in {"requested", "collecting", "blocked", "awaiting_review"}
    /\ ~row[r].cancel
    /\ \/ /\ row[r].status = "collecting" \/ row[r].cause = "unknown"
          /\ Put(r, [row[r] EXCEPT !.cancel = TRUE])
       \/ /\ row[r].cause # "unknown"
          /\ Put(r, [row[r] EXCEPT !.status = "canceled", !.cause = None, !.admitted = FALSE])

\* The last call in flight ends a requested cancellation.
Drain(r) ==
    /\ Change(r)
    /\ row[r].status = "collecting" /\ row[r].cancel
    /\ Put(r, [row[r] EXCEPT !.status = "canceled", !.admitted = FALSE])

\* A Run the operator's tool accepts: blocked on a rejected semantic output.
Recoverable(r) == row[r].status = "blocked" /\ row[r].cause = "contract"

\* The tool puts it back to collecting, without an admission.
RecoverContract(r) ==
    /\ Change(r)
    /\ Recoverable(r)
    /\ Put(r, [row[r] EXCEPT !.status = "collecting", !.cause = None])

-----------------------------------------------------------------------------
(* Quota management. *)

\* An operator confirms the revision shown, with new values or an earlier
\* version to go back to, under a command identity of its own or, by
\* mistake, of another command.
Confirmed ==
    {[id |-> q, expected |-> Len(quota), values |-> v, target |-> None] :
        q \in QuotaCommands, v \in Limits}
    \cup {[id |-> q, expected |-> Len(quota), values |-> None, target |-> n] :
        q \in QuotaCommands, n \in 1..Len(quota)}

\* Or a command whose answer was lost is sent again as it was.
SubmitQuota(k) ==
    /\ \E req \in (IF Len(quota) < MaxRevision THEN Confirmed ELSE {})
                   \cup {quota[n].request : n \in 1..Len(quota)} :
          Begin(k, [pc |-> "quota", op |-> "quota", req |-> req])
    /\ UNCHANGED <<row, reserved, exec, limits, day>>

WithinCeiling(v) == v.active <= ceiling.active /\ v.daily <= ceiling.daily

\* The receipt of a command identity is kept with the version it made.
Receipts(id) == {n \in 1..Len(quota) : quota[n].request.id = id}

\* Under the admission lock: a command already receipted is answered from
\* its receipt if it is the same request; else the revision shown must still
\* be current and the values within the ceiling.
ApplyQuota(k) ==
    LET req == call[k].req
        values == IF req.target = None THEN req.values ELSE quota[req.target].values
    IN
    /\ call[k].pc = "quota"
    /\ ~AdmissionHeld
    /\ \/ /\ Receipts(req.id) # {}
          /\ To(k, IF \E n \in Receipts(req.id) : quota[n].request = req
                   THEN "told" ELSE "refused")
          /\ UNCHANGED quota
       \/ /\ Receipts(req.id) = {}
          /\ IF req.expected = Len(quota) /\ WithinCeiling(values)
             THEN /\ quota' = Append(quota, [values |-> values, request |-> req])
                  /\ To(k, "told")
             ELSE /\ To(k, "refused")
                  /\ UNCHANGED quota
    /\ UNCHANGED <<row, reserved, exec, ceiling, day, calls>>

\* A deployment restarts the hosts with a lower ceiling.
LowerCeiling ==
    /\ ceiling = Ceiling
    /\ \A k \in Callers : call[k] = Idle
    /\ ceiling' = Lowered
    /\ UNCHANGED <<row, reserved, exec, quota, call, day, calls>>

Midnight ==
    /\ day < LastDay
    /\ day' = day + 1
    /\ UNCHANGED <<row, reserved, exec, limits, call, calls>>

-----------------------------------------------------------------------------
Next ==
    \/ \E k \in Callers :
          \/ SubmitCreation(k) \/ Insert(k) \/ Reread(k) \/ Lookup(k) \/ ReadReceipt(k)
          \/ LookupAgain(k) \/ Reserve(k) \/ CreationRoot(k)
          \/ SubmitAdmission(k) \/ FreezeStart(k) \/ FreezeResolution(k) \/ LockAdmission(k)
          \/ Check(k) \/ Commit(k) \/ Leave(k) \/ SubmitQuota(k) \/ ApplyQuota(k)
    \/ \E r \in Runs :
          \/ AbortExecution(r) \/ Block(r) \/ Complete(r) \/ Cancel(r) \/ Drain(r)
          \/ RecoverContract(r)
    \/ LowerCeiling
    \/ Midnight

Spec == Init /\ [][Next]_vars

-----------------------------------------------------------------------------
\* Admissions from several hosts, planned or direct, racing each other, the
\* quota commands and everything that happens to Runs, keep the ledger: an
\* admission finds fewer admitted Runs than the limit in force, pays once
\* and never beyond the daily limit in force when it pays.
Ledger ==
    INSTANCE AdmissionLedger WITH
        held <- {r \in Existent : row[r].admitted},
        paid <- reserved,
        limit <- Effective,
        Limits <- [active : 1..Ceiling.active, daily : 1..Ceiling.daily]

KeepsLedger == Ledger!LedgerSpec

\* However many creations of an identity raced and whichever way the Run was
\* created, a caller that is told of a Run asked for exactly that Run; a
\* quota command sent again after a lost answer is told what it did, never
\* that it was refused.
AnsweredTruly ==
    \A k \in Callers :
        LET c == call[k]
            made == c.op = "quota" /\ \E n \in 1..Len(quota) : quota[n].request = c.req
        IN
        /\ c.pc = "told" =>
              IF c.op = "create" THEN row[c.run] # None /\ row[c.run].input = c.input ELSE made
        /\ c.pc = "refused" => ~made

\* An execution is witnessed as committed exactly when the Run is its own:
\* a Run created another way is never adopted, and none appears without its
\* witness.
CreationWitnessed ==
    \A r \in Runs :
        (row[r] # None /\ row[r].by = "root") <=> (exec[r] # None /\ exec[r].state = "committed")

\* What callers are told and what executions witness is what was done.
RequestsFaithful == AnsweredTruly /\ CreationWitnessed

=============================================================================
