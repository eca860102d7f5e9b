--------------------- MODULE GenerationExecutionProofs ---------------------
(***************************************************************************)
(* Theorems about GenerationExecution, for every set of Sessions and       *)
(* workers and every value of the bounds, in three parts.                  *)
(*                                                                         *)
(* 1. Types, the single owner and the single send.                         *)
(* 2. The tables tell one story: the rows of a Session agree, its events   *)
(*    are one per version, and a recorded response is neither lost nor     *)
(*    overtaken.                                                           *)
(* 3. What follows from that story: a model call is settled once and by    *)
(*    its creator, a retry neither repeats a call blindly nor changes what *)
(*    is asked, and the participant slots and the daily budget stay within *)
(*    their limits.                                                        *)
(***************************************************************************)
EXTENDS GenerationExecution, FiniteSetTheorems, TLAPS

\* What types alone do not say and every step needs: a Session that exists has
\* an active Run, a busy worker has a Run, and a worker that is about to finish
\* or record carries an outcome that can be finished or recorded.
SessionShape ==
  \A s \in Sessions : session[s].status # "absent" => session[s].active # 0

WorkerShape ==
  \A w \in Workers :
    /\ pc[w] # "idle" => claim[w].run \in Runs
    /\ pc[w] = "finish"
         => result[w] \in {"artifact", "provider_result_unknown", "failed"}
    /\ pc[w] = "record"
         => result[w] \in {"response", "provider_result_unknown", "failed"}

TypeInv == TypeOK /\ SessionShape /\ WorkerShape

WorkerOK ==
  /\ pc \in [Workers -> Steps]
  /\ source \in [Workers -> Source]
  /\ claim \in [Workers -> ClaimRow]
  /\ result \in [Workers -> Results]
  /\ WorkerShape

-----------------------------------------------------------------------------
(* Lemmas about the helpers the actions are built from.                     *)

\* A Run is a Session with a Run number.
LEMMA RunParts ==
  ASSUME NEW r \in Runs
  PROVE  /\ r[1] \in Sessions
         /\ r[2] \in 1 .. MaxRuns
         /\ r = <<r[1], r[2]>>
         /\ r # NoRun
  BY DEF Runs, NoRun

\* save writes a well-formed Session row and stages a well-formed event.
LEMMA SaveType ==
  ASSUME TypeOK, SessionShape, NEW s \in Sessions,
         NEW status \in SessionStatus, NEW steps \in Nat,
         NEW active \in 1 .. MaxRuns, NEW failure \in FailureCodes,
         Save(s, status, steps, active, failure)
  PROVE  /\ session' \in SessionTable
         /\ outbox' \in OutboxTable
         /\ SessionShape'
<1> DEFINE version == session[s].version + steps
<1>1. version \in Nat BY DEF TypeOK, SessionTable
<1>2. session' = [session EXCEPT ![s] =
                   [status |-> status, version |-> version,
                    active |-> active, failure |-> failure]]
  BY DEF Save
<1>3. outbox' = outbox \cup (IF \E e \in outbox : e[1] = s /\ e[2] = version
                             THEN {} ELSE {<<s, version, status>>})
  BY DEF Save, Stage
<1> HIDE DEF version
<1>4. session' \in SessionTable
  BY <1>1, <1>2, ExecutionAssumption DEF TypeOK, SessionTable
<1>5. outbox' \in OutboxTable
  <2>1. <<s, version, status>> \in Sessions \X Nat \X SessionStatus
    BY <1>1
  <2> QED BY <2>1, <1>3 DEF TypeOK, OutboxTable
<1>6. SessionShape'
  BY <1>2, ExecutionAssumption DEF TypeOK, SessionTable, SessionShape
<1> QED BY <1>4, <1>5, <1>6

LEMMA ReleaseType ==
  ASSUME TypeOK, NEW r \in Runs, Release(r)
  PROVE  slot' \in SlotTable
  BY DEF TypeOK, SlotTable, SlotState, Release

LEMMA TakeLeaseType ==
  ASSUME TypeOK, NEW r \in Runs, NEW k \in 0 .. 1,
         k = 1 => ~Exhausted(r), TakeLease(r, k)
  PROVE  lease' \in LeaseTable /\ job' \in JobTable /\ NextFence(r) \in Nat
<1>1. NextFence(r) \in Nat BY RunParts DEF TypeOK, LeaseTable, NextFence
<1>2. job[r].attempt + k \in 0 .. AttemptLimit
  BY ExecutionAssumption DEF TypeOK, JobTable, Exhausted
<1>3. lease' \in LeaseTable
  BY <1>1, RunParts DEF TypeOK, LeaseTable, TakeLease
<1>4. job' \in JobTable
  BY <1>1, <1>2 DEF TypeOK, JobTable, JobStatus, TakeLease
<1> QED BY <1>1, <1>3, <1>4

LEMMA EnqueueType ==
  ASSUME TypeOK, NEW r \in Runs, Enqueue(r)
  PROVE  slot' \in SlotTable /\ run' \in RunTable /\ job' \in JobTable
<1>1. slot' \in SlotTable BY DEF TypeOK, SlotTable, SlotState, Enqueue
<1>2. run' \in RunTable
  BY DEF TypeOK, RunTable, RunStatus, SessionStatus, Enqueue
<1>3. job' \in JobTable
  BY ExecutionAssumption DEF TypeOK, JobTable, JobStatus, Enqueue
<1> QED BY <1>1, <1>2, <1>3

LEMMA GoIdleType ==
  ASSUME WorkerOK, NEW w \in Workers, GoIdle(w)
  PROVE  WorkerOK'
  BY DEF WorkerOK, WorkerShape, GoIdle, Steps, Source, ClaimRow, Results,
         NoSource, NoClaim, SessionStatus, JobStatus

LEMMA GoToType ==
  ASSUME WorkerOK, NEW w \in Workers, pc[w] # "idle",
         NEW step \in Steps, NEW value \in Results,
         step = "finish" =>
           value \in {"artifact", "provider_result_unknown", "failed"},
         step = "record" =>
           value \in {"response", "provider_result_unknown", "failed"},
         GoTo(w, step, value)
  PROVE  WorkerOK'
  BY DEF WorkerOK, WorkerShape, GoTo

LEMMA WorkersUnchanged ==
  ASSUME WorkerOK, UNCHANGED <<pc, source, claim, result>>
  PROVE  WorkerOK'
  BY DEF WorkerOK, WorkerShape

LEMMA SessionsUnchanged ==
  ASSUME SessionShape, UNCHANGED session
  PROVE  SessionShape'
  BY DEF SessionShape

\* A step that changes no table keeps every table well formed.
LEMMA TablesUnchanged ==
  ASSUME TypeOK, SessionShape, WorkerOK', UNCHANGED tables,
         sent' \in [Runs -> Nat], today' \in 0 .. MaxDay,
         faults' \in 0 .. MaxFaults
  PROVE  TypeInv'
  BY SessionsUnchanged DEF TypeInv, TypeOK, WorkerOK, tables

-----------------------------------------------------------------------------
LEMMA TypeInvInit == Init => TypeInv
<1> SUFFICES ASSUME Init PROVE TypeInv OBVIOUS
<1>1. TypeOK
  BY ExecutionAssumption DEF Init, TypeOK, NoSource, NoClaim, Source, ClaimRow,
     SessionStatus, RunStatus, JobStatus, CallStatus, SlotState, FailureCodes,
     Results, Steps, SessionTable, RunTable, JobTable, LeaseTable, CallTable,
     SlotTable, RetryTable, OutboxTable
<1>2. SessionShape /\ WorkerShape BY DEF Init, SessionShape, WorkerShape
<1> QED BY <1>1, <1>2 DEF TypeInv

\* Every step keeps the types; one step of the proof per action.
LEMMA TypeInvStep == TypeInv /\ [Next]_vars => TypeInv'
<1> SUFFICES ASSUME TypeInv, [Next]_vars PROVE TypeInv' OBVIOUS
<1>a. TypeOK /\ SessionShape /\ WorkerOK
  BY DEF TypeInv, TypeOK, WorkerOK
<1>b. ASSUME UNCHANGED <<pc, source, claim, result>> PROVE WorkerOK'
  BY <1>a, <1>b, WorkersUnchanged
<1>c. ASSUME UNCHANGED <<tables, sent, today, faults>>, WorkerOK' PROVE TypeInv'
  BY <1>a, <1>c, TablesUnchanged DEF TypeOK
<1>1. ASSUME NEW s \in Sessions, StartAccepted(s) PROVE TypeInv'
  <2>1. <<s, 1>> \in Runs BY ExecutionAssumption DEF Runs
  <2>2. slot' \in SlotTable /\ run' \in RunTable /\ job' \in JobTable
    BY <1>1, <1>a, <2>1, EnqueueType DEF StartAccepted
  <2>3. session' \in SessionTable /\ outbox' \in OutboxTable /\ SessionShape'
    BY <1>1, <1>a, SaveType, ExecutionAssumption
       DEF StartAccepted, SessionStatus, FailureCodes
  <2> QED BY <1>1, <1>a, <1>b, <2>2, <2>3
    DEF StartAccepted, NoWorkerStep, TypeInv, TypeOK, WorkerOK
<1>2. ASSUME NEW s \in Sessions, NEW bound \in BOOLEAN, StartRefused(s, bound)
      PROVE  TypeInv'
  <2>1. <<s, 1>> \in Runs BY ExecutionAssumption DEF Runs
  <2>2. run' \in RunTable
    BY <1>2, <1>a, <2>1 DEF StartRefused, TypeOK, RunTable, RunStatus, SessionStatus
  <2>3. session' \in SessionTable /\ outbox' \in OutboxTable /\ SessionShape'
    BY <1>2, <1>a, SaveType, ExecutionAssumption
       DEF StartRefused, SessionStatus, FailureCodes
  <2> QED BY <1>2, <1>a, <1>b, <2>2, <2>3
    DEF StartRefused, NoWorkerStep, TypeInv, TypeOK, WorkerOK
<1>3. ASSUME NEW s \in Sessions, Cancel(s) PROVE TypeInv'
  <2>1. session[s].active \in 1 .. MaxRuns /\ Current(s) \in Runs
    BY <1>3, <1>a DEF Cancel, TypeOK, SessionTable, SessionShape, Current, Runs
  <2>2. run' \in RunTable
    BY <1>3, <1>a DEF Cancel, TypeOK, RunTable, RunStatus, SessionStatus
  <2>3. job' \in JobTable
    BY <1>3, <1>a DEF Cancel, TypeOK, JobTable, JobStatus
  <2>4. lease' \in LeaseTable
    BY <1>3, <1>a DEF Cancel, TypeOK, LeaseTable
  <2>5. slot' \in SlotTable
    BY <1>3, <1>a, <2>1, ReleaseType DEF Cancel
  <2>6. session[s].failure \in FailureCodes
    BY <1>a DEF TypeOK, SessionTable
  <2>7. session' \in SessionTable /\ outbox' \in OutboxTable /\ SessionShape'
    BY <1>3, <1>a, <2>1, <2>6, SaveType DEF Cancel, SessionStatus
  <2> QED BY <1>3, <1>a, <1>b, <2>2, <2>3, <2>4, <2>5, <2>7
    DEF Cancel, NoWorkerStep, TypeInv, TypeOK, WorkerOK
<1>4. ASSUME NEW s \in Sessions, NEW risk \in BOOLEAN, Retry(s, risk)
      PROVE  TypeInv'
  <2> DEFINE to == <<s, session[s].active + 1>>
  <2>1. /\ session[s].active \in 1 .. MaxRuns
        /\ session[s].active + 1 \in 1 .. MaxRuns
        /\ Current(s) \in Runs /\ to \in Runs
    <3>1. session[s].active \in 0 .. MaxRuns /\ session[s].active # 0
      BY <1>4, <1>a DEF Retry, TypeOK, SessionTable, SessionShape
    <3>2. session[s].active < MaxRuns BY <1>4 DEF Retry
    <3> QED BY <3>1, <3>2, ExecutionAssumption DEF Current, Runs
  <2>2. slot' \in SlotTable /\ run' \in RunTable /\ job' \in JobTable
    BY <1>4, <1>a, <2>1, EnqueueType DEF Retry
  <2>3. Frozen(Current(s)) \in Requests \cup {NoRequest}
    BY <1>a, <2>1 DEF TypeOK, CallTable, RetryTable, Frozen
  <2>4. retried' \in RetryTable
    BY <1>4, <1>a, <2>1, <2>3 DEF Retry, TypeOK, RetryTable
  <2>5. session' \in SessionTable /\ outbox' \in OutboxTable /\ SessionShape'
    BY <1>4, <1>a, <2>1, SaveType DEF Retry, SessionStatus, FailureCodes
  <2> QED BY <1>4, <1>a, <1>b, <2>2, <2>4, <2>5
    DEF Retry, NoWorkerStep, TypeInv, TypeOK, WorkerOK
<1>5. ASSUME NEW s \in Sessions, LeaseRunsOut(s) \/ LeaseLapses(s)
      PROVE  TypeInv'
  <2>1. lease' \in LeaseTable
    BY <1>5, <1>a DEF LeaseRunsOut, LeaseLapses, SetLive, TypeOK, LeaseTable
  <2>2. faults' \in 0 .. MaxFaults
    <3>1. CASE LeaseRunsOut(s) BY <3>1, <1>a DEF LeaseRunsOut, TypeOK
    <3>2. CASE LeaseLapses(s)
      BY <3>2, <1>a, ExecutionAssumption DEF LeaseLapses, TypeOK
    <3> QED BY <1>5, <3>1, <3>2
  <2>3. WorkerOK' /\ SessionShape'
    BY <1>5, <1>a, <1>b, SessionsUnchanged DEF LeaseRunsOut, LeaseLapses, SetLive
  <2> QED BY <1>5, <1>a, <2>1, <2>2, <2>3
    DEF LeaseRunsOut, LeaseLapses, SetLive, TypeInv, TypeOK, WorkerOK
<1>6. ASSUME NEW w \in Workers, NEW r \in Runs, ReadSource(w, r) PROVE TypeInv'
  <2>1. SourceOf(r) \in Source
    BY <1>a, RunParts, ExecutionAssumption
       DEF TypeOK, SourceOf, Source, SessionTable, JobTable, LeaseTable
  <2>2. WorkerOK'
    BY <1>6, <1>a, <2>1
       DEF ReadSource, WorkerOK, WorkerShape, ClaimRow, Steps
  <2> QED BY <1>6, <1>c, <2>2 DEF ReadSource
<1>7. ASSUME NEW w \in Workers, NEW r \in Runs, ClaimFinalization(w, r)
      PROVE  TypeInv'
  <2>1. lease' \in LeaseTable /\ job' \in JobTable /\ NextFence(r) \in Nat
    BY <1>7, <1>a, TakeLeaseType DEF ClaimFinalization
  <2>2. session[r[1]].version \in Nat
    BY <1>a, RunParts DEF TypeOK, SessionTable
  <2>3. WorkerOK'
    BY <1>7, <1>a, <2>1, <2>2
       DEF ClaimFinalization, WorkerOK, WorkerShape, ClaimRow, Steps
  <2>4. SessionShape' BY <1>7, <1>a, SessionsUnchanged DEF ClaimFinalization
  <2> QED BY <1>7, <1>a, <2>1, <2>3, <2>4
    DEF ClaimFinalization, TypeInv, TypeOK, WorkerOK
<1>8. ASSUME NEW w \in Workers, Claim(w) PROVE TypeInv'
  <2> DEFINE r == claim[w].run
  <2>1. r \in Runs /\ r[1] \in Sessions /\ r[2] \in 1 .. MaxRuns
    BY <1>8, <1>a, RunParts DEF Claim, WorkerOK, WorkerShape
  <2> HIDE DEF r
  <2>2. lease' \in LeaseTable /\ job' \in JobTable /\ NextFence(r) \in Nat
    BY <1>8, <1>a, <2>1, TakeLeaseType DEF Claim, r
  <2>3. session[r[1]].failure \in FailureCodes /\ session[r[1]].version \in Nat
    BY <1>a, <2>1 DEF TypeOK, SessionTable
  <2>4. session' \in SessionTable /\ outbox' \in OutboxTable /\ SessionShape'
    BY <1>8, <1>a, <2>1, <2>3, SaveType DEF Claim, SessionStatus, r
  <2>5. slot' \in SlotTable
    BY <1>8, <1>a, <2>1 DEF Claim, TypeOK, SlotTable, SlotState, r
  <2>6. run' \in RunTable
    BY <1>8, <1>a, <2>1
       DEF Claim, TypeOK, RunTable, RunStatus, SessionStatus, r
  <2>7. WorkerOK'
    <3>1. claim' = [claim EXCEPT ![w] = [run |-> r, fence |-> NextFence(r),
                                         version |-> session[r[1]].version + 1]]
      BY <1>8 DEF Claim, r
    <3>2. claim' \in [Workers -> ClaimRow] /\ claim'[w].run = r
      BY <1>a, <2>1, <2>2, <2>3, <3>1 DEF WorkerOK, ClaimRow
    <3>3. source' \in [Workers -> Source]
      BY <1>8, <1>a DEF Claim, WorkerOK, Source, NoSource, SessionStatus, JobStatus
    <3> QED BY <1>8, <1>a, <2>1, <3>1, <3>2, <3>3
      DEF Claim, WorkerOK, WorkerShape, Steps
  <2> QED BY <1>8, <1>a, <2>2, <2>4, <2>5, <2>6, <2>7
    DEF Claim, TypeInv, TypeOK, WorkerOK
<1>9. ASSUME NEW w \in Workers, Exhaust(w) PROVE TypeInv'
  <2> DEFINE r == claim[w].run
  <2>1. r \in Runs /\ r[1] \in Sessions /\ r[2] \in 1 .. MaxRuns
    BY <1>9, <1>a, RunParts DEF Exhaust, WorkerOK, WorkerShape
  <2> HIDE DEF r
  <2>2. session' \in SessionTable /\ outbox' \in OutboxTable /\ SessionShape'
    BY <1>9, <1>a, <2>1, SaveType DEF Exhaust, SessionStatus, FailureCodes, r
  <2>3. job' \in JobTable
    BY <1>9, <1>a, <2>1 DEF Exhaust, TypeOK, JobTable, JobStatus, r
  <2>4. run' \in RunTable
    BY <1>9, <1>a, <2>1
       DEF Exhaust, TypeOK, RunTable, RunStatus, SessionStatus, r
  <2>5. lease' \in LeaseTable
    BY <1>9, <1>a, <2>1 DEF Exhaust, TypeOK, LeaseTable, r
  <2>6. slot' \in SlotTable BY <1>9, <1>a, <2>1, ReleaseType DEF Exhaust, r
  <2>7. WorkerOK' BY <1>9, <1>a, GoIdleType DEF Exhaust
  <2> QED BY <1>9, <1>a, <2>2, <2>3, <2>4, <2>5, <2>6, <2>7
    DEF Exhaust, TypeInv, TypeOK, WorkerOK
<1>10. ASSUME NEW w \in Workers, SlotRefused(w) PROVE TypeInv'
  <2>1. WorkerOK' BY <1>10, <1>a DEF SlotRefused, WorkerOK, WorkerShape, Steps
  <2> QED BY <1>10, <1>c, <2>1 DEF SlotRefused
<1>11. ASSUME NEW w \in Workers, Defer(w) PROVE TypeInv'
  <2>1. claim[w].run \in Runs BY <1>11, <1>a DEF Defer, WorkerOK, WorkerShape
  <2>2. job' \in JobTable BY <1>11, <1>a, <2>1 DEF Defer, TypeOK, JobTable
  <2>3. WorkerOK' BY <1>11, <1>a, GoIdleType DEF Defer
  <2>4. SessionShape' BY <1>11, <1>a, SessionsUnchanged DEF Defer
  <2> QED BY <1>11, <1>a, <2>2, <2>3, <2>4 DEF Defer, TypeInv, TypeOK, WorkerOK
<1>12. ASSUME NEW w \in Workers, ClaimMissed(w) \/ LoseClaim(w) PROVE TypeInv'
  <2>1. WorkerOK' BY <1>12, <1>a, GoIdleType DEF ClaimMissed, LoseClaim
  <2> QED BY <1>12, <1>c, <2>1 DEF ClaimMissed, LoseClaim, NoTableStep
<1>13. ASSUME NEW w \in Workers,
              Handoff(w) \/ Prepare(w) \/ BeginRefused(w) \/ Validate(w)
       PROVE  TypeInv'
  <2>1. WorkerOK'
    BY <1>13, <1>a, GoToType
       DEF Handoff, Prepare, BeginRefused, Validate, Steps, Results
  <2> QED BY <1>13, <1>c, <2>1
    DEF Handoff, Prepare, BeginRefused, Validate, NoTableStep
<1>14. ASSUME NEW w \in Workers, NEW q \in Requests, BeginNew(w, q)
       PROVE  TypeInv'
  <2> DEFINE r == claim[w].run
  <2>1. r \in Runs BY <1>14, <1>a DEF BeginNew, WorkerOK, WorkerShape
  <2>2. claim[w].fence \in Nat BY <1>a DEF WorkerOK, ClaimRow
  <2>3. call' \in CallTable
    BY <1>14, <1>a, <2>1, <2>2 DEF BeginNew, TypeOK, CallTable, CallStatus, RetryTable
  <2>4. WorkerOK'
    BY <1>14, <1>a, GoToType DEF BeginNew, Steps, Results
  <2>5. SessionShape' BY <1>14, <1>a, SessionsUnchanged DEF BeginNew
  <2> QED BY <1>14, <1>a, <2>3, <2>4, <2>5
    DEF BeginNew, TypeInv, TypeOK, WorkerOK
<1>15. ASSUME NEW w \in Workers, NEW q \in Requests, BeginExisting(w, q)
       PROVE  TypeInv'
  <2>1. \E next \in {<<"validate", "response">>, <<"finish", "failed">>,
                      <<"finish", "provider_result_unknown">>} :
           pc[w] = "begin" /\ GoTo(w, next[1], next[2])
    BY <1>15 DEF BeginExisting, Replay
  <2>2. WorkerOK' BY <1>a, <2>1, GoToType DEF Steps, Results
  <2> QED BY <1>15, <1>c, <2>2 DEF BeginExisting, NoTableStep
<1>16. ASSUME NEW w \in Workers, Send(w) PROVE TypeInv'
  <2>1. claim[w].run \in Runs BY <1>16, <1>a DEF Send, WorkerOK, WorkerShape
  <2>2. sent' \in [Runs -> Nat] BY <1>16, <1>a, <2>1 DEF Send, TypeOK
  <2>3. WorkerOK' BY <1>16, <1>a, GoToType DEF Send, Steps, Results
  <2> QED BY <1>16, <1>a, <2>2, <2>3, TablesUnchanged DEF Send, TypeOK
<1>17. ASSUME NEW w \in Workers, Record(w) PROVE TypeInv'
  <2>1. claim[w].run \in Runs BY <1>17, <1>a DEF Record, WorkerOK, WorkerShape
  <2>2. call' \in CallTable
    BY <1>17, <1>a, <2>1 DEF Record, TypeOK, CallTable, CallStatus
  <2>3. WorkerOK'
    BY <1>17, <1>a, GoToType DEF Record, WorkerOK, WorkerShape, Steps, Results
  <2>4. SessionShape' BY <1>17, <1>a, SessionsUnchanged DEF Record
  <2> QED BY <1>17, <1>a, <2>2, <2>3, <2>4 DEF Record, TypeInv, TypeOK, WorkerOK
<1>18. ASSUME NEW w \in Workers, Finish(w) PROVE TypeInv'
  <2> DEFINE r == claim[w].run
             code == IF result[w] = "artifact" THEN "none" ELSE result[w]
             ended == IF result[w] = "artifact" THEN "completed" ELSE "blocked"
  <2>1. r \in Runs /\ r[1] \in Sessions /\ r[2] \in 1 .. MaxRuns
    BY <1>18, <1>a, RunParts DEF Finish, WorkerOK, WorkerShape
  <2>2. code \in FailureCodes /\ ended \in SessionStatus
    BY <1>18, <1>a DEF Finish, WorkerOK, WorkerShape, FailureCodes, SessionStatus
  <2>3. /\ Save(r[1], ended, 1, r[2], code)
        /\ run' = [run EXCEPT ![r] = ended]
        /\ job' = [job EXCEPT ![r].status = "done"]
        /\ lease' = [lease EXCEPT ![r[1]].live = FALSE]
        /\ artifacts' \subseteq artifacts \cup {r}
        /\ Release(r)
        /\ GoIdle(w)
    BY <1>18 DEF Finish
  <2> HIDE DEF r, code, ended
  <2>4. session' \in SessionTable /\ outbox' \in OutboxTable /\ SessionShape'
    BY <1>a, <2>1, <2>2, <2>3, SaveType
  <2>5. run' \in RunTable
    BY <1>a, <2>1, <2>2, <2>3 DEF TypeOK, RunTable, RunStatus
  <2>6. job' \in JobTable
    BY <1>a, <2>1, <2>3 DEF TypeOK, JobTable, JobStatus
  <2>7. lease' \in LeaseTable
    BY <1>a, <2>1, <2>3 DEF TypeOK, LeaseTable
  <2>8. slot' \in SlotTable BY <1>a, <2>1, <2>3, ReleaseType
  <2>9. WorkerOK' BY <1>a, <2>3, GoIdleType
  <2> QED BY <1>18, <1>a, <2>1, <2>3, <2>4, <2>5, <2>6, <2>7, <2>8, <2>9
    DEF Finish, TypeInv, TypeOK, WorkerOK
<1>19. ASSUME NEW w \in Workers, Stop(w) PROVE TypeInv'
  <2>1. WorkerOK' BY <1>19, <1>a, GoIdleType DEF Stop
  <2>2. faults' \in 0 .. MaxFaults
    BY <1>19, <1>a, ExecutionAssumption DEF Stop, TypeOK
  <2> QED BY <1>19, <1>a, <2>1, <2>2, TablesUnchanged DEF Stop, TypeOK
<1>20. ASSUME NEW r \in Runs, BecomeDue(r) PROVE TypeInv'
  <2>1. job' \in JobTable BY <1>20, <1>a DEF BecomeDue, TypeOK, JobTable
  <2>2. WorkerOK' /\ SessionShape'
    BY <1>20, <1>a, <1>b, SessionsUnchanged DEF BecomeDue, NoWorkerStep
  <2> QED BY <1>20, <1>a, <2>1, <2>2
    DEF BecomeDue, NoWorkerStep, TypeInv, TypeOK, WorkerOK
<1>21. ASSUME NextDay PROVE TypeInv'
  <2>1. today' \in 0 .. MaxDay
    BY <1>21, <1>a, ExecutionAssumption DEF NextDay, TypeOK
  <2>2. WorkerOK' BY <1>21, <1>b DEF NextDay
  <2> QED BY <1>21, <1>a, <2>1, <2>2, TablesUnchanged DEF NextDay, TypeOK
<1>22. ASSUME UNCHANGED vars PROVE TypeInv'
  BY <1>22, <1>b, <1>c DEF vars
<1> QED
  BY <1>1, <1>2, <1>3, <1>4, <1>5, <1>6, <1>7, <1>8, <1>9, <1>10, <1>11, <1>12,
     <1>13, <1>14, <1>15, <1>16, <1>17, <1>18, <1>19, <1>20, <1>21, <1>22
  DEF Next, Command, Work, Scan

\* Type correctness of the execution core for every instance.
THEOREM TypeCorrect == Spec => []TypeOK
<1>1. TypeInv => TypeOK BY DEF TypeInv
<1> QED BY <1>1, TypeInvInit, TypeInvStep, PTL DEF Spec

-----------------------------------------------------------------------------
(* At most one send per Run.                                                *)

\* A worker about to send has committed the Run's marker, nothing was sent for
\* that Run, and no other worker is about to; without a marker nothing was.
SendInv ==
  /\ SingleSend
  /\ \A w \in Workers : pc[w] = "send" =>
       /\ sent[claim[w].run] = 0
       /\ call[claim[w].run].status # "none"
  /\ \A v, w \in Workers :
       pc[v] = "send" /\ pc[w] = "send" /\ claim[v].run = claim[w].run => v = w
  /\ \A r \in Runs : call[r].status = "none" => sent[r] = 0

LEMMA SendInvInit == Init => SendInv
  BY DEF Init, SendInv, SingleSend

\* A step that sends nothing, creates no marker and brings no worker to its
\* send keeps the invariant.
LEMMA NoSendStep ==
  ASSUME TypeInv, SendInv, UNCHANGED sent,
         \A r \in Runs : call'[r].status = "none" <=> call[r].status = "none",
         \A w \in Workers : pc'[w] = "send"
            => pc[w] = "send" /\ claim'[w].run = claim[w].run
  PROVE  SendInv'
<1>1. \A w \in Workers : pc[w] = "send" => claim[w].run \in Runs
  BY DEF TypeInv, WorkerShape
<1> QED BY <1>1 DEF SendInv, SingleSend

LEMMA SendInvStep == TypeInv /\ SendInv /\ [Next]_vars => SendInv'
<1> SUFFICES ASSUME TypeInv, SendInv, [Next]_vars PROVE SendInv' OBVIOUS
<1>a. /\ pc \in [Workers -> Steps] /\ claim \in [Workers -> ClaimRow]
      /\ call \in CallTable /\ sent \in [Runs -> Nat] /\ WorkerShape
  BY DEF TypeInv, TypeOK
<1>1. ASSUME UNCHANGED <<call, sent>>, NEW w \in Workers, NEW step \in Steps,
             step # "send", pc' = [pc EXCEPT ![w] = step],
             \A x \in Workers : x # w => claim'[x] = claim[x]
      PROVE  SendInv'
  <2>1. \A x \in Workers : pc'[x] = "send"
           => pc[x] = "send" /\ claim'[x].run = claim[x].run
    BY <1>1, <1>a
  <2> QED BY <1>1, <2>1, NoSendStep
<1>2. ASSUME UNCHANGED <<call, sent, pc, claim>> PROVE SendInv'
  BY <1>2, NoSendStep
<1>3. ASSUME NEW s \in Sessions, Command(s) PROVE SendInv'
  BY <1>2, <1>3 DEF Command, StartAccepted, StartRefused, Cancel, Retry,
                    NoWorkerStep
<1>4. ASSUME NEW s \in Sessions, LeaseRunsOut(s) \/ LeaseLapses(s) PROVE SendInv'
  BY <1>2, <1>4 DEF LeaseRunsOut, LeaseLapses, SetLive
<1>5. ASSUME NEW w \in Workers, GoIdle(w), UNCHANGED <<call, sent>> PROVE SendInv'
  BY <1>1, <1>5, <1>a DEF GoIdle, Steps
<1>6. ASSUME NEW w \in Workers, NEW step \in Steps, step # "send",
             NEW value \in Results, GoTo(w, step, value),
             UNCHANGED <<call, sent>>
      PROVE  SendInv'
  BY <1>1, <1>6, <1>a DEF GoTo
<1>7. ASSUME NEW w \in Workers, NEW r \in Runs, Scan(w, r) PROVE SendInv'
  BY <1>1, <1>7, <1>a DEF Scan, ReadSource, ClaimFinalization, tables, Steps
<1>8. ASSUME NEW w \in Workers, Claim(w) \/ SlotRefused(w) PROVE SendInv'
  BY <1>1, <1>8, <1>a DEF Claim, SlotRefused, tables, Steps
<1>9. ASSUME NEW w \in Workers,
             \/ Exhaust(w) \/ Defer(w) \/ ClaimMissed(w) \/ Finish(w)
             \/ LoseClaim(w) \/ Stop(w)
      PROVE  SendInv'
  BY <1>5, <1>9 DEF Exhaust, Defer, ClaimMissed, Finish, LoseClaim, Stop,
                    NoTableStep, tables
<1>10. ASSUME NEW w \in Workers,
              Handoff(w) \/ Prepare(w) \/ BeginRefused(w) \/ Validate(w)
       PROVE  SendInv'
  BY <1>6, <1>10 DEF Handoff, Prepare, BeginRefused, Validate, NoTableStep,
                     tables, Steps, Results
<1>11. ASSUME NEW w \in Workers, NEW q \in Requests, BeginNew(w, q)
       PROVE  SendInv'
  <2> DEFINE r == claim[w].run
  <2>1. r \in Runs /\ call[r].status = "none" /\ sent[r] = 0
    BY <1>11, <1>a DEF BeginNew, WorkerShape, SendInv
  <2>2. \A x \in Workers : pc[x] = "send" => claim[x].run # r
    BY <2>1 DEF SendInv
  <2>3. UNCHANGED <<sent, claim>> BY <1>11 DEF BeginNew, GoTo
  <2>4. /\ call'[r].status = "dispatched"
        /\ \A x \in Runs : x # r => call'[x] = call[x]
    BY <1>11, <1>a, <2>1 DEF BeginNew, CallTable
  <2>5. /\ \A x \in Workers : x # w => pc'[x] = pc[x]
        /\ pc'[w] \in {"send", "finish"}
    BY <1>11, <1>a DEF BeginNew, GoTo
  <2>6. \A x \in Workers : pc[x] = "send" => claim[x].run \in Runs
    BY <1>a DEF WorkerShape
  <2> HIDE DEF r
  <2>7. \A x \in Workers : pc'[x] = "send"
          => sent'[claim'[x].run] = 0 /\ call'[claim'[x].run].status # "none"
    BY <2>1, <2>3, <2>4, <2>5, <2>6 DEF SendInv, r
  <2>8. \A u, v \in Workers : pc'[u] = "send" /\ pc'[v] = "send"
          /\ claim'[u].run = claim'[v].run => u = v
    BY <2>2, <2>3, <2>5 DEF SendInv, r
  <2> QED BY <2>1, <2>3, <2>4, <2>7, <2>8 DEF SendInv, SingleSend
<1>12. ASSUME NEW w \in Workers, NEW q \in Requests, BeginExisting(w, q)
       PROVE  SendInv'
  <2>1. \E next \in {<<"validate", "response">>, <<"finish", "failed">>,
                      <<"finish", "provider_result_unknown">>} :
           GoTo(w, next[1], next[2]) /\ UNCHANGED <<call, sent>>
    BY <1>12 DEF BeginExisting, Replay, NoTableStep, tables
  <2> QED BY <1>6, <2>1 DEF Steps, Results
<1>13. ASSUME NEW w \in Workers, Send(w) PROVE SendInv'
  <2> DEFINE r == claim[w].run
  <2>1. r \in Runs /\ sent[r] = 0 /\ call[r].status # "none"
    BY <1>13, <1>a DEF Send, WorkerShape, SendInv
  <2>2. /\ sent'[r] = 1
        /\ \A x \in Runs : x # r => sent'[x] = sent[x]
    BY <1>13, <1>a, <2>1 DEF Send
  <2>3. UNCHANGED <<call, claim>> BY <1>13 DEF Send, GoTo, tables
  <2>4. /\ \A x \in Workers : x # w => pc'[x] = pc[x]
        /\ pc'[w] = "record"
    BY <1>13, <1>a DEF Send, GoTo
  <2>5. \A x \in Workers : pc'[x] = "send" => claim[x].run # r
    BY <1>13, <2>4 DEF Send, SendInv
  <2>6. \A x \in Workers : pc[x] = "send" => claim[x].run \in Runs
    BY <1>a DEF WorkerShape
  <2> HIDE DEF r
  <2>7. \A x \in Workers : pc'[x] = "send"
          => sent'[claim'[x].run] = 0 /\ call'[claim'[x].run].status # "none"
    BY <2>2, <2>3, <2>4, <2>5, <2>6 DEF SendInv
  <2>8. \A u, v \in Workers : pc'[u] = "send" /\ pc'[v] = "send"
          /\ claim'[u].run = claim'[v].run => u = v
    BY <2>3, <2>4 DEF SendInv
  <2>9. SingleSend' BY <2>1, <2>2 DEF SendInv, SingleSend
  <2>10. \A x \in Runs : call'[x].status = "none" => sent'[x] = 0
    BY <2>1, <2>2, <2>3 DEF SendInv
  <2> QED BY <2>7, <2>8, <2>9, <2>10 DEF SendInv
<1>14. ASSUME NEW w \in Workers, Record(w) PROVE SendInv'
  <2>1. claim[w].run \in Runs BY <1>14, <1>a DEF Record, WorkerShape
  <2>2. \A r \in Runs : call'[r].status = "none" <=> call[r].status = "none"
    BY <1>14, <1>a, <2>1 DEF Record, Records, CallTable
  <2>3. \A x \in Workers : pc'[x] = "send"
          => pc[x] = "send" /\ claim'[x].run = claim[x].run
    BY <1>14, <1>a DEF Record, GoTo
  <2> QED BY <1>14, <2>2, <2>3, NoSendStep DEF Record
<1>15. ASSUME NEW r \in Runs, BecomeDue(r) PROVE SendInv'
  BY <1>2, <1>15 DEF BecomeDue, NoWorkerStep
<1>16. ASSUME NextDay \/ UNCHANGED vars PROVE SendInv'
  BY <1>2, <1>16 DEF NextDay, vars, tables
<1> QED
  BY <1>3, <1>4, <1>7, <1>8, <1>9, <1>10, <1>11, <1>12, <1>13, <1>14, <1>15, <1>16
  DEF Next, Work

\* Whatever process stops, lease expiries, takeovers and retries happen, the
\* provider is invoked at most once for any Run: begin_model_call's promise.
THEOREM SentAtMostOnce == Spec => []SingleSend
<1>1. SendInv => SingleSend BY DEF SendInv
<1> QED BY <1>1, TypeInvInit, TypeInvStep, SendInvInit, SendInvStep, PTL DEF Spec

-----------------------------------------------------------------------------
(* At most one owner per Session.                                           *)

\* Fences are handed out once: a worker executing a claim has a fence that is
\* not above its Session's, no two of them have the same, and a worker that
\* executes nothing has none.
FenceInv ==
  /\ \A s \in Sessions : lease[s].live => lease[s].fence > 0
  /\ \A w \in Workers :
       IF pc[w] \in Executing
       THEN claim[w].fence <= lease[claim[w].run[1]].fence
       ELSE claim[w].fence = 0
  /\ \A v, w \in Workers :
       /\ v # w /\ pc[v] \in Executing /\ pc[w] \in Executing
       /\ claim[v].run[1] = claim[w].run[1]
       => claim[v].fence # claim[w].fence

LEMMA FenceInvInit == Init => FenceInv
  BY DEF Init, FenceInv, Executing, NoClaim

\* A step that hands out no fence: every worker keeps its claim or drops it,
\* and no Session's fence goes back.
LEMMA NoNewFence ==
  ASSUME TypeInv, FenceInv,
         \A w \in Workers :
            \/ claim'[w].fence = 0 /\ pc'[w] \notin Executing
            \/ claim'[w] = claim[w] /\ (pc'[w] \in Executing <=> pc[w] \in Executing),
         \A s \in Sessions :
            /\ lease'[s].fence \in Nat
            /\ lease'[s].fence >= lease[s].fence
            /\ lease'[s].live => lease[s].live
  PROVE  FenceInv'
<1>1. \A w \in Workers :
        pc[w] \in Executing => claim[w].run[1] \in Sessions
  BY RunParts DEF TypeInv, WorkerShape, Executing
<1>2. /\ \A w \in Workers : claim[w].fence \in Nat
      /\ \A s \in Sessions : lease[s].fence \in Nat
  BY DEF TypeInv, TypeOK, ClaimRow, LeaseTable
<1>3. \A s \in Sessions : lease'[s].live => lease'[s].fence > 0
  BY <1>2 DEF FenceInv
<1>4. \A w \in Workers : pc'[w] \in Executing
        => /\ claim'[w] = claim[w] /\ pc[w] \in Executing
           /\ claim[w].fence <= lease'[claim[w].run[1]].fence
  BY <1>1, <1>2 DEF FenceInv
<1>5. \A w \in Workers : pc'[w] \notin Executing => claim'[w].fence = 0
  BY DEF FenceInv
<1> QED BY <1>3, <1>4, <1>5 DEF FenceInv

\* The step that hands out the next fence of a Session.
LEMMA NewFence ==
  ASSUME TypeInv, FenceInv, NEW w \in Workers, NEW r \in Runs, NEW k \in 0 .. 1,
         TakeLease(r, k), pc'[w] \in Executing,
         claim'[w].run = r, claim'[w].fence = NextFence(r),
         \A x \in Workers : x # w => claim'[x] = claim[x] /\ pc'[x] = pc[x]
  PROVE  FenceInv'
<1>1. \A x \in Workers :
        pc[x] \in Executing => claim[x].run[1] \in Sessions
  BY RunParts DEF TypeInv, WorkerShape, Executing
<1>2. /\ \A x \in Workers : claim[x].fence \in Nat
      /\ \A s \in Sessions : lease[s].fence \in Nat
  BY DEF TypeInv, TypeOK, ClaimRow, LeaseTable
<1>3. r[1] \in Sessions BY RunParts
<1>4. /\ lease'[r[1]].fence = lease[r[1]].fence + 1
      /\ \A s \in Sessions : s # r[1] => lease'[s] = lease[s]
  BY <1>3 DEF TakeLease, NextFence, TypeInv, TypeOK, LeaseTable
<1>5. claim'[w].fence = lease[r[1]].fence + 1 BY DEF NextFence
<1>6. \A s \in Sessions : lease'[s].live => lease'[s].fence > 0
  BY <1>2, <1>3, <1>4 DEF FenceInv
<1>7. \A x \in Workers :
        IF pc'[x] \in Executing
        THEN claim'[x].fence <= lease'[claim'[x].run[1]].fence
        ELSE claim'[x].fence = 0
  BY <1>1, <1>2, <1>3, <1>4, <1>5 DEF FenceInv
<1>8. \A x \in Workers : x # w /\ pc'[x] \in Executing
        /\ claim'[x].run[1] = r[1] => claim'[x].fence # claim'[w].fence
  BY <1>1, <1>2, <1>3, <1>5 DEF FenceInv
<1>9. \A u, v \in Workers :
        /\ u # v /\ pc'[u] \in Executing /\ pc'[v] \in Executing
        /\ claim'[u].run[1] = claim'[v].run[1]
        => claim'[u].fence # claim'[v].fence
  BY <1>8 DEF FenceInv
<1> QED BY <1>6, <1>7, <1>9 DEF FenceInv

LEMMA FenceInvStep == TypeInv /\ FenceInv /\ [Next]_vars => FenceInv'
<1> SUFFICES ASSUME TypeInv, FenceInv, [Next]_vars PROVE FenceInv' OBVIOUS
<1>a. /\ pc \in [Workers -> Steps] /\ claim \in [Workers -> ClaimRow]
      /\ lease \in LeaseTable /\ WorkerShape
  BY DEF TypeInv, TypeOK
<1>b. \A s \in Sessions : lease[s].fence \in Nat /\ lease[s].live \in BOOLEAN
  BY <1>a DEF LeaseTable
<1> DEFINE LeaseKept == \A s \in Sessions :
                          /\ lease'[s].fence \in Nat
                          /\ lease'[s].fence >= lease[s].fence
                          /\ lease'[s].live => lease[s].live
<1>1. ASSUME UNCHANGED lease PROVE LeaseKept BY <1>1, <1>b
<1>2. ASSUME UNCHANGED <<pc, claim>>, LeaseKept PROVE FenceInv'
  BY <1>2, NoNewFence
<1>3. ASSUME NEW w \in Workers, GoIdle(w), LeaseKept PROVE FenceInv'
  <2>1. \A x \in Workers :
          \/ claim'[x].fence = 0 /\ pc'[x] \notin Executing
          \/ claim'[x] = claim[x] /\ (pc'[x] \in Executing <=> pc[x] \in Executing)
    BY <1>3, <1>a DEF GoIdle, NoClaim, Executing
  <2> QED BY <1>3, <2>1, NoNewFence
<1>4. ASSUME NEW w \in Workers, pc[w] \in Executing, NEW step \in Executing,
             pc' = [pc EXCEPT ![w] = step], UNCHANGED <<claim, lease>>
      PROVE  FenceInv'
  <2>1. \A x \in Workers : claim'[x] = claim[x]
          /\ (pc'[x] \in Executing <=> pc[x] \in Executing)
    BY <1>4, <1>a
  <2> QED BY <1>1, <1>4, <2>1, NoNewFence
<1>5. ASSUME NEW s \in Sessions, StartAccepted(s) PROVE FenceInv'
  BY <1>1, <1>2, <1>5 DEF StartAccepted, NoWorkerStep
<1>6. ASSUME NEW s \in Sessions, NEW b \in BOOLEAN,
             StartRefused(s, b) \/ Retry(s, b)
      PROVE  FenceInv'
  BY <1>1, <1>2, <1>6 DEF StartRefused, Retry, NoWorkerStep
<1>7. ASSUME NEW s \in Sessions, Cancel(s) PROVE FenceInv'
  <2>1. LeaseKept BY <1>7, <1>a, <1>b DEF Cancel, LeaseTable
  <2> QED BY <1>2, <1>7, <2>1 DEF Cancel, NoWorkerStep
<1>8. ASSUME NEW s \in Sessions, LeaseRunsOut(s) \/ LeaseLapses(s)
      PROVE  FenceInv'
  <2>1. LeaseKept BY <1>8, <1>a, <1>b DEF LeaseRunsOut, LeaseLapses, SetLive,
                                          LeaseTable
  <2> QED BY <1>2, <1>8, <2>1 DEF LeaseRunsOut, LeaseLapses, SetLive
<1>9. ASSUME NEW w \in Workers, NEW r \in Runs, ReadSource(w, r) PROVE FenceInv'
  <2>1. claim[w].fence = 0 BY <1>9 DEF ReadSource, FenceInv, Executing
  <2>2. \A x \in Workers :
          \/ claim'[x].fence = 0 /\ pc'[x] \notin Executing
          \/ claim'[x] = claim[x] /\ (pc'[x] \in Executing <=> pc[x] \in Executing)
    BY <1>9, <1>a, <2>1 DEF ReadSource, ClaimRow, Executing
  <2> QED BY <1>1, <1>9, <2>2, NoNewFence DEF ReadSource, tables
<1>10. ASSUME NEW w \in Workers, NEW r \in Runs, ClaimFinalization(w, r)
       PROVE  FenceInv'
  <2>1. /\ pc'[w] \in Executing /\ claim'[w].run = r
        /\ claim'[w].fence = NextFence(r)
        /\ \A x \in Workers : x # w => claim'[x] = claim[x] /\ pc'[x] = pc[x]
    BY <1>10, <1>a DEF ClaimFinalization, Executing
  <2> QED BY <1>10, <2>1, NewFence DEF ClaimFinalization
<1>11. ASSUME NEW w \in Workers, Claim(w) PROVE FenceInv'
  <2> DEFINE r == claim[w].run
  <2>1. r \in Runs BY <1>11, <1>a DEF Claim, WorkerShape
  <2>2. /\ pc'[w] \in Executing /\ claim'[w].run = r
        /\ claim'[w].fence = NextFence(r)
        /\ \A x \in Workers : x # w => claim'[x] = claim[x] /\ pc'[x] = pc[x]
        /\ TakeLease(r, 1)
    BY <1>11, <1>a DEF Claim, Executing
  <2> QED BY <2>1, <2>2, NewFence
<1>12. ASSUME NEW w \in Workers, Exhaust(w) PROVE FenceInv'
  <2>1. claim[w].run[1] \in Sessions
    BY <1>12, <1>a, RunParts DEF Exhaust, WorkerShape
  <2>2. LeaseKept BY <1>12, <1>a, <1>b, <2>1 DEF Exhaust, LeaseTable
  <2> QED BY <1>3, <1>12, <2>2 DEF Exhaust
<1>13. ASSUME NEW w \in Workers, Finish(w) PROVE FenceInv'
  <2>1. claim[w].run[1] \in Sessions
    BY <1>13, <1>a, RunParts DEF Finish, WorkerShape
  <2>2. LeaseKept BY <1>13, <1>a, <1>b, <2>1 DEF Finish, LeaseTable
  <2> QED BY <1>3, <1>13, <2>2 DEF Finish
<1>14. ASSUME NEW w \in Workers,
              Defer(w) \/ ClaimMissed(w) \/ LoseClaim(w) \/ Stop(w)
       PROVE  FenceInv'
  BY <1>1, <1>3, <1>14 DEF Defer, ClaimMissed, LoseClaim, Stop, NoTableStep,
                           tables
<1>15. ASSUME NEW w \in Workers, SlotRefused(w) PROVE FenceInv'
  <2>1. \A x \in Workers : claim'[x] = claim[x]
          /\ (pc'[x] \in Executing <=> pc[x] \in Executing)
    BY <1>15, <1>a DEF SlotRefused, Executing
  <2> QED BY <1>1, <1>15, <2>1, NoNewFence DEF SlotRefused, tables
<1>16. ASSUME NEW w \in Workers,
              \/ Handoff(w) \/ Prepare(w) \/ BeginRefused(w) \/ Send(w)
              \/ Record(w) \/ Validate(w)
              \/ \E q \in Requests : BeginNew(w, q) \/ BeginExisting(w, q)
       PROVE  FenceInv'
  <2>1. /\ pc[w] \in Executing
        /\ \E step \in Executing : pc' = [pc EXCEPT ![w] = step]
        /\ UNCHANGED <<claim, lease>>
    <3>1. CASE Handoff(w) \/ Prepare(w) \/ BeginRefused(w) \/ Send(w) \/ Validate(w)
      BY <3>1 DEF Handoff, Prepare, BeginRefused, Send, Validate, GoTo,
                  NoTableStep, tables, Executing
    <3>2. CASE Record(w) BY <3>2 DEF Record, GoTo, Executing
    <3>3. ASSUME NEW q \in Requests, BeginNew(w, q)
          PROVE  /\ pc[w] \in Executing
                 /\ \E step \in Executing : pc' = [pc EXCEPT ![w] = step]
                 /\ UNCHANGED <<claim, lease>>
      BY <3>3 DEF BeginNew, GoTo, Executing
    <3>4. ASSUME NEW q \in Requests, BeginExisting(w, q)
          PROVE  /\ pc[w] \in Executing
                 /\ \E step \in Executing : pc' = [pc EXCEPT ![w] = step]
                 /\ UNCHANGED <<claim, lease>>
      <4>1. \/ GoTo(w, "validate", "response")
            \/ GoTo(w, "finish", "failed")
            \/ GoTo(w, "finish", "provider_result_unknown")
        BY <3>4 DEF BeginExisting, Replay
      <4>2. pc[w] \in Executing /\ UNCHANGED lease
        BY <3>4 DEF BeginExisting, NoTableStep, tables, Executing
      <4>3. \E step \in Executing :
               pc' = [pc EXCEPT ![w] = step] /\ UNCHANGED claim
        BY <4>1 DEF GoTo, Executing
      <4> QED BY <4>2, <4>3
    <3> QED BY <1>16, <3>1, <3>2, <3>3, <3>4
  <2> QED BY <1>4, <2>1
<1>17. ASSUME NEW r \in Runs, BecomeDue(r) PROVE FenceInv'
  BY <1>1, <1>2, <1>17 DEF BecomeDue, NoWorkerStep
<1>18. ASSUME NextDay \/ UNCHANGED vars PROVE FenceInv'
  BY <1>1, <1>2, <1>18 DEF NextDay, vars, tables
<1> QED
  BY <1>5, <1>6, <1>7, <1>8, <1>9, <1>10, <1>11, <1>12, <1>13, <1>14, <1>15,
     <1>16, <1>17, <1>18
  DEF Next, Command, Work, Scan

\* Fencing gives mutual exclusion: two workers never both own a Session, so no
\* two of them can ever both commit on its behalf.
THEOREM OneOwner == Spec => []SingleOwner
<1>1. TypeInv /\ FenceInv => SingleOwner
  <2> SUFFICES ASSUME TypeInv, FenceInv, NEW v \in Workers, NEW w \in Workers,
                      v # w, Owns(v), Owns(w), claim[v].run[1] = claim[w].run[1]
               PROVE  FALSE
    BY DEF SingleOwner
  <2>1. ASSUME NEW x \in Workers, Owns(x) PROVE pc[x] \in Executing
    <3>1. claim[x].run[1] \in Sessions
      BY <2>1, RunParts DEF Owns, TypeInv, TypeOK, ClaimRow
    <3>2. claim[x].fence > 0 BY <2>1, <3>1 DEF Owns, FenceInv
    <3> QED BY <3>2 DEF FenceInv
  <2>2. claim[v].fence = claim[w].fence BY DEF Owns
  <2> QED BY <2>1, <2>2 DEF FenceInv
<1> QED BY <1>1, TypeInvInit, TypeInvStep, FenceInvInit, FenceInvStep, PTL DEF Spec

-----------------------------------------------------------------------------
(* The story the rows of a Session tell.                                    *)

Ended == {"absent", "done", "dead"}

\* The active Run and its job are where the Session's status says.
Now(s) ==
  LET x == session[s]
      r == Current(s) IN
  /\ x.status = "queued" =>
       /\ run[r] = "queued" /\ job[r].status = "queued"
       /\ slot[r].state = "reserved" /\ call[r].status = "none" /\ x.failure = "none"
  /\ x.status = "running" =>
       /\ run[r] = "running" /\ job[r].status = "leased" /\ slot[r].state = "active"
       /\ job[r].fence = lease[s].fence /\ x.failure = "none"
  /\ x.status = "blocked" =>
       run[r] = "blocked" /\ job[r].status \in Ended /\ slot[r].state # "active"
  /\ x.status = "completed" =>
       /\ run[r] = "completed" /\ job[r].status = "done" /\ slot[r].state # "active"
       /\ r \in artifacts /\ call[r].status = "response_received"
  /\ x.status = "cancelled" =>
       /\ run[r] \in {"blocked", "cancelled"} /\ job[r].status \in Ended \cup {"cancelled"}
       /\ slot[r].state # "active"
  /\ x.failure = "attempts_exhausted" => call[r].status # "response_received"

\* Earlier Runs were blocked, later ones do not exist.
Story(s) ==
  /\ session[s].status = "absent" => session[s].active = 0
  /\ session[s].status # "absent" => Now(s)
  /\ \A r \in Runs : r[1] = s /\ r[2] < session[s].active =>
       run[r] = "blocked" /\ job[r].status \in Ended /\ slot[r].state # "active"
  /\ \A r \in Runs : r[1] = s /\ r[2] > session[s].active =>
       /\ run[r] = "absent" /\ job[r].status = "absent"
       /\ slot[r].state = "none" /\ call[r].status = "none"

\* The events of a Session: none is newer than the Session, its last is its
\* present state, and no version has two.
Events(s) ==
  /\ session[s].status # "absent" =>
       <<s, session[s].version, session[s].status>> \in outbox
  /\ \A e \in outbox : e[1] = s =>
       /\ e[2] <= session[s].version
       /\ \A other \in SessionStatus \ {e[3]} : <<s, e[2], other>> \notin outbox

\* A model call was begun under a fence its Session handed out.
CallFenced(r) ==
  call[r].status # "none" => 0 < call[r].fence /\ call[r].fence <= lease[r[1]].fence

\* An Artifact belongs to the active Run of a completed Session.
ArtifactPlaced(r) ==
  r \in artifacts => session[r[1]].status = "completed" /\ session[r[1]].active = r[2]

StoryInv == \A s \in Sessions : Story(s)
EventsInv == \A s \in Sessions : Events(s)
CallInv == \A r \in Runs : CallFenced(r)
ArtifactInv == \A r \in Runs : ArtifactPlaced(r)
TableInv == StoryInv /\ EventsInv /\ CallInv /\ ArtifactInv

-----------------------------------------------------------------------------
(* Steps that move one Run.                                                 *)

\* Only Run r and its Session move; fences go up.
OnlyRun(r) ==
  \A q \in Runs : q # r =>
    /\ run'[q] = run[q] /\ job'[q].status = job[q].status /\ job'[q].fence = job[q].fence
    /\ slot'[q].state = slot[q].state /\ call'[q] = call[q]

OnlySession(s) ==
  \A t \in Sessions : t # s => session'[t] = session[t] /\ lease'[t].fence = lease[t].fence

FencesRise == \A t \in Sessions : lease'[t].fence >= lease[t].fence

LEMMA CurrentRun ==
  ASSUME TypeInv, NEW s \in Sessions, session[s].status # "absent"
  PROVE  /\ Current(s) \in Runs /\ Current(s)[1] = s /\ Current(s)[2] = session[s].active
         /\ session[s].active \in 1 .. MaxRuns
<1>1. session[s].active \in 0 .. MaxRuns /\ session[s].active # 0
  BY DEF TypeInv, TypeOK, SessionTable, SessionShape
<1> QED BY <1>1, ExecutionAssumption DEF Current, Runs

LEMMA RunOfSession ==
  ASSUME NEW r \in Runs, NEW s \in Sessions, r[1] = s, session[s].active = r[2]
  PROVE  Current(s) = r
  BY RunParts DEF Current

\* A Session that is not touched keeps its story.
LEMMA StoryAside ==
  ASSUME TypeInv, NEW s \in Sessions, Story(s), session'[s] = session[s],
         lease'[s].fence = lease[s].fence, artifacts \subseteq artifacts',
         \A q \in Runs : q[1] = s =>
           /\ run'[q] = run[q] /\ job'[q].status = job[q].status /\ job'[q].fence = job[q].fence
           /\ slot'[q].state = slot[q].state /\ call'[q].status = call[q].status
  PROVE  Story(s)'
<1>1. CASE session[s].status = "absent" BY <1>1 DEF Story
<1>2. CASE session[s].status # "absent"
  <2>1. Current(s) \in Runs /\ Current(s)[1] = s /\ Current(s)' = Current(s)
    BY <1>2, CurrentRun DEF Current
  <2>2. Now(s) BY <1>2 DEF Story
  <2>3. Now(s)' BY <2>1, <2>2 DEF Now
  <2> QED BY <1>2, <2>3 DEF Story
<1> QED BY <1>1, <1>2

LEMMA StoryMoves ==
  ASSUME TypeInv, StoryInv, NEW r \in Runs, OnlyRun(r), OnlySession(r[1]),
         artifacts \subseteq artifacts',
         session'[r[1]].active = r[2], session'[r[1]].status # "absent",
         \/ session[r[1]].active = r[2]
         \/ /\ session[r[1]].status \in {"absent", "blocked"}
            /\ r[2] = session[r[1]].active + 1,
         Now(r[1])'
  PROVE  StoryInv'
<1> DEFINE s == r[1]
<1>1. s \in Sessions /\ r[2] \in 1 .. MaxRuns /\ r = <<s, r[2]>> BY RunParts
<1>2. ASSUME NEW t \in Sessions, t # s PROVE Story(t)'
  <2>1. \A q \in Runs : q[1] = t => q # r BY <1>2
  <2> QED BY <1>2, <2>1, StoryAside DEF StoryInv, OnlyRun, OnlySession
<1>3. Story(s) BY <1>1 DEF StoryInv
<1>4. session[s].active \in 0 .. MaxRuns BY <1>1 DEF TypeInv, TypeOK, SessionTable
<1>5. ASSUME NEW q \in Runs, q[1] = s, q # r
      PROVE  q \in Runs /\ q[2] \in 1 .. MaxRuns /\ q[2] # r[2]
  BY <1>1, <1>5, RunParts
<1>6. ASSUME NEW q \in Runs, q[1] = s, q[2] < r[2]
      PROVE  run'[q] = "blocked" /\ job'[q].status \in Ended /\ slot'[q].state # "active"
  <2>1. q # r /\ q[2] \in 1 .. MaxRuns BY <1>1, <1>6, RunParts
  <2>2. CASE q[2] < session[s].active BY <1>3, <1>6, <2>1, <2>2 DEF Story, OnlyRun
  <2>3. CASE ~(q[2] < session[s].active)
    <3>1. session[s].active = q[2] /\ session[s].status \in {"absent", "blocked"}
      BY <1>1, <1>4, <1>6, <2>1, <2>3
    <3>2. session[s].status = "blocked" BY <2>1, <3>1, <1>3, ExecutionAssumption DEF Story
    <3>3. Current(s) = q BY <1>1, <1>6, <3>1, RunOfSession
    <3>4. run[q] = "blocked" /\ job[q].status \in Ended /\ slot[q].state # "active"
      BY <1>3, <3>2, <3>3 DEF Story, Now
    <3> QED BY <1>6, <2>1, <3>4 DEF OnlyRun
  <2> QED BY <2>2, <2>3
<1>7. ASSUME NEW q \in Runs, q[1] = s, q[2] > r[2]
      PROVE  /\ run'[q] = "absent" /\ job'[q].status = "absent"
             /\ slot'[q].state = "none" /\ call'[q].status = "none"
  <2>1. q # r /\ q[2] \in 1 .. MaxRuns BY <1>1, <1>7, RunParts
  <2>2. q[2] > session[s].active BY <1>1, <1>4, <1>7, <2>1
  <2> QED BY <1>3, <1>7, <2>1, <2>2 DEF Story, OnlyRun
<1>8. Story(s)' BY <1>6, <1>7 DEF Story
<1> QED BY <1>2, <1>8 DEF StoryInv

\* save stages the event of a version nobody staged before.
LEMMA EventSaved ==
  ASSUME TypeInv, EventsInv, NEW s \in Sessions, NEW status \in SessionStatus,
         NEW steps \in Nat \ {0}, NEW active, NEW failure,
         Save(s, status, steps, active, failure)
  PROVE  EventsInv'
<1> DEFINE version == session[s].version + steps
<1>1. session[s].version \in Nat /\ version \in Nat /\ version > session[s].version
  BY DEF TypeInv, TypeOK, SessionTable
<1>2. \A e \in outbox : e[1] = s => e[2] \in Nat /\ e[2] <= session[s].version
  BY DEF EventsInv, Events, TypeInv, TypeOK, OutboxTable
<1>3. ~\E e \in outbox : e[1] = s /\ e[2] = version BY <1>1, <1>2
<1>4. outbox' = outbox \cup {<<s, version, status>>} BY <1>3 DEF Save, Stage
<1>5. /\ session'[s].version = version /\ session'[s].status = status
      /\ \A t \in Sessions : t # s => session'[t] = session[t]
  BY DEF Save, TypeInv, TypeOK, SessionTable
<1> HIDE DEF version
<1>6. ASSUME NEW t \in Sessions, t # s PROVE Events(t)'
  <2>1. Events(t) BY DEF EventsInv
  <2>2. session'[t] = session[t] BY <1>5, <1>6
  <2>3. \A e \in outbox' : e[1] = t => e \in outbox BY <1>4, <1>6
  <2>4. \A v, o : <<t, v, o>> \in outbox' => <<t, v, o>> \in outbox BY <1>4, <1>6
  <2> QED BY <1>4, <2>1, <2>2, <2>3, <2>4 DEF Events
<1>7. Events(s)'
  <2>1. <<s, session'[s].version, session'[s].status>> \in outbox' BY <1>4, <1>5
  <2>2. ASSUME NEW e \in outbox', e[1] = s
        PROVE  /\ e[2] <= session'[s].version
               /\ \A other \in SessionStatus \ {e[3]} : <<s, e[2], other>> \notin outbox'
    <3>1. CASE e \in outbox
      <4>1. e[2] # version /\ e[2] <= version BY <1>1, <1>2, <2>2, <3>1
      <4>2. \A other \in SessionStatus \ {e[3]} : <<s, e[2], other>> \notin outbox
        BY <2>2, <3>1 DEF EventsInv, Events
      <4> QED BY <1>4, <1>5, <4>1, <4>2
    <3>2. CASE e = <<s, version, status>>
      <4>1. e[2] = version /\ e[3] = status BY <3>2
      <4>2. \A other : <<s, version, other>> \in outbox => FALSE BY <1>3
      <4> QED BY <1>1, <1>4, <1>5, <4>1, <4>2
    <3> QED BY <1>4, <2>2, <3>1, <3>2
  <2> QED BY <2>1, <2>2 DEF Events
<1> QED BY <1>6, <1>7 DEF EventsInv

LEMMA CallKept ==
  ASSUME TypeInv, TypeInv', CallInv, UNCHANGED call, FencesRise
  PROVE  CallInv'
<1> SUFFICES ASSUME NEW r \in Runs, call[r].status # "none"
             PROVE  0 < call[r].fence /\ call[r].fence <= lease'[r[1]].fence
  BY DEF CallInv, CallFenced
<1>1. 0 < call[r].fence /\ call[r].fence <= lease[r[1]].fence /\ r[1] \in Sessions
  BY RunParts DEF CallInv, CallFenced
<1>2. call[r].fence \in Nat /\ lease[r[1]].fence \in Nat /\ lease'[r[1]].fence \in Nat
  BY <1>1 DEF TypeInv, TypeOK, CallTable, LeaseTable
<1> QED BY <1>1, <1>2 DEF FencesRise

\* A Run moves together with its Session, which is saved.
LEMMA SavedMove ==
  ASSUME TypeInv, TypeInv', TableInv, NEW r \in Runs, OnlyRun(r), FencesRise,
         \A t \in Sessions : t # r[1] => lease'[t].fence = lease[t].fence,
         NEW status \in SessionStatus, status # "absent", NEW steps \in Nat \ {0}, NEW failure,
         Save(r[1], status, steps, r[2], failure),
         session[r[1]].status # "completed",
         \/ session[r[1]].active = r[2]
         \/ /\ session[r[1]].status \in {"absent", "blocked"}
            /\ r[2] = session[r[1]].active + 1,
         UNCHANGED call,
         UNCHANGED artifacts \/ (status = "completed" /\ artifacts' = artifacts \cup {r}),
         Now(r[1])'
  PROVE  TableInv'
<1>1. r[1] \in Sessions BY RunParts
<1>2. /\ session'[r[1]].active = r[2] /\ session'[r[1]].status = status
      /\ \A t \in Sessions : t # r[1] => session'[t] = session[t]
  BY <1>1 DEF Save, TypeInv, TypeOK, SessionTable
<1>3. StoryInv' BY <1>2, StoryMoves DEF TableInv, OnlySession
<1>4. EventsInv' BY <1>1, EventSaved DEF TableInv
<1>5. CallInv' BY CallKept DEF TableInv
<1>6. ArtifactInv'
  <2> SUFFICES ASSUME NEW q \in Runs, q \in artifacts'
               PROVE  session'[q[1]].status = "completed" /\ session'[q[1]].active = q[2]
    BY DEF ArtifactInv, ArtifactPlaced
  <2>1. CASE q \in artifacts
    <3>1. session[q[1]].status = "completed" /\ session[q[1]].active = q[2] /\ q[1] \in Sessions
      BY <2>1, RunParts DEF TableInv, ArtifactInv, ArtifactPlaced
    <3> QED BY <1>2, <3>1
  <2>2. CASE q \notin artifacts
    <3>1. q = r /\ status = "completed" BY <2>2
    <3> QED BY <1>2, <3>1
  <2> QED BY <2>1, <2>2
<1> QED BY <1>3, <1>4, <1>5, <1>6 DEF TableInv

\* Nothing a story tells has changed.
LEMMA NothingMoves ==
  ASSUME TypeInv, TypeInv', TableInv, UNCHANGED <<session, run, call, slot, artifacts, outbox>>,
         \A q \in Runs : job'[q].status = job[q].status /\ job'[q].fence = job[q].fence,
         \A t \in Sessions : lease'[t].fence = lease[t].fence
  PROVE  TableInv'
<1>1. StoryInv' BY StoryAside DEF TableInv, StoryInv
<1>2. EventsInv' BY DEF TableInv, EventsInv, Events
<1>3. FencesRise BY DEF FencesRise, TypeInv, TypeOK, LeaseTable
<1>4. CallInv' BY <1>3, CallKept DEF TableInv
<1>5. ArtifactInv' BY DEF TableInv, ArtifactInv, ArtifactPlaced
<1> QED BY <1>1, <1>2, <1>4, <1>5 DEF TableInv

-----------------------------------------------------------------------------
(* The commands.                                                            *)

\* What enqueue writes for its Run, and what it leaves.
LEMMA Enqueued ==
  ASSUME TypeInv, NEW r \in Runs, Enqueue(r), UNCHANGED call
  PROVE  /\ OnlyRun(r)
         /\ run'[r] = "queued" /\ job'[r].status = "queued" /\ slot'[r].state = "reserved"
  BY DEF Enqueue, OnlyRun, TypeInv, TypeOK, RunTable, JobTable, SlotTable

LEMMA LeasesKept ==
  ASSUME TypeInv, UNCHANGED lease
  PROVE  FencesRise
  BY DEF FencesRise, TypeInv, TypeOK, LeaseTable

LEMMA TableStart ==
  ASSUME TypeInv, TypeInv', TableInv, NEW s \in Sessions,
         StartAccepted(s) \/ \E bound \in BOOLEAN : StartRefused(s, bound)
  PROVE  TableInv'
<1>0. 1 \in 1 .. MaxRuns BY ExecutionAssumption
<1>1. PICK r \in Runs : r = <<s, 1>> BY <1>0 DEF Runs
<1>2. r[1] = s /\ r[2] = 1 BY <1>1
<1>3. session[s].status = "absent" /\ session[s].active = 0
  BY DEF StartAccepted, StartRefused, TableInv, StoryInv, Story
<1>4. /\ run[r] = "absent" /\ job[r].status = "absent" /\ slot[r].state = "none"
      /\ call[r].status = "none"
  BY <1>2, <1>3 DEF TableInv, StoryInv, Story
<1>5. UNCHANGED <<call, lease, artifacts>> BY DEF StartAccepted, StartRefused
<1>6. FencesRise /\ \A t \in Sessions : lease'[t].fence = lease[t].fence BY <1>5, LeasesKept
<1>7. CASE StartAccepted(s)
  <2>1. Save(s, "queued", 2, 1, "none") /\ Enqueue(r) BY <1>1, <1>7 DEF StartAccepted
  <2>2. /\ OnlyRun(r) /\ run'[r] = "queued" /\ job'[r].status = "queued"
        /\ slot'[r].state = "reserved"
    BY <1>5, <2>1, Enqueued
  <2>3. session'[s].status = "queued" /\ session'[s].active = 1 /\ session'[s].failure = "none"
    BY <2>1 DEF Save, TypeInv, TypeOK, SessionTable
  <2>4. Current(s)' = r BY <1>1, <2>3 DEF Current
  <2>5. Now(s)' BY <1>4, <1>5, <2>2, <2>3, <2>4 DEF Now
  <2>6. /\ Save(r[1], "queued", 2, r[2], "none") /\ "queued" \in SessionStatus /\ 2 \in Nat \ {0}
        /\ session[r[1]].status = "absent" /\ r[2] = session[r[1]].active + 1
    BY <1>2, <1>3, <2>1 DEF SessionStatus
  <2> QED BY <1>2, <1>5, <1>6, <2>2, <2>5, <2>6, SavedMove
<1>8. CASE \E bound \in BOOLEAN : StartRefused(s, bound)
  <2>1. /\ Save(s, "blocked", 4, 1, "refused") /\ run' = [run EXCEPT ![r] = "blocked"]
        /\ UNCHANGED <<job, slot>>
    BY <1>1, <1>8 DEF StartRefused
  <2>2. OnlyRun(r) /\ run'[r] = "blocked"
    BY <1>5, <2>1 DEF OnlyRun, TypeInv, TypeOK, RunTable
  <2>3. session'[s].status = "blocked" /\ session'[s].active = 1 /\ session'[s].failure = "refused"
    BY <2>1 DEF Save, TypeInv, TypeOK, SessionTable
  <2>4. Current(s)' = r BY <1>1, <2>3 DEF Current
  <2>5. Now(s)' BY <1>4, <1>5, <2>1, <2>2, <2>3, <2>4 DEF Now, Ended
  <2>6. /\ Save(r[1], "blocked", 4, r[2], "refused") /\ "blocked" \in SessionStatus /\ 4 \in Nat \ {0}
        /\ session[r[1]].status = "absent" /\ r[2] = session[r[1]].active + 1
    BY <1>2, <1>3, <2>1 DEF SessionStatus
  <2> QED BY <1>2, <1>5, <1>6, <2>2, <2>5, <2>6, SavedMove
<1> QED BY <1>7, <1>8

LEMMA TableRetry ==
  ASSUME TypeInv, TypeInv', TableInv, NEW s \in Sessions, NEW risk \in BOOLEAN, Retry(s, risk)
  PROVE  TableInv'
<1> DEFINE n == session[s].active + 1
<1>1. session[s].active \in 1 .. MaxRuns /\ session[s].active < MaxRuns
  BY CurrentRun DEF Retry
<1>2. n \in 1 .. MaxRuns BY <1>1, ExecutionAssumption
<1>3. PICK r \in Runs : r = <<s, n>> BY <1>2 DEF Runs
<1>4. r[1] = s /\ r[2] = n BY <1>3
<1>5. call[r].status = "none" BY <1>1, <1>4 DEF TableInv, StoryInv, Story
<1>6. /\ session[s].status = "blocked" /\ Save(s, "queued", 1, n, "none") /\ Enqueue(r)
      /\ UNCHANGED <<call, lease, artifacts>>
  BY <1>3 DEF Retry
<1>7. FencesRise /\ \A t \in Sessions : lease'[t].fence = lease[t].fence BY <1>6, LeasesKept
<1>8. OnlyRun(r) /\ run'[r] = "queued" /\ job'[r].status = "queued" /\ slot'[r].state = "reserved"
  BY <1>6, Enqueued
<1>9. session'[s].status = "queued" /\ session'[s].active = n /\ session'[s].failure = "none"
  BY <1>6 DEF Save, TypeInv, TypeOK, SessionTable
<1>10. Current(s)' = r BY <1>3, <1>9 DEF Current
<1>11. Now(s)' BY <1>5, <1>6, <1>8, <1>9, <1>10 DEF Now
<1> QED BY <1>4, <1>6, <1>7, <1>8, <1>11, SavedMove DEF SessionStatus

LEMMA Released ==
  ASSUME TypeInv, NEW r \in Runs, Release(r)
  PROVE  slot'[r].state # "active" /\ \A q \in Runs : q # r => slot'[q] = slot[q]
  BY DEF Release, TypeInv, TypeOK, SlotTable

LEMMA TableCancel ==
  ASSUME TypeInv, TypeInv', TableInv, NEW s \in Sessions, Cancel(s)
  PROVE  TableInv'
<1>1. session[s].status \in {"queued", "running", "blocked"} /\ session[s].status # "absent"
  BY DEF Cancel, Final, TypeInv, TypeOK, SessionTable, SessionStatus
<1>2. PICK r \in Runs : r = Current(s) BY <1>1, CurrentRun
<1>3. r[1] = s /\ r[2] = session[s].active /\ session[s].active \in 1 .. MaxRuns
  BY <1>1, <1>2, CurrentRun
<1>4. Story(s) /\ Now(s) BY <1>1 DEF TableInv, StoryInv, Story
<1>5. UNCHANGED <<call, artifacts>> /\ Save(s, "cancelled", 1, r[2], session[s].failure) /\ Release(r)
  BY <1>2, <1>3 DEF Cancel
<1>6. ASSUME NEW q \in Runs, q # r PROVE run'[q] = run[q] /\ job'[q] = job[q]
  <2>1. CASE q[1] # s BY <2>1 DEF Cancel
  <2>2. CASE q[1] = s
    <3>1. q[2] < session[s].active \/ q[2] > session[s].active BY <1>3, <1>6, <2>2, RunParts
    <3>2. run[q] \in {"blocked", "absent"} /\ job[q].status \in Ended BY <1>4, <2>2, <3>1 DEF Story, Ended
    <3> QED BY <3>2 DEF Cancel, Queued, Ended
  <2> QED BY <2>1, <2>2
<1>7. slot'[r].state # "active" /\ \A q \in Runs : q # r => slot'[q] = slot[q]
  BY <1>5, Released
<1>8. OnlyRun(r) BY <1>5, <1>6, <1>7 DEF OnlyRun
<1>9. /\ run'[r] \in {"blocked", "cancelled"} /\ job'[r].status \in Ended \cup {"cancelled"}
  <2>1. /\ run[r] \in {"queued", "running", "blocked"}
        /\ job[r].status \in {"queued", "leased"} \cup Ended
    BY <1>1, <1>2, <1>4 DEF Now
  <2>2. run'[r] = IF run[r] \in {"queued", "running"} THEN "cancelled" ELSE run[r]
    BY <1>3 DEF Cancel
  <2>3. job'[r] = IF Queued(r) THEN [job[r] EXCEPT !.status = "cancelled"] ELSE job[r]
    BY <1>3 DEF Cancel
  <2>4. job'[r].status \in Ended \cup {"cancelled"}
    BY <2>1, <2>3 DEF Queued, Ended, TypeInv, TypeOK, JobTable
  <2> QED BY <2>1, <2>2, <2>4
<1>10. FencesRise /\ \A t \in Sessions : t # s => lease'[t].fence = lease[t].fence
  BY DEF Cancel, FencesRise, TypeInv, TypeOK, LeaseTable
<1>11. /\ session'[s].status = "cancelled" /\ session'[s].active = r[2]
       /\ session'[s].failure = session[s].failure
  BY <1>5 DEF Save, TypeInv, TypeOK, SessionTable
<1>12. Current(s)' = r BY <1>2, <1>3, <1>11 DEF Current
<1>13. Now(s)' BY <1>2, <1>4, <1>5, <1>7, <1>9, <1>11, <1>12 DEF Now
<1>14. /\ Save(r[1], "cancelled", 1, r[2], session[s].failure) /\ "cancelled" \in SessionStatus
       /\ 1 \in Nat \ {0} /\ session[r[1]].status # "completed" /\ session[r[1]].active = r[2]
  BY <1>1, <1>3, <1>5 DEF SessionStatus
<1> QED BY <1>3, <1>5, <1>8, <1>10, <1>13, <1>14, SavedMove

-----------------------------------------------------------------------------
(* The workers.                                                             *)

\* A worker's claim source that still holds.
LEMMA SourceRun ==
  ASSUME TypeInv, TableInv, NEW w \in Workers, pc[w] = "source", SourceHolds(w)
  PROVE  LET r == claim[w].run
             s == r[1]
         IN  /\ r \in Runs /\ s \in Sessions /\ Current(s) = r /\ session[s].active = r[2]
             /\ session[s].status \in {"queued", "running"} /\ ~HasResponse(r)
             /\ Story(s) /\ Now(s) /\ session[s].failure = "none"
<1> DEFINE r == claim[w].run
           s == r[1]
<1>1. r \in Runs BY DEF TypeInv, WorkerShape
<1>2. s \in Sessions BY <1>1, RunParts
<1>3. session[s].active = r[2] /\ session[s].status \in {"queued", "running"} /\ ~HasResponse(r)
  BY DEF SourceHolds, Claimable
<1>4. Current(s) = r BY <1>1, <1>2, <1>3, RunOfSession
<1>5. Story(s) /\ Now(s) BY <1>2, <1>3 DEF TableInv, StoryInv, Story
<1>6. session[s].failure = "none" BY <1>3, <1>5 DEF Now
<1> QED BY <1>1, <1>2, <1>3, <1>4, <1>5, <1>6

\* A new lease: the Run's job and its Session's fence go together.
LEMMA LeaseTaken ==
  ASSUME TypeInv, NEW r \in Runs, NEW k \in 0 .. 1, TakeLease(r, k)
  PROVE  /\ job'[r].status = "leased" /\ job'[r].fence = lease'[r[1]].fence
         /\ \A q \in Runs : q # r => job'[q] = job[q]
         /\ \A t \in Sessions : t # r[1] => lease'[t] = lease[t]
         /\ FencesRise
<1>1. r[1] \in Sessions BY RunParts
<1>2. lease'[r[1]].fence = NextFence(r) /\ NextFence(r) = lease[r[1]].fence + 1
      /\ \A t \in Sessions : t # r[1] => lease'[t] = lease[t]
  BY <1>1 DEF TakeLease, NextFence, TypeInv, TypeOK, LeaseTable
<1>3. job'[r].status = "leased" /\ job'[r].fence = NextFence(r)
      /\ \A q \in Runs : q # r => job'[q] = job[q]
  BY DEF TakeLease, TypeInv, TypeOK, JobTable
<1>4. FencesRise BY <1>2 DEF FencesRise, TypeInv, TypeOK, LeaseTable
<1> QED BY <1>2, <1>3, <1>4

LEMMA TableClaim ==
  ASSUME TypeInv, TypeInv', TableInv, NEW w \in Workers, Claim(w)
  PROVE  TableInv'
<1>1. PICK r \in Runs : r = claim[w].run BY DEF Claim, TypeInv, WorkerShape
<1> DEFINE s == r[1]
<1>2. /\ s \in Sessions /\ Current(s) = r /\ session[s].active = r[2]
      /\ session[s].status \in {"queued", "running"} /\ session[s].failure = "none"
  BY <1>1, SourceRun DEF Claim
<1>3. /\ Save(s, "running", 1, r[2], session[s].failure) /\ TakeLease(r, 1)
      /\ slot' = [slot EXCEPT ![r].state = "active"] /\ run' = [run EXCEPT ![r] = "running"]
      /\ UNCHANGED <<call, artifacts>>
  BY <1>1 DEF Claim
<1>4. /\ job'[r].status = "leased" /\ job'[r].fence = lease'[s].fence /\ FencesRise
      /\ \A q \in Runs : q # r => job'[q] = job[q]
      /\ \A t \in Sessions : t # s => lease'[t] = lease[t]
  BY <1>3, LeaseTaken
<1>5. /\ slot'[r].state = "active" /\ run'[r] = "running"
      /\ \A q \in Runs : q # r => slot'[q] = slot[q] /\ run'[q] = run[q]
  BY <1>3 DEF TypeInv, TypeOK, SlotTable, RunTable
<1>6. OnlyRun(r) BY <1>3, <1>4, <1>5 DEF OnlyRun
<1>7. session'[s].status = "running" /\ session'[s].active = r[2] /\ session'[s].failure = "none"
  BY <1>2, <1>3 DEF Save, TypeInv, TypeOK, SessionTable
<1>8. Current(s)' = r BY <1>2, <1>7 DEF Current
<1>9. Now(s)' BY <1>4, <1>5, <1>7, <1>8 DEF Now
<1>10. "running" \in SessionStatus /\ 1 \in Nat \ {0} BY DEF SessionStatus
<1> QED BY <1>2, <1>3, <1>4, <1>6, <1>9, <1>10, SavedMove

LEMMA TableExhaust ==
  ASSUME TypeInv, TypeInv', TableInv, NEW w \in Workers, Exhaust(w)
  PROVE  TableInv'
<1>1. PICK r \in Runs : r = claim[w].run BY DEF Exhaust, TypeInv, WorkerShape
<1> DEFINE s == r[1]
<1>2. /\ s \in Sessions /\ Current(s) = r /\ session[s].active = r[2]
      /\ session[s].status \in {"queued", "running"} /\ ~HasResponse(r)
  BY <1>1, SourceRun DEF Exhaust
<1>3. /\ Save(s, "blocked", 2, r[2], "attempts_exhausted") /\ Release(r)
      /\ job' = [job EXCEPT ![r].status = "dead"] /\ run' = [run EXCEPT ![r] = "blocked"]
      /\ lease' = [lease EXCEPT ![s] = [fence |-> @.fence + 1, live |-> FALSE]]
      /\ UNCHANGED <<call, artifacts>>
  BY <1>1 DEF Exhaust
<1>4. FencesRise /\ \A t \in Sessions : t # s => lease'[t].fence = lease[t].fence
  BY <1>2, <1>3 DEF FencesRise, TypeInv, TypeOK, LeaseTable
<1>5. /\ run'[r] = "blocked" /\ job'[r].status = "dead"
      /\ \A q \in Runs : q # r => job'[q] = job[q] /\ run'[q] = run[q]
  BY <1>3 DEF TypeInv, TypeOK, JobTable, RunTable
<1>6. slot'[r].state # "active" /\ \A q \in Runs : q # r => slot'[q] = slot[q]
  BY <1>3, Released
<1>7. OnlyRun(r) BY <1>3, <1>5, <1>6 DEF OnlyRun
<1>8. /\ session'[s].status = "blocked" /\ session'[s].active = r[2]
      /\ session'[s].failure = "attempts_exhausted"
  BY <1>2, <1>3 DEF Save, TypeInv, TypeOK, SessionTable
<1>9. Current(s)' = r BY <1>2, <1>8 DEF Current
<1>10. Now(s)' BY <1>2, <1>3, <1>5, <1>6, <1>8, <1>9 DEF Now, Ended, HasResponse
<1>11. "blocked" \in SessionStatus /\ 2 \in Nat \ {0} BY DEF SessionStatus
<1> QED BY <1>2, <1>3, <1>4, <1>7, <1>10, <1>11, SavedMove

LEMMA TableFinish ==
  ASSUME TypeInv, TypeInv', TableInv, NEW w \in Workers, Finish(w)
  PROVE  TableInv'
<1>1. PICK r \in Runs : r = claim[w].run BY DEF Finish, TypeInv, WorkerShape
<1> DEFINE s == r[1]
           done == result[w] = "artifact"
           ended == IF done THEN "completed" ELSE "blocked"
           code == IF done THEN "none" ELSE result[w]
<1>2. s \in Sessions /\ session[s].status = "running" /\ session[s].active = r[2]
  BY <1>1, RunParts DEF Finish, Owns
<1>3. Current(s) = r BY <1>2, RunOfSession
<1>4. /\ Save(s, ended, 1, r[2], code) /\ Release(r) /\ (done => HasResponse(r))
      /\ job' = [job EXCEPT ![r].status = "done"] /\ run' = [run EXCEPT ![r] = ended]
      /\ lease' = [lease EXCEPT ![s].live = FALSE]
      /\ artifacts' = IF done THEN artifacts \cup {r} ELSE artifacts
      /\ UNCHANGED call
  BY <1>1 DEF Finish
<1>5. ended \in {"completed", "blocked"} /\ (ended = "completed" <=> done)
      /\ code # "attempts_exhausted"
  BY DEF Finish, TypeInv, WorkerShape
<1> HIDE DEF ended, code
<1>6. FencesRise /\ \A t \in Sessions : t # s => lease'[t].fence = lease[t].fence
  BY <1>2, <1>4 DEF FencesRise, TypeInv, TypeOK, LeaseTable
<1>7. /\ run'[r] = ended /\ job'[r].status = "done"
      /\ \A q \in Runs : q # r => job'[q] = job[q] /\ run'[q] = run[q]
  BY <1>4 DEF TypeInv, TypeOK, JobTable, RunTable
<1>8. slot'[r].state # "active" /\ \A q \in Runs : q # r => slot'[q] = slot[q]
  BY <1>4, Released
<1>9. OnlyRun(r) BY <1>4, <1>7, <1>8 DEF OnlyRun
<1>10. session'[s].status = ended /\ session'[s].active = r[2] /\ session'[s].failure = code
  BY <1>2, <1>4 DEF Save, TypeInv, TypeOK, SessionTable
<1>11. Current(s)' = r BY <1>3, <1>2, <1>10 DEF Current
<1>12. done => r \in artifacts' /\ call'[r].status = "response_received"
  BY <1>4 DEF HasResponse
<1>13. Now(s)' BY <1>5, <1>7, <1>8, <1>10, <1>11, <1>12 DEF Now, Ended
<1>14. ended \in SessionStatus /\ ended # "absent" /\ 1 \in Nat \ {0} BY <1>5 DEF SessionStatus
<1>15. UNCHANGED artifacts \/ (ended = "completed" /\ artifacts' = artifacts \cup {r})
  BY <1>4, <1>5
<1> QED BY <1>2, <1>4, <1>6, <1>9, <1>13, <1>14, <1>15, SavedMove

LEMMA TableFinalization ==
  ASSUME TypeInv, TypeInv', TableInv, NEW w \in Workers, NEW r \in Runs, ClaimFinalization(w, r)
  PROVE  TableInv'
<1> DEFINE s == r[1]
<1>1. /\ s \in Sessions /\ session[s].status = "running" /\ session[s].active = r[2]
      /\ TakeLease(r, 0) /\ UNCHANGED <<session, run, call, slot, artifacts, outbox>>
  BY RunParts DEF ClaimFinalization
<1>2. Current(s) = r /\ Current(s)' = r BY <1>1, RunOfSession DEF Current
<1>3. Now(s) BY <1>1 DEF TableInv, StoryInv, Story
<1>4. /\ job'[r].status = "leased" /\ job'[r].fence = lease'[s].fence /\ FencesRise
      /\ \A q \in Runs : q # r => job'[q] = job[q]
      /\ \A t \in Sessions : t # s => lease'[t] = lease[t]
  BY <1>1, LeaseTaken
<1>5. Now(s)' BY <1>1, <1>2, <1>3, <1>4 DEF Now
<1>6. OnlyRun(r) /\ OnlySession(s) BY <1>1, <1>4 DEF OnlyRun, OnlySession
<1>7. StoryInv' BY <1>1, <1>5, <1>6, StoryMoves DEF TableInv
<1>8. EventsInv' BY <1>1 DEF TableInv, EventsInv, Events
<1>9. CallInv' BY <1>1, <1>4, CallKept DEF TableInv
<1>10. ArtifactInv' BY <1>1 DEF TableInv, ArtifactInv, ArtifactPlaced
<1> QED BY <1>7, <1>8, <1>9, <1>10 DEF TableInv

\* The owner of a running Session writes its model call.
LEMMA CallWritten ==
  ASSUME TypeInv, TableInv, NEW w \in Workers, NEW r \in Runs, r = claim[w].run, Owns(w),
         UNCHANGED <<session, run, job, lease, slot, artifacts, outbox>>,
         \A q \in Runs : q # r => call'[q] = call[q],
         0 < call'[r].fence, call'[r].fence <= lease[r[1]].fence
  PROVE  TableInv'
<1> DEFINE s == r[1]
<1>1. s \in Sessions /\ session[s].status = "running" /\ session[s].active = r[2]
  BY RunParts DEF Owns
<1>2. Current(s) = r /\ Current(s)' = r BY <1>1, RunOfSession DEF Current
<1>3. Now(s) BY <1>1 DEF TableInv, StoryInv, Story
<1>4. Now(s)' BY <1>1, <1>2, <1>3 DEF Now
<1>5. OnlyRun(r) /\ OnlySession(s) BY DEF OnlyRun, OnlySession
<1>6. StoryInv' BY <1>1, <1>4, <1>5, StoryMoves DEF TableInv
<1>7. EventsInv' BY DEF TableInv, EventsInv, Events
<1>8. CallInv' BY DEF TableInv, CallInv, CallFenced
<1>9. ArtifactInv' BY DEF TableInv, ArtifactInv, ArtifactPlaced
<1> QED BY <1>6, <1>7, <1>8, <1>9 DEF TableInv

LEMMA TableBegin ==
  ASSUME TypeInv, FenceInv, TableInv, NEW w \in Workers, NEW q \in Requests, BeginNew(w, q)
  PROVE  TableInv'
<1>1. PICK r \in Runs : r = claim[w].run BY DEF BeginNew, TypeInv, WorkerShape
<1>2. Owns(w) /\ r[1] \in Sessions BY RunParts DEF BeginNew
<1>3. claim[w].fence = lease[r[1]].fence /\ lease[r[1]].fence > 0 /\ lease[r[1]].fence \in Nat
  BY <1>1, <1>2 DEF Owns, FenceInv, TypeInv, TypeOK, LeaseTable
<1>4. call'[r].fence = claim[w].fence /\ \A x \in Runs : x # r => call'[x] = call[x]
  BY <1>1 DEF BeginNew, TypeInv, TypeOK, CallTable
<1>5. UNCHANGED <<session, run, job, lease, slot, artifacts, outbox>> BY DEF BeginNew
<1> QED BY <1>1, <1>2, <1>3, <1>4, <1>5, CallWritten

LEMMA TableRecord ==
  ASSUME TypeInv, TableInv, NEW w \in Workers, Record(w)
  PROVE  TableInv'
<1>1. PICK r \in Runs : r = claim[w].run BY DEF Record, TypeInv, WorkerShape
<1>2. Owns(w) /\ call[r].status = "dispatched" BY <1>1 DEF Record, Records
<1>3. 0 < call[r].fence /\ call[r].fence <= lease[r[1]].fence
  BY <1>2 DEF TableInv, CallInv, CallFenced
<1>4. call'[r].fence = call[r].fence /\ \A x \in Runs : x # r => call'[x] = call[x]
  BY <1>1 DEF Record, TypeInv, TypeOK, CallTable
<1>5. UNCHANGED <<session, run, job, lease, slot, artifacts, outbox>> BY DEF Record
<1> QED BY <1>1, <1>2, <1>3, <1>4, <1>5, CallWritten

\* Time, and the steps that write no row a story tells of.
LEMMA TableQuiet ==
  ASSUME TypeInv, TypeInv', TableInv,
         \/ \E s \in Sessions : LeaseRunsOut(s) \/ LeaseLapses(s)
         \/ \E r \in Runs : BecomeDue(r)
         \/ \E w \in Workers : Defer(w)
         \/ UNCHANGED tables
  PROVE  TableInv'
<1>1. UNCHANGED <<session, run, call, slot, artifacts, outbox>>
  BY DEF LeaseRunsOut, LeaseLapses, SetLive, BecomeDue, Defer, tables
<1>2. \A q \in Runs : job'[q].status = job[q].status /\ job'[q].fence = job[q].fence
  <2>1. CASE UNCHANGED job BY <2>1
  <2>2. ASSUME NEW r \in Runs, BecomeDue(r)
        PROVE  \A q \in Runs : job'[q].status = job[q].status /\ job'[q].fence = job[q].fence
    BY <2>2 DEF BecomeDue, TypeInv, TypeOK, JobTable
  <2>3. ASSUME NEW w \in Workers, Defer(w)
        PROVE  \A q \in Runs : job'[q].status = job[q].status /\ job'[q].fence = job[q].fence
    <3>1. claim[w].run \in Runs BY <2>3 DEF Defer, TypeInv, WorkerShape
    <3> QED BY <2>3, <3>1 DEF Defer, TypeInv, TypeOK, JobTable
  <2> QED BY <2>1, <2>2, <2>3 DEF LeaseRunsOut, LeaseLapses, SetLive, tables
<1>3. \A t \in Sessions : lease'[t].fence = lease[t].fence
  <2>1. CASE UNCHANGED lease BY <2>1
  <2>2. ASSUME NEW s \in Sessions, SetLive(s, FALSE)
        PROVE  \A t \in Sessions : lease'[t].fence = lease[t].fence
    BY <2>2 DEF SetLive, TypeInv, TypeOK, LeaseTable
  <2> QED BY <2>1, <2>2 DEF LeaseRunsOut, LeaseLapses, BecomeDue, Defer, tables
<1> QED BY <1>1, <1>2, <1>3, NothingMoves

LEMMA TableInit == Init => TableInv
<1> SUFFICES ASSUME Init PROVE TableInv OBVIOUS
<1>1. StoryInv BY RunParts DEF Init, StoryInv, Story
<1>2. EventsInv BY DEF Init, EventsInv, Events
<1>3. CallInv /\ ArtifactInv BY DEF Init, CallInv, CallFenced, ArtifactInv, ArtifactPlaced
<1> QED BY <1>1, <1>2, <1>3 DEF TableInv

LEMMA TableStep == TypeInv /\ TypeInv' /\ FenceInv /\ TableInv /\ [Next]_vars => TableInv'
<1> SUFFICES ASSUME TypeInv, TypeInv', FenceInv, TableInv, [Next]_vars PROVE TableInv' OBVIOUS
<1>1. ASSUME NEW s \in Sessions, Command(s) PROVE TableInv'
  BY <1>1, TableStart, TableCancel, TableRetry DEF Command
<1>2. ASSUME NEW w \in Workers, NEW r \in Runs, ClaimFinalization(w, r) PROVE TableInv'
  BY <1>2, TableFinalization
<1>3. ASSUME NEW w \in Workers, Claim(w) \/ Exhaust(w) \/ Finish(w) \/ Record(w) PROVE TableInv'
  BY <1>3, TableClaim, TableExhaust, TableFinish, TableRecord
<1>4. ASSUME NEW w \in Workers, NEW q \in Requests, BeginNew(w, q) PROVE TableInv'
  BY <1>4, TableBegin
<1>5. ASSUME NEW w \in Workers,
             \/ SlotRefused(w) \/ ClaimMissed(w) \/ Handoff(w) \/ Prepare(w)
             \/ (\E q \in Requests : BeginExisting(w, q)) \/ BeginRefused(w) \/ Send(w)
             \/ Validate(w) \/ LoseClaim(w) \/ Stop(w) \/ \E r \in Runs : ReadSource(w, r)
      PROVE  UNCHANGED tables
  BY <1>5 DEF SlotRefused, ClaimMissed, Handoff, Prepare, BeginExisting, BeginRefused, Send,
              Validate, LoseClaim, Stop, ReadSource, NoTableStep
<1>6. CASE NextDay \/ UNCHANGED vars BY <1>6, TableQuiet DEF NextDay, vars
<1> QED BY <1>1, <1>2, <1>3, <1>4, <1>5, <1>6, TableQuiet DEF Next, Work, Scan

-----------------------------------------------------------------------------

LEMMA RowsTell ==
  ASSUME TypeInv, TableInv
  PROVE  RowsAgree
<1> SUFFICES ASSUME NEW s \in Sessions
             PROVE
    /\ session[s].status # "absent" =>
         /\ run[Current(s)] = session[s].status \/ session[s].status = "cancelled"
         /\ <<s, session[s].version, session[s].status>> \in outbox
    /\ session[s].status = "queued" => job[Current(s)].status = "queued"
    /\ session[s].status = "running" => job[Current(s)].status = "leased"
    /\ \A r \in Runs :
         r[1] = s /\ {job[r].status, run[r]} \cap {"queued", "leased", "running"} # {}
           => session[s].status \in {"queued", "running"} /\ r = Current(s)
    /\ \A e \in outbox : e[1] = s =>
         /\ e[2] <= session[s].version
         /\ \A other \in SessionStatus \ {e[3]} : <<s, e[2], other>> \notin outbox
  BY DEF RowsAgree
<1>1. Story(s) /\ Events(s) BY DEF TableInv, StoryInv, EventsInv
<1>2. session[s].status \in SessionStatus /\ session[s].active \in 0 .. MaxRuns
  BY DEF TypeInv, TypeOK, SessionTable
<1>3. session[s].status # "absent" => Now(s) BY <1>1 DEF Story
<1>4. session[s].status # "absent" =>
        run[Current(s)] = session[s].status \/ session[s].status = "cancelled"
  BY <1>2, <1>3 DEF Now, SessionStatus
<1>5. ASSUME NEW r \in Runs, r[1] = s,
             {job[r].status, run[r]} \cap {"queued", "leased", "running"} # {}
      PROVE  session[s].status \in {"queued", "running"} /\ r = Current(s)
  <2>1. r[2] \in 1 .. MaxRuns BY RunParts
  <2>2. r[2] = session[s].active
    <3>1. r[2] < session[s].active => FALSE BY <1>1, <1>5 DEF Story, Ended
    <3>2. r[2] > session[s].active => FALSE BY <1>1, <1>5 DEF Story
    <3> QED BY <1>2, <2>1, <3>1, <3>2
  <2>3. r = Current(s) BY <1>5, <2>2, RunOfSession
  <2>4. session[s].status # "absent" BY <1>1, <2>1, <2>2 DEF Story
  <2>5. session[s].status \in {"queued", "running"}
    BY <1>2, <1>3, <1>5, <2>3, <2>4 DEF Now, Ended, SessionStatus
  <2> QED BY <2>3, <2>5
<1> QED BY <1>1, <1>3, <1>4, <1>5 DEF Events, Now

\* For every instance: no job is executed more often than AttemptLimit allows,
\* the Session, Run, job and event rows of a Session tell one story, an Artifact stands for a recorded response of a completed
\* Session, and a recorded response can always be finalised.
THEOREM TablesTellOneStory == Spec => []TablesAgree
<1>1. TypeInv /\ TableInv => TablesAgree
  <2> SUFFICES ASSUME TypeInv, TableInv PROVE TablesAgree OBVIOUS
  <2>1. RowsAgree BY RowsTell
  <2>2. ArtifactFromResponse
    <3>1. ASSUME NEW r \in artifacts
          PROVE  /\ call[r].status = "response_received"
                 /\ session[r[1]].status = "completed" /\ session[r[1]].active = r[2]
      <4>1. r \in Runs /\ r[1] \in Sessions BY RunParts DEF TypeInv, TypeOK
      <4>2. session[r[1]].status = "completed" /\ session[r[1]].active = r[2]
        BY <4>1 DEF TableInv, ArtifactInv, ArtifactPlaced
      <4>3. Current(r[1]) = r BY <4>1, <4>2, RunOfSession
      <4>4. Now(r[1]) BY <4>1, <4>2 DEF TableInv, StoryInv, Story
      <4> QED BY <4>2, <4>3, <4>4 DEF Now
    <3>2. ASSUME NEW s \in Sessions, session[s].status = "completed"
          PROVE  Current(s) \in artifacts
      BY <3>2 DEF TableInv, StoryInv, Story, Now
    <3> QED BY <3>1, <3>2 DEF ArtifactFromResponse
  <2>3. ResponseRecoverable
    <3> SUFFICES ASSUME NEW r \in Runs, call[r].status = "response_received",
                        session[r[1]].active = r[2]
                 PROVE  /\ session[r[1]].failure # "attempts_exhausted"
                        /\ session[r[1]].status = "running" =>
                             /\ job[r].status = "leased"
                             /\ lease[r[1]].fence = job[r].fence
                             /\ 0 < call[r].fence /\ call[r].fence <= lease[r[1]].fence
                             /\ slot[r].state = "active"
      BY DEF ResponseRecoverable
    <3>1. r[1] \in Sessions /\ r[2] \in 1 .. MaxRuns BY RunParts
    <3>2. session[r[1]].status # "absent" BY <3>1 DEF TableInv, StoryInv, Story
    <3>3. Now(r[1]) BY <3>1, <3>2 DEF TableInv, StoryInv, Story
    <3>4. Current(r[1]) = r BY <3>1, RunOfSession
    <3> QED BY <3>3, <3>4 DEF Now, TableInv, CallInv, CallFenced
  <2>4. TypeOK BY DEF TypeInv
  <2> QED BY <2>1, <2>2, <2>3, <2>4 DEF TablesAgree
<1> QED BY <1>1, TypeInvInit, TypeInvStep, FenceInvInit, FenceInvStep, TableInit, TableStep, PTL
    DEF Spec

-----------------------------------------------------------------------------
(* Which steps write a call marker, a retry row or a Session's active Run.  *)

\* The markers, the retry rows and the active Runs stay as they are.
CallsKept ==
  UNCHANGED <<call, retried>> /\ \A t \in Sessions : session'[t].active = session[t].active

LEMMA SaveKeepsActive ==
  ASSUME TypeInv, NEW s \in Sessions, NEW status, NEW steps, NEW failure,
         Save(s, status, steps, session[s].active, failure)
  PROVE  \A t \in Sessions : session'[t].active = session[t].active
  BY DEF Save, TypeInv, TypeOK, SessionTable

LEMMA OwnRun ==
  ASSUME TypeInv, NEW w \in Workers, Owns(w)
  PROVE  /\ claim[w].run \in Runs /\ claim[w].run[1] \in Sessions
         /\ session[claim[w].run[1]].active = claim[w].run[2]
<1>1. claim[w].run \in Runs BY DEF Owns, TypeInv, TypeOK, ClaimRow
<1> QED BY <1>1, RunParts DEF Owns

LEMMA StepKinds ==
  ASSUME TypeInv, [Next]_vars
  PROVE  \/ \E s \in Sessions : StartAccepted(s) \/ \E bound \in BOOLEAN : StartRefused(s, bound)
         \/ \E s \in Sessions, risk \in BOOLEAN : Retry(s, risk)
         \/ \E w \in Workers, q \in Requests : BeginNew(w, q)
         \/ \E w \in Workers : Record(w)
         \/ CallsKept
<1>1. ASSUME NEW s \in Sessions, Cancel(s) PROVE CallsKept
  BY <1>1, SaveKeepsActive DEF Cancel, CallsKept
<1>2. ASSUME NEW w \in Workers, Claim(w) \/ Exhaust(w) PROVE CallsKept
  <2>1. PICK r \in Runs : r = claim[w].run BY <1>2 DEF Claim, Exhaust, TypeInv, WorkerShape
  <2>2. r[1] \in Sessions /\ session[r[1]].active = r[2]
    BY <1>2, <2>1, RunParts DEF Claim, Exhaust, SourceHolds, Claimable
  <2>3. CASE Claim(w)
    <3>1. Save(r[1], "running", 1, session[r[1]].active, session[r[1]].failure)
      BY <2>1, <2>2, <2>3 DEF Claim
    <3> QED BY <2>2, <2>3, <3>1, SaveKeepsActive DEF Claim, CallsKept
  <2>4. CASE Exhaust(w)
    <3>1. Save(r[1], "blocked", 2, session[r[1]].active, "attempts_exhausted")
      BY <2>1, <2>2, <2>4 DEF Exhaust
    <3> QED BY <2>2, <2>4, <3>1, SaveKeepsActive DEF Exhaust, CallsKept
  <2> QED BY <1>2, <2>3, <2>4
<1>3. ASSUME NEW w \in Workers, Finish(w) PROVE CallsKept
  <2>1. PICK r \in Runs : r = claim[w].run BY <1>3, OwnRun DEF Finish
  <2>2. r[1] \in Sessions /\ session[r[1]].active = r[2] BY <1>3, <2>1, OwnRun DEF Finish
  <2>3. \E status, failure : Save(r[1], status, 1, session[r[1]].active, failure)
    BY <1>3, <2>1, <2>2 DEF Finish
  <2> QED BY <1>3, <2>2, <2>3, SaveKeepsActive DEF Finish, CallsKept
<1>4. ASSUME UNCHANGED <<session, call, retried>> PROVE CallsKept BY <1>4 DEF CallsKept
<1>5. ASSUME NEW s \in Sessions, LeaseRunsOut(s) \/ LeaseLapses(s) PROVE CallsKept
  BY <1>4, <1>5 DEF LeaseRunsOut, LeaseLapses, SetLive
<1>6. ASSUME NEW w \in Workers, NEW r \in Runs, Scan(w, r) PROVE CallsKept
  BY <1>4, <1>6 DEF Scan, ReadSource, ClaimFinalization, tables
<1>7. ASSUME NEW w \in Workers,
             \/ SlotRefused(w) \/ ClaimMissed(w) \/ Handoff(w) \/ Prepare(w)
             \/ (\E q \in Requests : BeginExisting(w, q)) \/ BeginRefused(w) \/ Send(w)
             \/ Validate(w) \/ LoseClaim(w) \/ Stop(w) \/ Defer(w)
      PROVE  CallsKept
  BY <1>4, <1>7 DEF SlotRefused, ClaimMissed, Handoff, Prepare, BeginExisting, BeginRefused,
                    Send, Validate, LoseClaim, Stop, Defer, NoTableStep, tables
<1>8. ASSUME (\E r \in Runs : BecomeDue(r)) \/ NextDay \/ UNCHANGED vars PROVE CallsKept
  BY <1>4, <1>8 DEF BecomeDue, NextDay, vars, tables
<1> QED BY <1>1, <1>2, <1>3, <1>5, <1>6, <1>7, <1>8 DEF Next, Command, Work

-----------------------------------------------------------------------------
(* What retries carry from Run to Run.                                      *)

\* The Run after one whose result is unknown was ordered with the risk
\* accepted.
RiskTaken(r) ==
  r[2] < session[r[1]].active /\ ResultUnknown(r) => retried[<<r[1], r[2] + 1>>].risk

\* A Run that was ordered after a dispatched one carries its request, and
\* dispatches what it carries.
Carries(r, q) ==
  r[1] = q[1] /\ r[2] < q[2] /\ q[2] <= session[q[1]].active /\ call[r].status # "none"
    => retried[q].req = call[r].req

AsksCarried(r) ==
  call[r].status # "none" =>
    /\ call[r].req \in Requests
    /\ retried[r].req # NoRequest => call[r].req = retried[r].req

RetryInv ==
  /\ \A r \in Runs : RiskTaken(r) /\ AsksCarried(r)
  /\ \A r, q \in Runs : Carries(r, q)

LEMMA RetryInvInit == Init => RetryInv
<1> SUFFICES ASSUME Init PROVE RetryInv OBVIOUS
<1>1. \A r \in Runs : call[r].status = "none" BY DEF Init
<1> QED BY <1>1 DEF RetryInv, RiskTaken, AsksCarried, Carries, ResultUnknown

LEMMA RetryKept ==
  ASSUME TypeInv, RetryInv, CallsKept
  PROVE  RetryInv'
<1>1. ASSUME NEW r \in Runs PROVE RiskTaken(r)' /\ AsksCarried(r)'
  BY RunParts DEF RetryInv, CallsKept, RiskTaken, AsksCarried, ResultUnknown
<1>2. ASSUME NEW r \in Runs, NEW q \in Runs PROVE Carries(r, q)'
  BY RunParts DEF RetryInv, CallsKept, Carries
<1> QED BY <1>1, <1>2 DEF RetryInv

\* The first Run follows none.
LEMMA RetryAfterStart ==
  ASSUME TypeInv, TableInv, RetryInv, NEW s \in Sessions,
         StartAccepted(s) \/ \E bound \in BOOLEAN : StartRefused(s, bound)
  PROVE  RetryInv'
<1>1. UNCHANGED <<call, retried>> BY DEF StartAccepted, StartRefused
<1>2. session'[s].active = 1 /\ \A t \in Sessions : t # s => session'[t] = session[t]
  BY DEF StartAccepted, StartRefused, Save, TypeInv, TypeOK, SessionTable
<1>3. ASSUME NEW r \in Runs PROVE r[1] \in Sessions /\ r[2] \in Nat /\ r[2] >= 1
  BY RunParts, ExecutionAssumption
<1>4. ASSUME NEW r \in Runs PROVE RiskTaken(r)' /\ AsksCarried(r)'
  <2>1. RiskTaken(r) /\ AsksCarried(r) BY DEF RetryInv
  <2>2. r[1] = s => ~(r[2] < session'[r[1]].active) BY <1>2, <1>3
  <2> QED BY <1>1, <1>2, <1>3, <2>1, <2>2 DEF RiskTaken, AsksCarried, ResultUnknown
<1>5. ASSUME NEW r \in Runs, NEW q \in Runs PROVE Carries(r, q)'
  <2>1. Carries(r, q) BY DEF RetryInv
  <2>2. q[1] = s => ~(r[2] < q[2] /\ q[2] <= session'[q[1]].active)
    <3>1. r[2] \in Nat /\ r[2] >= 1 /\ q[2] \in Nat BY <1>3
    <3> QED BY <1>2, <3>1
  <2> QED BY <1>1, <1>2, <1>3, <2>1, <2>2 DEF Carries
<1> QED BY <1>4, <1>5 DEF RetryInv

\* A retry carries what its source Run asked, or had been carried itself.
LEMMA RetryAfterRetry ==
  ASSUME TypeInv, TableInv, RetryInv, NEW s \in Sessions, NEW risk \in BOOLEAN, Retry(s, risk)
  PROVE  RetryInv'
<1>1. session[s].status = "blocked" /\ session[s].active < MaxRuns BY DEF Retry
<1>2. /\ Current(s) \in Runs /\ Current(s)[1] = s /\ Current(s)[2] = session[s].active
      /\ session[s].active \in 1 .. MaxRuns
  BY <1>1, CurrentRun
<1>3. PICK from \in Runs : from = Current(s) BY <1>2
<1>4. session[s].active + 1 \in 1 .. MaxRuns BY <1>1, <1>2, ExecutionAssumption
<1>5. PICK to \in Runs : to = <<s, session[s].active + 1>> BY <1>4 DEF Runs
<1>6. from[1] = s /\ to[1] = s /\ from[2] = session[s].active /\ to[2] = from[2] + 1
  BY <1>2, <1>3, <1>5
<1>7. /\ UNCHANGED call /\ retried'[to] = [req |-> Frozen(from), risk |-> risk]
      /\ \A x \in Runs : x # to => retried'[x] = retried[x]
      /\ ResultUnknown(from) => risk
  BY <1>3, <1>5 DEF Retry, TypeInv, TypeOK, RetryTable
<1>8. session'[s].active = to[2] /\ \A t \in Sessions : t # s => session'[t] = session[t]
  BY <1>5 DEF Retry, Save, TypeInv, TypeOK, SessionTable
<1>9. ASSUME NEW r \in Runs PROVE r[1] \in Sessions /\ r[2] \in Nat /\ r = <<r[1], r[2]>>
  BY RunParts, ExecutionAssumption
<1>10. call[to].status = "none"
  <2>1. Story(s) BY DEF TableInv, StoryInv
  <2>2. to[2] > session[s].active BY <1>6, <1>9
  <2> QED BY <1>6, <2>1, <2>2 DEF Story
<1>11. ASSUME NEW r \in Runs PROVE AsksCarried(r)'
  <2>1. AsksCarried(r) BY DEF RetryInv
  <2> QED BY <1>7, <1>10, <2>1 DEF AsksCarried
<1>12. ASSUME NEW r \in Runs PROVE RiskTaken(r)'
  <2> SUFFICES ASSUME r[2] < session'[r[1]].active, ResultUnknown(r)
               PROVE  retried'[<<r[1], r[2] + 1>>].risk
    BY <1>7 DEF RiskTaken, ResultUnknown
  <2>1. RiskTaken(r) BY DEF RetryInv
  <2>2. CASE r = from
    <3>1. <<r[1], r[2] + 1>> = to BY <1>5, <1>6, <2>2
    <3> QED BY <1>7, <2>2, <3>1
  <2>3. CASE r # from
    <3>1. <<r[1], r[2] + 1>> # to BY <1>6, <1>9, <2>3
    <3>2. r[2] < session[r[1]].active
      <4>1. CASE r[1] = s
        <5>1. r[2] < to[2] /\ r[2] # from[2] BY <1>6, <1>8, <1>9, <2>3, <4>1
        <5> QED BY <1>6, <1>9, <4>1, <5>1
      <4>2. CASE r[1] # s BY <1>8, <1>9, <4>2
      <4> QED BY <4>1, <4>2
    <3>3. r[2] + 1 \in 1 .. MaxRuns
      <4>1. session[r[1]].active \in 0 .. MaxRuns BY <1>9 DEF TypeInv, TypeOK, SessionTable
      <4> QED BY <1>9, <3>2, <4>1, ExecutionAssumption
    <3>4. <<r[1], r[2] + 1>> \in Runs BY <1>9, <3>3 DEF Runs
    <3> QED BY <1>7, <2>1, <3>1, <3>2, <3>4 DEF RiskTaken
  <2> QED BY <2>2, <2>3
<1>13. ASSUME NEW r \in Runs, NEW q \in Runs PROVE Carries(r, q)'
  <2> SUFFICES ASSUME r[1] = q[1], r[2] < q[2], q[2] <= session'[q[1]].active,
                      call[r].status # "none"
               PROVE  retried'[q].req = call[r].req
    BY <1>7 DEF Carries
  <2>1. Carries(r, q) BY DEF RetryInv
  <2>2. CASE q = to
    <3>1. retried'[q].req = Frozen(from) BY <1>7, <2>2
    <3>2. CASE r = from BY <3>1, <3>2 DEF Frozen
    <3>3. CASE r # from
      <4>1. r[1] = from[1] /\ r[2] < from[2] /\ from[2] <= session[from[1]].active
        BY <1>6, <1>9, <2>2, <3>3
      <4>2. retried[from].req = call[r].req BY <4>1 DEF RetryInv, Carries
      <4>3. call[r].req \in Requests BY DEF RetryInv, AsksCarried
      <4>4. call[from].status # "none" => call[from].req = retried[from].req
        BY <4>2, <4>3, ExecutionAssumption DEF RetryInv, AsksCarried
      <4> QED BY <3>1, <4>2, <4>4 DEF Frozen
    <3> QED BY <3>2, <3>3
  <2>3. CASE q # to
    <3>1. q[2] <= session[q[1]].active
      <4>1. CASE q[1] = s
        <5>1. q[2] <= to[2] /\ q[2] # to[2] BY <1>6, <1>8, <1>9, <2>3, <4>1
        <5> QED BY <1>6, <1>9, <4>1, <5>1
      <4>2. CASE q[1] # s BY <1>8, <1>9, <4>2
      <4> QED BY <4>1, <4>2
    <3> QED BY <1>7, <2>1, <2>3, <3>1 DEF Carries
  <2> QED BY <2>2, <2>3
<1> QED BY <1>11, <1>12, <1>13 DEF RetryInv

\* Only the active Run's marker is written, and nothing follows that Run.
LEMMA RetryAfterMarker ==
  ASSUME TypeInv, RetryInv, NEW r \in Runs, session[r[1]].active = r[2],
         UNCHANGED <<session, retried>>, \A x \in Runs : x # r => call'[x] = call[x],
         AsksCarried(r)'
  PROVE  RetryInv'
<1>1. ASSUME NEW x \in Runs PROVE x[1] \in Sessions /\ x[2] \in Nat BY RunParts, ExecutionAssumption
<1>2. ASSUME NEW x \in Runs PROVE RiskTaken(x)' /\ AsksCarried(x)'
  <2>1. RiskTaken(x) /\ AsksCarried(x) BY DEF RetryInv
  <2>2. CASE x = r
    <3>1. ~(x[2] < session'[x[1]].active) BY <1>1, <2>2
    <3> QED BY <2>2, <3>1 DEF RiskTaken
  <2>3. CASE x # r BY <2>1, <2>3 DEF RiskTaken, AsksCarried, ResultUnknown
  <2> QED BY <2>2, <2>3
<1>3. ASSUME NEW x \in Runs, NEW q \in Runs PROVE Carries(x, q)'
  <2>1. Carries(x, q) BY DEF RetryInv
  <2>2. CASE x = r
    <3>1. ~(x[1] = q[1] /\ x[2] < q[2] /\ q[2] <= session'[q[1]].active)
      <4>1. x[2] \in Nat /\ q[2] \in Nat BY <1>1
      <4> QED BY <2>2, <4>1
    <3> QED BY <2>2, <3>1 DEF Carries
  <2>3. CASE x # r BY <2>1, <2>3 DEF Carries
  <2> QED BY <2>2, <2>3
<1> QED BY <1>2, <1>3 DEF RetryInv

LEMMA RetryInvStep == TypeInv /\ TableInv /\ RetryInv /\ [Next]_vars => RetryInv'
<1> SUFFICES ASSUME TypeInv, TableInv, RetryInv, [Next]_vars PROVE RetryInv' OBVIOUS
<1>1. ASSUME NEW w \in Workers, NEW q \in Requests, BeginNew(w, q) PROVE RetryInv'
  <2>1. PICK r \in Runs : r = claim[w].run BY <1>1, OwnRun DEF BeginNew
  <2>2. session[r[1]].active = r[2] /\ UNCHANGED <<session, retried>>
    BY <1>1, <2>1, OwnRun DEF BeginNew
  <2>3. /\ \A x \in Runs : x # r => call'[x] = call[x]
        /\ call'[r].req = IF retried[r].req # NoRequest THEN retried[r].req ELSE q
    BY <1>1, <2>1 DEF BeginNew, TypeInv, TypeOK, CallTable
  <2>4. retried[r].req \in Requests \cup {NoRequest} BY DEF TypeInv, TypeOK, RetryTable
  <2>5. AsksCarried(r)' BY <2>2, <2>3, <2>4 DEF AsksCarried
  <2> QED BY <2>2, <2>3, <2>5, RetryAfterMarker
<1>2. ASSUME NEW w \in Workers, Record(w) PROVE RetryInv'
  <2>1. PICK r \in Runs : r = claim[w].run BY <1>2, OwnRun DEF Record
  <2>2. /\ session[r[1]].active = r[2] /\ UNCHANGED <<session, retried>>
        /\ call[r].status # "none"
    BY <1>2, <2>1, OwnRun DEF Record, Records
  <2>3. /\ \A x \in Runs : x # r => call'[x] = call[x]
        /\ call'[r].req = call[r].req
    BY <1>2, <2>1 DEF Record, TypeInv, TypeOK, CallTable
  <2>4. AsksCarried(r)' BY <2>2, <2>3 DEF AsksCarried, RetryInv
  <2> QED BY <2>2, <2>3, <2>4, RetryAfterMarker
<1> QED BY <1>1, <1>2, StepKinds, RetryAfterStart, RetryAfterRetry, RetryKept

\* For every instance: a Run that may have reached the provider with an
\* unknown result is followed only by a retry that accepted the risk, and every
\* Run of a Session asks the model what its first dispatched Run asked.
THEOREM RetriesAreSafe == Spec => []RetriesSafe
<1>1. TypeInv /\ TableInv /\ SendInv /\ RetryInv => RetriesSafe
  <2> SUFFICES ASSUME TypeInv, TableInv, SendInv, RetryInv PROVE RetriesSafe OBVIOUS
  <2>1. ASSUME NEW r \in Runs, run[r] # "absent" \/ call[r].status # "none"
        PROVE  r[2] <= session[r[1]].active
    <3>1. r[1] \in Sessions /\ r[2] \in Nat BY RunParts, ExecutionAssumption
    <3>2. session[r[1]].active \in Nat
      BY <3>1, ExecutionAssumption DEF TypeInv, TypeOK, SessionTable
    <3>3. ~(r[2] > session[r[1]].active) BY <2>1, <3>1 DEF TableInv, StoryInv, Story
    <3> QED BY <3>1, <3>2, <3>3
  <2>2. NoBlindRetry
    <3> SUFFICES ASSUME NEW r \in Runs, <<r[1], r[2] + 1>> \in Runs,
                        run[<<r[1], r[2] + 1>>] # "absent",
                        sent[r] > 0 \/ \E w \in Workers : pc[w] = "send" /\ claim[w].run = r
                 PROVE  \/ retried[<<r[1], r[2] + 1>>].risk
                        \/ call[r].status \in {"response_received", "failed"}
      BY DEF NoBlindRetry
    <3>1. PICK next \in Runs : next = <<r[1], r[2] + 1>> OBVIOUS
    <3>2. next[1] = r[1] /\ next[2] = r[2] + 1 BY <3>1
    <3>3. next[2] <= session[next[1]].active BY <2>1, <3>1
    <3>4. r[2] \in Nat /\ r[1] \in Sessions BY RunParts, ExecutionAssumption
    <3>5. session[r[1]].active \in Nat
      BY <3>4, ExecutionAssumption DEF TypeInv, TypeOK, SessionTable
    <3>6. r[2] < session[r[1]].active BY <3>2, <3>3, <3>4, <3>5
    <3>7. call[r].status # "none"
      BY DEF SendInv
    <3>8. call[r].status \in CallStatus BY DEF TypeInv, TypeOK, CallTable
    <3>9. RiskTaken(r) BY DEF RetryInv
    <3> QED BY <3>6, <3>7, <3>8, <3>9 DEF RiskTaken, ResultUnknown, CallStatus
  <2>3. RequestInherited
    <3> SUFFICES ASSUME NEW r \in Runs, call[r].status # "none", NEW q \in Runs,
                        r[1] = q[1], r[2] < q[2], call[q].status # "none"
                 PROVE  call[q].req = call[r].req
      BY DEF RequestInherited
    <3>1. retried[q].req = call[r].req BY <2>1 DEF RetryInv, Carries
    <3>2. call[r].req \in Requests BY DEF RetryInv, AsksCarried
    <3> QED BY <3>1, <3>2, ExecutionAssumption DEF RetryInv, AsksCarried
  <2> QED BY <2>2, <2>3 DEF RetriesSafe
<1> QED BY <1>1, TypeInvInit, TypeInvStep, FenceInvInit, FenceInvStep, TableInit, TableStep,
           SendInvInit, SendInvStep, RetryInvInit, RetryInvStep, PTL DEF Spec

-----------------------------------------------------------------------------
(* A model call is settled once.                                            *)

\* A worker about to record its answer has sent.
SentInv == \A w \in Workers : pc[w] = "record" => sent[claim[w].run] > 0

LEMMA SentInvStep == TypeInv /\ SentInv /\ [Next]_vars => SentInv'
<1> SUFFICES ASSUME TypeInv, SentInv, [Next]_vars PROVE SentInv' OBVIOUS
<1>a. pc \in [Workers -> Steps] /\ WorkerShape /\ sent \in [Runs -> Nat] BY DEF TypeInv, TypeOK
<1>1. ASSUME UNCHANGED sent, NEW w \in Workers, NEW step \in Steps,
             step # "record", pc' = [pc EXCEPT ![w] = step],
             \A x \in Workers : x # w => claim'[x] = claim[x]
      PROVE  SentInv'
  BY <1>1, <1>a DEF SentInv
<1>2. ASSUME UNCHANGED <<sent, pc, claim>> PROVE SentInv' BY <1>2 DEF SentInv
<1>3. ASSUME NEW w \in Workers, GoIdle(w), UNCHANGED sent PROVE SentInv'
  <2>1. \A x \in Workers : x # w => claim'[x] = claim[x]
    BY <1>3 DEF GoIdle, TypeInv, TypeOK
  <2> QED BY <1>1, <1>3, <2>1 DEF GoIdle, Steps
<1>4. ASSUME NEW w \in Workers, NEW step \in Steps, step # "record",
             NEW value, GoTo(w, step, value), UNCHANGED sent
      PROVE  SentInv'
  BY <1>1, <1>4 DEF GoTo
<1>5. ASSUME NEW s \in Sessions, Command(s) \/ LeaseRunsOut(s) \/ LeaseLapses(s) PROVE SentInv'
  BY <1>2, <1>5 DEF Command, StartAccepted, StartRefused, Cancel, Retry, NoWorkerStep,
                    LeaseRunsOut, LeaseLapses, SetLive
<1>6. ASSUME NEW w \in Workers, NEW r \in Runs, Scan(w, r) PROVE SentInv'
  <2>1. \A x \in Workers : x # w => claim'[x] = claim[x]
    BY <1>6 DEF Scan, ReadSource, ClaimFinalization, TypeInv, TypeOK
  <2> QED BY <1>1, <1>6, <2>1 DEF Scan, ReadSource, ClaimFinalization, Steps
<1>7. ASSUME NEW w \in Workers, Claim(w) \/ SlotRefused(w) PROVE SentInv'
  <2>1. \A x \in Workers : x # w => claim'[x] = claim[x]
    BY <1>7 DEF Claim, SlotRefused, TypeInv, TypeOK
  <2> QED BY <1>1, <1>7, <2>1 DEF Claim, SlotRefused, Steps
<1>8. ASSUME NEW w \in Workers,
             \/ Exhaust(w) \/ Defer(w) \/ ClaimMissed(w) \/ Finish(w)
             \/ LoseClaim(w) \/ Stop(w)
      PROVE  SentInv'
  BY <1>3, <1>8 DEF Exhaust, Defer, ClaimMissed, Finish, LoseClaim, Stop, NoTableStep
<1>9. ASSUME NEW w \in Workers,
             \/ Handoff(w) \/ Prepare(w) \/ BeginRefused(w) \/ Validate(w) \/ Record(w)
             \/ \E q \in Requests : BeginNew(w, q)
      PROVE  SentInv'
  BY <1>4, <1>9 DEF Handoff, Prepare, BeginRefused, Validate, Record, BeginNew, NoTableStep, Steps
<1>10. ASSUME NEW w \in Workers, NEW q \in Requests, BeginExisting(w, q) PROVE SentInv'
  <2>1. \E next \in {<<"validate", "response">>, <<"finish", "failed">>,
                      <<"finish", "provider_result_unknown">>} :
           GoTo(w, next[1], next[2]) /\ UNCHANGED sent
    BY <1>10 DEF BeginExisting, Replay, NoTableStep
  <2> QED BY <1>4, <2>1 DEF Steps
<1>11. ASSUME NEW w \in Workers, Send(w) PROVE SentInv'
  <2>1. PICK r \in Runs : r = claim[w].run BY <1>11, <1>a DEF Send, WorkerShape
  <2>2. /\ sent'[r] = sent[r] + 1 /\ \A x \in Runs : x # r => sent'[x] = sent[x]
        /\ sent[r] \in Nat
    BY <1>11, <1>a, <2>1 DEF Send
  <2>3. UNCHANGED claim /\ \A x \in Workers : x # w => pc'[x] = pc[x]
    BY <1>11, <1>a DEF Send, GoTo
  <2>4. \A x \in Workers : pc[x] # "idle" => claim[x].run \in Runs BY <1>a DEF WorkerShape
  <2>5. \A x \in Runs : sent[x] > 0 => sent'[x] > 0 BY <2>2
  <2> QED BY <2>1, <2>2, <2>3, <2>4, <2>5 DEF SentInv
<1>12. ASSUME (\E r \in Runs : BecomeDue(r)) \/ NextDay \/ UNCHANGED vars PROVE SentInv'
  BY <1>2, <1>12 DEF BecomeDue, NextDay, NoWorkerStep, vars
<1> QED
  BY <1>5, <1>6, <1>7, <1>8, <1>9, <1>10, <1>11, <1>12 DEF Next, Work

\* Only the worker that committed a call's marker, after it sent once and while
\* its Session's fence is still the marker's, settles that call; nothing
\* rewrites a settled one.
THEOREM SettledOnce == Spec => CallSettledOnce
<1> DEFINE Settles ==
      \A r \in Runs : call'[r] # call[r] =>
       \/ call[r].status = "none" /\ call'[r].status = "dispatched"
       \/ /\ call[r].status = "dispatched"
          /\ call'[r] = [call[r] EXCEPT !.status = call'[r].status]
          /\ sent[r] = 1
          /\ lease[r[1]].fence = call[r].fence
<1>1. TypeInv /\ SendInv /\ SentInv /\ [Next]_vars => Settles
  <2> SUFFICES ASSUME TypeInv, SendInv, SentInv, [Next]_vars PROVE Settles OBVIOUS
  <2>1. ASSUME NEW w \in Workers, NEW q \in Requests, BeginNew(w, q) PROVE Settles
    <3>1. PICK r \in Runs : r = claim[w].run BY <2>1, OwnRun DEF BeginNew
    <3>2. /\ \A x \in Runs : x # r => call'[x] = call[x]
          /\ call[r].status = "none" /\ call'[r].status = "dispatched"
      BY <2>1, <3>1 DEF BeginNew, TypeInv, TypeOK, CallTable
    <3> QED BY <3>2
  <2>2. ASSUME NEW w \in Workers, Record(w) PROVE Settles
    <3>1. PICK r \in Runs : r = claim[w].run BY <2>2, OwnRun DEF Record
    <3>2. /\ \A x \in Runs : x # r => call'[x] = call[x]
          /\ \E status : call'[r] = [call[r] EXCEPT !.status = status]
      BY <2>2, <3>1 DEF Record, TypeInv, TypeOK, CallTable
    <3>3. call[r].status = "dispatched" /\ lease[r[1]].fence = call[r].fence
      BY <2>2, <3>1 DEF Record, Records, Owns
    <3>4. sent[r] = 1
      <4>1. sent[r] \in Nat /\ sent[r] > 0 /\ sent[r] <= 1
        BY <2>2, <3>1 DEF Record, SentInv, SendInv, SingleSend, TypeInv, TypeOK
      <4> QED BY <4>1
    <3>5. call'[r] = [call[r] EXCEPT !.status = call'[r].status]
      BY <3>2 DEF TypeInv, TypeOK, CallTable
    <3> QED BY <3>2, <3>3, <3>4, <3>5
  <2>3. CASE UNCHANGED call BY <2>3
  <2> QED BY <2>1, <2>2, <2>3, StepKinds DEF StartAccepted, StartRefused, Retry, CallsKept
<1>2. Init => SentInv BY DEF Init, SentInv
<1>3. TypeInv /\ SendInv /\ SentInv /\ [Next]_vars => [Settles]_vars BY <1>1
<1>4. Spec => [][Settles]_vars
  BY <1>2, <1>3, TypeInvInit, TypeInvStep, SendInvInit, SendInvStep, SentInvStep, PTL DEF Spec
<1> QED BY <1>4 DEF CallSettledOnce

-----------------------------------------------------------------------------
(* The limits of a set of reservation rows.                                 *)

LEMMA RunsFinite == IsFiniteSet(Runs)
<1>1. IsFiniteSet(1 .. MaxRuns) BY FS_Interval, ExecutionAssumption
<1> QED BY <1>1, FS_Product, CapacityAssumption DEF Runs

\* Giving rows up keeps every limit.
LEMMA WithinFewer ==
  ASSUME NEW rows, NEW fewer, rows \subseteq Runs, fewer \subseteq rows,
         NEW limits \in Limits, Within(rows, limits)
  PROVE  Within(fewer, limits)
<1>1. ASSUME NEW A, NEW B, A \subseteq B, B \subseteq Runs, NEW n \in Nat, Cardinality(B) <= n
      PROVE  Cardinality(A) <= n
  <2>1. IsFiniteSet(B) BY <1>1, RunsFinite, FS_Subset
  <2>2. IsFiniteSet(A) /\ Cardinality(A) <= Cardinality(B) BY <1>1, <2>1, FS_Subset
  <2>3. Cardinality(A) \in Nat /\ Cardinality(B) \in Nat BY <2>1, <2>2, FS_CardinalityType
  <2> QED BY <1>1, <2>2, <2>3
<1>2. limits.org \in Nat /\ limits.user \in Nat /\ limits.assessment \in Nat BY DEF Limits
<1>3. Cardinality(fewer) <= limits.org BY <1>1, <1>2 DEF Within
<1>4. ASSUME NEW r \in fewer PROVE Cardinality(OfUser(fewer, r[1])) <= limits.user
  <2>1. /\ OfUser(fewer, r[1]) \subseteq OfUser(rows, r[1])
        /\ OfUser(rows, r[1]) \subseteq Runs
    BY DEF OfUser
  <2>2. Cardinality(OfUser(rows, r[1])) <= limits.user BY DEF Within
  <2> QED BY <1>1, <1>2, <2>1, <2>2
<1>5. ASSUME NEW r \in fewer, NEW a \in Assessments[r[1]]
      PROVE  Cardinality(OfAssessment(fewer, a)) <= limits.assessment
  <2>1. OfAssessment(fewer, a) \subseteq OfAssessment(rows, a) /\ OfAssessment(rows, a) \subseteq Runs
    BY DEF OfAssessment
  <2>2. Cardinality(OfAssessment(rows, a)) <= limits.assessment BY DEF Within
  <2> QED BY <1>1, <1>2, <2>1, <2>2
<1> QED BY <1>3, <1>4, <1>5 DEF Within

\* One more row that fits keeps every limit, also those of the other rows that
\* share its user or one of its assessments.
LEMMA WithinOneMore ==
  ASSUME NEW rows, rows \subseteq Runs, NEW r \in Runs, NEW limits \in Limits,
         Within(rows, limits), Fits(rows, r[1], limits)
  PROVE  Within(rows \cup {r}, limits)
<1> DEFINE more == rows \cup {r}
<1>1. limits.org \in Nat /\ limits.user \in Nat /\ limits.assessment \in Nat BY DEF Limits
<1>2. ASSUME NEW A, NEW B, A \subseteq B \cup {r}, B \subseteq Runs,
             NEW n \in Nat, Cardinality(B) < n
      PROVE  Cardinality(A) <= n
  <2>1. IsFiniteSet(B) BY <1>2, RunsFinite, FS_Subset
  <2>2. /\ IsFiniteSet(B \cup {r})
        /\ Cardinality(B \cup {r}) = IF r \in B THEN Cardinality(B) ELSE Cardinality(B) + 1
    BY <2>1, FS_AddElement
  <2>3. IsFiniteSet(A) /\ Cardinality(A) <= Cardinality(B \cup {r}) BY <1>2, <2>2, FS_Subset
  <2>4. Cardinality(A) \in Nat /\ Cardinality(B) \in Nat BY <2>1, <2>3, FS_CardinalityType
  <2> QED BY <1>2, <2>2, <2>3, <2>4
<1>3. Cardinality(more) <= limits.org BY <1>1, <1>2 DEF Fits
<1>4. ASSUME NEW x \in more PROVE Cardinality(OfUser(more, x[1])) <= limits.user
  <2>1. CASE Subject[x[1]] = Subject[r[1]]
    <3>1. /\ OfUser(more, x[1]) \subseteq OfUser(rows, r[1]) \cup {r}
          /\ OfUser(rows, r[1]) \subseteq Runs
      BY <2>1 DEF OfUser
    <3>2. Cardinality(OfUser(rows, r[1])) < limits.user BY DEF Fits
    <3> QED BY <1>1, <1>2, <3>1, <3>2
  <2>2. CASE Subject[x[1]] # Subject[r[1]]
    <3>1. x \in rows BY <2>2
    <3>2. OfUser(more, x[1]) = OfUser(rows, x[1]) BY <2>2 DEF OfUser
    <3> QED BY <3>1, <3>2 DEF Within
  <2> QED BY <2>1, <2>2
<1>5. ASSUME NEW x \in more, NEW a \in Assessments[x[1]]
      PROVE  Cardinality(OfAssessment(more, a)) <= limits.assessment
  <2>1. CASE a \in Assessments[r[1]]
    <3>1. /\ OfAssessment(more, a) \subseteq OfAssessment(rows, a) \cup {r}
          /\ OfAssessment(rows, a) \subseteq Runs
      BY DEF OfAssessment
    <3>2. Cardinality(OfAssessment(rows, a)) < limits.assessment BY <2>1 DEF Fits
    <3> QED BY <1>1, <1>2, <3>1, <3>2
  <2>2. CASE a \notin Assessments[r[1]]
    <3>1. x \in rows BY <1>5, <2>2
    <3>2. OfAssessment(more, a) = OfAssessment(rows, a) BY <2>2 DEF OfAssessment
    <3> QED BY <1>5, <3>1, <3>2 DEF Within
  <2> QED BY <2>1, <2>2
<1> QED BY <1>3, <1>4, <1>5 DEF Within

LEMMA NoRowsFit == ASSUME NEW limits \in Limits PROVE Within({}, limits)
<1>1. Cardinality({}) = 0 BY FS_EmptySet
<1> QED BY <1>1 DEF Within, Limits

-----------------------------------------------------------------------------
(* Slots and the daily budget.                                              *)

RowsOf(d) == {r \in Runs : slot[r].state # "none" /\ slot[r].day = d}

CapacityInv ==
  /\ Within(ActiveRows, ActiveLimits)
  /\ \A d \in 0 .. MaxDay : Within(RowsOf(d), DailyLimits)

\* No reservation is made or dated anew, and no slot taken.
LEMMA CapacityKept ==
  ASSUME CapacityInv,
         \A r \in Runs : /\ slot'[r].day = slot[r].day
                         /\ slot'[r].state = "none" <=> slot[r].state = "none"
                         /\ slot'[r].state = "active" => slot[r].state = "active"
  PROVE  CapacityInv'
<1>1. ActiveRows' \subseteq ActiveRows /\ ActiveRows \subseteq Runs BY DEF ActiveRows
<1>2. Within(ActiveRows', ActiveLimits)
  BY <1>1, WithinFewer, CapacityAssumption DEF CapacityInv
<1>3. \A d : RowsOf(d)' = RowsOf(d) BY DEF RowsOf
<1>4. ASSUME NEW d \in 0 .. MaxDay PROVE Within(RowsOf(d), DailyLimits)'
  <2>1. Within(RowsOf(d), DailyLimits) BY DEF CapacityInv
  <2> QED BY <1>3, <2>1 DEF Within, OfUser, OfAssessment
<1>5. Within(ActiveRows, ActiveLimits)' BY <1>2 DEF Within, OfUser, OfAssessment
<1> QED BY <1>4, <1>5 DEF CapacityInv

LEMMA CapacityReleased ==
  ASSUME TypeInv, CapacityInv, NEW r \in Runs, Release(r)
  PROVE  CapacityInv'
<1>1. \A q \in Runs : /\ slot'[q].day = slot[q].day
                      /\ slot'[q].state = "none" <=> slot[q].state = "none"
                      /\ slot'[q].state = "active" => slot[q].state = "active"
  BY DEF Release, TypeInv, TypeOK, SlotTable
<1> QED BY <1>1, CapacityKept

\* enqueue reserves for a Run that had no reservation.
LEMMA CapacityReserved ==
  ASSUME TypeInv, CapacityInv, NEW r \in Runs, slot[r].state = "none", Enqueue(r), UNCHANGED today
  PROVE  CapacityInv'
<1>1. /\ slot'[r].state = "reserved" /\ slot'[r].day = today
      /\ \A q \in Runs : q # r => slot'[q] = slot[q]
  BY DEF Enqueue, TypeInv, TypeOK, SlotTable
<1>2. ActiveRows' = ActiveRows BY <1>1 DEF ActiveRows
<1>3. Within(ActiveRows, ActiveLimits)'
  BY <1>2 DEF CapacityInv, Within, OfUser, OfAssessment
<1>4. ASSUME NEW d \in 0 .. MaxDay PROVE Within(RowsOf(d)', DailyLimits)
  <2>1. Within(RowsOf(d), DailyLimits) BY DEF CapacityInv
  <2>2. CASE d = today
    <3>1. RowsOf(d)' = RowsOf(d) \cup {r} BY <1>1, <2>2 DEF RowsOf
    <3>2. RowsOf(d) = DayRows BY <2>2 DEF RowsOf, DayRows
    <3>3. Fits(RowsOf(d), r[1], DailyLimits) BY <3>2 DEF Enqueue
    <3>4. RowsOf(d) \subseteq Runs BY DEF RowsOf
    <3> QED BY <2>1, <3>1, <3>3, <3>4, WithinOneMore, CapacityAssumption
  <2>3. CASE d # today
    <3>1. RowsOf(d)' = RowsOf(d) BY <1>1, <2>3 DEF RowsOf
    <3> QED BY <2>1, <3>1
  <2> QED BY <2>2, <2>3
<1>5. ASSUME NEW d \in 0 .. MaxDay PROVE Within(RowsOf(d), DailyLimits)'
  BY <1>4 DEF Within, OfUser, OfAssessment
<1> QED BY <1>3, <1>5 DEF CapacityInv

\* A claim takes the slot its Run reserved, or finds it taken by the Run.
LEMMA CapacityTaken ==
  ASSUME TypeInv, CapacityInv, NEW w \in Workers, Claim(w)
  PROVE  CapacityInv'
<1>1. PICK r \in Runs : r = claim[w].run BY DEF Claim, TypeInv, WorkerShape
<1>2. SlotFree(r) /\ slot' = [slot EXCEPT ![r].state = "active"] BY <1>1 DEF Claim
<1>3. /\ slot'[r].state = "active" /\ slot'[r].day = slot[r].day
      /\ slot[r].state \in {"active", "reserved"}
      /\ \A q \in Runs : q # r => slot'[q] = slot[q]
  BY <1>2 DEF SlotFree, TypeInv, TypeOK, SlotTable
<1>4. CASE slot[r].state = "active" BY <1>3, <1>4, CapacityKept
<1>5. CASE slot[r].state = "reserved"
  <2>1. Fits(ActiveRows, r[1], ActiveLimits) BY <1>2, <1>5 DEF SlotFree
  <2>2. ActiveRows' = ActiveRows \cup {r} /\ ActiveRows \subseteq Runs BY <1>3 DEF ActiveRows
  <2>3. Within(ActiveRows', ActiveLimits)
    BY <2>1, <2>2, WithinOneMore, CapacityAssumption DEF CapacityInv
  <2>4. \A d : RowsOf(d)' = RowsOf(d) BY <1>3 DEF RowsOf
  <2>5. ASSUME NEW d \in 0 .. MaxDay PROVE Within(RowsOf(d), DailyLimits)'
    <3>1. Within(RowsOf(d), DailyLimits) BY DEF CapacityInv
    <3> QED BY <2>4, <3>1 DEF Within, OfUser, OfAssessment
  <2>6. Within(ActiveRows, ActiveLimits)' BY <2>3 DEF Within, OfUser, OfAssessment
  <2> QED BY <2>5, <2>6 DEF CapacityInv
<1> QED BY <1>3, <1>4, <1>5

LEMMA CapacityStep == TypeInv /\ TableInv /\ CapacityInv /\ [Next]_vars => CapacityInv'
<1> SUFFICES ASSUME TypeInv, TableInv, CapacityInv, [Next]_vars PROVE CapacityInv' OBVIOUS
<1>1. ASSUME UNCHANGED slot PROVE CapacityInv'
  BY <1>1, CapacityKept
<1>2. ASSUME NEW r \in Runs, r[2] > session[r[1]].active PROVE slot[r].state = "none"
  BY <1>2, RunParts DEF TableInv, StoryInv, Story
<1>3. ASSUME NEW s \in Sessions, Command(s) PROVE CapacityInv'
  <2>1. CASE StartAccepted(s)
    <3>0. 1 \in 1 .. MaxRuns BY ExecutionAssumption
    <3>1. PICK r \in Runs : r = <<s, 1>> BY <3>0 DEF Runs
    <3>2. session[s].active = 0 BY <2>1 DEF StartAccepted, TableInv, StoryInv, Story
    <3>3. r[1] = s /\ r[2] = 1 BY <3>1
    <3>4. slot[r].state = "none" BY <1>2, <3>2, <3>3
    <3> QED BY <2>1, <3>1, <3>4, CapacityReserved DEF StartAccepted, NoWorkerStep
  <2>2. CASE \E bound \in BOOLEAN : StartRefused(s, bound) BY <1>1, <2>2 DEF StartRefused
  <2>3. CASE Cancel(s)
    <3>1. Current(s) \in Runs BY <2>3, CurrentRun DEF Cancel
    <3> QED BY <2>3, <3>1, CapacityReleased DEF Cancel
  <2>4. ASSUME NEW risk \in BOOLEAN, Retry(s, risk) PROVE CapacityInv'
    <3>1. session[s].active \in 1 .. MaxRuns BY <2>4, CurrentRun DEF Retry
    <3>2. session[s].active + 1 \in 1 .. MaxRuns BY <2>4, <3>1, ExecutionAssumption DEF Retry
    <3>3. PICK r \in Runs : r = <<s, session[s].active + 1>> BY <3>2 DEF Runs
    <3>4. r[1] = s /\ r[2] = session[s].active + 1 BY <3>3
    <3>5. slot[r].state = "none" BY <1>2, <3>1, <3>4
    <3> QED BY <2>4, <3>3, <3>5, CapacityReserved DEF Retry, NoWorkerStep
  <2> QED BY <1>3, <2>1, <2>2, <2>3, <2>4 DEF Command
<1>4. ASSUME NEW w \in Workers, Claim(w) PROVE CapacityInv' BY <1>4, CapacityTaken
<1>5. ASSUME NEW w \in Workers, Exhaust(w) \/ Finish(w) PROVE CapacityInv'
  <2>1. PICK r \in Runs : r = claim[w].run BY <1>5 DEF Exhaust, Finish, TypeInv, WorkerShape
  <2>2. Release(r) BY <1>5, <2>1 DEF Exhaust, Finish
  <2> QED BY <2>2, CapacityReleased
<1>6. ASSUME NEW s \in Sessions, LeaseRunsOut(s) \/ LeaseLapses(s) PROVE CapacityInv'
  BY <1>1, <1>6 DEF LeaseRunsOut, LeaseLapses, SetLive
<1>7. ASSUME NEW w \in Workers, NEW r \in Runs, Scan(w, r) PROVE CapacityInv'
  BY <1>1, <1>7 DEF Scan, ReadSource, ClaimFinalization, tables
<1>8. ASSUME NEW w \in Workers,
             \/ SlotRefused(w) \/ ClaimMissed(w) \/ Handoff(w) \/ Prepare(w) \/ Record(w)
             \/ (\E q \in Requests : BeginNew(w, q) \/ BeginExisting(w, q))
             \/ BeginRefused(w) \/ Send(w) \/ Validate(w) \/ LoseClaim(w) \/ Stop(w) \/ Defer(w)
      PROVE  CapacityInv'
  BY <1>1, <1>8 DEF SlotRefused, ClaimMissed, Handoff, Prepare, BeginNew, BeginExisting,
                    BeginRefused, Send, Record, Validate, LoseClaim, Stop, Defer, NoTableStep, tables
<1>9. ASSUME (\E r \in Runs : BecomeDue(r)) \/ NextDay \/ UNCHANGED vars PROVE CapacityInv'
  BY <1>1, <1>9 DEF BecomeDue, NextDay, vars, tables
<1> QED BY <1>3, <1>4, <1>5, <1>6, <1>7, <1>8, <1>9 DEF Next, Work

LEMMA CapacityInit == Init => CapacityInv
<1> SUFFICES ASSUME Init PROVE CapacityInv OBVIOUS
<1>1. ActiveRows = {} /\ \A d : RowsOf(d) = {} BY DEF Init, ActiveRows, RowsOf
<1> QED BY <1>1, NoRowsFit, CapacityAssumption DEF CapacityInv

\* For every instance: a slot is held exactly while its Run's job is leased -
\* through lease expiry and takeover - and the slots held at one time stay
\* within the organization's, the user's and every assessment's limit.
THEOREM SlotsAreHeld == Spec => []SlotsHeld
<1>1. TypeInv /\ TableInv /\ CapacityInv => SlotsHeld
  <2> SUFFICES ASSUME TypeInv, TableInv, CapacityInv, NEW r \in Runs
               PROVE  slot[r].state = "active" <=> job[r].status = "leased"
    BY DEF SlotsHeld, CapacityInv
  <2>1. r[1] \in Sessions /\ r[2] \in 1 .. MaxRuns BY RunParts
  <2>2. Story(r[1]) BY <2>1 DEF TableInv, StoryInv
  <2>3. session[r[1]].active \in 0 .. MaxRuns /\ session[r[1]].status \in SessionStatus
    BY <2>1 DEF TypeInv, TypeOK, SessionTable
  <2>4. CASE r[2] < session[r[1]].active BY <2>2, <2>4 DEF Story, Ended
  <2>5. CASE r[2] > session[r[1]].active BY <2>2, <2>5 DEF Story
  <2>6. CASE r[2] = session[r[1]].active
    <3>1. session[r[1]].status # "absent" BY <2>1, <2>2, <2>6 DEF Story
    <3>2. Current(r[1]) = r BY <2>1, <2>6, RunOfSession
    <3>3. Now(r[1]) BY <2>2, <3>1 DEF Story
    <3> QED BY <2>3, <3>1, <3>2, <3>3 DEF Now, Ended, SessionStatus
  <2> QED BY <2>1, <2>3, <2>4, <2>5, <2>6, ExecutionAssumption
<1> QED BY <1>1, TypeInvInit, TypeInvStep, FenceInvInit, FenceInvStep, TableInit, TableStep,
           CapacityInit, CapacityStep, PTL DEF Spec

\* For every instance: the reservations made on one day, which nothing refunds,
\* stay within the organization's, the user's and every assessment's daily
\* limit, whatever Sessions start and retry.
THEOREM BudgetKept == Spec => []DailyBudget
<1>1. CapacityInv => DailyBudget BY DEF CapacityInv, DailyBudget, RowsOf
<1> QED BY <1>1, TypeInvInit, TypeInvStep, FenceInvInit, FenceInvStep, TableInit, TableStep,
           CapacityInit, CapacityStep, PTL DEF Spec
=============================================================================
