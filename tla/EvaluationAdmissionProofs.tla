---------------------- MODULE EvaluationAdmissionProofs ----------------------
(***************************************************************************)
(* Theorems about EvaluationAdmission, for every finite set of Runs and    *)
(* every number of callers, quotas and days: the admissions implement      *)
(* AdmissionLedger, and what callers and executions are told is true.      *)
(***************************************************************************)
EXTENDS EvaluationAdmission, TLAPS, FiniteSetTheorems, SequenceTheorems

-----------------------------------------------------------------------------
(* Types. *)

QuotaRequests ==
    [id : QuotaCommands, expected : Nat, values : Limits \cup {None}, target : Nat \cup {None}]
Versions == [values : Values, request : QuotaRequests]

Creations ==
    [pc : {"insert", "duplicate", "lookup", "receipt", "again", "plan", "root", "told"},
     op : {"create"}, run : Runs, input : Inputs]
Admissions ==
    [pc : {"begun", "locked", "admitted"}, op : {"start", "resolve"}, run : Runs,
     version : Nat, day : Days, frozen : BOOLEAN \cup {None}]
Confirmations == [pc : {"quota", "told", "refused"}, op : {"quota"}, req : QuotaRequests]
Calls == {Idle} \cup Creations \cup Admissions \cup Confirmations

TypeOK ==
    /\ row \in [Runs -> Rows \cup {None}]
    /\ reserved \in [Runs -> Days \cup {None}]
    /\ exec \in [Runs -> Executions \cup {None}]
    /\ quota \in Seq(Versions)
    /\ ceiling \in {Ceiling, Lowered}
    /\ call \in [Callers -> Calls]
    /\ day \in Days

\* A quota request speaks of revisions that exist: the first n.
Fits(req, n) ==
    /\ req.expected <= n
    /\ IF req.target = None THEN req.values \in Limits ELSE req.target \in 1..n
Sound(req) == Fits(req, Len(quota))

RequestsSound ==
    /\ \A k \in Callers : call[k] \in Confirmations => Sound(call[k].req)
    /\ \A n \in 1..Len(quota) : Sound(quota[n].request)

\* A call that saw a Run, or its own execution, still finds it.
Follows(k) ==
    /\ call[k].pc \in {"begun", "locked", "admitted", "duplicate", "again"} =>
          row[call[k].run] # None
    /\ call[k].pc = "again" => SameInput(k)
    /\ call[k].pc = "root" => exec[call[k].run] # None
CallsFollow == \A k \in Callers : Follows(k)

TypeInv == TypeOK /\ RequestsSound /\ CallsFollow

-----------------------------------------------------------------------------
(* The calls. *)

\* What a call is can be read off its pc.
LEMMA CallShape ==
    ASSUME TypeOK, NEW k \in Callers
    PROVE  /\ call[k].pc \in {"insert", "duplicate", "lookup", "receipt", "again", "plan", "root"}
                  => call[k] \in Creations
           /\ call[k].pc \in {"begun", "locked", "admitted"} => call[k] \in Admissions
           /\ call[k].pc \in {"quota", "refused"} => call[k] \in Confirmations
           /\ call[k].pc = "told" => call[k] \in Creations \cup Confirmations
  BY DEF TypeOK, Calls, Creations, Admissions, Confirmations, Idle

LEMMA ToType ==
    ASSUME TypeOK, NEW k \in Callers, NEW pc, To(k, pc),
           \/ call[k] \in Creations /\ [call[k] EXCEPT !.pc = pc] \in Creations
           \/ call[k] \in Admissions /\ [call[k] EXCEPT !.pc = pc] \in Admissions
           \/ call[k] \in Confirmations /\ [call[k] EXCEPT !.pc = pc] \in Confirmations
    PROVE  /\ call' \in [Callers -> Calls]
           /\ call'[k] = [call[k] EXCEPT !.pc = pc]
           /\ \A j \in Callers \ {k} : call'[j] = call[j]
  BY DEF TypeOK, To, Calls

LEMMA EndType ==
    ASSUME TypeOK, NEW k \in Callers, End(k)
    PROVE  /\ call' \in [Callers -> Calls]
           /\ call'[k] = Idle
           /\ \A j \in Callers \ {k} : call'[j] = call[j]
  BY DEF TypeOK, End, Calls

LEMMA BeginType ==
    ASSUME TypeOK, NEW k \in Callers, NEW c \in Calls, Begin(k, c)
    PROVE  /\ call' \in [Callers -> Calls]
           /\ call'[k] = c
           /\ \A j \in Callers \ {k} : call'[j] = call[j]
  BY DEF TypeOK, Begin

\* No step removes a Run or changes its input, or removes an execution.
Kept ==
    /\ \A r \in Runs : row[r] # None => row'[r] # None /\ row'[r].input = row[r].input
    /\ \A r \in Runs : exec[r] # None => exec'[r] # None

LEMMA FollowKept ==
    ASSUME TypeOK, Kept, NEW k \in Callers, Follows(k), call'[k] = call[k]
    PROVE  Follows(k)'
  BY CallShape DEF Kept, Follows, SameInput, Creations, Admissions

\* The tables of a step that leaves the quotas alone.
TablesOK ==
    /\ row' \in [Runs -> Rows \cup {None}]
    /\ reserved' \in [Runs -> Days \cup {None}]
    /\ exec' \in [Runs -> Executions \cup {None}]
    /\ ceiling' \in {Ceiling, Lowered}
    /\ day' \in Days
    /\ UNCHANGED quota

\* Such a step by one caller keeps the types if that caller's new state fits.
LEMMA CallerStep ==
    ASSUME TypeInv, TablesOK, Kept, NEW k \in Callers,
           call' \in [Callers -> Calls], \A j \in Callers \ {k} : call'[j] = call[j],
           Follows(k)', call'[k] \in Confirmations => Sound(call'[k].req)
    PROVE  TypeInv'
<1>1. TypeOK' BY DEF TypeInv, TypeOK, TablesOK
<1>2. RequestsSound' BY DEF TypeInv, RequestsSound, Sound, TablesOK
<1>3. CallsFollow'
  <2> SUFFICES ASSUME NEW j \in Callers PROVE Follows(j)' BY DEF CallsFollow
  <2> QED BY FollowKept DEF TypeInv, CallsFollow
<1> QED BY <1>1, <1>2, <1>3 DEF TypeInv

LEMMA NoCallerStep ==
    ASSUME TypeInv, TablesOK, Kept, UNCHANGED call
    PROVE  TypeInv'
<1>1. TypeOK' BY DEF TypeInv, TypeOK, TablesOK
<1>2. RequestsSound' BY DEF TypeInv, RequestsSound, Sound, TablesOK
<1>3. CallsFollow'
  <2> SUFFICES ASSUME NEW j \in Callers PROVE Follows(j)' BY DEF CallsFollow
  <2> QED BY FollowKept DEF TypeInv, CallsFollow
<1> QED BY <1>1, <1>2, <1>3 DEF TypeInv

LEMMA EndStep ==
    ASSUME TypeInv, TablesOK, Kept, NEW k \in Callers, End(k)
    PROVE  TypeInv'
<1>1. Follows(k)' BY EndType DEF TypeInv, Follows, Idle
<1>2. call'[k] \notin Confirmations BY EndType DEF TypeInv, Confirmations, Idle
<1> QED BY <1>1, <1>2, EndType, CallerStep DEF TypeInv

\* Nothing of what Runs and executions say has changed.
LEMMA UnchangedTables ==
    ASSUME TypeOK, UNCHANGED <<row, reserved, exec, limits, day>>
    PROVE  TablesOK /\ Kept
  BY DEF TypeOK, TablesOK, Kept, limits

-----------------------------------------------------------------------------
(* Creations. *)

LEMMA NewRow ==
    ASSUME TypeOK, NEW r \in Runs, NEW i \in Inputs, NEW by \in {"direct", "root"},
           row[r] = None, row' = [row EXCEPT ![r] = Created(i, by)]
    PROVE  /\ Created(i, by) \in Rows
           /\ row' \in [Runs -> Rows \cup {None}]
           /\ row'[r] # None /\ row'[r] = Created(i, by)
           /\ \A q \in Runs : row[q] # None => row'[q] = row[q]
<1>1. Created(i, by) \in Rows BY DEF Created, Rows
<1> QED BY <1>1, AdmissionAssumption DEF TypeOK

LEMMA TypeSubmitCreation ==
    ASSUME TypeInv, NEW k \in Callers, SubmitCreation(k)
    PROVE  TypeInv'
<1>1. PICK r \in Runs, i \in Inputs, pc \in {"insert", "lookup"} :
         Begin(k, [pc |-> pc, op |-> "create", run |-> r, input |-> i])
  BY DEF SubmitCreation
<1> DEFINE c == [pc |-> pc, op |-> "create", run |-> r, input |-> i]
<1>2. c \in Creations BY DEF Creations
<1>3. call' \in [Callers -> Calls] /\ call'[k] = c /\ \A j \in Callers \ {k} : call'[j] = call[j]
  BY <1>1, <1>2, BeginType DEF TypeInv, Calls
<1>4. Follows(k)' /\ call'[k] \notin Confirmations BY <1>3 DEF Follows, Confirmations
<1> QED BY <1>3, <1>4, CallerStep, UnchangedTables DEF TypeInv, SubmitCreation

LEMMA TypeInsert ==
    ASSUME TypeInv, NEW k \in Callers, Insert(k)
    PROVE  TypeInv'
<1> USE DEF TypeInv
<1> DEFINE r == call[k].run
<1>1. call[k] \in Creations /\ r \in Runs /\ call[k].input \in Inputs
  BY CallShape DEF Insert, Creations
<1>2. CASE row[r] = None
  <2>1. row' = [row EXCEPT ![r] = Created(call[k].input, "direct")] /\ To(k, "told")
    BY <1>2 DEF Insert
  <2>2. TablesOK /\ Kept
    BY <1>1, <1>2, <2>1, NewRow DEF Insert, TypeOK, TablesOK, Kept, limits
  <2>3. [call[k] EXCEPT !.pc = "told"] \in Creations BY <1>1 DEF Creations
  <2>4. call' \in [Callers -> Calls] /\ call'[k] = [call[k] EXCEPT !.pc = "told"]
        /\ \A j \in Callers \ {k} : call'[j] = call[j]
    BY <1>1, <2>1, <2>3, ToType
  <2>5. Follows(k)' /\ call'[k] \notin Confirmations BY <2>3, <2>4 DEF Follows, Confirmations, Creations
  <2> QED BY <2>2, <2>4, <2>5, CallerStep
<1>3. CASE row[r] # None
  <2>1. UNCHANGED row /\ To(k, "duplicate") BY <1>3 DEF Insert
  <2>2. TablesOK /\ Kept BY <2>1, UnchangedTables DEF Insert
  <2>3. [call[k] EXCEPT !.pc = "duplicate"] \in Creations BY <1>1 DEF Creations
  <2>4. call' \in [Callers -> Calls] /\ call'[k] = [call[k] EXCEPT !.pc = "duplicate"]
        /\ \A j \in Callers \ {k} : call'[j] = call[j]
    BY <1>1, <2>1, <2>3, ToType
  <2>5. Follows(k)' /\ call'[k] \notin Confirmations
    BY <1>3, <2>1, <2>3, <2>4, <1>1 DEF Follows, Confirmations, Creations
  <2> QED BY <2>2, <2>4, <2>5, CallerStep
<1> QED BY <1>2, <1>3

\* A creation that changes no table goes on or ends.
LEMMA TypeCreationGoes ==
    ASSUME TypeInv, NEW k \in Callers, call[k] \in Creations,
           UNCHANGED <<row, reserved, exec, limits, day>>,
           \/ End(k)
           \/ To(k, "told") \/ To(k, "receipt") \/ To(k, "plan")
           \/ To(k, "again") /\ row[call[k].run] # None /\ SameInput(k)
    PROVE  TypeInv'
<1> USE DEF TypeInv
<1>1. TablesOK /\ Kept BY UnchangedTables
<1>2. CASE End(k) BY <1>1, <1>2, EndStep
<1>3. ASSUME NEW pc \in {"told", "receipt", "plan"}, To(k, pc) PROVE TypeInv'
  <2>1. [call[k] EXCEPT !.pc = pc] \in Creations BY DEF Creations
  <2>2. call' \in [Callers -> Calls] /\ call'[k] = [call[k] EXCEPT !.pc = pc]
        /\ \A j \in Callers \ {k} : call'[j] = call[j]
    BY <1>3, <2>1, ToType
  <2>3. Follows(k)' /\ call'[k] \notin Confirmations BY <2>1, <2>2 DEF Follows, Confirmations, Creations
  <2> QED BY <1>1, <2>2, <2>3, CallerStep
<1>4. CASE To(k, "again") /\ row[call[k].run] # None /\ SameInput(k)
  <2>1. [call[k] EXCEPT !.pc = "again"] \in Creations BY DEF Creations
  <2>2. call' \in [Callers -> Calls] /\ call'[k] = [call[k] EXCEPT !.pc = "again"]
        /\ \A j \in Callers \ {k} : call'[j] = call[j]
    BY <1>4, <2>1, ToType
  <2>3. Follows(k)' /\ call'[k] \notin Confirmations
    BY <1>4, <2>1, <2>2 DEF Follows, SameInput, Confirmations, Creations
  <2> QED BY <1>1, <2>2, <2>3, CallerStep
<1> QED BY <1>2, <1>3, <1>4

LEMMA TypeReads ==
    ASSUME TypeInv, NEW k \in Callers,
           Reread(k) \/ Lookup(k) \/ ReadReceipt(k) \/ LookupAgain(k)
    PROVE  TypeInv'
<1>1. call[k] \in Creations
  BY CallShape DEF TypeInv, Reread, Lookup, ReadReceipt, LookupAgain
<1>2. CASE Reread(k) BY <1>1, <1>2, TypeCreationGoes DEF Reread
<1>3. CASE Lookup(k) BY <1>1, <1>3, TypeCreationGoes DEF Lookup, Replayed
<1>4. CASE ReadReceipt(k) BY <1>1, <1>4, TypeCreationGoes DEF ReadReceipt
<1>5. CASE LookupAgain(k) BY <1>1, <1>5, TypeCreationGoes DEF LookupAgain, Replayed
<1> QED BY <1>2, <1>3, <1>4, <1>5

LEMMA TypeReserve ==
    ASSUME TypeInv, NEW k \in Callers, Reserve(k)
    PROVE  TypeInv'
<1> USE DEF TypeInv
<1> DEFINE r == call[k].run
<1>1. call[k] \in Creations /\ r \in Runs /\ call[k].input \in Inputs
  BY CallShape DEF Reserve, Creations
<1>2. CASE exec[r] = None
  <2>1. exec' = [exec EXCEPT ![r] = Execution(call[k].input)] /\ To(k, "root")
    BY <1>2 DEF Reserve
  <2>2. Execution(call[k].input) \in Executions BY <1>1 DEF Execution, Executions
  <2>3. TablesOK /\ Kept /\ exec'[r] # None
    BY <1>1, <1>2, <2>1, <2>2, AdmissionAssumption DEF Reserve, TypeOK, TablesOK, Kept, limits
  <2>4. [call[k] EXCEPT !.pc = "root"] \in Creations BY <1>1 DEF Creations
  <2>5. call' \in [Callers -> Calls] /\ call'[k] = [call[k] EXCEPT !.pc = "root"]
        /\ \A j \in Callers \ {k} : call'[j] = call[j]
    BY <1>1, <2>1, <2>4, ToType
  <2>6. Follows(k)' /\ call'[k] \notin Confirmations
    BY <1>1, <2>3, <2>4, <2>5 DEF Follows, Confirmations, Creations
  <2> QED BY <2>3, <2>5, <2>6, CallerStep
<1>3. CASE exec[r] # None
  BY <1>1, <1>3, TypeCreationGoes DEF Reserve, Replayed
<1> QED BY <1>2, <1>3

LEMMA TypeCreationRoot ==
    ASSUME TypeInv, NEW k \in Callers, CreationRoot(k)
    PROVE  TypeInv'
<1> USE DEF TypeInv
<1> DEFINE r == call[k].run
<1>1. call[k] \in Creations /\ r \in Runs /\ call[k].input \in Inputs
  BY CallShape DEF CreationRoot, Creations
<1>2. exec[r] \in Executions BY <1>1 DEF CreationRoot, CallsFollow, Follows, TypeOK
<1>3. \A s \in {"committed", "aborted"} : [exec[r] EXCEPT !.state = s] \in Executions
  BY <1>2 DEF Executions
<1>4. CASE row[r] = None
  <2>1. /\ row' = [row EXCEPT ![r] = Created(call[k].input, "root")]
        /\ exec' = [exec EXCEPT ![r].state = "committed"]
        /\ To(k, "told")
    BY <1>4 DEF CreationRoot
  <2>2. exec' \in [Runs -> Executions \cup {None}] /\ exec'[r] # None
        /\ \A q \in Runs \ {r} : exec'[q] = exec[q]
    BY <1>1, <1>3, <2>1, AdmissionAssumption DEF TypeOK
  <2>3. row' \in [Runs -> Rows \cup {None}] /\ \A q \in Runs : row[q] # None => row'[q] = row[q]
    BY <1>1, <1>4, <2>1, NewRow
  <2>4. TablesOK /\ Kept BY <2>2, <2>3 DEF CreationRoot, TypeOK, TablesOK, Kept, limits
  <2>5. [call[k] EXCEPT !.pc = "told"] \in Creations BY <1>1 DEF Creations
  <2>6. call' \in [Callers -> Calls] /\ call'[k] = [call[k] EXCEPT !.pc = "told"]
        /\ \A j \in Callers \ {k} : call'[j] = call[j]
    BY <1>1, <2>1, <2>5, ToType
  <2>7. Follows(k)' /\ call'[k] \notin Confirmations BY <2>5, <2>6 DEF Follows, Confirmations, Creations
  <2> QED BY <2>4, <2>6, <2>7, CallerStep
<1>5. CASE row[r] # None
  <2>1. UNCHANGED row /\ exec' = [exec EXCEPT ![r].state = "aborted"] /\ End(k)
    BY <1>5 DEF CreationRoot
  <2>2. exec' \in [Runs -> Executions \cup {None}] /\ exec'[r] # None
        /\ \A q \in Runs \ {r} : exec'[q] = exec[q]
    BY <1>1, <1>3, <2>1, AdmissionAssumption DEF TypeOK
  <2>3. TablesOK /\ Kept BY <2>1, <2>2 DEF CreationRoot, TypeOK, TablesOK, Kept, limits
  <2> QED BY <2>1, <2>3, EndStep
<1> QED BY <1>4, <1>5

LEMMA TypeAbortExecution ==
    ASSUME TypeInv, NEW r \in Runs, AbortExecution(r)
    PROVE  TypeInv'
<1> USE DEF TypeInv
<1>1. exec[r] \in Executions BY DEF AbortExecution, TypeOK
<1>2. [exec[r] EXCEPT !.state = "aborted"] \in Executions BY <1>1 DEF Executions
<1>3. TablesOK /\ Kept
  BY <1>2, AdmissionAssumption DEF AbortExecution, TypeOK, TablesOK, Kept, limits
<1> QED BY <1>3, NoCallerStep DEF AbortExecution

-----------------------------------------------------------------------------
(* Admissions and what happens to Runs under way. *)

\* An admission begins with the Run as it is.
LEMMA TypeAdmissionBegins ==
    ASSUME TypeInv, NEW k \in Callers, NEW c \in Admissions,
           c.pc = "begun", row[c.run] # None, Begin(k, c),
           UNCHANGED <<row, reserved, exec, limits, day>>
    PROVE  TypeInv'
<1> USE DEF TypeInv
<1>1. call' \in [Callers -> Calls] /\ call'[k] = c /\ \A j \in Callers \ {k} : call'[j] = call[j]
  BY BeginType DEF Calls
<1>2. Follows(k)' /\ call'[k] \notin Confirmations BY <1>1 DEF Follows, Confirmations, Admissions
<1> QED BY <1>1, <1>2, CallerStep, UnchangedTables

LEMMA AdmissionType ==
    ASSUME TypeOK, NEW r \in Existent, NEW op \in {"start", "resolve"},
           NEW frozen \in BOOLEAN \cup {None}
    PROVE  /\ Admission("begun", op, r, frozen) \in Admissions
           /\ Admission("begun", op, r, frozen).pc = "begun"
           /\ Admission("begun", op, r, frozen).run = r
<1>1. r \in Runs /\ row[r].version \in Nat BY DEF Existent, TypeOK, Rows
<1>2. day \in Days BY DEF TypeOK
<1> QED BY <1>1, <1>2 DEF Admission, Admissions

LEMMA FrozenAdmission ==
    ASSUME NEW op, NEW r, NEW b \in BOOLEAN
    PROVE  [Admission("begun", op, r, None) EXCEPT !.frozen = b] = Admission("begun", op, r, b)
  BY DEF Admission

LEMMA TypeSubmitAdmission ==
    ASSUME TypeInv, NEW k \in Callers,
           SubmitAdmission(k) \/ FreezeStart(k) \/ FreezeResolution(k)
    PROVE  TypeInv'
<1>1. UNCHANGED <<row, reserved, exec, limits, day>>
  BY DEF SubmitAdmission, FreezeStart, FreezeResolution
<1>2. ASSUME NEW r \in Existent, NEW op \in {"start", "resolve"},
             NEW frozen \in BOOLEAN \cup {None}, Begin(k, Admission("begun", op, r, frozen))
      PROVE  TypeInv'
  BY <1>1, <1>2, AdmissionType, TypeAdmissionBegins DEF TypeInv, Existent
<1>3. CASE SubmitAdmission(k) BY <1>2, <1>3 DEF SubmitAdmission
<1>4. CASE FreezeStart(k)
  <2>1. PICK r \in Existent :
           LET c == Admission("begun", "start", r, None) IN
           Begin(k, [c EXCEPT !.frozen = Decision(c)])
    BY <1>4 DEF FreezeStart
  <2> DEFINE c == Admission("begun", "start", r, None)
             frozen == Decision(c)
  <2>2. frozen \in BOOLEAN BY DEF Decision
  <2>3. [c EXCEPT !.frozen = frozen] = Admission("begun", "start", r, frozen)
    BY <2>2, FrozenAdmission
  <2> QED BY <1>2, <2>1, <2>2, <2>3
<1>5. CASE FreezeResolution(k)
  <2>1. PICK r \in Existent :
           LET c == Admission("begun", "resolve", r, None) IN
           Begin(k, [c EXCEPT !.frozen = TRUE])
    BY <1>5 DEF FreezeResolution
  <2>2. [Admission("begun", "resolve", r, None) EXCEPT !.frozen = TRUE]
           = Admission("begun", "resolve", r, TRUE) BY FrozenAdmission
  <2> QED BY <1>2, <2>1, <2>2
<1> QED BY <1>3, <1>4, <1>5

LEMMA TypeLocks ==
    ASSUME TypeInv, NEW k \in Callers, LockAdmission(k) \/ Check(k)
    PROVE  TypeInv'
<1> USE DEF TypeInv
<1>1. TablesOK /\ Kept BY UnchangedTables DEF LockAdmission, Check
<1>2. call[k] \in Admissions /\ row[call[k].run] # None
  BY CallShape DEF LockAdmission, Check, CallsFollow, Follows
<1>3. End(k) \/ \E pc \in {"locked", "admitted"} : To(k, pc) BY DEF LockAdmission, Check
<1>4. CASE End(k) BY <1>1, <1>4, EndStep
<1>5. ASSUME NEW pc \in {"locked", "admitted"}, To(k, pc) PROVE TypeInv'
  <2>1. [call[k] EXCEPT !.pc = pc] \in Admissions BY <1>2 DEF Admissions
  <2>2. call' \in [Callers -> Calls] /\ call'[k] = [call[k] EXCEPT !.pc = pc]
        /\ \A j \in Callers \ {k} : call'[j] = call[j]
    BY <1>2, <1>5, <2>1, ToType
  <2>3. UNCHANGED row BY DEF LockAdmission, Check
  <2>4. Follows(k)' /\ call'[k] \notin Confirmations
    BY <1>2, <2>1, <2>2, <2>3 DEF Follows, Confirmations, Admissions
  <2> QED BY <1>1, <2>2, <2>4, CallerStep
<1> QED BY <1>3, <1>4, <1>5

\* One Run moves on, keeping its input and the way it was created.
MovesOn(r) ==
    /\ row[r] \in Rows
    /\ \E new \in Rows : /\ row' = [row EXCEPT ![r] = new]
                         /\ new.input = row[r].input /\ new.by = row[r].by

LEMMA MovesOnKeeps ==
    ASSUME TypeOK, NEW r \in Runs, MovesOn(r)
    PROVE  /\ row' \in [Runs -> Rows \cup {None}]
           /\ row'[r] \in Rows /\ row'[r].input = row[r].input /\ row'[r].by = row[r].by
           /\ \A q \in Runs \ {r} : row'[q] = row[q]
           /\ \A q \in Runs : row[q] # None => row'[q] # None /\ row'[q].input = row[q].input
  BY AdmissionAssumption DEF TypeOK, MovesOn

LEMMA NextVersion ==
    ASSUME NEW x \in Rows
    PROVE  LET y == [x EXCEPT !.version = @ + 1] IN
           /\ y \in Rows /\ y.input = x.input /\ y.by = x.by
           /\ y.status = x.status /\ y.cause = x.cause
           /\ y.cancel = x.cancel /\ y.admitted = x.admitted
  BY DEF Rows

LEMMA Settled ==
    ASSUME NEW x \in Rows, NEW out \in {"collecting", "canceled"}
    PROVE  LET y == [x EXCEPT !.status = out, !.cause = None, !.admitted = (out = "collecting")] IN
           /\ y \in Rows /\ y.input = x.input /\ y.by = x.by /\ y.status = out
           /\ y.cancel = x.cancel /\ y.admitted = (out = "collecting")
  BY DEF Rows

LEMMA Blocked ==
    ASSUME NEW x \in Rows, NEW cause \in {"unknown", "contract"}
    PROVE  LET y == [x EXCEPT !.status = "blocked", !.cause = cause,
                              !.admitted = x.admitted /\ x.cancel] IN
           /\ y \in Rows /\ y.input = x.input /\ y.by = x.by /\ y.status = "blocked"
           /\ y.cancel = x.cancel /\ y.admitted = (x.admitted /\ x.cancel)
  BY DEF Rows

LEMMA CommitMoves ==
    ASSUME TypeInv, NEW k \in Callers, Commit(k)
    PROVE  LET r == call[k].run
               out == Outcome(call[k])
           IN  /\ call[k] \in Admissions /\ r \in Runs /\ MovesOn(r)
               /\ row'[r].admitted = (out = "collecting")
               /\ row'[r].status = out
               /\ row'[r].cancel = row[r].cancel
<1> USE DEF TypeInv
<1> DEFINE r == call[k].run
           out == Outcome(call[k])
           new == [row[r] EXCEPT !.status = out, !.cause = None, !.admitted = (out = "collecting")]
<1>1. call[k] \in Admissions /\ r \in Runs /\ row[r] \in Rows
  BY CallShape DEF Commit, Admissions, CallsFollow, Follows, TypeOK
<1>2. out \in {"collecting", "canceled"} BY DEF Outcome
<1>3. row' = [row EXCEPT ![r] = [new EXCEPT !.version = @ + 1]] BY <1>1 DEF Commit, TypeOK
<1> HIDE DEF out
<1>4. /\ new \in Rows /\ new.input = row[r].input /\ new.by = row[r].by
      /\ new.admitted = (out = "collecting") /\ new.status = out /\ new.cancel = row[r].cancel
  BY <1>1, <1>2, Settled
<1> HIDE DEF new
<1>5. LET y == [new EXCEPT !.version = @ + 1] IN
      /\ y \in Rows /\ y.input = new.input /\ y.by = new.by /\ y.status = new.status
      /\ y.cancel = new.cancel /\ y.admitted = new.admitted
  BY <1>4, NextVersion
<1>6. row'[r] = [new EXCEPT !.version = @ + 1] BY <1>1, <1>3 DEF TypeOK
<1>7. MovesOn(r) BY <1>1, <1>3, <1>4, <1>5 DEF MovesOn
<1> QED BY <1>1, <1>4, <1>5, <1>6, <1>7 DEF out

LEMMA TypeCommit ==
    ASSUME TypeInv, NEW k \in Callers, Commit(k)
    PROVE  TypeInv'
<1> DEFINE r == call[k].run
<1>1. call[k] \in Admissions /\ r \in Runs /\ MovesOn(r) BY CommitMoves
<1>2. call[k].day \in Days BY <1>1 DEF Admissions
<1>3. reserved' \in [Runs -> Days \cup {None}]
  BY <1>1, <1>2 DEF TypeInv, TypeOK, Commit, Reservation
<1>4. TablesOK /\ Kept BY <1>1, <1>3, MovesOnKeeps DEF TypeInv, TypeOK, TablesOK, Kept, Commit, limits
<1> QED BY <1>4, EndStep DEF Commit

\* What the steps of a Run under way do to its row.
LEMMA ChangeMoves ==
    ASSUME TypeOK, NEW r \in Runs,
           Block(r) \/ Complete(r) \/ Cancel(r) \/ Drain(r) \/ RecoverContract(r)
    PROVE  /\ MovesOn(r)
           /\ row'[r].admitted => row[r].admitted
           /\ (row[r].admitted => Active(row[r])) => (row'[r].admitted => Active(row'[r]))
<1>1. row[r] \in Rows
  BY DEF TypeOK, Block, Complete, Cancel, Drain, RecoverContract, Change
<1>2. ASSUME NEW new \in Rows, Put(r, new), new.input = row[r].input, new.by = row[r].by,
             new.admitted => row[r].admitted,
             (row[r].admitted => Active(row[r])) => (new.admitted => Active(new))
      PROVE  /\ MovesOn(r)
             /\ row'[r].admitted => row[r].admitted
             /\ (row[r].admitted => Active(row[r])) => (row'[r].admitted => Active(row'[r]))
  <2> DEFINE y == [new EXCEPT !.version = @ + 1]
  <2>1. /\ y \in Rows /\ y.input = new.input /\ y.by = new.by /\ y.status = new.status
        /\ y.cancel = new.cancel /\ y.admitted = new.admitted
    BY NextVersion
  <2>2. row' = [row EXCEPT ![r] = y] BY <1>2 DEF Put
  <2> HIDE DEF y
  <2>3. row'[r] = y BY <2>2 DEF TypeOK
  <2> QED BY <1>1, <1>2, <2>1, <2>2, <2>3 DEF MovesOn, Active
<1>3. CASE Block(r)
  <2>1. PICK cause \in {"unknown", "contract"} :
           Put(r, [row[r] EXCEPT !.status = "blocked", !.cause = cause,
                                 !.admitted = row[r].admitted /\ row[r].cancel])
    BY <1>3 DEF Block
  <2> DEFINE new == [row[r] EXCEPT !.status = "blocked", !.cause = cause,
                                   !.admitted = row[r].admitted /\ row[r].cancel]
  <2>3. /\ new \in Rows /\ new.input = row[r].input /\ new.by = row[r].by
        /\ new.status = "blocked" /\ new.cancel = row[r].cancel /\ new.admitted = (row[r].admitted /\ row[r].cancel)
    BY <1>1, Blocked
  <2>4. Put(r, new) BY <2>1
  <2> HIDE DEF new
  <2> QED BY <1>2, <2>3, <2>4 DEF Active
<1>4. CASE Complete(r) \/ Drain(r)
  <2>1. PICK status \in {"awaiting_review", "canceled"} :
           Put(r, [row[r] EXCEPT !.status = status, !.admitted = FALSE])
    BY <1>4 DEF Complete, Drain
  <2> DEFINE new == [row[r] EXCEPT !.status = status, !.admitted = FALSE]
  <2>2. new \in Rows /\ new.input = row[r].input /\ new.by = row[r].by /\ new.admitted = FALSE
    BY <1>1 DEF Rows
  <2>3. Put(r, new) BY <2>1
  <2> HIDE DEF new
  <2> QED BY <1>2, <2>2, <2>3
<1>5. CASE Cancel(r)
  <2>1. CASE Put(r, [row[r] EXCEPT !.cancel = TRUE])
    <3> DEFINE new == [row[r] EXCEPT !.cancel = TRUE]
    <3>1. /\ new \in Rows /\ new.input = row[r].input /\ new.by = row[r].by
          /\ new.status = row[r].status /\ new.cancel = TRUE /\ new.admitted = row[r].admitted
      BY <1>1 DEF Rows
    <3>2. Put(r, new) BY <2>1
    <3> HIDE DEF new
    <3> QED BY <1>2, <3>1, <3>2 DEF Active
  <2>2. CASE Put(r, [row[r] EXCEPT !.status = "canceled", !.cause = None, !.admitted = FALSE])
    <3> DEFINE new == [row[r] EXCEPT !.status = "canceled", !.cause = None, !.admitted = FALSE]
    <3>1. new \in Rows /\ new.input = row[r].input /\ new.by = row[r].by /\ new.admitted = FALSE
      BY <1>1 DEF Rows
    <3>2. Put(r, new) BY <2>2
    <3> HIDE DEF new
    <3> QED BY <1>2, <3>1, <3>2
  <2> QED BY <1>5, <2>1, <2>2 DEF Cancel
<1>6. CASE RecoverContract(r)
  <2> DEFINE new == [row[r] EXCEPT !.status = "collecting", !.cause = None]
  <2>1. /\ new \in Rows /\ new.input = row[r].input /\ new.by = row[r].by
        /\ new.status = "collecting" /\ new.admitted = row[r].admitted
    BY <1>1 DEF Rows
  <2>2. Put(r, new) BY <1>6 DEF RecoverContract
  <2> HIDE DEF new
  <2> QED BY <1>2, <2>1, <2>2 DEF Active
<1> QED BY <1>3, <1>4, <1>5, <1>6

LEMMA TypeChange ==
    ASSUME TypeInv, NEW r \in Runs,
           Block(r) \/ Complete(r) \/ Cancel(r) \/ Drain(r) \/ RecoverContract(r)
    PROVE  TypeInv'
<1>1. MovesOn(r) BY ChangeMoves DEF TypeInv
<1>2. UNCHANGED <<reserved, exec, limits, call, day, calls>>
  BY DEF Block, Complete, Cancel, Drain, RecoverContract, Change
<1>3. TablesOK /\ Kept BY <1>1, <1>2, MovesOnKeeps DEF TypeInv, TypeOK, TablesOK, Kept, limits
<1> QED BY <1>2, <1>3, NoCallerStep

-----------------------------------------------------------------------------
(* Quotas. *)

LEMMA ConfirmedSound ==
    ASSUME TypeOK, NEW req \in Confirmed
    PROVE  req \in QuotaRequests /\ Sound(req)
<1>1. Len(quota) \in Nat BY DEF TypeOK
<1>2. CASE req \in {[id |-> q, expected |-> Len(quota), values |-> v, target |-> None] :
                       q \in QuotaCommands, v \in Limits}
  <2>1. PICK q \in QuotaCommands, v \in Limits :
           req = [id |-> q, expected |-> Len(quota), values |-> v, target |-> None]
    BY <1>2
  <2> QED BY <1>1, <2>1 DEF QuotaRequests, Sound, Fits
<1>3. CASE req \in {[id |-> q, expected |-> Len(quota), values |-> None, target |-> n] :
                       q \in QuotaCommands, n \in 1..Len(quota)}
  <2>1. PICK q \in QuotaCommands, n \in 1..Len(quota) :
           req = [id |-> q, expected |-> Len(quota), values |-> None, target |-> n]
    BY <1>3
  <2>2. n \in Nat /\ n # None BY <1>1, AdmissionAssumption
  <2> QED BY <1>1, <2>1, <2>2 DEF QuotaRequests, Sound, Fits
<1> QED BY <1>2, <1>3 DEF Confirmed

LEMMA VersionType ==
    ASSUME TypeOK, NEW n \in 1..Len(quota)
    PROVE  quota[n] \in Versions /\ quota[n].values \in Values /\ quota[n].request \in QuotaRequests
<1>1. quota[n] \in Versions BY ElementOfSeq DEF TypeOK
<1> QED BY <1>1 DEF Versions

LEMMA TypeSubmitQuota ==
    ASSUME TypeInv, NEW k \in Callers, SubmitQuota(k)
    PROVE  TypeInv'
<1> USE DEF TypeInv
<1>1. PICK req \in (IF Len(quota) < MaxRevision THEN Confirmed ELSE {})
                    \cup {quota[n].request : n \in 1..Len(quota)} :
         Begin(k, [pc |-> "quota", op |-> "quota", req |-> req])
  BY DEF SubmitQuota
<1>2. req \in QuotaRequests /\ Sound(req)
  BY ConfirmedSound, VersionType DEF RequestsSound
<1> DEFINE c == [pc |-> "quota", op |-> "quota", req |-> req]
<1>3. c \in Confirmations BY <1>2 DEF Confirmations
<1>4. call' \in [Callers -> Calls] /\ call'[k] = c /\ \A j \in Callers \ {k} : call'[j] = call[j]
  BY <1>1, <1>3, BeginType DEF Calls
<1>5. Follows(k)' BY <1>4 DEF Follows
<1>6. Sound(call'[k].req) BY <1>2, <1>4
<1> QED BY <1>4, <1>5, <1>6, CallerStep, UnchangedTables DEF SubmitQuota

\* The values a request asks for.
Asked(req) == IF req.target = None THEN req.values ELSE quota[req.target].values

LEMMA AskedType ==
    ASSUME TypeOK, NEW req, Sound(req)
    PROVE  Asked(req) \in Values
<1>1. CASE req.target = None BY <1>1, AdmissionAssumption DEF Asked, Sound, Fits
<1>2. CASE req.target # None BY <1>2, VersionType DEF Asked, Sound, Fits
<1> QED BY <1>1, <1>2

\* What applying a quota command does.
LEMMA QuotaApplied ==
    ASSUME TypeInv, NEW k \in Callers, ApplyQuota(k)
    PROVE  LET req == call[k].req
               v == [values |-> Asked(req), request |-> req]
           IN  /\ call[k] \in Confirmations /\ req \in QuotaRequests /\ Sound(req)
               /\ v \in Versions
               /\ \/ /\ To(k, "told")
                     /\ Receipts(req.id) # {} /\ \E n \in Receipts(req.id) : quota[n].request = req
                     /\ UNCHANGED quota
                  \/ /\ To(k, "refused")
                     /\ Receipts(req.id) # {} /\ \A n \in Receipts(req.id) : quota[n].request # req
                     /\ UNCHANGED quota
                  \/ /\ To(k, "told")
                     /\ Receipts(req.id) = {} /\ req.expected = Len(quota)
                     /\ WithinCeiling(Asked(req))
                     /\ quota' = Append(quota, v)
                  \/ /\ To(k, "refused")
                     /\ Receipts(req.id) = {}
                     /\ req.expected # Len(quota) \/ ~WithinCeiling(Asked(req))
                     /\ UNCHANGED quota
<1> USE DEF TypeInv
<1> DEFINE req == call[k].req
<1>1. call[k] \in Confirmations /\ req \in QuotaRequests /\ Sound(req)
  BY CallShape DEF ApplyQuota, Confirmations, RequestsSound
<1>2. [values |-> Asked(req), request |-> req] \in Versions BY <1>1, AskedType DEF Versions
<1> QED BY <1>1, <1>2 DEF ApplyQuota, Asked

\* Requests stay sound when a version is added.
LEMMA SoundKept ==
    ASSUME TypeOK, NEW v \in Versions, quota' = Append(quota, v), NEW req \in QuotaRequests, Sound(req)
    PROVE  Fits(req, Len(quota'))
<1>1. Len(quota) \in Nat /\ Len(quota') = Len(quota) + 1 BY DEF TypeOK
<1> QED BY <1>1 DEF Sound, Fits, QuotaRequests

LEMMA TypeApplyQuota ==
    ASSUME TypeInv, NEW k \in Callers, ApplyQuota(k)
    PROVE  TypeInv'
<1> USE DEF TypeInv
<1> DEFINE req == call[k].req
           v == [values |-> Asked(req), request |-> req]
<1>1. call[k] \in Confirmations /\ req \in QuotaRequests /\ Sound(req) /\ v \in Versions
  BY QuotaApplied
<1>2. PICK pc \in {"told", "refused"} : To(k, pc) BY QuotaApplied
<1>3. quota' = quota \/ quota' = Append(quota, v) BY QuotaApplied
<1> HIDE DEF v
<1>4. [call[k] EXCEPT !.pc = pc] \in Confirmations /\ [call[k] EXCEPT !.pc = pc].req = req
  BY <1>1 DEF Confirmations
<1>5. call' \in [Callers -> Calls] /\ call'[k] = [call[k] EXCEPT !.pc = pc]
      /\ \A j \in Callers \ {k} : call'[j] = call[j]
  BY <1>1, <1>2, <1>4, ToType
<1>6. Kept BY DEF ApplyQuota, Kept
<1>7. Follows(k)' BY <1>4, <1>5 DEF Follows, Confirmations
<1>8. CASE quota' = quota
  <2>1. TablesOK BY <1>8 DEF ApplyQuota, TypeOK, TablesOK
  <2>2. Sound(call'[k].req) BY <1>1, <1>4, <1>5
  <2> QED BY <1>5, <1>6, <1>7, <2>1, <2>2, CallerStep
<1>9. CASE quota' = Append(quota, v)
  <2>1. quota' \in Seq(Versions) /\ Len(quota') = Len(quota) + 1 /\ quota'[Len(quota) + 1] = v
        /\ \A n \in 1..Len(quota) : quota'[n] = quota[n]
    BY <1>1, <1>9 DEF TypeOK
  <2>2. TypeOK' BY <1>5, <2>1 DEF ApplyQuota, TypeOK
  <2>3. RequestsSound'
    <3>1. ASSUME NEW j \in Callers, call'[j] \in Confirmations PROVE Fits(call'[j].req, Len(quota'))
      <4>1. CASE j = k BY <1>1, <1>4, <1>5, <1>9, <4>1, SoundKept
      <4>2. CASE j # k
        <5>1. call[j] \in Confirmations /\ call'[j] = call[j] BY <1>5, <3>1, <4>2
        <5>2. Sound(call[j].req) /\ call[j].req \in QuotaRequests
          BY <5>1 DEF RequestsSound, Confirmations
        <5> QED BY <1>1, <1>9, <5>1, <5>2, SoundKept
      <4> QED BY <4>1, <4>2
    <3>2. ASSUME NEW n \in 1..Len(quota') PROVE Fits(quota'[n].request, Len(quota'))
      <4>0. Len(quota) \in Nat BY DEF TypeOK
      <4>1. CASE n \in 1..Len(quota)
        <5>1. quota'[n] = quota[n] /\ Sound(quota[n].request) /\ quota[n].request \in QuotaRequests
          BY <2>1, <4>1, VersionType DEF RequestsSound
        <5> QED BY <1>1, <1>9, <5>1, SoundKept
      <4>2. CASE n = Len(quota) + 1
        <5>1. quota'[n].request = req BY <2>1, <4>2 DEF v
        <5> QED BY <1>1, <1>9, <5>1, SoundKept
      <4> QED BY <2>1, <4>0, <4>1, <4>2
    <3> QED BY <3>1, <3>2 DEF RequestsSound, Sound
  <2>4. CallsFollow'
    <3> SUFFICES ASSUME NEW j \in Callers PROVE Follows(j)' BY DEF CallsFollow
    <3> QED BY <1>5, <1>6, <1>7, FollowKept DEF CallsFollow
  <2> QED BY <2>2, <2>3, <2>4
<1> QED BY <1>3, <1>8, <1>9

-----------------------------------------------------------------------------

LEMMA TypeInit == Init => TypeInv
<1> SUFFICES ASSUME Init PROVE TypeInv OBVIOUS
<1>1. (CHOOSE i \in Inputs : TRUE) \in Inputs BY AdmissionAssumption
<1>2. Created(CHOOSE i \in Inputs : TRUE, "direct") \in Rows BY <1>1 DEF Created, Rows
<1>3. row \in [Runs -> Rows \cup {None}] BY <1>2 DEF Init
<1>4. 1 \in Days BY AdmissionAssumption DEF Days
<1>5. TypeOK BY <1>3, <1>4 DEF Init, TypeOK, Calls
<1>6. \A k \in Callers : call[k] = Idle BY DEF Init
<1>7. RequestsSound BY <1>6 DEF Init, RequestsSound, Confirmations, Idle
<1>8. CallsFollow BY <1>6 DEF CallsFollow, Follows, Idle
<1> QED BY <1>5, <1>7, <1>8 DEF TypeInv

LEMMA TypeStep == TypeInv /\ [Next]_vars => TypeInv'
<1> SUFFICES ASSUME TypeInv, [Next]_vars PROVE TypeInv' OBVIOUS
<1>1. ASSUME NEW k \in Callers,
             \/ SubmitCreation(k) \/ Insert(k) \/ Reread(k) \/ Lookup(k) \/ ReadReceipt(k)
             \/ LookupAgain(k) \/ Reserve(k) \/ CreationRoot(k)
             \/ SubmitAdmission(k) \/ FreezeStart(k) \/ FreezeResolution(k) \/ LockAdmission(k)
             \/ Check(k) \/ Commit(k) \/ SubmitQuota(k) \/ ApplyQuota(k)
      PROVE  TypeInv'
  BY <1>1, TypeSubmitCreation, TypeInsert, TypeReads, TypeReserve, TypeCreationRoot,
     TypeSubmitAdmission, TypeLocks, TypeCommit, TypeSubmitQuota, TypeApplyQuota
<1>2. ASSUME NEW k \in Callers, Leave(k) PROVE TypeInv'
  BY <1>2, UnchangedTables, EndStep DEF Leave, TypeInv
<1>3. ASSUME NEW r \in Runs,
             \/ AbortExecution(r) \/ Block(r) \/ Complete(r) \/ Cancel(r) \/ Drain(r)
             \/ RecoverContract(r)
      PROVE  TypeInv'
  BY <1>3, TypeAbortExecution, TypeChange
<1>4. CASE LowerCeiling
  BY <1>4, NoCallerStep DEF LowerCeiling, TypeInv, TypeOK, TablesOK, Kept
<1>5. CASE Midnight
  <2>1. day' \in Days BY <1>5, AdmissionAssumption DEF Midnight, TypeInv, TypeOK, Days
  <2> QED BY <1>5, <2>1, NoCallerStep DEF Midnight, TypeInv, TypeOK, TablesOK, Kept, limits
<1>6. CASE UNCHANGED vars
  BY <1>6, NoCallerStep DEF vars, TypeInv, TypeOK, TablesOK, Kept
<1> QED BY <1>1, <1>2, <1>3, <1>4, <1>5, <1>6 DEF Next

-----------------------------------------------------------------------------
(* The ledger. *)

HeldRuns == {r \in Existent : row[r].admitted}

\* An admitted Run is one the active count sees.
HeldActive == \A r \in HeldRuns : Active(row[r])

\* The admission lock has one holder.
Locking == {"locked", "admitted"}
Alone == \A j, k \in Callers : call[j].pc \in Locking /\ call[k].pc \in Locking => j = k

\* What was checked under the lock: the Run is where it was seen, and an
\* admission finds room among the other admitted Runs and in its day.
Stands(c) ==
    /\ Applicable(c)
    /\ Outcome(c) = "collecting" =>
          /\ Cardinality(HeldRuns \ {c.run}) < Effective.active
          /\ reserved[c.run] = None => Used(c.day) + Cost <= Effective.daily
CheckedStands == \A k \in Callers : call[k].pc = "admitted" => Stands(call[k])

LedgerInv == HeldActive /\ Alone /\ CheckedStands

\* The limits in force are those of the ledger.
LEMMA EffectiveType ==
    ASSUME TypeInv
    PROVE  /\ Effective \in [active : 1..Ceiling.active, daily : 1..Ceiling.daily]
           /\ Effective.active \in Nat /\ Effective.daily \in Nat
<1>1. Configured \in Values
  <2>1. CASE quota = <<>> BY <2>1, AdmissionAssumption DEF Configured
  <2>2. CASE quota # <<>>
    <3>1. Len(quota) \in 1..Len(quota) BY <2>2 DEF TypeInv, TypeOK
    <3> QED BY <2>2, <3>1, VersionType DEF Configured, TypeInv
  <2> QED BY <2>1, <2>2
<1>2. /\ ceiling \in Values /\ Ceiling \in Values
      /\ ceiling.active <= Ceiling.active /\ ceiling.daily <= Ceiling.daily
  <2>1. CASE ceiling = Ceiling BY <2>1, AdmissionAssumption DEF Values
  <2>2. CASE ceiling = Lowered BY <2>2, AdmissionAssumption DEF Values
  <2> QED BY <2>1, <2>2 DEF TypeInv, TypeOK
<1>3. /\ Smaller(Configured.active, ceiling.active) \in 1..Ceiling.active
      /\ Smaller(Configured.daily, ceiling.daily) \in 1..Ceiling.daily
  BY <1>1, <1>2 DEF Smaller, Values
<1>4. Ceiling.active \in Nat /\ Ceiling.daily \in Nat BY <1>2 DEF Values
<1> QED BY <1>3, <1>4 DEF Effective

LEMMA LimitsInForce ==
    TypeInv => Effective \in [active : 1..Ceiling.active, daily : 1..Ceiling.daily]
  BY EffectiveType

LEMMA HeldFinite ==
    ASSUME NEW S, S \subseteq Runs
    PROVE  IsFiniteSet(S) /\ Cardinality(S) \in Nat
  BY FS_Subset, FS_CardinalityType, AdmissionAssumption

\* Fewer held Runs leave no less room.
LEMMA RoomKept ==
    ASSUME NEW S, NEW T, S \subseteq T, T \subseteq Runs
    PROVE  Cardinality(S) <= Cardinality(T)
  BY FS_Subset, HeldFinite

LEMMA ToPc ==
    ASSUME TypeOK, NEW k \in Callers, NEW pc, To(k, pc)
    PROVE  call'[k].pc = pc /\ \A j \in Callers \ {k} : call'[j] = call[j]
<1>1. call[k] \in Calls BY DEF TypeOK
<1>2. call'[k] = [call[k] EXCEPT !.pc = pc] /\ \A j \in Callers \ {k} : call'[j] = call[j]
  BY DEF TypeOK, To
<1>3. [call[k] EXCEPT !.pc = pc].pc = pc
  BY <1>1 DEF Calls, Creations, Admissions, Confirmations, Idle
<1> QED BY <1>2, <1>3

\* A check that stands keeps standing while its Run and the limits stay as
\* they are and no other Run is admitted.
LEMMA StandsKept ==
    ASSUME TypeInv, NEW k \in Callers, Stands(call[k]), call[k].pc = "admitted",
           call'[k] = call[k], row'[call[k].run] = row[call[k].run],
           HeldRuns' \subseteq HeldRuns, UNCHANGED <<reserved, limits>>
    PROVE  Stands(call[k])'
<1> DEFINE c == call[k]
<1>1. Applicable(c)' BY DEF Stands, Applicable
<1>2. Outcome(c)' = Outcome(c) BY DEF Outcome
<1>3. Effective' = Effective BY DEF Effective, Configured, limits
<1>4. Used(c.day)' = Used(c.day) BY DEF Used
<1>5. Cardinality(HeldRuns' \ {c.run}) <= Cardinality(HeldRuns \ {c.run})
  BY RoomKept DEF HeldRuns, Existent
<1>6. /\ Cardinality(HeldRuns' \ {c.run}) \in Nat /\ Cardinality(HeldRuns \ {c.run}) \in Nat
      /\ Effective.active \in Nat
  <2>1. HeldRuns' \ {c.run} \subseteq Runs /\ HeldRuns \ {c.run} \subseteq Runs
    BY DEF HeldRuns, Existent
  <2> QED BY <2>1, HeldFinite, EffectiveType
<1> HIDE DEF c
<1>7. c' = c BY DEF c
<1> QED BY <1>1, <1>2, <1>3, <1>4, <1>5, <1>6, <1>7 DEF Stands, c

\* A step that admits nobody, takes no lock and changes no Run.
LEMMA QuietStep ==
    ASSUME TypeInv, LedgerInv, UNCHANGED <<reserved, limits>>,
           \A r \in Runs : row'[r] = row[r] \/ (row[r] = None /\ row'[r].admitted = FALSE),
           \A j \in Callers : call'[j] = call[j] \/ call'[j].pc \notin Locking
    PROVE  LedgerInv' /\ HeldRuns' = HeldRuns
<1>1. HeldRuns' = HeldRuns BY DEF HeldRuns, Existent
<1>2. \A r \in HeldRuns : row'[r] = row[r] BY DEF HeldRuns, Existent
<1>3. HeldActive' BY <1>1, <1>2 DEF LedgerInv, HeldActive, Active
<1>4. Alone' BY DEF LedgerInv, Alone, Locking
<1>5. CheckedStands'
  <2> SUFFICES ASSUME NEW j \in Callers, call'[j].pc = "admitted" PROVE Stands(call[j])'
    BY DEF CheckedStands
  <2>1. call'[j] = call[j] /\ Stands(call[j]) BY DEF LedgerInv, CheckedStands, Locking
  <2>2. row[call[j].run] # None /\ call[j].run \in Runs
    BY <2>1, CallShape DEF TypeInv, CallsFollow, Follows, Admissions
  <2> QED BY <1>1, <2>1, <2>2, StandsKept
<1> QED BY <1>1, <1>3, <1>4, <1>5 DEF LedgerInv

\* Creations, requests and answers are such steps.
LEMMA QuietActions ==
    ASSUME TypeInv, LedgerInv, NEW k \in Callers,
           \/ SubmitCreation(k) \/ Insert(k) \/ Reread(k) \/ Lookup(k) \/ ReadReceipt(k)
           \/ LookupAgain(k) \/ Reserve(k) \/ CreationRoot(k)
           \/ SubmitAdmission(k) \/ FreezeStart(k) \/ FreezeResolution(k)
           \/ Leave(k) \/ SubmitQuota(k)
    PROVE  LedgerInv' /\ HeldRuns' = HeldRuns /\ UNCHANGED <<reserved, limits>>
<1> USE DEF TypeInv
<1>1. UNCHANGED <<reserved, limits>>
  BY DEF SubmitCreation, Insert, Reread, Lookup, ReadReceipt, LookupAgain, Reserve, CreationRoot,
         SubmitAdmission, FreezeStart, FreezeResolution, Leave, SubmitQuota
<1>2. \A r \in Runs : row'[r] = row[r] \/ (row[r] = None /\ row'[r].admitted = FALSE)
  <2>1. CASE Insert(k)
    <3>1. call[k].run \in Runs BY <2>1, CallShape DEF Insert, Creations
    <3> QED BY <2>1, <3>1 DEF Insert, TypeOK, Created
  <2>2. CASE CreationRoot(k)
    <3>1. call[k].run \in Runs BY <2>2, CallShape DEF CreationRoot, Creations
    <3> QED BY <2>2, <3>1 DEF CreationRoot, TypeOK, Created
  <2>3. CASE UNCHANGED row BY <2>3
  <2> QED BY <2>1, <2>2, <2>3 DEF SubmitCreation, Reread, Lookup, ReadReceipt, LookupAgain, Reserve,
             SubmitAdmission, FreezeStart, FreezeResolution, Leave, SubmitQuota
<1>3. ASSUME NEW c, c.pc \notin Locking, Begin(k, c)
      PROVE  \A j \in Callers : call'[j] = call[j] \/ call'[j].pc \notin Locking
  BY <1>3 DEF Begin, TypeOK
<1>4. ASSUME NEW pc, pc \notin Locking, To(k, pc)
      PROVE  \A j \in Callers : call'[j] = call[j] \/ call'[j].pc \notin Locking
  BY <1>4, ToPc
<1>5. ASSUME End(k)
      PROVE  \A j \in Callers : call'[j] = call[j] \/ call'[j].pc \notin Locking
  BY <1>5, EndType DEF Idle, Locking
<1>6. \A j \in Callers : call'[j] = call[j] \/ call'[j].pc \notin Locking
  <2>1. CASE SubmitCreation(k)
    BY <1>3, <2>1 DEF SubmitCreation, Locking
  <2>2. CASE SubmitQuota(k)
    BY <1>3, <2>2 DEF SubmitQuota, Locking
  <2>3. CASE SubmitAdmission(k)
    BY <1>3, <2>3 DEF SubmitAdmission, Admission, Locking
  <2>4. CASE FreezeStart(k)
    <3>1. PICK r \in Existent :
             Begin(k, [Admission("begun", "start", r, None) EXCEPT
                         !.frozen = Decision(Admission("begun", "start", r, None))])
      BY <2>4 DEF FreezeStart
    <3> QED BY <1>3, <3>1 DEF Admission, Locking
  <2>5. CASE FreezeResolution(k)
    <3>1. PICK r \in Existent :
             Begin(k, [Admission("begun", "resolve", r, None) EXCEPT !.frozen = TRUE])
      BY <2>5 DEF FreezeResolution
    <3> QED BY <1>3, <3>1 DEF Admission, Locking
  <2>6. CASE \/ Insert(k) \/ Reread(k) \/ Lookup(k) \/ ReadReceipt(k) \/ LookupAgain(k)
             \/ Reserve(k) \/ CreationRoot(k) \/ Leave(k)
    BY <1>4, <1>5, <2>6 DEF Insert, Reread, Lookup, ReadReceipt, LookupAgain, Reserve, CreationRoot,
       Leave, Replayed, Locking
  <2> QED BY <2>1, <2>2, <2>3, <2>4, <2>5, <2>6
<1> QED BY <1>1, <1>2, <1>6, QuietStep

\* What the active count sees includes every admitted Run.
LEMMA ActiveCounts ==
    ASSUME TypeInv, HeldActive, NEW r \in Runs
    PROVE  /\ Cardinality(HeldRuns \ {r}) \in Nat /\ ActiveOthers(r) \in Nat
           /\ Cardinality(HeldRuns \ {r}) <= ActiveOthers(r)
<1> DEFINE A == {o \in Existent \ {r} : Active(row[o])}
<1>1. HeldRuns \ {r} \subseteq A /\ A \subseteq Runs BY DEF HeldActive, HeldRuns, Existent
<1>2. HeldRuns \ {r} \subseteq Runs BY <1>1
<1> QED BY <1>1, <1>2, RoomKept, HeldFinite DEF ActiveOthers

LEMMA DecisionStands ==
    ASSUME TypeInv, HeldActive, NEW c \in Admissions, Decision(c)
    PROVE  Stands(c)
<1>1. c.run \in Runs BY DEF Admissions
<1>2. Effective.active \in Nat BY EffectiveType
<1> QED BY <1>1, <1>2, ActiveCounts DEF Decision, Stands, Capacity

\* The lock is taken, and what is checked under it stands.
LEMMA LedgerLocks ==
    ASSUME TypeInv, LedgerInv, NEW k \in Callers, LockAdmission(k) \/ Check(k)
    PROVE  LedgerInv' /\ HeldRuns' = HeldRuns /\ UNCHANGED <<reserved, limits>>
<1> USE DEF TypeInv
<1>1. UNCHANGED <<row, reserved, limits>> BY DEF LockAdmission, Check
<1>2. HeldRuns' = HeldRuns BY <1>1 DEF HeldRuns, Existent
<1>3. HeldActive' BY <1>1, <1>2 DEF LedgerInv, HeldActive
<1>4. call[k] \in Admissions BY CallShape DEF LockAdmission, Check
<1>5. \A j \in Callers \ {k} : call'[j] = call[j]
  BY ToPc, EndType DEF LockAdmission, Check
<1>6. \A j \in Callers \ {k} : call[j].pc \notin Locking
  BY DEF LockAdmission, Check, AdmissionHeld, LedgerInv, Alone, Locking
<1>7. Alone' BY <1>5, <1>6 DEF Alone
<1>8. CheckedStands'
  <2> SUFFICES ASSUME NEW j \in Callers, call'[j].pc = "admitted" PROVE Stands(call[j])'
    BY DEF CheckedStands
  <2>1. j = k BY <1>5, <1>6 DEF Locking
  <2>2. CASE LockAdmission(k) BY <2>1, <2>2, ToPc DEF LockAdmission
  <2>3. CASE Check(k)
    <3>1. Decision(call[k]) /\ To(k, "admitted")
      BY <2>1, <2>3, EndType DEF Check, Idle
    <3>2. Stands(call[k]) BY <1>4, <3>1, DecisionStands DEF LedgerInv
    <3>3. call'[k] = [call[k] EXCEPT !.pc = "admitted"] BY <3>1 DEF To, TypeOK
    <3>4. /\ call'[k].run = call[k].run /\ call'[k].version = call[k].version
          /\ call'[k].op = call[k].op /\ call'[k].day = call[k].day
      BY <1>4, <3>3 DEF Admissions
    <3>5. Applicable(call[k])' BY <1>1, <3>2, <3>4 DEF Stands, Applicable
    <3>6. Outcome(call[k])' = Outcome(call[k]) BY <1>1, <3>4 DEF Outcome
    <3>7. Effective' = Effective BY <1>1 DEF Effective, Configured, limits
    <3>8. Used(call[k].day)' = Used(call[k].day) BY <1>1, <3>4 DEF Used
    <3> QED BY <1>1, <1>2, <2>1, <3>2, <3>4, <3>5, <3>6, <3>7, <3>8 DEF Stands
  <2> QED BY <2>2, <2>3
<1> QED BY <1>1, <1>2, <1>3, <1>7, <1>8 DEF LedgerInv

\* A Run under way stays admitted or is released.
LEMMA LedgerChange ==
    ASSUME TypeInv, LedgerInv, NEW r \in Runs,
           Block(r) \/ Complete(r) \/ Cancel(r) \/ Drain(r) \/ RecoverContract(r)
    PROVE  /\ LedgerInv' /\ UNCHANGED <<reserved, limits>>
           /\ HeldRuns' = HeldRuns \/ (r \in HeldRuns /\ HeldRuns' = HeldRuns \ {r})
<1> USE DEF TypeInv
<1>1. /\ MovesOn(r)
      /\ row'[r].admitted => row[r].admitted
      /\ (row[r].admitted => Active(row[r])) => (row'[r].admitted => Active(row'[r]))
  BY ChangeMoves
<1>2. /\ row[r] # None /\ ~RunHeld(r) /\ UNCHANGED <<reserved, limits, call>>
  BY DEF Block, Complete, Cancel, Drain, RecoverContract, Change
<1>3. row'[r] # None /\ \A q \in Runs \ {r} : row'[q] = row[q]
  BY <1>1, MovesOnKeeps, AdmissionAssumption
<1>4. \A q \in Runs \ {r} : q \in HeldRuns' <=> q \in HeldRuns BY <1>3 DEF HeldRuns, Existent
<1>5. r \in HeldRuns' => r \in HeldRuns BY <1>1, <1>2 DEF HeldRuns, Existent
<1>6. HeldRuns \subseteq Runs /\ HeldRuns' \subseteq Runs BY DEF HeldRuns, Existent
<1>7. HeldRuns' = HeldRuns \/ (r \in HeldRuns /\ HeldRuns' = HeldRuns \ {r})
  BY <1>4, <1>5, <1>6
<1>8. HeldActive'
  <2> SUFFICES ASSUME NEW q \in HeldRuns' PROVE Active(row[q])' BY DEF HeldActive
  <2>1. q \in Runs /\ q \in HeldRuns /\ Active(row[q]) BY <1>7 DEF LedgerInv, HeldActive, HeldRuns, Existent
  <2>2. CASE q = r BY <1>1, <2>1, <2>2 DEF HeldRuns, Active
  <2>3. CASE q # r BY <1>3, <2>1, <2>3 DEF Active
  <2> QED BY <2>2, <2>3
<1>9. Alone' BY <1>2 DEF LedgerInv, Alone
<1>10. CheckedStands'
  <2> SUFFICES ASSUME NEW j \in Callers, call'[j].pc = "admitted" PROVE Stands(call[j])'
    BY DEF CheckedStands
  <2>1. call'[j] = call[j] /\ Stands(call[j]) BY <1>2 DEF LedgerInv, CheckedStands
  <2>2. call[j].run # r /\ call[j].run \in Runs
    BY <1>2, <2>1, CallShape DEF RunHeld, Admissions
  <2> QED BY <1>2, <1>3, <1>7, <2>1, <2>2, StandsKept
<1> QED BY <1>2, <1>7, <1>8, <1>9, <1>10 DEF LedgerInv

\* A committed admission finds its Run outside the admitted ones, with room
\* for it and for its payment.
LEMMA LedgerCommit ==
    ASSUME TypeInv, LedgerInv, NEW k \in Callers, Commit(k)
    PROVE  LET r == call[k].run IN
           /\ LedgerInv' /\ r \in Runs /\ UNCHANGED limits
           /\ \/ /\ HeldRuns' = HeldRuns \/ (r \in HeldRuns /\ HeldRuns' = HeldRuns \ {r})
                 /\ UNCHANGED reserved
              \/ /\ r \notin HeldRuns /\ HeldRuns' = HeldRuns \cup {r}
                 /\ Cardinality(HeldRuns) < Effective.active
                 /\ \/ reserved[r] # None /\ UNCHANGED reserved
                    \/ /\ reserved[r] = None
                       /\ \E d \in Days : /\ Used(d) + Cost <= Effective.daily
                                          /\ reserved' = [reserved EXCEPT ![r] = d]
<1> USE DEF TypeInv
<1> DEFINE c == call[k]
           r == c.run
<1>1. c \in Admissions /\ r \in Runs /\ MovesOn(r) /\ row'[r].admitted = (Outcome(c) = "collecting")
      /\ row'[r].status = Outcome(c)
  BY CommitMoves
<1>2. Stands(c) BY DEF Commit, LedgerInv, CheckedStands
<1>3. row'[r] # None /\ row[r] # None /\ \A q \in Runs \ {r} : row'[q] = row[q]
  BY <1>1, MovesOnKeeps, AdmissionAssumption DEF MovesOn
<1>4. UNCHANGED limits BY DEF Commit
<1>5. \A q \in Runs \ {r} : q \in HeldRuns' <=> q \in HeldRuns BY <1>3 DEF HeldRuns, Existent
<1>6. r \in HeldRuns' <=> Outcome(c) = "collecting" BY <1>1, <1>3 DEF HeldRuns, Existent
<1>7. HeldRuns \subseteq Runs /\ HeldRuns' \subseteq Runs BY DEF HeldRuns, Existent
<1>8. End(k) BY DEF Commit
<1>9. \A j \in Callers : call'[j].pc \notin Locking
  <2>1. \A j \in Callers \ {k} : call'[j] = call[j] /\ call'[k] = Idle BY <1>8, EndType
  <2> QED BY <1>8, <2>1, EndType DEF Commit, LedgerInv, Alone, Locking, Idle
<1>10. HeldActive'
  <2> SUFFICES ASSUME NEW q \in HeldRuns' PROVE Active(row[q])' BY DEF HeldActive
  <2>1. q \in Runs BY <1>7
  <2>2. CASE q = r BY <1>1, <1>6, <2>2 DEF Active
  <2>3. CASE q # r BY <1>3, <1>5, <2>1, <2>3 DEF LedgerInv, HeldActive, Active
  <2> QED BY <2>2, <2>3
<1>11. LedgerInv' BY <1>9, <1>10 DEF LedgerInv, Alone, CheckedStands, Locking
<1>12. CASE Outcome(c) # "collecting"
  <2>1. HeldRuns' = HeldRuns \ {r} BY <1>5, <1>6, <1>7, <1>12
  <2>2. UNCHANGED reserved BY <1>12 DEF Commit
  <2>3. HeldRuns' = HeldRuns \/ r \in HeldRuns BY <2>1
  <2> QED BY <1>1, <1>4, <1>11, <2>1, <2>2, <2>3
<1>13. CASE Outcome(c) = "collecting"
  <2>1. ~Active(row[r])
    <3>1. CASE c.op = "start" BY <1>2, <3>1 DEF Stands, Applicable, Active
    <3>2. CASE c.op # "start"
      <4>1. ~row[r].cancel BY <1>13, <3>2 DEF Outcome
      <4> QED BY <1>2, <3>2, <4>1 DEF Stands, Applicable, Active
    <3> QED BY <3>1, <3>2
  <2>2. r \notin HeldRuns BY <2>1 DEF LedgerInv, HeldActive
  <2>3. HeldRuns' = HeldRuns \cup {r} BY <1>1, <1>5, <1>6, <1>7, <1>13
  <2>4. HeldRuns \ {r} = HeldRuns BY <2>2
  <2>5. Cardinality(HeldRuns) < Effective.active BY <1>2, <1>13, <2>4 DEF Stands
  <2>6. reserved' = [reserved EXCEPT ![r] = Reservation(r, c.day)] BY <1>13 DEF Commit
  <2>7. CASE reserved[r] # None
    <3>1. UNCHANGED reserved BY <1>1, <2>6, <2>7 DEF Reservation, TypeOK
    <3> QED BY <1>1, <1>4, <1>11, <2>2, <2>3, <2>5, <2>7, <3>1
  <2>8. CASE reserved[r] = None
    <3>1. c.day \in Days /\ Used(c.day) + Cost <= Effective.daily
      BY <1>1, <1>2, <1>13, <2>8 DEF Stands, Admissions
    <3>2. reserved' = [reserved EXCEPT ![r] = c.day] BY <2>6, <2>8 DEF Reservation
    <3> QED BY <1>1, <1>4, <1>11, <2>2, <2>3, <2>5, <2>8, <3>1, <3>2
  <2> QED BY <2>7, <2>8
<1> QED BY <1>12, <1>13

\* While nobody holds the admission lock, the limits may change.
LEMMA LedgerLimits ==
    ASSUME TypeInv, TypeInv', LedgerInv, LowerCeiling \/ \E k \in Callers : ApplyQuota(k)
    PROVE  /\ LedgerInv' /\ HeldRuns' = HeldRuns /\ UNCHANGED reserved
           /\ Effective' \in [active : 1..Ceiling.active, daily : 1..Ceiling.daily]
<1>1. UNCHANGED <<row, reserved>> BY DEF LowerCeiling, ApplyQuota
<1>2. HeldRuns' = HeldRuns BY <1>1 DEF HeldRuns, Existent
<1>3. \A j \in Callers : call'[j].pc \notin Locking
  <2>1. CASE LowerCeiling BY <2>1 DEF LowerCeiling, Locking, Idle
  <2>2. ASSUME NEW k \in Callers, ApplyQuota(k) PROVE \A j \in Callers : call'[j].pc \notin Locking
    <3>1. PICK pc \in {"told", "refused"} : To(k, pc) BY <2>2, QuotaApplied
    <3> QED BY <2>2, <3>1, ToPc DEF TypeInv, ApplyQuota, AdmissionHeld, Locking
  <2> QED BY <2>1, <2>2
<1>4. LedgerInv' BY <1>1, <1>2, <1>3 DEF LedgerInv, HeldActive, Alone, CheckedStands, Locking
<1>5. (TypeInv => Effective \in [active : 1..Ceiling.active, daily : 1..Ceiling.daily])'
  BY LimitsInForce, PTL
<1> QED BY <1>1, <1>2, <1>4, <1>5

-----------------------------------------------------------------------------
(* Steps of EvaluationAdmission are steps of AdmissionLedger. *)

LEMMA LedgerInit ==
    Init => LedgerInv /\ Ledger!LedgerInit
<1> SUFFICES ASSUME Init PROVE LedgerInv /\ Ledger!LedgerInit OBVIOUS
<1>1. \A r \in Existent : row[r].admitted = FALSE BY DEF Init, Existent, Created
<1>2. HeldRuns = {} BY <1>1 DEF HeldRuns
<1>3. \A k \in Callers : call[k].pc = "idle" BY DEF Init, Idle
<1>4. LedgerInv BY <1>2, <1>3 DEF LedgerInv, HeldActive, Alone, CheckedStands, Locking
<1>5. Effective \in [active : 1..Ceiling.active, daily : 1..Ceiling.daily]
  BY TypeInit, EffectiveType
<1>6. reserved = [r \in Runs |-> None] BY DEF Init
<1> QED BY <1>2, <1>4, <1>5, <1>6 DEF Ledger!LedgerInit, HeldRuns

LEMMA SameCardinality ==
    ASSUME NEW S
    PROVE  Ledger!Cardinality(S) = Cardinality(S)
  BY DEF Ledger!Cardinality, Cardinality

LEMMA LedgerStep ==
    ASSUME TypeInv, TypeInv', LedgerInv, [Next]_vars
    PROVE  LedgerInv' /\ [Ledger!LedgerNext]_(Ledger!ledgerVars)
<1>1. ASSUME LedgerInv', HeldRuns' = HeldRuns, UNCHANGED <<reserved, limits>>
      PROVE  LedgerInv' /\ [Ledger!LedgerNext]_(Ledger!ledgerVars)
  <2>1. UNCHANGED Effective BY <1>1 DEF Effective, Configured, limits
  <2> QED BY <1>1, <2>1 DEF Ledger!ledgerVars, HeldRuns
<1>2. ASSUME LedgerInv', UNCHANGED <<reserved, limits>>,
             NEW r \in Runs, r \in HeldRuns, HeldRuns' = HeldRuns \ {r}
      PROVE  LedgerInv' /\ [Ledger!LedgerNext]_(Ledger!ledgerVars)
  <2>1. UNCHANGED Effective BY <1>2 DEF Effective, Configured, limits
  <2>2. Ledger!Release(r) BY <1>2, <2>1 DEF Ledger!Release, HeldRuns
  <2> QED BY <1>2, <2>2 DEF Ledger!LedgerNext
<1>3. ASSUME NEW k \in Callers,
             \/ SubmitCreation(k) \/ Insert(k) \/ Reread(k) \/ Lookup(k) \/ ReadReceipt(k)
             \/ LookupAgain(k) \/ Reserve(k) \/ CreationRoot(k)
             \/ SubmitAdmission(k) \/ FreezeStart(k) \/ FreezeResolution(k)
             \/ LockAdmission(k) \/ Check(k) \/ Leave(k) \/ SubmitQuota(k)
      PROVE  LedgerInv' /\ [Ledger!LedgerNext]_(Ledger!ledgerVars)
  BY <1>1, <1>3, QuietActions, LedgerLocks
<1>4. ASSUME NEW k \in Callers, Commit(k)
      PROVE  LedgerInv' /\ [Ledger!LedgerNext]_(Ledger!ledgerVars)
  <2>0. PICK r \in Runs : r = call[k].run BY <1>4, LedgerCommit
  <2>1. LedgerInv' /\ UNCHANGED limits BY <1>4, LedgerCommit
  <2>2. UNCHANGED Effective BY <2>1 DEF Effective, Configured, limits
  <2>3. CASE UNCHANGED reserved /\ HeldRuns' = HeldRuns BY <1>1, <2>1, <2>3
  <2>4. CASE UNCHANGED reserved /\ r \in HeldRuns /\ HeldRuns' = HeldRuns \ {r} BY <1>2, <2>1, <2>4
  <2>5. CASE /\ r \notin HeldRuns /\ HeldRuns' = HeldRuns \cup {r}
             /\ Cardinality(HeldRuns) < Effective.active
             /\ \/ reserved[r] # None /\ UNCHANGED reserved
                \/ /\ reserved[r] = None
                   /\ \E d \in Days : /\ Used(d) + Cost <= Effective.daily
                                      /\ reserved' = [reserved EXCEPT ![r] = d]
    <3>1. /\ Ledger!Cardinality(HeldRuns) = Cardinality(HeldRuns)
          /\ \A d : Ledger!Spent(d) = Used(d)
      BY SameCardinality DEF Ledger!Spent, Used
    <3>2. Ledger!Admit(r) BY <2>2, <2>5, <3>1 DEF Ledger!Admit, HeldRuns
    <3> QED BY <2>1, <3>2 DEF Ledger!LedgerNext
  <2> QED BY <1>4, <2>0, <2>3, <2>4, <2>5, LedgerCommit
<1>5. ASSUME NEW r \in Runs, Block(r) \/ Complete(r) \/ Cancel(r) \/ Drain(r) \/ RecoverContract(r)
      PROVE  LedgerInv' /\ [Ledger!LedgerNext]_(Ledger!ledgerVars)
  BY <1>1, <1>2, <1>5, LedgerChange
<1>6. CASE LowerCeiling \/ \E k \in Callers : ApplyQuota(k)
  <2>1. LedgerInv' /\ HeldRuns' = HeldRuns /\ UNCHANGED reserved
        /\ Effective' \in [active : 1..Ceiling.active, daily : 1..Ceiling.daily]
    BY <1>6, LedgerLimits
  <2>2. Ledger!ChangeLimit BY <2>1 DEF Ledger!ChangeLimit, HeldRuns
  <2> QED BY <2>1, <2>2 DEF Ledger!LedgerNext
<1>7. ASSUME UNCHANGED <<row, reserved, limits, call>>
      PROVE  LedgerInv' /\ [Ledger!LedgerNext]_(Ledger!ledgerVars)
  BY <1>1, <1>7, QuietStep
<1>8. CASE (\E r \in Runs : AbortExecution(r)) \/ Midnight \/ UNCHANGED vars
  BY <1>7, <1>8 DEF AbortExecution, Midnight, vars, limits
<1> QED BY <1>3, <1>4, <1>5, <1>6, <1>8 DEF Next

\* For every finite set of Runs and any number of hosts, calls, quotas and
\* days, the admissions implement the ledger: a Run is admitted only while
\* fewer Runs are admitted than the limit in force, pays once, and never
\* beyond the daily limit in force.
THEOREM LedgerKept == Spec => KeepsLedger
<1>1. Init => TypeInv /\ LedgerInv /\ Ledger!LedgerInit BY TypeInit, LedgerInit
<1>2. TypeInv /\ LedgerInv /\ [Next]_vars =>
         TypeInv' /\ LedgerInv' /\ [Ledger!LedgerNext]_(Ledger!ledgerVars)
  BY TypeStep, LedgerStep
<1> QED BY <1>1, <1>2, PTL DEF Spec, KeepsLedger, Ledger!LedgerSpec

-----------------------------------------------------------------------------
(* What callers and executions are told. *)

Made(req) == \E n \in 1..Len(quota) : quota[n].request = req

\* A refused quota request was not made, and cannot be any more: its identity
\* is taken, its revision is past, or its values are above the ceiling.
Refusal(req) ==
    /\ ~Made(req)
    /\ Receipts(req.id) # {} \/ req.expected < Len(quota) \/ ~WithinCeiling(Asked(req))

AnswerHolds(k) ==
    /\ call[k].pc = "told" =>
          IF call[k].op = "create"
          THEN row[call[k].run] # None /\ row[call[k].run].input = call[k].input
          ELSE Made(call[k].req)
    /\ call[k].pc = "refused" => Refusal(call[k].req)

FaithInv == CreationWitnessed /\ \A k \in Callers : AnswerHolds(k)

LEMMA FaithfulIs ==
    ASSUME TypeInv, FaithInv
    PROVE  RequestsFaithful
<1>1. AnsweredTruly
  <2> SUFFICES ASSUME NEW k \in Callers
               PROVE  LET c == call[k]
                          made == c.op = "quota" /\ \E n \in 1..Len(quota) : quota[n].request = c.req
                      IN
                      /\ c.pc = "told" =>
                            IF c.op = "create" THEN row[c.run] # None /\ row[c.run].input = c.input
                            ELSE made
                      /\ c.pc = "refused" => ~made
    BY DEF AnsweredTruly
  <2>1. call[k].pc = "told" => call[k].op \in {"create", "quota"}
    BY CallShape DEF TypeInv, Creations, Confirmations
  <2> QED BY <2>1 DEF FaithInv, AnswerHolds, Refusal, Made
<1> QED BY <1>1 DEF FaithInv, RequestsFaithful

\* A quota is only ever added, for a request not receipted yet, at the
\* current revision and within the ceiling.
Grows ==
    \/ UNCHANGED quota
    \/ \E v \in Versions :
          /\ quota' = Append(quota, v)
          /\ Receipts(v.request.id) = {} /\ v.request.expected = Len(quota)
          /\ WithinCeiling(Asked(v.request))

LEMMA MadeKept ==
    ASSUME TypeOK, Grows, NEW req, Made(req)
    PROVE  \E n \in 1..Len(quota') : quota'[n].request = req
<1>1. PICK n \in 1..Len(quota) : quota[n].request = req BY DEF Made
<1>2. n \in 1..Len(quota') /\ quota'[n] = quota[n] BY DEF TypeOK, Grows
<1> QED BY <1>1, <1>2

LEMMA RefusalKept ==
    ASSUME TypeOK, Grows, UNCHANGED ceiling, NEW k \in Callers, call'[k] = call[k],
           Refusal(call[k].req), Sound(call[k].req), call[k].req \in QuotaRequests
    PROVE  Refusal(call[k].req)'
<1> DEFINE req == call[k].req
<1>1. CASE UNCHANGED quota
  BY <1>1 DEF Refusal, Made, Receipts, WithinCeiling, Asked
<1>2. ASSUME NEW v \in Versions, quota' = Append(quota, v),
             Receipts(v.request.id) = {}, v.request.expected = Len(quota),
             WithinCeiling(Asked(v.request))
      PROVE  Refusal(req)'
  <2>1. /\ Len(quota) \in Nat /\ Len(quota') = Len(quota) + 1
        /\ quota'[Len(quota) + 1] = v /\ \A n \in 1..Len(quota) : quota'[n] = quota[n]
    BY <1>2 DEF TypeOK
  <2>2. v.request # req BY <1>2, <2>1 DEF Refusal
  <2>3. ~Made(req)'
    <3> SUFFICES ASSUME NEW n \in 1..Len(quota'), quota'[n].request = req PROVE FALSE
      BY DEF Made
    <3> QED BY <2>1, <2>2 DEF Refusal, Made
  <2>4. Receipts(req.id) # {} => Receipts(req.id)' # {} BY <2>1 DEF Receipts
  <2>5. req.expected < Len(quota) => req.expected < Len(quota') BY <2>1 DEF QuotaRequests
  <2>6. Asked(req)' = Asked(req) BY <2>1 DEF Asked, Sound, Fits
  <2>7. ~WithinCeiling(Asked(req)) => ~WithinCeiling(Asked(req))' BY <2>6 DEF WithinCeiling
  <2> QED BY <2>3, <2>4, <2>5, <2>7 DEF Refusal
<1> QED BY <1>1, <1>2 DEF Grows

LEMMA AnswerKept ==
    ASSUME TypeInv, Kept, Grows, UNCHANGED ceiling, NEW k \in Callers, AnswerHolds(k),
           call'[k] = call[k]
    PROVE  AnswerHolds(k)'
<1> USE DEF TypeInv
<1>1. CASE call[k].pc = "refused"
  <2>1. call[k].req \in QuotaRequests /\ Sound(call[k].req)
    BY <1>1, CallShape DEF RequestsSound, Confirmations
  <2> QED BY <1>1, <2>1, RefusalKept DEF AnswerHolds
<1>2. CASE call[k].pc = "told"
  <2>1. CASE call[k].op = "create"
    <3>1. call[k].run \in Runs BY <1>2, <2>1, CallShape DEF Creations, Confirmations
    <3> QED BY <1>2, <2>1, <3>1 DEF AnswerHolds, Kept
  <2>2. CASE call[k].op # "create"
    <3>1. Made(call[k].req) BY <1>2, <2>2 DEF AnswerHolds
    <3>2. Made(call[k].req)' BY <3>1, MadeKept DEF Made
    <3> QED BY <1>2, <2>2, <3>2 DEF AnswerHolds
  <2> QED BY <2>1, <2>2
<1>3. CASE call[k].pc \notin {"told", "refused"} BY <1>3 DEF AnswerHolds
<1> QED BY <1>1, <1>2, <1>3

\* A step of one caller is faithful if its own answer is.
LEMMA FaithfulStep ==
    ASSUME TypeInv, FaithInv, Kept, Grows, UNCHANGED ceiling, CreationWitnessed',
           NEW k \in Callers, \A j \in Callers \ {k} : call'[j] = call[j],
           call'[k].pc \in {"told", "refused"} => AnswerHolds(k)'
    PROVE  FaithInv'
<1> SUFFICES ASSUME NEW j \in Callers PROVE AnswerHolds(j)' BY DEF FaithInv
<1>1. CASE j = k BY <1>1 DEF AnswerHolds
<1>2. CASE j # k BY <1>2, AnswerKept DEF FaithInv
<1> QED BY <1>1, <1>2

\* A Run and its execution, once made, agree on who made the Run.
LEMMA WitnessUnchanged ==
    ASSUME CreationWitnessed, UNCHANGED <<row, exec>>
    PROVE  CreationWitnessed'
  BY DEF CreationWitnessed

LEMMA WitnessMoves ==
    ASSUME TypeOK, CreationWitnessed, UNCHANGED exec, NEW r \in Runs, MovesOn(r)
    PROVE  CreationWitnessed'
<1>1. /\ row'[r] # None /\ row[r] # None /\ row'[r].by = row[r].by
      /\ \A q \in Runs \ {r} : row'[q] = row[q]
  BY MovesOnKeeps, AdmissionAssumption DEF MovesOn
<1> QED BY <1>1 DEF CreationWitnessed

LEMMA WitnessCreation ==
    ASSUME TypeInv, CreationWitnessed, NEW k \in Callers, Insert(k) \/ Reserve(k) \/ CreationRoot(k)
    PROVE  CreationWitnessed'
<1> USE DEF TypeInv
<1>1. PICK r \in Runs : r = call[k].run /\ call[k].input \in Inputs
  BY CallShape DEF Insert, Reserve, CreationRoot, Creations
<1>2. CASE UNCHANGED <<row, exec>> BY <1>2, WitnessUnchanged
<1>3. ASSUME row[r] = None, row' = [row EXCEPT ![r] = Created(call[k].input, "direct")],
             UNCHANGED exec
      PROVE  CreationWitnessed'
  <2>1. row'[r].by = "direct" /\ \A q \in Runs \ {r} : row'[q] = row[q]
    BY <1>3 DEF TypeOK, Created
  <2> QED BY <1>3, <2>1 DEF CreationWitnessed
<1>4. ASSUME exec[r] = None, exec' = [exec EXCEPT ![r] = Execution(call[k].input)], UNCHANGED row
      PROVE  CreationWitnessed'
  <2>1. exec'[r].state = "pending" /\ \A q \in Runs \ {r} : exec'[q] = exec[q]
    BY <1>4 DEF TypeOK, Execution
  <2> QED BY <1>4, <2>1 DEF CreationWitnessed
<1>5. CASE CreationRoot(k)
  <2>1. exec[r] \in Executions /\ exec[r].state = "pending"
    BY <1>1, <1>5 DEF CreationRoot, CallsFollow, Follows, TypeOK
  <2>2. exec[r] # None BY <2>1, AdmissionAssumption
  <2>3. CASE row[r] = None
    <3>1. row'[r] = Created(call[k].input, "root") /\ \A q \in Runs \ {r} : row'[q] = row[q]
      BY <1>1, <1>5, <2>3 DEF CreationRoot, TypeOK
    <3>2. row'[r].by = "root" BY <3>1 DEF Created
    <3>3. row'[r] # None BY <1>1, <1>5, <2>3, NewRow DEF CreationRoot
    <3>4. exec'[r] = [exec[r] EXCEPT !.state = "committed"] /\ \A q \in Runs \ {r} : exec'[q] = exec[q]
      BY <1>1, <1>5, <2>3 DEF CreationRoot, TypeOK
    <3>5. exec'[r].state = "committed" /\ exec'[r] \in Executions BY <2>1, <3>4 DEF Executions
    <3>6. exec'[r] # None BY <3>5, AdmissionAssumption
    <3> QED BY <3>1, <3>2, <3>3, <3>4, <3>5, <3>6 DEF CreationWitnessed
  <2>4. CASE row[r] # None
    <3>1. UNCHANGED row /\ exec'[r] = [exec[r] EXCEPT !.state = "aborted"]
          /\ \A q \in Runs \ {r} : exec'[q] = exec[q]
      BY <1>1, <1>5, <2>4 DEF CreationRoot, TypeOK
    <3>2. exec'[r].state = "aborted" BY <2>1, <3>1 DEF Executions
    <3> QED BY <2>1, <2>2, <3>1, <3>2 DEF CreationWitnessed
  <2> QED BY <2>3, <2>4
<1>6. CASE Insert(k) BY <1>1, <1>2, <1>3, <1>6 DEF Insert
<1>7. CASE Reserve(k) BY <1>1, <1>2, <1>4, <1>7 DEF Reserve
<1> QED BY <1>5, <1>6, <1>7

LEMMA CreationTold ==
    ASSUME TypeInv, NEW k \in Callers, call[k] \in Creations, To(k, "told"),
           row'[call[k].run] # None, row'[call[k].run].input = call[k].input
    PROVE  AnswerHolds(k)'
<1>1. call'[k] = [call[k] EXCEPT !.pc = "told"] BY DEF TypeInv, TypeOK, To
<1>2. call'[k].pc = "told" /\ call'[k].op = "create" /\ call'[k].run = call[k].run
      /\ call'[k].input = call[k].input
  BY <1>1 DEF Creations
<1> QED BY <1>2 DEF AnswerHolds

\* A replay of a committed execution finds the Run it made.
LEMMA ReplayTold ==
    ASSUME TypeInv, FaithInv, NEW k \in Callers, call[k] \in Creations, exec[call[k].run] # None,
           Replayed(k), UNCHANGED row
    PROVE  call'[k].pc = "told" => AnswerHolds(k)'
<1> SUFFICES ASSUME call'[k].pc = "told" PROVE AnswerHolds(k)' OBVIOUS
<1>1. exec[call[k].run].state = "committed" /\ SameInput(k) /\ To(k, "told")
  BY EndType DEF Replayed, TypeInv, Idle
<1>2. call[k].run \in Runs BY DEF Creations
<1>3. row[call[k].run] # None BY <1>1, <1>2 DEF FaithInv, CreationWitnessed
<1> QED BY <1>1, <1>3, CreationTold DEF SameInput

LEMMA FaithfulCreations ==
    ASSUME TypeInv, FaithInv, NEW k \in Callers,
           \/ Insert(k) \/ Reread(k) \/ Lookup(k) \/ ReadReceipt(k) \/ LookupAgain(k)
           \/ Reserve(k) \/ CreationRoot(k)
    PROVE  call'[k].pc \in {"told", "refused"} => AnswerHolds(k)'
<1> USE DEF TypeInv
<1>1. call[k] \in Creations /\ call[k].run \in Runs /\ call[k].input \in Inputs
  BY CallShape DEF Insert, Reread, Lookup, ReadReceipt, LookupAgain, Reserve, CreationRoot, Creations
<1>2. ASSUME End(k) PROVE call'[k].pc \notin {"told", "refused"} BY <1>2, EndType DEF Idle
<1>3. ASSUME NEW pc \in {"duplicate", "receipt", "plan", "again", "root"}, To(k, pc)
      PROVE  call'[k].pc \notin {"told", "refused"} BY <1>3, ToPc
<1>4. ASSUME exec[call[k].run] # None, Replayed(k), UNCHANGED row
      PROVE  call'[k].pc \in {"told", "refused"} => AnswerHolds(k)'
  <2>1. call'[k].pc # "refused" BY <1>4, ToPc, EndType DEF Replayed, Idle
  <2> QED BY <1>1, <1>4, <2>1, ReplayTold
<1>5. CASE Insert(k)
  <2>1. CASE row[call[k].run] = None
    <3>1. row' = [row EXCEPT ![call[k].run] = Created(call[k].input, "direct")] /\ To(k, "told")
      BY <1>5, <2>1 DEF Insert
    <3>2. row'[call[k].run] # None /\ row'[call[k].run] = Created(call[k].input, "direct")
      BY <1>1, <2>1, <3>1, NewRow
    <3>3. row'[call[k].run].input = call[k].input BY <3>2 DEF Created
    <3> QED BY <1>1, <3>1, <3>2, <3>3, CreationTold
  <2>2. CASE row[call[k].run] # None BY <1>3, <1>5, <2>2 DEF Insert
  <2> QED BY <2>1, <2>2
<1>6. CASE CreationRoot(k)
  <2>1. CASE row[call[k].run] = None
    <3>1. row' = [row EXCEPT ![call[k].run] = Created(call[k].input, "root")] /\ To(k, "told")
      BY <1>6, <2>1 DEF CreationRoot
    <3>2. row'[call[k].run] # None /\ row'[call[k].run] = Created(call[k].input, "root")
      BY <1>1, <2>1, <3>1, NewRow
    <3>3. row'[call[k].run].input = call[k].input BY <3>2 DEF Created
    <3> QED BY <1>1, <3>1, <3>2, <3>3, CreationTold
  <2>2. CASE row[call[k].run] # None BY <1>2, <1>6, <2>2 DEF CreationRoot
  <2> QED BY <2>1, <2>2
<1>7. CASE Reread(k)
  <2>1. row[call[k].run] # None /\ UNCHANGED row BY <1>7 DEF Reread, CallsFollow, Follows
  <2>2. CASE SameInput(k)
    <3>1. To(k, "told") BY <1>7, <2>2 DEF Reread
    <3> QED BY <1>1, <2>1, <2>2, <3>1, CreationTold DEF SameInput
  <2>3. CASE ~SameInput(k) BY <1>2, <1>7, <2>3 DEF Reread
  <2> QED BY <2>2, <2>3
<1>8. CASE Lookup(k) BY <1>3, <1>4, <1>8 DEF Lookup
<1>9. CASE ReadReceipt(k) BY <1>2, <1>3, <1>9 DEF ReadReceipt
<1>10. CASE LookupAgain(k)
  <2>1. row[call[k].run] # None /\ SameInput(k) /\ UNCHANGED row
    BY <1>10 DEF LookupAgain, CallsFollow, Follows
  <2>2. CASE exec[call[k].run] = None
    <3>1. To(k, "told") BY <1>10, <2>2 DEF LookupAgain
    <3> QED BY <1>1, <2>1, <3>1, CreationTold DEF SameInput
  <2>3. CASE exec[call[k].run] # None BY <1>4, <1>10, <2>3 DEF LookupAgain
  <2> QED BY <2>2, <2>3
<1>11. CASE Reserve(k) BY <1>3, <1>4, <1>11 DEF Reserve
<1> QED BY <1>5, <1>6, <1>7, <1>8, <1>9, <1>10, <1>11

LEMMA FaithfulQuota ==
    ASSUME TypeInv, NEW k \in Callers, ApplyQuota(k)
    PROVE  Grows /\ AnswerHolds(k)'
<1> USE DEF TypeInv
<1> DEFINE req == call[k].req
           v == [values |-> Asked(req), request |-> req]
<1>1. call[k] \in Confirmations /\ req \in QuotaRequests /\ Sound(req) /\ v \in Versions
  BY QuotaApplied
<1>2. ASSUME NEW pc, To(k, pc)
      PROVE  call'[k].pc = pc /\ call'[k].op = "quota" /\ call'[k].req = req
  <2>1. call'[k] = [call[k] EXCEPT !.pc = pc] BY <1>2 DEF To, TypeOK
  <2> QED BY <1>1, <2>1 DEF Confirmations
<1>3. UNCHANGED ceiling /\ Len(quota) \in Nat /\ req.expected \in Nat /\ req.expected <= Len(quota)
  BY <1>1 DEF ApplyQuota, TypeOK, QuotaRequests, Sound, Fits
<1>4. CASE /\ To(k, "told") /\ UNCHANGED quota
           /\ \E n \in Receipts(req.id) : quota[n].request = req
  <2>1. Made(req)' BY <1>2, <1>4 DEF Made, Receipts
  <2> QED BY <1>2, <1>4, <2>1 DEF AnswerHolds, Grows
<1>5. CASE /\ To(k, "refused") /\ UNCHANGED quota
           /\ Receipts(req.id) # {} /\ \A n \in Receipts(req.id) : quota[n].request # req
  <2>1. Refusal(req)' BY <1>2, <1>5 DEF Refusal, Made, Receipts
  <2> QED BY <1>2, <1>5, <2>1 DEF AnswerHolds, Grows
<1>6. CASE /\ To(k, "told") /\ quota' = Append(quota, v)
           /\ Receipts(req.id) = {} /\ req.expected = Len(quota) /\ WithinCeiling(Asked(req))
  <2>1. Grows BY <1>1, <1>6 DEF Grows
  <2>2. Len(quota') = Len(quota) + 1 /\ quota'[Len(quota) + 1] = v BY <1>1, <1>6 DEF TypeOK
  <2>3. Made(req)' BY <1>2, <1>3, <1>6, <2>2 DEF Made
  <2> QED BY <1>2, <1>6, <2>1, <2>3 DEF AnswerHolds
<1>7. CASE /\ To(k, "refused") /\ UNCHANGED quota /\ Receipts(req.id) = {}
           /\ req.expected # Len(quota) \/ ~WithinCeiling(Asked(req))
  <2>1. ~Made(req) BY <1>7 DEF Made, Receipts
  <2>2. req.expected < Len(quota) \/ ~WithinCeiling(Asked(req)) BY <1>3, <1>7
  <2>3. Refusal(req)'
    BY <1>2, <1>3, <1>7, <2>1, <2>2 DEF Refusal, Made, Receipts, WithinCeiling, Asked
  <2> QED BY <1>2, <1>7, <2>3 DEF AnswerHolds, Grows
<1> QED BY <1>4, <1>5, <1>6, <1>7, QuotaApplied

\* What a creation does to Runs and executions.
LEMMA KeptCreation ==
    ASSUME TypeInv, NEW k \in Callers, Insert(k) \/ Reserve(k) \/ CreationRoot(k)
    PROVE  Kept
<1> USE DEF TypeInv
<1>1. call[k].run \in Runs /\ call[k].input \in Inputs
  BY CallShape DEF Insert, Reserve, CreationRoot, Creations
<1>2. \A q \in Runs : row[q] # None => row'[q] = row[q]
  BY <1>1, NewRow DEF Insert, Reserve, CreationRoot
<1>3. ASSUME NEW q \in Runs, exec[q] # None PROVE exec'[q] # None
  <2>1. CASE Insert(k) BY <1>3, <2>1 DEF Insert
  <2>2. CASE Reserve(k)
    <3>1. CASE exec[call[k].run] = None
      BY <1>1, <1>3, <2>2, <3>1 DEF Reserve, TypeOK
    <3>2. CASE exec[call[k].run] # None BY <1>3, <2>2, <3>2 DEF Reserve
    <3> QED BY <3>1, <3>2
  <2>3. CASE CreationRoot(k)
    <3>1. PICK s \in {"committed", "aborted"} : exec' = [exec EXCEPT ![call[k].run].state = s]
      BY <2>3 DEF CreationRoot
    <3>2. CASE q = call[k].run
      <4>1. exec[q] \in Executions BY <1>3 DEF TypeOK
      <4>2. exec'[q] = [exec[q] EXCEPT !.state = s] BY <3>1, <3>2 DEF TypeOK
      <4>3. exec'[q] \in Executions BY <4>1, <4>2 DEF Executions
      <4> QED BY <4>3, AdmissionAssumption
    <3>3. CASE q # call[k].run BY <1>3, <3>1, <3>3 DEF TypeOK
    <3> QED BY <3>2, <3>3
  <2> QED BY <2>1, <2>2, <2>3
<1> QED BY <1>2, <1>3 DEF Kept

LEMMA FaithInit == Init => FaithInv
<1> SUFFICES ASSUME Init PROVE FaithInv OBVIOUS
<1>1. \A k \in Callers : call[k].pc = "idle" BY DEF Init, Idle
<1>2. \A r \in Runs : row[r] # None => row[r].by = "direct" BY DEF Init, Created
<1>3. \A r \in Runs : exec[r] = None BY DEF Init
<1> QED BY <1>1, <1>2, <1>3 DEF FaithInv, CreationWitnessed, AnswerHolds

LEMMA FaithStep == TypeInv /\ FaithInv /\ [Next]_vars => FaithInv'
<1> SUFFICES ASSUME TypeInv, FaithInv, [Next]_vars PROVE FaithInv' OBVIOUS
<1> USE DEF TypeInv
<1>0. CreationWitnessed BY DEF FaithInv
<1>1. ASSUME NEW k \in Callers,
             \/ Insert(k) \/ Reread(k) \/ Lookup(k) \/ ReadReceipt(k) \/ LookupAgain(k)
             \/ Reserve(k) \/ CreationRoot(k)
      PROVE  FaithInv'
  <2>1. Kept /\ CreationWitnessed'
    <3>1. CASE Insert(k) \/ Reserve(k) \/ CreationRoot(k)
      BY <1>0, <3>1, KeptCreation, WitnessCreation
    <3>2. CASE Reread(k) \/ Lookup(k) \/ ReadReceipt(k) \/ LookupAgain(k)
      BY <1>0, <3>2, WitnessUnchanged DEF Reread, Lookup, ReadReceipt, LookupAgain, Kept
    <3> QED BY <1>1, <3>1, <3>2
  <2>2. UNCHANGED <<quota, ceiling>>
    BY <1>1 DEF Insert, Reread, Lookup, ReadReceipt, LookupAgain, Reserve, CreationRoot, limits
  <2>3. End(k) \/ \E pc : To(k, pc)
    BY <1>1 DEF Insert, Reread, Lookup, ReadReceipt, LookupAgain, Reserve, CreationRoot, Replayed
  <2>4. \A j \in Callers \ {k} : call'[j] = call[j] BY <2>3, EndType, ToPc
  <2>5. call'[k].pc \in {"told", "refused"} => AnswerHolds(k)' BY <1>1, FaithfulCreations
  <2> QED BY <2>1, <2>2, <2>4, <2>5, FaithfulStep DEF Grows
<1>2. ASSUME NEW k \in Callers,
             \/ SubmitCreation(k) \/ SubmitAdmission(k) \/ FreezeStart(k) \/ FreezeResolution(k)
             \/ LockAdmission(k) \/ Check(k) \/ Leave(k) \/ SubmitQuota(k)
      PROVE  FaithInv'
  <2>1. UNCHANGED <<row, exec, quota, ceiling>>
    BY <1>2 DEF SubmitCreation, SubmitAdmission, FreezeStart, FreezeResolution, LockAdmission, Check,
                Leave, SubmitQuota, limits
  <2>2. Kept /\ CreationWitnessed' BY <1>0, <2>1, WitnessUnchanged DEF Kept
  <2>3. /\ \A j \in Callers \ {k} : call'[j] = call[j]
        /\ call'[k].pc \notin {"told", "refused"}
    <3>1. CASE SubmitCreation(k) BY <3>1 DEF SubmitCreation, Begin, TypeOK
    <3>2. CASE SubmitQuota(k) BY <3>2 DEF SubmitQuota, Begin, TypeOK
    <3>3. CASE SubmitAdmission(k) BY <3>3 DEF SubmitAdmission, Begin, Admission, TypeOK
    <3>4. CASE FreezeStart(k)
      <4>1. PICK r \in Existent :
               Begin(k, [Admission("begun", "start", r, None) EXCEPT
                           !.frozen = Decision(Admission("begun", "start", r, None))])
        BY <3>4 DEF FreezeStart
      <4> QED BY <4>1 DEF Begin, Admission, TypeOK
    <3>5. CASE FreezeResolution(k)
      <4>1. PICK r \in Existent :
               Begin(k, [Admission("begun", "resolve", r, None) EXCEPT !.frozen = TRUE])
        BY <3>5 DEF FreezeResolution
      <4> QED BY <4>1 DEF Begin, Admission, TypeOK
    <3>6. CASE LockAdmission(k) \/ Check(k) \/ Leave(k)
      BY <3>6, ToPc, EndType DEF LockAdmission, Check, Leave, Idle
    <3> QED BY <1>2, <3>1, <3>2, <3>3, <3>4, <3>5, <3>6
  <2> QED BY <2>1, <2>2, <2>3, FaithfulStep DEF Grows
<1>3. ASSUME NEW k \in Callers, Commit(k) PROVE FaithInv'
  <2>1. PICK r \in Runs : MovesOn(r) BY <1>3, CommitMoves
  <2>2. UNCHANGED <<exec, quota, ceiling>> /\ End(k) BY <1>3 DEF Commit, limits
  <2>3. Kept /\ CreationWitnessed' BY <1>0, <2>1, <2>2, MovesOnKeeps, WitnessMoves DEF Kept
  <2>4. /\ \A j \in Callers \ {k} : call'[j] = call[j]
        /\ call'[k].pc \notin {"told", "refused"}
    BY <2>2, EndType DEF Idle
  <2> QED BY <2>2, <2>3, <2>4, FaithfulStep DEF Grows
<1>4. ASSUME NEW k \in Callers, ApplyQuota(k) PROVE FaithInv'
  <2>1. UNCHANGED <<row, exec, ceiling>> BY <1>4 DEF ApplyQuota
  <2>2. Kept /\ CreationWitnessed' BY <1>0, <2>1, WitnessUnchanged DEF Kept
  <2>3. Grows /\ AnswerHolds(k)' BY <1>4, FaithfulQuota
  <2>4. \A j \in Callers \ {k} : call'[j] = call[j]
    <3>1. PICK pc : To(k, pc) BY <1>4, QuotaApplied
    <3> QED BY <3>1, ToPc
  <2> QED BY <2>1, <2>2, <2>3, <2>4, FaithfulStep
<1>5. ASSUME Kept, CreationWitnessed', UNCHANGED <<quota, ceiling, call>> PROVE FaithInv'
  <2> SUFFICES ASSUME NEW j \in Callers PROVE AnswerHolds(j)' BY <1>5 DEF FaithInv
  <2> QED BY <1>5, AnswerKept DEF FaithInv, Grows
<1>6. ASSUME NEW r \in Runs, Block(r) \/ Complete(r) \/ Cancel(r) \/ Drain(r) \/ RecoverContract(r)
      PROVE  FaithInv'
  <2>1. MovesOn(r) BY <1>6, ChangeMoves
  <2>2. UNCHANGED <<exec, quota, ceiling, call>>
    BY <1>6 DEF Block, Complete, Cancel, Drain, RecoverContract, Change, limits
  <2>3. Kept /\ CreationWitnessed' BY <1>0, <2>1, <2>2, MovesOnKeeps, WitnessMoves DEF Kept
  <2> QED BY <1>5, <2>2, <2>3
<1>7. ASSUME NEW r \in Runs, AbortExecution(r) PROVE FaithInv'
  <2>1. exec[r] \in Executions /\ exec[r].state = "pending" /\ exec[r] # None
    BY <1>7 DEF AbortExecution, TypeOK
  <2>2. exec'[r] = [exec[r] EXCEPT !.state = "aborted"] /\ \A q \in Runs \ {r} : exec'[q] = exec[q]
    BY <1>7 DEF AbortExecution, TypeOK
  <2>3. exec'[r] \in Executions /\ exec'[r].state = "aborted" BY <2>1, <2>2 DEF Executions
  <2>4. exec'[r] # None BY <2>3, AdmissionAssumption
  <2>5. UNCHANGED <<row, quota, ceiling, call>> BY <1>7 DEF AbortExecution, limits
  <2>6. Kept BY <2>2, <2>4, <2>5 DEF Kept
  <2>7. CreationWitnessed' BY <1>0, <2>1, <2>2, <2>3, <2>5 DEF CreationWitnessed
  <2> QED BY <1>5, <2>5, <2>6, <2>7
<1>8. CASE LowerCeiling
  <2>1. CreationWitnessed' BY <1>0, <1>8, WitnessUnchanged DEF LowerCeiling
  <2>2. \A k \in Callers : call'[k].pc = "idle" BY <1>8 DEF LowerCeiling, Idle
  <2> QED BY <2>1, <2>2 DEF FaithInv, AnswerHolds
<1>9. CASE Midnight \/ UNCHANGED vars
  <2>1. UNCHANGED <<row, exec, quota, ceiling, call>> BY <1>9 DEF Midnight, vars, limits
  <2>2. Kept /\ CreationWitnessed' BY <1>0, <2>1, WitnessUnchanged DEF Kept
  <2> QED BY <1>5, <2>1, <2>2
<1> QED BY <1>1, <1>2, <1>3, <1>4, <1>6, <1>7, <1>8, <1>9 DEF Next

\* For any number of hosts and calls: whoever is told of a Run asked for
\* exactly that Run, a Run and its execution agree on who created it, and a
\* quota command that was made is never refused afterwards.
THEOREM RequestsAreFaithful == Spec => []RequestsFaithful
<1>1. Init => TypeInv /\ FaithInv BY TypeInit, FaithInit
<1>2. TypeInv /\ FaithInv /\ [Next]_vars => TypeInv' /\ FaithInv' BY TypeStep, FaithStep
<1>3. TypeInv /\ FaithInv => RequestsFaithful BY FaithfulIs
<1> QED BY <1>1, <1>2, <1>3, PTL DEF Spec

=============================================================================
