------------------------ MODULE CommandReceiverProofs ------------------------
(***************************************************************************)
(* Theorems about CommandReceiver, for every set of commands, wires and    *)
(* handlers and every value of the bounds: a key is applied once, what the *)
(* tables say of a command is true, the broker forgets a wire only when    *)
(* what became of it is durable, and decisions are final.                  *)
(***************************************************************************)
EXTENDS CommandReceiver, FiniteSetTheorems, TLAPS

-----------------------------------------------------------------------------
(* The inductive invariant.                                                 *)

\* A handler at work holds a genuine wire, only genuine wires are returned,
\* and a Session that can still be cancelled has a version to move to.
Shape ==
  /\ \A h \in Handlers : pc[h] # "idle" => wire[h] \in Genuine
  /\ returned \subseteq Genuine
  /\ session.status = "running" => session.version <= MaxVersion

TypeInv == TypeOK /\ Shape

\* The execution of a command, its Inbox row, its archive and its failure
\* ledger belong together.
Books(c) ==
  /\ exec[c].state = "none" <=> exec[c].wire = NoWire
  /\ exec[c].state # "none" => exec[c].plan.decision # "none"
  /\ exec[c].state = "committed" => inbox[c] = exec[c].plan /\ c \in archive
  /\ exec[c].state # "committed" => inbox[c] = NoPlan /\ c \notin archive
  /\ exec[c].plan.decision = "held" => attempts[c] = AttemptLimit /\ ~exec[c].plan.event
  /\ raised[c] = attempts[c]

\* A plan that may be reserved decides something, and holds only a command
\* whose attempts are used up.
Planned(h) ==
  pc[h] = "reserve" =>
    /\ plan[h].decision # "none"
    /\ plan[h].decision = "held" => attempts[Subject(h)] = AttemptLimit /\ ~plan[h].event

\* The key's first receipt, the effects and the Inbox rows tell of the same
\* changes, and of each change one row.
EffectsOnce ==
  /\ \A e \in effects : /\ e \in Nat \X Range(Key) /\ 0 < e[1] /\ e[1] <= session.version
                        /\ idempotency[e[2]] = e[1]
  /\ \A k \in Range(Key) : idempotency[k] # 0 => <<idempotency[k], k>> \in effects

ReceiptsOnce ==
  /\ \A c \in Commands : inbox[c].decision = "accepted" => <<inbox[c].sequence, Key[c]>> \in effects
  /\ \A c \in Commands : inbox[c].event => inbox[c].decision = "accepted"
  /\ \A e \in effects : \E c \in Commands : inbox[c].event /\ inbox[c].sequence = e[1]
  /\ \A c, d \in Commands :
       inbox[c].event /\ inbox[d].event /\ inbox[c].sequence = inbox[d].sequence => c = d

\* An acknowledged wire is forged and isolated, or another wire of its command
\* was reserved, or its command is committed.
Durable(w) ==
  \/ w \in Forged /\ quarantine[w] = "authentication_failed"
  \/ quarantine[w] # "none" /\ exec[CommandOf[w]].wire \notin {w, NoWire}
  \/ exec[CommandOf[w]].state = "committed"

AcksDurable ==
  /\ \A w \in Forged : quarantine[w] \in {"none", "authentication_failed"}
  /\ \A w \in acked : Durable(w)

BooksInv == \A c \in Commands : Books(c)
PlansInv == \A h \in Handlers : Planned(h)
ReceiverInv ==
  BooksInv /\ PlansInv /\ EffectsOnce /\ ReceiptsOnce /\ AcksDurable /\ DeliveredStored

-----------------------------------------------------------------------------
(* Types.                                                                   *)

Steps == {"idle", "lookup", "inbox", "plan", "reserve", "execute", "verify", "fail"}

\* What the handlers hold.
HandlersOK ==
  /\ pc \in [Handlers -> Steps]
  /\ wire \in [Handlers -> Wires \cup {NoWire}]
  /\ plan \in [Handlers -> PlanRow]
  /\ acked \subseteq Wires /\ returned \subseteq Genuine
  /\ \A h \in Handlers : pc[h] # "idle" => wire[h] \in Genuine

BusinessOK ==
  /\ session \in [version : 1 .. MaxVersion + 1, status : {"running", "completed", "cancelled"}]
  /\ session.status = "running" => session.version <= MaxVersion
  /\ idempotency \in [Range(Key) -> 0 .. MaxVersion + 1]

ExecutionsOK ==
  /\ exec \in [Commands -> [state : {"none", "prepared", "committed", "aborted"},
                            plan : PlanRow, wire : Wires \cup {NoWire}]]
  /\ inbox \in [Commands -> PlanRow]
  /\ archive \subseteq Commands

FailuresOK ==
  /\ attempts \in [Commands -> 0 .. AttemptLimit] /\ raised \in [Commands -> 0 .. AttemptLimit]
  /\ quarantine \in [Wires -> QuarantineCodes \cup {"none"}]
  /\ notices \subseteq Genuine

EventsOK ==
  /\ published \subseteq Commands /\ delivered \subseteq Commands
  /\ confirmed \in [AckIds -> [command : Commands, outcome : Outcomes] \cup {NoAck}]

LEMMA TypeParts ==
  TypeInv <=> /\ HandlersOK /\ BusinessOK /\ ExecutionsOK /\ FailuresOK /\ EventsOK
              /\ faults \in 0 .. MaxFaults
<1>1. TypeInv => /\ HandlersOK /\ BusinessOK /\ ExecutionsOK /\ FailuresOK /\ EventsOK
                 /\ faults \in 0 .. MaxFaults
  BY DEF TypeInv, TypeOK, Shape, HandlersOK, BusinessOK, ExecutionsOK, FailuresOK, EventsOK, Steps
<1>2. Genuine \subseteq Wires BY DEF Genuine
<1>3. /\ HandlersOK /\ BusinessOK /\ ExecutionsOK /\ FailuresOK /\ EventsOK
      /\ faults \in 0 .. MaxFaults
      => TypeInv
  BY <1>2 DEF TypeInv, TypeOK, Shape, HandlersOK, BusinessOK, ExecutionsOK, FailuresOK, EventsOK, Steps
<1> QED BY <1>1, <1>3

\* A working handler's wire carries a command.
LEMMA SubjectType ==
  ASSUME TypeInv, NEW h \in Handlers, pc[h] # "idle"
  PROVE  wire[h] \in Genuine /\ wire[h] \in Wires /\ Subject(h) \in Commands
  BY ReceiverAssumption DEF TypeInv, Shape, Genuine, Subject

LEMMA KeyType == \A c \in Commands : Key[c] \in Range(Key)
  BY ReceiverAssumption DEF Range

LEMMA CountUp ==
  ASSUME NEW n \in 0 .. AttemptLimit
  PROVE  /\ Min({AttemptLimit, n + 1}) \in 0 .. AttemptLimit
         /\ n = AttemptLimit => Min({AttemptLimit, n + 1}) = AttemptLimit
<1>1. PICK m \in {AttemptLimit, n + 1} : \A y \in {AttemptLimit, n + 1} : m <= y
  <2>1. CASE AttemptLimit <= n + 1 BY <2>1, ReceiverAssumption
  <2>2. CASE ~(AttemptLimit <= n + 1) BY <2>2, ReceiverAssumption
  <2> QED BY <2>1, <2>2
<1>2. /\ Min({AttemptLimit, n + 1}) \in {AttemptLimit, n + 1}
      /\ \A y \in {AttemptLimit, n + 1} : Min({AttemptLimit, n + 1}) <= y
  BY <1>1 DEF Min
<1> QED BY <1>2, ReceiverAssumption

LEMMA DecideType ==
  ASSUME TypeInv, NEW c \in Commands
  PROVE  /\ Decide(c) \in PlanRow /\ Decide(c).decision \in {"accepted", "rejected"}
         /\ Held(c) \in PlanRow
         /\ Decide(c).event =>
              /\ Decide(c).decision = "accepted" /\ Decide(c).sequence = session.version + 1
              /\ idempotency[Key[c]] = 0 /\ session.status = "running"
         /\ Decide(c).decision = "accepted" /\ ~Decide(c).event =>
              idempotency[Key[c]] # 0 /\ Decide(c).sequence = idempotency[Key[c]]
<1>1. BusinessOK BY TypeParts
<1>2. idempotency[Key[c]] \in 0 .. MaxVersion + 1 BY <1>1, KeyType DEF BusinessOK
<1>3. session.version \in 1 .. MaxVersion + 1 BY <1>1 DEF BusinessOK
<1>4. 1 \in 0 .. MaxVersion + 1 BY ReceiverAssumption
<1>5. Held(c) \in PlanRow BY <1>4 DEF Held, PlanRow, Decisions
<1>6. CASE idempotency[Key[c]] # 0
  <2>1. Decide(c) = [decision |-> "accepted", sequence |-> idempotency[Key[c]], event |-> FALSE]
    BY <1>6 DEF Decide
  <2> QED BY <1>2, <1>5, <1>6, <2>1 DEF PlanRow, Decisions
<1>7. CASE /\ idempotency[Key[c]] = 0
           /\ session.version = Expected[c] /\ session.status = "running"
  <2>1. Decide(c) = [decision |-> "accepted", sequence |-> session.version + 1, event |-> TRUE]
    BY <1>7 DEF Decide
  <2>2. session.version + 1 \in 0 .. MaxVersion + 1
    BY <1>1, <1>3, <1>7, ReceiverAssumption DEF BusinessOK
  <2> QED BY <1>5, <1>7, <2>1, <2>2 DEF PlanRow, Decisions
<1>8. CASE /\ idempotency[Key[c]] = 0
           /\ ~(session.version = Expected[c] /\ session.status = "running")
  <2>1. Decide(c) = [decision |-> "rejected", sequence |-> 1, event |-> FALSE]
    BY <1>8 DEF Decide
  <2> QED BY <1>4, <1>5, <2>1 DEF PlanRow, Decisions
<1> QED BY <1>6, <1>7, <1>8

LEMMA NoPlanType == NoPlan \in PlanRow
  BY ReceiverAssumption DEF NoPlan, PlanRow, Decisions

\* Handlers that move, isolate or let go stay well formed.
LEMMA IsolateType ==
  ASSUME HandlersOK, NEW h \in Handlers, NEW w \in Wires, NEW code, Isolate(h, w, code)
  PROVE  HandlersOK'
<1>1. /\ pc' \in [Handlers -> Steps] /\ wire' \in [Handlers -> Wires \cup {NoWire}]
      /\ plan' \in [Handlers -> PlanRow]
  BY NoPlanType DEF HandlersOK, Isolate, Steps
<1>2. acked' \subseteq Wires /\ returned' \subseteq Genuine BY DEF HandlersOK, Isolate
<1>3. \A x \in Handlers : pc'[x] # "idle" => wire'[x] \in Genuine BY DEF HandlersOK, Isolate
<1> QED BY <1>1, <1>2, <1>3 DEF HandlersOK

LEMMA GoToType ==
  ASSUME HandlersOK, NEW h \in Handlers, pc[h] # "idle", NEW step \in Steps, GoTo(h, step),
         UNCHANGED <<wire, plan, acked, returned>>
  PROVE  HandlersOK'
  BY DEF HandlersOK, GoTo

LEMMA LetGoType ==
  ASSUME HandlersOK, NEW h \in Handlers, GoTo(h, "idle"),
         wire' = [wire EXCEPT ![h] = NoWire], plan' = [plan EXCEPT ![h] = NoPlan],
         acked' \subseteq Wires, returned' \subseteq Genuine
  PROVE  HandlersOK'
  BY NoPlanType DEF HandlersOK, GoTo, Steps

LEMMA ExistingType ==
  ASSUME NEW h \in Handlers, NEW state, Existing(h, state)
  PROVE  \E step \in {"verify", "fail"} : GoTo(h, step)
  BY DEF Existing

LEMMA TypeInit == Init => TypeInv
<1> SUFFICES ASSUME Init PROVE TypeInv OBVIOUS
<1>1. HandlersOK BY NoPlanType DEF Init, HandlersOK, Steps
<1>2. BusinessOK BY ReceiverAssumption DEF Init, BusinessOK
<1>3. ExecutionsOK BY NoPlanType DEF Init, ExecutionsOK, NoExecution
<1>4. FailuresOK BY ReceiverAssumption DEF Init, FailuresOK
<1>5. EventsOK BY DEF Init, EventsOK
<1>6. faults \in 0 .. MaxFaults BY ReceiverAssumption DEF Init
<1> QED BY <1>1, <1>2, <1>3, <1>4, <1>5, <1>6, TypeParts

\* What a handler stores of a wire it isolates.
LEMMA IsolateStores ==
  ASSUME FailuresOK, NEW h \in Handlers, NEW w \in Wires, NEW code, Isolate(h, w, code),
         UNCHANGED <<attempts, raised, notices>>
  PROVE  FailuresOK'
  BY DEF FailuresOK, Isolate

LEMMA TypeStep == TypeInv /\ [Next]_vars => TypeInv'
<1> SUFFICES ASSUME TypeInv, [Next]_vars PROVE TypeInv' OBVIOUS
<1>a. /\ HandlersOK /\ BusinessOK /\ ExecutionsOK /\ FailuresOK /\ EventsOK
      /\ faults \in 0 .. MaxFaults
  BY TypeParts
<1>j. (/\ HandlersOK /\ BusinessOK /\ ExecutionsOK /\ FailuresOK /\ EventsOK
       /\ faults \in 0 .. MaxFaults)' => TypeInv'
  BY TypeParts, PTL
<1>b. ASSUME UNCHANGED tables PROVE BusinessOK' /\ ExecutionsOK' /\ FailuresOK' /\ EventsOK'
  BY <1>a, <1>b DEF tables, business, failures, events, BusinessOK, ExecutionsOK, FailuresOK, EventsOK
<1>c. ASSUME UNCHANGED handlers PROVE HandlersOK' BY <1>a, <1>c DEF handlers, HandlersOK
<1>d. ASSUME UNCHANGED faults \/ (faults < MaxFaults /\ faults' = faults + 1)
      PROVE  faults' \in 0 .. MaxFaults
  BY <1>a, <1>d, ReceiverAssumption
<1>e. ASSUME UNCHANGED business PROVE BusinessOK' BY <1>a, <1>e DEF business, BusinessOK
<1>f. ASSUME UNCHANGED failures PROVE FailuresOK' BY <1>a, <1>f DEF failures, FailuresOK
<1>g. ASSUME UNCHANGED events PROVE EventsOK' BY <1>a, <1>g DEF events, EventsOK
<1>h. ASSUME UNCHANGED <<exec, inbox, archive>> PROVE ExecutionsOK' BY <1>a, <1>h DEF ExecutionsOK
<1>i. ASSUME NEW h \in Handlers, NEW w \in Wires, NEW code, Isolate(h, w, code), NoBusiness, NoFailure
      PROVE  HandlersOK' /\ BusinessOK' /\ ExecutionsOK' /\ FailuresOK' /\ EventsOK'
  BY <1>i, <1>a, <1>e, <1>g, <1>h, IsolateType, IsolateStores DEF NoBusiness, NoFailure
<1>1. CASE OthersChange
  <2>1. BusinessOK' BY <1>1, <1>a, ReceiverAssumption DEF OthersChange, BusinessOK
  <2> QED BY <1>1, <2>1, <1>c, <1>d, <1>f, <1>g, <1>h, <1>j DEF OthersChange
<1>2. ASSUME NEW h \in Handlers, ReceiveMisrouted(h) \/ ReceiveForged(h) PROVE TypeInv'
  <2>0. PICK w \in Forged : \E code : /\ Isolate(h, w, code) /\ faults < MaxFaults
                                      /\ faults' = faults + 1 /\ NoBusiness /\ NoFailure
    BY <1>2 DEF ReceiveMisrouted, ReceiveForged
  <2>1. PICK code : /\ Isolate(h, w, code) /\ faults < MaxFaults
                    /\ faults' = faults + 1 /\ NoBusiness /\ NoFailure
    BY <2>0
  <2>2. w \in Wires BY ReceiverAssumption
  <2> QED BY <2>1, <2>2, <1>d, <1>i, <1>j
<1>3. ASSUME NEW h \in Handlers, NEW w \in Genuine, Receive(h, w) PROVE TypeInv'
  <2>1. w \in Wires BY DEF Genuine
  <2>2. HandlersOK' BY <1>3, <1>a, <2>1 DEF Receive, GoTo, HandlersOK, Steps
  <2> QED BY <1>3, <2>2, <1>b, <1>d, <1>j DEF Receive
<1>4. ASSUME NEW h \in Handlers, pc[h] # "idle", NEW step \in Steps, GoTo(h, step),
             UNCHANGED <<wire, plan, acked, returned>>, UNCHANGED tables,
             UNCHANGED faults \/ (faults < MaxFaults /\ faults' = faults + 1)
      PROVE  TypeInv'
  BY <1>4, <1>a, <1>b, <1>d, GoToType, <1>j
<1>5. ASSUME NEW h \in Handlers, Lookup(h) PROVE TypeInv'
  BY <1>4, <1>5, ExistingType DEF Lookup, Steps
<1>6. ASSUME NEW h \in Handlers, LookupConflict(h) \/ ReadInbox(h) PROVE TypeInv'
  <2>1. wire[h] \in Wires BY <1>6, SubjectType DEF LookupConflict, ReadInbox
  <2>2. \/ \E code : Isolate(h, wire[h], code) /\ NoBusiness /\ NoFailure
        \/ \E step \in {"fail", "plan"} :
             GoTo(h, step) /\ UNCHANGED <<tables, wire, plan, acked, returned>>
    BY <1>6 DEF LookupConflict, ReadInbox
  <2>3. pc[h] # "idle" /\ UNCHANGED faults BY <1>6 DEF LookupConflict, ReadInbox
  <2> QED BY <2>1, <2>2, <2>3, <1>4, <1>d, <1>i, <1>j DEF Steps
<1>7. ASSUME NEW h \in Handlers, Plan(h) PROVE TypeInv'
  <2>1. Candidate(Subject(h)) \in PlanRow
    BY <1>7, SubjectType, DecideType DEF Plan, Candidate
  <2>2. HandlersOK' BY <1>7, <1>a, <2>1 DEF Plan, GoTo, HandlersOK, Steps
  <2> QED BY <1>7, <2>2, <1>b, <1>d, <1>j DEF Plan
<1>8. ASSUME NEW h \in Handlers, Reserve(h) PROVE TypeInv'
  <2>1. PICK c \in Commands : c = Subject(h) BY <1>8, SubjectType DEF Reserve
  <2>2. pc[h] # "idle" /\ wire[h] \in Wires /\ plan[h] \in PlanRow
    BY <1>8, <1>a, SubjectType DEF Reserve, HandlersOK
  <2>3. ExecutionsOK' BY <1>8, <1>a, <2>1, <2>2 DEF Reserve, ExecutionsOK
  <2>4. \E step \in {"execute", "verify", "fail"} : GoTo(h, step)
    BY <1>8, ExistingType DEF Reserve
  <2>5. HandlersOK' BY <1>8, <1>a, <2>2, <2>4, GoToType DEF Reserve, Steps
  <2> QED BY <1>8, <2>3, <2>5, <1>d, <1>e, <1>f, <1>g, <1>j DEF Reserve
<1>9. ASSUME NEW h \in Handlers, Commit(h) PROVE TypeInv'
  <2>1. PICK c \in Commands : c = Subject(h) BY <1>9, SubjectType DEF Commit
  <2>2. ExecutionsOK' BY <1>9, <1>a, <2>1 DEF Commit, ExecutionsOK
  <2>3. BusinessOK'
    <3>1. Apply(c, Result(c)) BY <1>9, <2>1 DEF Commit
    <3>2. CASE Result(c).decision = "accepted" /\ Result(c).event
      <4>1. Result(c) = Decide(c) BY <3>2 DEF Result, Held
      <4>2. session.status = "running" BY <3>2, <4>1, DecideType
      <4>3. session.version + 1 \in 1 .. MaxVersion + 1 BY <1>a, <4>2, ReceiverAssumption DEF BusinessOK
      <4>4. /\ session' = [version |-> session.version + 1, status |-> "cancelled"]
            /\ idempotency' = [idempotency EXCEPT ![Key[c]] = session.version + 1]
        BY <3>1, <3>2 DEF Apply
      <4>5. session.version + 1 \in 0 .. MaxVersion + 1 BY <4>3
      <4> QED BY <1>a, <4>3, <4>4, <4>5 DEF BusinessOK
    <3>3. CASE ~(Result(c).decision = "accepted" /\ Result(c).event)
      BY <3>1, <3>3, <1>e DEF Apply
    <3> QED BY <3>2, <3>3
  <2>4. \E step \in {"verify", "fail"} : GoTo(h, step) BY <1>9 DEF Commit
  <2>5. HandlersOK' BY <1>9, <1>a, <2>4, GoToType DEF Commit, Steps
  <2>6. UNCHANGED faults \/ (faults < MaxFaults /\ faults' = faults + 1) BY <1>9 DEF Commit
  <2> QED BY <1>9, <2>2, <2>3, <2>5, <2>6, <1>d, <1>f, <1>g, <1>j DEF Commit
<1>10. ASSUME NEW h \in Handlers, RootRefused(h) \/ RootFails(h) PROVE TypeInv'
  <2>1. PICK c \in Commands : c = Subject(h) BY <1>10, SubjectType DEF RootRefused, RootFails
  <2>2. PICK s \in {"prepared", "aborted"} :
          exec' = [exec EXCEPT ![c].state = IF @ = "prepared" THEN s ELSE @]
    BY <1>10, <2>1 DEF RootRefused, RootFails
  <2>3. ExecutionsOK'
    <3>1. UNCHANGED <<inbox, archive>> BY <1>10 DEF RootRefused, RootFails
    <3> QED BY <1>a, <2>2, <3>1 DEF ExecutionsOK
  <2>4. HandlersOK' BY <1>10, <1>a, GoToType DEF RootRefused, RootFails, Steps
  <2> QED BY <1>10, <2>3, <2>4, <1>d, <1>e, <1>f, <1>g, <1>j DEF RootRefused, RootFails
<1>11. ASSUME NEW h \in Handlers, Verify(h) PROVE TypeInv'
  <2>1. wire[h] \in Wires /\ wire[h] \in Genuine BY <1>11, SubjectType DEF Verify
  <2>2. HandlersOK'
    <3>1. CASE GoTo(h, "fail") /\ UNCHANGED <<acked, returned, wire, plan>>
      BY <1>11, <3>1, <1>a, GoToType DEF Verify, Steps
    <3>2. CASE /\ GoTo(h, "idle")
               /\ wire' = [wire EXCEPT ![h] = NoWire] /\ plan' = [plan EXCEPT ![h] = NoPlan]
               /\ acked' = acked \cup {wire[h]} /\ returned' = returned \cup {wire[h]}
      <4>1. acked' \subseteq Wires /\ returned' \subseteq Genuine BY <3>2, <2>1, <1>a DEF HandlersOK
      <4> QED BY <3>2, <4>1, <1>a, LetGoType
    <3> QED BY <1>11, <3>1, <3>2 DEF Verify
  <2> QED BY <1>11, <2>2, <1>b, <1>d, <1>j DEF Verify
<1>12. ASSUME NEW h \in Handlers, Fail(h) PROVE TypeInv'
  <2>1. PICK c \in Commands : c = Subject(h) BY <1>12, SubjectType DEF Fail
  <2>2. wire[h] \in Wires /\ wire[h] \in Genuine BY <1>12, SubjectType DEF Fail
  <2>3. FailuresOK'
    <3>1. /\ attempts[c] \in 0 .. AttemptLimit /\ raised[c] \in 0 .. AttemptLimit
      BY <1>a DEF FailuresOK
    <3>2. /\ Min({AttemptLimit, attempts[c] + 1}) \in 0 .. AttemptLimit
          /\ Min({AttemptLimit, raised[c] + 1}) \in 0 .. AttemptLimit
      BY <3>1, CountUp
    <3>3. /\ attempts' = [attempts EXCEPT ![c] = Min({AttemptLimit, attempts[c] + 1})]
          /\ raised' = [raised EXCEPT ![c] = Min({AttemptLimit, raised[c] + 1})]
          /\ quarantine' = [quarantine EXCEPT ![wire[h]] = "handler_failed"]
          /\ UNCHANGED notices
      BY <1>12, <2>1 DEF Fail, NoBusiness
    <3> QED BY <1>a, <2>2, <3>2, <3>3 DEF FailuresOK, QuarantineCodes
  <2>4. acked' \subseteq Wires /\ returned' \subseteq Genuine
    BY <1>12, <1>a, <2>2 DEF Fail, HandlersOK
  <2>5. HandlersOK' BY <1>12, <1>a, <2>4, LetGoType DEF Fail
  <2> QED BY <1>12, <2>3, <2>5, <1>d, <1>e, <1>g, <1>h, <1>j DEF Fail, NoBusiness
<1>13. ASSUME NEW h \in Handlers, TechnicalError(h) PROVE TypeInv'
  BY <1>4, <1>13 DEF TechnicalError, Steps
<1>14. ASSUME NEW h \in Handlers, Stop(h) PROVE TypeInv'
  <2>1. HandlersOK' BY <1>14, <1>a, LetGoType DEF Stop, HandlersOK
  <2> QED BY <1>14, <2>1, <1>b, <1>d, <1>j DEF Stop
<1>15. ASSUME NEW c \in Commands, ExpirePreparation(c) PROVE TypeInv'
  <2>1. ExecutionsOK' BY <1>15, <1>a DEF ExpirePreparation, ExecutionsOK
  <2>2. UNCHANGED faults \/ (faults < MaxFaults /\ faults' = faults + 1)
    BY <1>15 DEF ExpirePreparation
  <2> QED BY <1>15, <2>1, <2>2, <1>c, <1>d, <1>e, <1>f, <1>g, <1>j DEF ExpirePreparation
<1>16. ASSUME NEW c \in Commands, Publish(c) PROVE TypeInv'
  <2>1. EventsOK' BY <1>16, <1>a DEF Publish, EventsOK
  <2> QED BY <1>16, <2>1, <1>c, <1>d, <1>e, <1>f, <1>h, <1>j DEF Publish
<1>17. ASSUME NEW w \in Wires, PhysicalFailure(w) PROVE TypeInv'
  <2>1. FailuresOK' BY <1>17, <1>a DEF PhysicalFailure, FailuresOK, HandlersOK
  <2> QED BY <1>17, <2>1, <1>c, <1>d, <1>e, <1>g, <1>h, <1>j DEF PhysicalFailure
<1>18. ASSUME NEW i \in AckIds, NEW c \in Acknowledged, NEW o \in Outcomes, ReceiveAck(i, c, o)
       PROVE  TypeInv'
  <2>1. c \in Commands BY <1>18, <1>a DEF ReceiveAck, EventsOK
  <2>2. EventsOK' BY <1>18, <1>a, <2>1 DEF ReceiveAck, EventsOK
  <2> QED BY <1>18, <2>2, <1>c, <1>d, <1>e, <1>f, <1>h, <1>j DEF ReceiveAck
<1>19. CASE UNCHANGED vars BY <1>19, <1>b, <1>c, <1>d, <1>j DEF vars
<1> QED
  BY <1>1, <1>2, <1>3, <1>5, <1>6, <1>7, <1>8, <1>9, <1>10, <1>11, <1>12, <1>13, <1>14, <1>15,
     <1>16, <1>17, <1>18, <1>19
  DEF Next

-----------------------------------------------------------------------------
(* Which steps write what is known of a command.                            *)

Quiet ==
  /\ UNCHANGED <<exec, inbox, archive, attempts, raised, idempotency, effects>>
  /\ session'.version >= session.version

\* What the root has checked: the plan is exactly what the business now says.
LEMMA RootPlan ==
  ASSUME TypeInv, NEW c \in Commands, RootAccepts(c)
  PROVE  /\ exec[c].state = "prepared" /\ inbox[c].decision = "none"
         /\ exec[c].plan = Result(c) /\ Result(c) \in PlanRow
<1>1. Result(c) \in PlanRow BY DecideType DEF Result
<1>2. exec[c].plan \in PlanRow BY TypeParts DEF ExecutionsOK
<1>3. /\ exec[c].plan.decision = Result(c).decision
      /\ exec[c].plan.sequence = Result(c).sequence
      /\ exec[c].plan.event = Result(c).event
  BY DEF RootAccepts, SameReceipt, Transcribed
<1>4. exec[c].plan = Result(c) BY <1>1, <1>2, <1>3 DEF PlanRow
<1> QED BY <1>1, <1>4 DEF RootAccepts

LEMMA Kinds ==
  ASSUME TypeInv, [Next]_vars
  PROVE  \/ \E h \in Handlers : \/ Reserve(h) \/ Commit(h) \/ RootRefused(h)
                                \/ RootFails(h) \/ Fail(h)
         \/ \E c \in Commands : ExpirePreparation(c)
         \/ Quiet
<1>0. session.version \in Nat BY TypeParts, ReceiverAssumption DEF BusinessOK
<1>1. ASSUME UNCHANGED tables PROVE Quiet
  BY <1>0, <1>1 DEF tables, business, failures, Quiet
<1>2. CASE OthersChange BY <1>0, <1>2 DEF OthersChange, failures, Quiet
<1>3. ASSUME NoBusiness, NoFailure PROVE Quiet
  BY <1>0, <1>3 DEF NoBusiness, NoFailure, business, Quiet
<1>4. ASSUME NEW h \in Handlers,
             \/ ReceiveMisrouted(h) \/ ReceiveForged(h) \/ LookupConflict(h) \/ ReadInbox(h)
      PROVE  Quiet
  BY <1>1, <1>3, <1>4 DEF ReceiveMisrouted, ReceiveForged, LookupConflict, ReadInbox
<1>5. ASSUME NEW h \in Handlers,
             \/ \E w \in Genuine : Receive(h, w)
             \/ Lookup(h) \/ Plan(h) \/ Verify(h) \/ TechnicalError(h) \/ Stop(h)
      PROVE  Quiet
  BY <1>1, <1>5 DEF Receive, Lookup, Plan, Verify, TechnicalError, Stop
<1>6. ASSUME NEW c \in Commands, Publish(c) PROVE Quiet
  BY <1>0, <1>6 DEF Publish, business, failures, Quiet
<1>7. ASSUME NEW w \in Wires, PhysicalFailure(w) PROVE Quiet
  BY <1>0, <1>7 DEF PhysicalFailure, business, Quiet
<1>8. ASSUME NEW i \in AckIds, NEW c \in Acknowledged, NEW o \in Outcomes, ReceiveAck(i, c, o)
      PROVE  Quiet
  BY <1>0, <1>8 DEF ReceiveAck, business, failures, Quiet
<1>9. CASE UNCHANGED vars BY <1>1, <1>9 DEF vars
<1> QED BY <1>2, <1>4, <1>5, <1>6, <1>7, <1>8, <1>9 DEF Next

\* Failures are counted up to the limit, for both ledgers alike.
LEMMA FailCounts ==
  ASSUME TypeInv, BooksInv, NEW h \in Handlers, Fail(h)
  PROVE  /\ \A c \in Commands : attempts[c] = AttemptLimit => attempts'[c] = AttemptLimit
         /\ \A c \in Commands : raised'[c] = attempts'[c]
         /\ UNCHANGED <<business, exec, inbox, archive, events>>
<1>1. PICK c \in Commands : c = Subject(h) BY SubjectType DEF Fail
<1>2. /\ attempts[c] \in 0 .. AttemptLimit /\ raised[c] = attempts[c]
      /\ \A d \in Commands : raised[d] = attempts[d]
  BY TypeParts DEF FailuresOK, BooksInv, Books
<1>3. /\ attempts' = [attempts EXCEPT ![c] = Min({AttemptLimit, attempts[c] + 1})]
      /\ raised' = [raised EXCEPT ![c] = Min({AttemptLimit, raised[c] + 1})]
  BY <1>1 DEF Fail
<1>4. attempts \in [Commands -> 0 .. AttemptLimit] /\ raised \in [Commands -> 0 .. AttemptLimit]
  BY TypeParts DEF FailuresOK
<1>5. attempts[c] = AttemptLimit => Min({AttemptLimit, attempts[c] + 1}) = AttemptLimit
  BY <1>2, CountUp
<1>6. UNCHANGED <<business, exec, inbox, archive, events>> BY DEF Fail, NoBusiness
<1>7. \A d \in Commands : d # c => attempts'[d] = attempts[d] /\ raised'[d] = raised[d]
  BY <1>3, <1>4
<1>8. attempts'[c] = Min({AttemptLimit, attempts[c] + 1}) /\ raised'[c] = attempts'[c]
  BY <1>2, <1>3, <1>4
<1> QED BY <1>2, <1>5, <1>6, <1>7, <1>8

\* An execution that was not committed is given up.
LEMMA GivenUp ==
  ASSUME TypeInv, NEW c \in Commands, NEW s \in {"prepared", "aborted"},
         exec' = [exec EXCEPT ![c].state = IF @ = "prepared" THEN s ELSE @]
  PROVE  \A d \in Commands :
           /\ exec'[d].plan = exec[d].plan /\ exec'[d].wire = exec[d].wire
           /\ exec'[d].state = exec[d].state \/ (exec[d].state = "prepared" /\ exec'[d].state = s)
  BY TypeParts DEF ExecutionsOK

\* How an execution may be given up: by the root that refuses or fails, or by
\* the aborter.
GivesUp ==
  \/ \E h \in Handlers : RootRefused(h) \/ RootFails(h)
  \/ \E c \in Commands : ExpirePreparation(c)

LEMMA GivesUpExec ==
  ASSUME TypeInv, GivesUp
  PROVE  /\ \A d \in Commands :
              /\ exec'[d].plan = exec[d].plan /\ exec'[d].wire = exec[d].wire
              /\ \/ exec'[d].state = exec[d].state
                 \/ exec[d].state = "prepared" /\ exec'[d].state \in {"prepared", "aborted"}
         /\ UNCHANGED <<business, failures, events, inbox, archive, acked, returned, plan, wire>>
         /\ \A x \in Handlers : pc'[x] = "reserve" => pc[x] = "reserve"
<1>0. pc \in [Handlers -> Steps] BY TypeParts DEF HandlersOK
<1>1. ASSUME NEW h \in Handlers, RootRefused(h) \/ RootFails(h)
      PROVE  \E c \in Commands, s \in {"prepared", "aborted"} :
               exec' = [exec EXCEPT ![c].state = IF @ = "prepared" THEN s ELSE @]
  BY <1>1, SubjectType DEF RootRefused, RootFails
<1>2. ASSUME NEW c \in Commands, ExpirePreparation(c)
      PROVE  exec' = [exec EXCEPT ![c].state = IF @ = "prepared" THEN "aborted" ELSE @]
  BY <1>2, TypeParts DEF ExpirePreparation, ExecutionsOK
<1>3. PICK c \in Commands, s \in {"prepared", "aborted"} :
        exec' = [exec EXCEPT ![c].state = IF @ = "prepared" THEN s ELSE @]
  BY <1>1, <1>2 DEF GivesUp
<1>4. /\ UNCHANGED <<business, failures, events, inbox, archive, acked, returned, plan, wire>>
      /\ \A x \in Handlers : pc'[x] = "reserve" => pc[x] = "reserve"
  BY <1>0 DEF GivesUp, RootRefused, RootFails, ExpirePreparation, handlers, GoTo
<1> QED BY <1>3, <1>4, GivenUp

LEMMA BooksStep == TypeInv /\ BooksInv /\ PlansInv /\ [Next]_vars => BooksInv'
<1> SUFFICES ASSUME TypeInv, BooksInv, PlansInv, [Next]_vars PROVE BooksInv' OBVIOUS
<1>1. CASE Quiet BY <1>1 DEF Quiet, BooksInv, Books
<1>2. CASE GivesUp
  <2> SUFFICES ASSUME NEW c \in Commands PROVE Books(c)' BY DEF BooksInv
  <2>1. Books(c) BY DEF BooksInv
  <2> QED BY <1>2, <2>1, GivesUpExec DEF Books, failures
<1>3. ASSUME NEW h \in Handlers, Fail(h) PROVE BooksInv'
  BY <1>3, FailCounts DEF BooksInv, Books
<1>4. ASSUME NEW h \in Handlers, Reserve(h) PROVE BooksInv'
  <2>1. PICK c \in Commands : c = Subject(h) BY <1>4, SubjectType DEF Reserve
  <2>2. UNCHANGED <<inbox, archive, attempts, raised>> BY <1>4 DEF Reserve, failures
  <2>3. CASE Reservable(c)
    <3>1. exec' = [exec EXCEPT ![c] = [state |-> "prepared", plan |-> plan[h], wire |-> wire[h]]]
      BY <1>4, <2>1, <2>3 DEF Reserve
    <3>2. /\ exec'[c] = [state |-> "prepared", plan |-> plan[h], wire |-> wire[h]]
          /\ \A d \in Commands : d # c => exec'[d] = exec[d]
      BY <3>1, TypeParts DEF ExecutionsOK
    <3>3. wire[h] # NoWire BY <1>4, SubjectType, ReceiverAssumption DEF Reserve
    <3>4. /\ plan[h].decision # "none"
          /\ plan[h].decision = "held" => attempts[c] = AttemptLimit /\ ~plan[h].event
      BY <1>4, <2>1 DEF Reserve, PlansInv, Planned
    <3>5. Books(c)' BY <2>2, <2>3, <3>2, <3>3, <3>4 DEF BooksInv, Books, Reservable
    <3> QED BY <2>2, <3>2, <3>5 DEF BooksInv, Books
  <2>4. CASE ~Reservable(c)
    <3>1. UNCHANGED exec BY <1>4, <2>1, <2>4 DEF Reserve
    <3> QED BY <2>2, <3>1 DEF BooksInv, Books
  <2> QED BY <2>3, <2>4
<1>5. ASSUME NEW h \in Handlers, Commit(h) PROVE BooksInv'
  <2>1. PICK c \in Commands : c = Subject(h) BY <1>5, SubjectType DEF Commit
  <2>2. /\ inbox' = [inbox EXCEPT ![c] = exec[c].plan]
        /\ archive' = archive \cup {c} /\ exec' = [exec EXCEPT ![c].state = "committed"]
        /\ exec[c].state = "prepared" /\ UNCHANGED <<attempts, raised>>
    BY <1>5, <2>1 DEF Commit, RootAccepts, failures
  <2>3. /\ inbox'[c] = exec[c].plan /\ exec'[c].state = "committed"
        /\ exec'[c].plan = exec[c].plan /\ exec'[c].wire = exec[c].wire
        /\ \A d \in Commands : d # c => exec'[d] = exec[d] /\ inbox'[d] = inbox[d]
    BY <2>2, TypeParts DEF ExecutionsOK
  <2>4. Books(c)' BY <2>2, <2>3 DEF BooksInv, Books
  <2>5. \A d \in Commands : d # c => (d \in archive' <=> d \in archive) BY <2>2
  <2> QED BY <2>2, <2>3, <2>4, <2>5 DEF BooksInv, Books
<1> QED BY <1>1, <1>2, <1>3, <1>4, <1>5, Kinds DEF GivesUp

-----------------------------------------------------------------------------
(* Plans.                                                                   *)

LEMMA CandidatePlan ==
  ASSUME TypeInv, NEW c \in Commands
  PROVE  /\ Candidate(c).decision # "none"
         /\ Candidate(c).decision = "held" => attempts[c] = AttemptLimit /\ ~Candidate(c).event
<1>1. attempts[c] \in 0 .. AttemptLimit BY TypeParts DEF FailuresOK
<1>2. CASE attempts[c] >= AttemptLimit
  <2>1. Candidate(c) = Held(c) BY <1>2 DEF Candidate
  <2> QED BY <1>1, <1>2, <2>1, ReceiverAssumption DEF Held
<1>3. CASE ~(attempts[c] >= AttemptLimit)
  <2>1. Candidate(c) = Decide(c) BY <1>3 DEF Candidate
  <2> QED BY <2>1, DecideType
<1> QED BY <1>2, <1>3

LEMMA PlansKept ==
  ASSUME TypeInv, PlansInv,
         \A h \in Handlers : pc'[h] = "reserve" =>
           pc[h] = "reserve" /\ plan'[h] = plan[h] /\ wire'[h] = wire[h],
         \A c \in Commands : attempts[c] = AttemptLimit => attempts'[c] = AttemptLimit
  PROVE  PlansInv'
<1> SUFFICES ASSUME NEW h \in Handlers, pc'[h] = "reserve" PROVE Planned(h)'
  BY DEF PlansInv, Planned
<1>1. pc[h] = "reserve" /\ plan'[h] = plan[h] /\ wire'[h] = wire[h] OBVIOUS
<1>2. Subject(h)' = Subject(h) /\ Subject(h) \in Commands BY <1>1, SubjectType DEF Subject
<1>3. Planned(h) BY DEF PlansInv
<1> QED BY <1>1, <1>2, <1>3 DEF Planned

LEMMA PlansStep == TypeInv /\ BooksInv /\ PlansInv /\ [Next]_vars => PlansInv'
<1> SUFFICES ASSUME TypeInv, BooksInv, PlansInv, [Next]_vars PROVE PlansInv' OBVIOUS
<1>0. /\ pc \in [Handlers -> Steps] /\ wire \in [Handlers -> Wires \cup {NoWire}]
      /\ plan \in [Handlers -> PlanRow]
  BY TypeParts DEF HandlersOK
<1>1. ASSUME NEW h \in Handlers, NEW step, step # "reserve", GoTo(h, step), UNCHANGED attempts,
             \A x \in Handlers : x # h => wire'[x] = wire[x] /\ plan'[x] = plan[x]
      PROVE  PlansInv'
  <2>1. \A x \in Handlers : pc'[x] = "reserve" =>
          pc[x] = "reserve" /\ plan'[x] = plan[x] /\ wire'[x] = wire[x]
    BY <1>0, <1>1 DEF GoTo
  <2> QED BY <1>1, <2>1, PlansKept
<1>2. ASSUME NEW h \in Handlers, NEW w, NEW code, Isolate(h, w, code), NoFailure PROVE PlansInv'
  <2>1. \A x \in Handlers : x # h => wire'[x] = wire[x] /\ plan'[x] = plan[x]
    BY <1>0, <1>2 DEF Isolate
  <2>2. GoTo(h, "idle") /\ UNCHANGED attempts BY <1>2 DEF Isolate, GoTo, NoFailure
  <2> QED BY <2>1, <2>2, <1>1
<1>3. ASSUME UNCHANGED <<pc, wire, plan, attempts>> PROVE PlansInv' BY <1>3, PlansKept
<1>4. ASSUME NEW h \in Handlers, ReceiveMisrouted(h) \/ ReceiveForged(h) PROVE PlansInv'
  BY <1>2, <1>4 DEF ReceiveMisrouted, ReceiveForged
<1>5. ASSUME NEW h \in Handlers, LookupConflict(h) \/ ReadInbox(h) PROVE PlansInv'
  BY <1>1, <1>2, <1>5 DEF LookupConflict, ReadInbox, tables, failures
<1>6. ASSUME NEW h \in Handlers, (\E w \in Genuine : Receive(h, w)) \/ Lookup(h) PROVE PlansInv'
  <2>1. \E step \in {"lookup", "inbox", "verify", "fail"} : GoTo(h, step)
    BY <1>6, ExistingType DEF Receive, Lookup
  <2>2. \A x \in Handlers : x # h => wire'[x] = wire[x] /\ plan'[x] = plan[x]
    BY <1>0, <1>6 DEF Receive, Lookup
  <2>3. UNCHANGED attempts BY <1>6 DEF Receive, Lookup, tables, failures
  <2> QED BY <1>1, <2>1, <2>2, <2>3
<1>7. ASSUME NEW h \in Handlers, Plan(h) PROVE PlansInv'
  <2>1. Subject(h) \in Commands BY <1>7, SubjectType DEF Plan
  <2>2. /\ plan'[h] = Candidate(Subject(h)) /\ UNCHANGED <<wire, attempts>>
        /\ \A x \in Handlers : x # h => plan'[x] = plan[x] /\ pc'[x] = pc[x]
    BY <1>0, <1>7 DEF Plan, GoTo, tables, failures
  <2>3. Planned(h)' BY <2>1, <2>2, CandidatePlan DEF Planned, Subject
  <2>4. ASSUME NEW x \in Handlers, x # h PROVE Planned(x)'
    <3>1. Planned(x) BY DEF PlansInv
    <3> QED BY <2>2, <2>4, <3>1 DEF Planned, Subject
  <2> QED BY <2>3, <2>4 DEF PlansInv
<1>8. ASSUME NEW h \in Handlers, Reserve(h) PROVE PlansInv'
  <2>1. \E step \in {"execute", "verify", "fail"} : GoTo(h, step)
    BY <1>8, ExistingType DEF Reserve
  <2> QED BY <1>1, <1>8, <2>1 DEF Reserve, failures
<1>9. ASSUME NEW h \in Handlers, Commit(h) \/ RootRefused(h) \/ RootFails(h) \/ TechnicalError(h)
      PROVE  PlansInv'
  BY <1>1, <1>9 DEF Commit, RootRefused, RootFails, TechnicalError, tables, failures
<1>10. ASSUME NEW h \in Handlers, Verify(h) \/ Stop(h) PROVE PlansInv'
  <2>1. \E step \in {"idle", "fail"} : GoTo(h, step) BY <1>10 DEF Verify, Stop
  <2>2. \A x \in Handlers : x # h => wire'[x] = wire[x] /\ plan'[x] = plan[x]
    BY <1>0, <1>10 DEF Verify, Stop
  <2>3. UNCHANGED attempts BY <1>10 DEF Verify, Stop, tables, failures
  <2> QED BY <1>1, <2>1, <2>2, <2>3
<1>11. ASSUME NEW h \in Handlers, Fail(h) PROVE PlansInv'
  <2>1. \A x \in Handlers : pc'[x] = "reserve" =>
          pc[x] = "reserve" /\ plan'[x] = plan[x] /\ wire'[x] = wire[x]
    BY <1>0, <1>11 DEF Fail, GoTo
  <2> QED BY <1>11, <2>1, FailCounts, PlansKept
<1>12. CASE \/ OthersChange
            \/ \E c \in Commands : ExpirePreparation(c) \/ Publish(c)
            \/ \E w \in Wires : PhysicalFailure(w)
            \/ \E i \in AckIds, c \in Acknowledged, o \in Outcomes : ReceiveAck(i, c, o)
            \/ UNCHANGED vars
  BY <1>3, <1>12 DEF OthersChange, ExpirePreparation, Publish, PhysicalFailure, ReceiveAck,
                     handlers, failures, vars, tables
<1> QED
  BY <1>4, <1>5, <1>6, <1>7, <1>8, <1>9, <1>10, <1>11, <1>12 DEF Next

-----------------------------------------------------------------------------
(* Effects and receipts.                                                    *)

\* A commit that changes the Session writes the first receipt of its key.
LEMMA CommitApplies ==
  ASSUME TypeInv, NEW h \in Handlers, NEW c \in Commands, c = Subject(h), Commit(h)
  PROVE  /\ inbox'[c] = Result(c) /\ \A d \in Commands : d # c => inbox'[d] = inbox[d]
         /\ inbox[c].decision = "none"
         /\ \/ /\ Result(c).event /\ Result(c).decision = "accepted"
               /\ Result(c).sequence = session.version + 1 /\ idempotency[Key[c]] = 0
               /\ session'.version = session.version + 1
               /\ idempotency' = [idempotency EXCEPT ![Key[c]] = session.version + 1]
               /\ effects' = effects \cup {<<session.version + 1, Key[c]>>}
            \/ /\ ~Result(c).event /\ UNCHANGED business
               /\ Result(c).decision = "accepted" =>
                    /\ idempotency[Key[c]] # 0 /\ Result(c).sequence = idempotency[Key[c]]
<1>1. RootAccepts(c) /\ Apply(c, Result(c)) BY DEF Commit
<1>2. /\ exec[c].plan = Result(c) /\ Result(c) \in PlanRow /\ inbox[c].decision = "none"
  BY <1>1, RootPlan
<1>3. inbox' = [inbox EXCEPT ![c] = exec[c].plan] /\ inbox \in [Commands -> PlanRow]
  BY TypeParts DEF Commit, ExecutionsOK
<1>4. inbox'[c] = Result(c) /\ \A d \in Commands : d # c => inbox'[d] = inbox[d] BY <1>2, <1>3
<1>5. CASE exec[c].plan.decision = "held"
  <2>1. Result(c) = Held(c) BY <1>5 DEF Result
  <2>2. ~Result(c).event /\ Result(c).decision = "held" BY <2>1 DEF Held
  <2> QED BY <1>1, <1>2, <1>4, <2>2 DEF Apply
<1>6. CASE exec[c].plan.decision # "held"
  <2>1. Result(c) = Decide(c) BY <1>6 DEF Result
  <2>2. CASE Result(c).event
    <3>1. /\ Result(c).decision = "accepted" /\ Result(c).sequence = session.version + 1
          /\ idempotency[Key[c]] = 0
      BY <2>1, <2>2, DecideType
    <3> QED BY <1>1, <1>2, <1>4, <2>2, <3>1 DEF Apply
  <2>3. CASE ~Result(c).event
    <3>1. Result(c).decision = "accepted" =>
            idempotency[Key[c]] # 0 /\ Result(c).sequence = idempotency[Key[c]]
      BY <2>1, <2>3, DecideType
    <3> QED BY <1>1, <1>2, <1>4, <2>3, <3>1 DEF Apply
  <2> QED BY <2>2, <2>3
<1> QED BY <1>5, <1>6

LEMMA EffectsStep == TypeInv /\ BooksInv /\ EffectsOnce /\ [Next]_vars => EffectsOnce'
<1> SUFFICES ASSUME TypeInv, BooksInv, EffectsOnce, [Next]_vars PROVE EffectsOnce' OBVIOUS
<1>0. /\ session.version \in Nat /\ idempotency \in [Range(Key) -> 0 .. MaxVersion + 1]
      /\ \A e \in effects : e[1] \in Nat /\ e[2] \in Range(Key) /\ e = <<e[1], e[2]>>
  BY TypeParts, ReceiverAssumption DEF BusinessOK, EffectsOnce
<1>1. ASSUME UNCHANGED business PROVE EffectsOnce' BY <1>1 DEF business, EffectsOnce
<1>2. CASE Quiet
  <2>1. UNCHANGED <<effects, idempotency>> /\ session'.version >= session.version
    BY <1>2 DEF Quiet
  <2>2. session'.version \in Nat
    <3>1. TypeInv' BY TypeStep
    <3>2. BusinessOK' BY <3>1, TypeParts, PTL
    <3> QED BY <3>2, ReceiverAssumption DEF BusinessOK
  <2>3. \A e \in effects : e[1] <= session'.version BY <1>0, <2>1, <2>2 DEF EffectsOnce
  <2> QED BY <2>1, <2>3 DEF EffectsOnce
<1>3. CASE GivesUp BY <1>1, <1>3, GivesUpExec
<1>4. ASSUME NEW h \in Handlers, Fail(h) \/ Reserve(h) PROVE EffectsOnce'
  BY <1>1, <1>4 DEF Fail, NoBusiness, Reserve
<1>5. ASSUME NEW h \in Handlers, Commit(h) PROVE EffectsOnce'
  <2>1. PICK c \in Commands : c = Subject(h) BY <1>5, SubjectType DEF Commit
  <2>2. Key[c] \in Range(Key) BY KeyType
  <2>3. CASE UNCHANGED business BY <1>1, <2>3
  <2>4. CASE /\ idempotency[Key[c]] = 0 /\ session'.version = session.version + 1
             /\ idempotency' = [idempotency EXCEPT ![Key[c]] = session.version + 1]
             /\ effects' = effects \cup {<<session.version + 1, Key[c]>>}
    <3>1. \A e \in effects : e[2] # Key[c] BY <2>4 DEF EffectsOnce
    <3>2. /\ idempotency'[Key[c]] = session.version + 1
          /\ \A k \in Range(Key) : k # Key[c] => idempotency'[k] = idempotency[k]
      BY <1>0, <2>2, <2>4
    <3>3. ASSUME NEW e \in effects'
          PROVE  /\ e \in Nat \X Range(Key) /\ 0 < e[1] /\ e[1] <= session'.version
                 /\ idempotency'[e[2]] = e[1]
      <4>1. CASE e \in effects
        <5>1. e[1] <= session.version BY <4>1 DEF EffectsOnce
        <5> QED BY <1>0, <2>4, <3>1, <3>2, <4>1, <5>1 DEF EffectsOnce
      <4>2. CASE e = <<session.version + 1, Key[c]>>
        BY <1>0, <2>2, <2>4, <3>2, <4>2
      <4> QED BY <2>4, <4>1, <4>2
    <3>4. ASSUME NEW k \in Range(Key), idempotency'[k] # 0
          PROVE  <<idempotency'[k], k>> \in effects'
      <4>1. CASE k = Key[c] BY <2>4, <3>2, <4>1
      <4>2. CASE k # Key[c] BY <2>4, <3>2, <3>4, <4>2 DEF EffectsOnce
      <4> QED BY <4>1, <4>2
    <3> QED BY <3>3, <3>4 DEF EffectsOnce
  <2> QED BY <1>5, <2>1, <2>3, <2>4, CommitApplies
<1> QED BY <1>2, <1>3, <1>4, <1>5, Kinds DEF GivesUp

LEMMA ReceiptsStep ==
  TypeInv /\ BooksInv /\ EffectsOnce /\ ReceiptsOnce /\ [Next]_vars => ReceiptsOnce'
<1> SUFFICES ASSUME TypeInv, BooksInv, EffectsOnce, ReceiptsOnce, [Next]_vars PROVE ReceiptsOnce'
  OBVIOUS
<1>1. ASSUME UNCHANGED <<inbox, effects>> PROVE ReceiptsOnce' BY <1>1 DEF ReceiptsOnce
<1>2. CASE Quiet BY <1>1, <1>2 DEF Quiet
<1>3. CASE GivesUp BY <1>1, <1>3, GivesUpExec DEF business
<1>4. ASSUME NEW h \in Handlers, Fail(h) \/ Reserve(h) PROVE ReceiptsOnce'
  BY <1>1, <1>4 DEF Fail, NoBusiness, Reserve, business
<1>5. ASSUME NEW h \in Handlers, Commit(h) PROVE ReceiptsOnce'
  <2>1. PICK c \in Commands : c = Subject(h) BY <1>5, SubjectType DEF Commit
  <2>2. /\ inbox'[c] = Result(c) /\ \A d \in Commands : d # c => inbox'[d] = inbox[d]
        /\ inbox[c].decision = "none"
    BY <1>5, <2>1, CommitApplies
  <2>3. ~inbox[c].event BY <2>2 DEF ReceiptsOnce
  <2>4. CASE /\ Result(c).event /\ Result(c).decision = "accepted"
             /\ Result(c).sequence = session.version + 1
             /\ effects' = effects \cup {<<session.version + 1, Key[c]>>}
    <3>0. session.version \in Nat BY TypeParts, ReceiverAssumption DEF BusinessOK
    <3>1. ASSUME NEW d \in Commands, d # c, inbox'[d].event
          PROVE  inbox'[d].sequence # inbox'[c].sequence
      <4>1. <<inbox[d].sequence, Key[d]>> \in effects BY <2>2, <3>1 DEF ReceiptsOnce
      <4>2. inbox[d].sequence <= session.version BY <4>1 DEF EffectsOnce
      <4> QED BY <2>2, <2>4, <3>0, <3>1, <4>2
    <3>2. \A d \in Commands : inbox'[d].decision = "accepted" =>
            <<inbox'[d].sequence, Key[d]>> \in effects'
      BY <2>2, <2>4 DEF ReceiptsOnce
    <3>3. \A d \in Commands : inbox'[d].event => inbox'[d].decision = "accepted"
      BY <2>2, <2>4 DEF ReceiptsOnce
    <3>4. \A e \in effects' : \E d \in Commands : inbox'[d].event /\ inbox'[d].sequence = e[1]
      <4> SUFFICES ASSUME NEW e \in effects'
                   PROVE  \E d \in Commands : inbox'[d].event /\ inbox'[d].sequence = e[1]
        OBVIOUS
      <4>1. CASE e \in effects
        <5>1. PICK d \in Commands : inbox[d].event /\ inbox[d].sequence = e[1]
          BY <4>1 DEF ReceiptsOnce
        <5>2. d # c BY <2>3, <5>1
        <5> QED BY <2>2, <5>1, <5>2
      <4>2. CASE e = <<session.version + 1, Key[c]>> BY <2>2, <2>4, <4>2
      <4> QED BY <2>4, <4>1, <4>2
    <3>5. \A d, f \in Commands :
            inbox'[d].event /\ inbox'[f].event /\ inbox'[d].sequence = inbox'[f].sequence => d = f
      BY <2>2, <3>1 DEF ReceiptsOnce
    <3> QED BY <3>2, <3>3, <3>4, <3>5 DEF ReceiptsOnce
  <2>5. CASE /\ ~Result(c).event /\ UNCHANGED business
             /\ Result(c).decision = "accepted" =>
                  idempotency[Key[c]] # 0 /\ Result(c).sequence = idempotency[Key[c]]
    <3>1. Result(c).decision = "accepted" => <<Result(c).sequence, Key[c]>> \in effects
      BY <2>5, KeyType DEF EffectsOnce
    <3>2. \A d \in Commands : inbox'[d].event => d # c /\ inbox[d].event BY <2>2, <2>5
    <3>3. \A d \in Commands : inbox[d].event => d # c /\ inbox'[d] = inbox[d] BY <2>2, <2>3
    <3>4. UNCHANGED effects BY <2>5 DEF business
    <3>5. \A d \in Commands : inbox'[d].decision = "accepted" =>
            <<inbox'[d].sequence, Key[d]>> \in effects'
      BY <2>2, <3>1, <3>4 DEF ReceiptsOnce
    <3>6. \A d \in Commands : inbox'[d].event => inbox'[d].decision = "accepted"
      BY <2>2, <3>2 DEF ReceiptsOnce
    <3>7. \A e \in effects' : \E d \in Commands : inbox'[d].event /\ inbox'[d].sequence = e[1]
      BY <3>3, <3>4 DEF ReceiptsOnce
    <3>8. \A d, f \in Commands :
            inbox'[d].event /\ inbox'[f].event /\ inbox'[d].sequence = inbox'[f].sequence => d = f
      BY <2>2, <3>2 DEF ReceiptsOnce
    <3> QED BY <3>5, <3>6, <3>7, <3>8 DEF ReceiptsOnce
  <2> QED BY <1>5, <2>1, <2>4, <2>5, CommitApplies
<1> QED BY <1>2, <1>3, <1>4, <1>5, Kinds DEF GivesUp

-----------------------------------------------------------------------------
(* Acknowledgements.                                                        *)

\* A reserved wire stays, and a committed execution stays committed.
ExecGrows ==
  \A c \in Commands :
    /\ exec[c].wire # NoWire => exec'[c].wire = exec[c].wire
    /\ exec[c].state = "committed" => exec'[c].state = "committed"

LEMMA ExecStep ==
  ASSUME TypeInv, BooksInv, [Next]_vars
  PROVE  ExecGrows
<1>1. CASE UNCHANGED exec BY <1>1 DEF ExecGrows
<1>2. CASE GivesUp BY <1>2, GivesUpExec DEF ExecGrows
<1>3. ASSUME NEW h \in Handlers, Reserve(h) PROVE ExecGrows
  <2>1. PICK c \in Commands : c = Subject(h) BY <1>3, SubjectType DEF Reserve
  <2>2. CASE Reservable(c)
    <3>1. exec[c].state = "none" /\ exec[c].wire = NoWire
      BY <2>2 DEF Reservable, BooksInv, Books
    <3>2. \A d \in Commands : d # c => exec'[d] = exec[d]
      BY <1>3, <2>1, <2>2, TypeParts DEF Reserve, ExecutionsOK
    <3> QED BY <3>1, <3>2 DEF ExecGrows
  <2>3. CASE ~Reservable(c)
    <3>1. UNCHANGED exec BY <1>3, <2>1, <2>3 DEF Reserve
    <3> QED BY <1>1, <3>1
  <2> QED BY <2>2, <2>3
<1>4. ASSUME NEW h \in Handlers, Commit(h) PROVE ExecGrows
  <2>1. PICK c \in Commands : c = Subject(h) BY <1>4, SubjectType DEF Commit
  <2> QED BY <1>4, <2>1, TypeParts DEF Commit, ExecutionsOK, ExecGrows
<1>5. ASSUME NEW h \in Handlers, Fail(h) PROVE ExecGrows BY <1>1, <1>5 DEF Fail, NoBusiness
<1> QED BY <1>1, <1>2, <1>3, <1>4, <1>5, Kinds DEF GivesUp, Quiet

\* No wire's durability is lost when executions grow and quarantine only
\* gains codes.
LEMMA DurableKept ==
  ASSUME TypeInv, AcksDurable, ExecGrows, NEW w \in acked,
         quarantine'[w] = quarantine[w] \/ (w \in Genuine /\ quarantine'[w] # "none")
  PROVE  Durable(w)'
<1>1. w \in Wires /\ CommandOf[w] \in Commands
  BY TypeParts, ReceiverAssumption DEF HandlersOK
<1>2. Durable(w) BY DEF AcksDurable
<1> QED BY <1>1, <1>2 DEF Durable, ExecGrows, Genuine

LEMMA AcksKept ==
  ASSUME TypeInv, AcksDurable, ExecGrows, UNCHANGED <<quarantine, acked>>
  PROVE  AcksDurable'
<1>1. \A w \in acked' : Durable(w)' BY DurableKept
<1>2. \A w \in Forged : quarantine'[w] \in {"none", "authentication_failed"} BY DEF AcksDurable
<1> QED BY <1>1, <1>2 DEF AcksDurable

\* A wire is isolated: the others keep what they had.
LEMMA AcksIsolated ==
  ASSUME TypeInv, AcksDurable, ExecGrows, NEW h \in Handlers, NEW w \in Wires, NEW code,
         Isolate(h, w, code), UNCHANGED exec,
         w \in Forged => code \in {"authentication_failed", "transaction_route_mismatch"},
         w \notin Forged => code # "authentication_failed",
         w \notin Forged => \/ exec[CommandOf[w]].wire \notin {w, NoWire}
                            \/ exec[CommandOf[w]].state = "committed"
  PROVE  AcksDurable'
<1>1. quarantine \in [Wires -> QuarantineCodes \cup {"none"}] BY TypeParts DEF FailuresOK
<1>2. /\ \A x \in Wires : x # w => quarantine'[x] = quarantine[x]
      /\ quarantine'[w] = IF code \in QuarantineCodes /\ quarantine[w] = "none"
                          THEN code ELSE quarantine[w]
      /\ acked' = acked \cup (IF code \in QuarantineCodes THEN {w} ELSE {})
  BY <1>1 DEF Isolate
<1>3. "none" \notin QuarantineCodes BY DEF QuarantineCodes
<1>4. "transaction_route_mismatch" \notin QuarantineCodes BY DEF QuarantineCodes
<1>5. \A x \in Forged : x \in Wires BY ReceiverAssumption
<1>6. \A x \in Forged : quarantine'[x] \in {"none", "authentication_failed"}
  BY <1>2, <1>4, <1>5 DEF AcksDurable
<1>7. ASSUME NEW x \in acked' PROVE Durable(x)'
  <2>0. acked \subseteq Wires BY TypeParts DEF HandlersOK
  <2>1. CASE x # w
    <3>1. x \in acked /\ x \in Wires BY <1>2, <2>0, <2>1
    <3> QED BY <1>2, <2>1, <3>1, DurableKept
  <2>2. CASE x = w /\ code \in QuarantineCodes
    <3>1. quarantine'[w] # "none" BY <1>2, <1>3, <2>2
    <3>2. CASE w \in Forged
      <4>1. quarantine'[w] = "authentication_failed" BY <1>6, <3>1, <3>2
      <4> QED BY <2>2, <3>2, <4>1 DEF Durable
    <3>3. CASE w \notin Forged BY <2>2, <3>1, <3>3 DEF Durable
    <3> QED BY <3>2, <3>3
  <2>3. CASE x = w /\ code \notin QuarantineCodes
    <3>1. x \in acked /\ quarantine'[w] = quarantine[w] BY <1>2, <2>3
    <3> QED BY <2>3, <3>1, DurableKept
  <2> QED BY <2>1, <2>2, <2>3
<1> QED BY <1>6, <1>7 DEF AcksDurable

LEMMA AcksStep == TypeInv /\ BooksInv /\ AcksDurable /\ [Next]_vars => AcksDurable'
<1> SUFFICES ASSUME TypeInv, BooksInv, AcksDurable, [Next]_vars PROVE AcksDurable' OBVIOUS
<1>0. ExecGrows BY ExecStep
<1>1. ASSUME UNCHANGED <<quarantine, acked>> PROVE AcksDurable' BY <1>0, <1>1, AcksKept
<1>2. ASSUME NEW h \in Handlers, ReceiveMisrouted(h) \/ ReceiveForged(h) PROVE AcksDurable'
  <2>1. PICK w \in Forged, code \in {"authentication_failed", "transaction_route_mismatch"} :
          Isolate(h, w, code) /\ NoBusiness
    BY <1>2 DEF ReceiveMisrouted, ReceiveForged
  <2>2. w \in Wires BY ReceiverAssumption
  <2> QED BY <1>0, <2>1, <2>2, AcksIsolated DEF NoBusiness
<1>3. ASSUME NEW h \in Handlers, LookupConflict(h) \/ ReadInbox(h) PROVE AcksDurable'
  <2>1. PICK w \in Wires : w = wire[h] BY <1>3, SubjectType DEF LookupConflict, ReadInbox
  <2>2. w \notin Forged /\ CommandOf[w] = Subject(h) /\ Subject(h) \in Commands
    BY <1>3, <2>1, SubjectType DEF LookupConflict, ReadInbox, Genuine, Subject
  <2>3. CASE Isolate(h, w, "identity_conflict") /\ UNCHANGED exec
    <3>1. \/ exec[CommandOf[w]].wire \notin {w, NoWire}
          \/ inbox[CommandOf[w]].decision # "none"
          \/ UNCHANGED <<quarantine, acked>>
      BY <1>3, <2>1, <2>2 DEF LookupConflict, ReadInbox, tables, failures
    <3>2. inbox[CommandOf[w]].decision # "none" => exec[CommandOf[w]].state = "committed"
      BY <2>2 DEF BooksInv, Books, NoPlan
    <3> QED BY <1>0, <1>1, <2>2, <2>3, <3>1, <3>2, AcksIsolated
  <2>4. CASE UNCHANGED <<quarantine, acked>> BY <1>1, <2>4
  <2> QED BY <1>3, <2>1, <2>3, <2>4 DEF LookupConflict, ReadInbox, NoBusiness, tables, failures
<1>4. ASSUME NEW h \in Handlers, Verify(h) PROVE AcksDurable'
  <2>1. PICK w \in Wires : w = wire[h] BY <1>4, SubjectType DEF Verify
  <2>2. UNCHANGED <<quarantine, exec>> BY <1>4 DEF Verify, tables, failures
  <2>3. CASE UNCHANGED acked BY <1>1, <2>2, <2>3
  <2>4. CASE acked' = acked \cup {w} /\ exec[CommandOf[w]].state = "committed"
    <3>1. \A x \in acked : Durable(x)' BY <1>0, <2>2, DurableKept
    <3>2. Durable(w)' BY <2>2, <2>4 DEF Durable
    <3>3. \A x \in Forged : quarantine'[x] \in {"none", "authentication_failed"}
      BY <2>2 DEF AcksDurable
    <3> QED BY <2>4, <3>1, <3>2, <3>3 DEF AcksDurable
  <2> QED BY <1>4, <2>1, <2>3, <2>4 DEF Verify, Subject
<1>5. ASSUME NEW h \in Handlers, Fail(h) PROVE AcksDurable'
  <2>1. PICK w \in Wires : w = wire[h] BY <1>5, SubjectType DEF Fail
  <2>2. w \in Genuine BY <1>5, <2>1, SubjectType DEF Fail
  <2>3. /\ quarantine'[w] = "handler_failed" /\ UNCHANGED acked
        /\ \A x \in Wires : x # w => quarantine'[x] = quarantine[x]
    BY <1>5, <2>1, TypeParts DEF Fail, FailuresOK
  <2>4. acked \subseteq Wires /\ Forged \subseteq Wires BY TypeParts, ReceiverAssumption DEF HandlersOK
  <2>5. \A x \in acked : Durable(x)' BY <1>0, <2>2, <2>3, <2>4, DurableKept
  <2>6. \A x \in Forged : quarantine'[x] \in {"none", "authentication_failed"}
    BY <2>2, <2>3, <2>4 DEF AcksDurable, Genuine
  <2> QED BY <2>3, <2>5, <2>6 DEF AcksDurable
<1>6. ASSUME NEW h \in Handlers,
             \/ \E w \in Genuine : Receive(h, w)
             \/ Lookup(h) \/ Plan(h) \/ Reserve(h) \/ Commit(h) \/ RootRefused(h) \/ RootFails(h)
             \/ TechnicalError(h) \/ Stop(h)
      PROVE  UNCHANGED <<quarantine, acked>>
  BY <1>6 DEF Receive, Lookup, Plan, Reserve, Commit, RootRefused, RootFails, TechnicalError, Stop,
              tables, failures
<1>7. CASE \/ OthersChange
           \/ \E c \in Commands : ExpirePreparation(c) \/ Publish(c)
           \/ \E w \in Wires : PhysicalFailure(w)
           \/ \E i \in AckIds, c \in Acknowledged, o \in Outcomes : ReceiveAck(i, c, o)
           \/ UNCHANGED vars
  BY <1>1, <1>7 DEF OthersChange, ExpirePreparation, Publish, PhysicalFailure, ReceiveAck,
                    handlers, failures, vars, tables
<1> QED BY <1>1, <1>2, <1>3, <1>4, <1>5, <1>6, <1>7 DEF Next

\* The first receipt under an acknowledgement id stands.
LEMMA DeliveredStep == TypeInv /\ DeliveredStored /\ [Next]_vars => DeliveredStored'
<1> SUFFICES ASSUME TypeInv, DeliveredStored, [Next]_vars PROVE DeliveredStored' OBVIOUS
<1>1. ASSUME UNCHANGED <<confirmed, delivered>> PROVE DeliveredStored'
  BY <1>1 DEF DeliveredStored
<1>2. ASSUME NEW i \in AckIds, NEW c \in Acknowledged, NEW o \in Outcomes, ReceiveAck(i, c, o)
      PROVE  DeliveredStored'
  <2> DEFINE ack == [command |-> c, outcome |-> o]
  <2>1. /\ confirmed' = [confirmed EXCEPT ![i] = ack] /\ confirmed[i] \in {NoAck, ack}
        /\ delivered' = delivered \cup (IF o = "stored" /\ inbox[c].event THEN {c} ELSE {})
    BY <1>2 DEF ReceiveAck, FirstReceipt
  <2>2. confirmed'[i] = ack /\ \A j \in AckIds : j # i => confirmed'[j] = confirmed[j]
    BY <2>1, TypeParts DEF EventsOK
  <2>3. ASSUME NEW d \in delivered
        PROVE  \E j \in AckIds : confirmed'[j] = [command |-> d, outcome |-> "stored"]
    <3>1. PICK j \in AckIds : confirmed[j] = [command |-> d, outcome |-> "stored"]
      BY DEF DeliveredStored
    <3>2. confirmed[j] # NoAck BY <3>1 DEF NoAck
    <3> QED BY <2>1, <2>2, <3>1, <3>2
  <2>4. o = "stored" => confirmed'[i] = [command |-> c, outcome |-> "stored"] BY <2>2
  <2> QED BY <2>1, <2>3, <2>4 DEF DeliveredStored
<1>3. ASSUME NEW h \in Handlers,
             \/ ReceiveMisrouted(h) \/ ReceiveForged(h) \/ (\E w \in Genuine : Receive(h, w))
             \/ Lookup(h) \/ LookupConflict(h) \/ ReadInbox(h) \/ Plan(h) \/ Reserve(h)
             \/ Commit(h) \/ RootRefused(h) \/ Verify(h) \/ Fail(h) \/ RootFails(h)
             \/ TechnicalError(h) \/ Stop(h)
      PROVE  UNCHANGED <<confirmed, delivered>>
  BY <1>3 DEF ReceiveMisrouted, ReceiveForged, Receive, Lookup, LookupConflict, ReadInbox, Plan,
              Reserve, Commit, RootRefused, Verify, Fail, RootFails, TechnicalError, Stop,
              NoBusiness, tables, events
<1>4. CASE \/ OthersChange
           \/ \E c \in Commands : ExpirePreparation(c) \/ Publish(c)
           \/ \E w \in Wires : PhysicalFailure(w)
           \/ UNCHANGED vars
  BY <1>1, <1>4 DEF OthersChange, ExpirePreparation, Publish, PhysicalFailure, events, vars, tables
<1> QED BY <1>1, <1>2, <1>3, <1>4 DEF Next

-----------------------------------------------------------------------------
(* The theorems.                                                            *)

LEMMA ReceiverInit == Init => ReceiverInv
<1> SUFFICES ASSUME Init PROVE ReceiverInv OBVIOUS
<1>1. BooksInv BY DEF Init, BooksInv, Books, NoExecution, NoPlan
<1>2. PlansInv BY DEF Init, PlansInv, Planned
<1>3. EffectsOnce BY DEF Init, EffectsOnce
<1>4. ReceiptsOnce BY DEF Init, ReceiptsOnce, NoPlan
<1>5. AcksDurable
  <2>1. Forged \subseteq Wires BY ReceiverAssumption
  <2> QED BY <2>1 DEF Init, AcksDurable
<1>6. DeliveredStored BY DEF Init, DeliveredStored
<1> QED BY <1>1, <1>2, <1>3, <1>4, <1>5, <1>6 DEF ReceiverInv

LEMMA ReceiverStep == TypeInv /\ ReceiverInv /\ [Next]_vars => ReceiverInv'
  BY BooksStep, PlansStep, EffectsStep, ReceiptsStep, AcksStep, DeliveredStep DEF ReceiverInv

\* For every instance: whatever deliveries, concurrent handlers, stops, lost
\* replies and commands that share a key there are, a key is cancelled at most
\* once and its first receipt names the version that did it.
THEOREM KeysApplyOnce == Spec => []AppliedOnce
<1>1. ReceiverInv => AppliedOnce
  <2> SUFFICES ASSUME EffectsOnce PROVE AppliedOnce BY DEF ReceiverInv
  <2>1. \A e \in effects : idempotency[e[2]] = e[1] /\ e = <<e[1], e[2]>> BY DEF EffectsOnce
  <2>2. \A e, f \in effects : e[2] = f[2] => e = f BY <2>1
  <2> QED BY <2>1, <2>2 DEF AppliedOnce
<1> QED BY <1>1, TypeInit, TypeStep, ReceiverInit, ReceiverStep, PTL DEF Spec

\* For every instance: an accepted receipt names a change that was made, every
\* change is published by exactly one command, a command is held only after its
\* own handlers raised AttemptLimit times, and only a STORED acknowledgement
\* settles a delivery.
THEOREM RecordsAreTrue == Spec => []RecordsTrue
<1>1. TypeInv /\ ReceiverInv => RecordsTrue
  <2> SUFFICES ASSUME TypeInv, ReceiverInv PROVE RecordsTrue OBVIOUS
  <2>1. TypeOK BY DEF TypeInv
  <2>2. ReceiptTrue
    <3>1. \A c \in Commands : inbox[c].decision = "accepted" =>
            <<inbox[c].sequence, Key[c]>> \in effects
      BY DEF ReceiverInv, ReceiptsOnce
    <3>2. ASSUME NEW e \in effects
          PROVE  Cardinality({c \in Commands : c \in archive /\ inbox[c].event
                                               /\ inbox[c].sequence = e[1]}) = 1
      <4>1. PICK c \in Commands : inbox[c].event /\ inbox[c].sequence = e[1]
        BY DEF ReceiverInv, ReceiptsOnce
      <4>2. c \in archive
        <5>1. inbox[c].decision = "accepted" BY <4>1 DEF ReceiverInv, ReceiptsOnce
        <5>2. Books(c) BY DEF ReceiverInv, BooksInv
        <5> QED BY <5>1, <5>2 DEF Books, NoPlan
      <4>3. {d \in Commands : d \in archive /\ inbox[d].event /\ inbox[d].sequence = e[1]} = {c}
        BY <4>1, <4>2 DEF ReceiverInv, ReceiptsOnce
      <4> QED BY <4>3, FS_Singleton
    <3> QED BY <3>1, <3>2 DEF ReceiptTrue
  <2>3. HeldBudget
    <3> SUFFICES ASSUME NEW c \in Commands, inbox[c].decision = "held"
                 PROVE  raised[c] = AttemptLimit /\ ~inbox[c].event
      BY DEF HeldBudget
    <3>1. Books(c) BY DEF ReceiverInv, BooksInv
    <3> QED BY <3>1 DEF Books, NoPlan
  <2> QED BY <2>1, <2>2, <2>3 DEF RecordsTrue, ReceiverInv
<1> QED BY <1>1, TypeInit, TypeStep, ReceiverInit, ReceiverStep, PTL DEF Spec

\* For every instance: the broker forgets a wire only when its command is
\* decided, archived and witnessed, or the wire is isolated because it does not
\* authenticate or because another wire of its command was reserved.
THEOREM AcksAreDurable == Spec => []AckedIsDurable
<1>1. TypeInv /\ ReceiverInv => AckedIsDurable
  <2> SUFFICES ASSUME TypeInv, ReceiverInv, NEW w \in acked
               PROVE  \/ quarantine[w] = "authentication_failed"
                      \/ quarantine[w] # "none" /\ exec[CommandOf[w]].wire \notin {w, NoWire}
                      \/ /\ exec[CommandOf[w]].state = "committed"
                         /\ inbox[CommandOf[w]] = exec[CommandOf[w]].plan
                         /\ CommandOf[w] \in archive
    BY DEF AckedIsDurable
  <2>1. CommandOf[w] \in Commands BY TypeParts, ReceiverAssumption DEF HandlersOK
  <2>2. Durable(w) /\ Books(CommandOf[w]) BY <2>1 DEF ReceiverInv, AcksDurable, BooksInv
  <2> QED BY <2>2 DEF Durable, Books
<1> QED BY <1>1, TypeInit, TypeStep, ReceiverInit, ReceiverStep, PTL DEF Spec

\* For every instance: an Inbox decision never changes, and an execution that
\* committed or was aborted is never executed again, whoever still works on it.
THEOREM DecisionsAreFinal == Spec => DecisionsFinal
<1> DEFINE Final ==
      \A c \in Commands :
        /\ inbox[c].decision # "none" => inbox'[c] = inbox[c]
        /\ exec[c].state \in {"committed", "aborted"} => exec'[c] = exec[c]
<1>1. TypeInv /\ ReceiverInv /\ [Next]_vars => Final
  <2> SUFFICES ASSUME TypeInv, ReceiverInv, [Next]_vars PROVE Final OBVIOUS
  <2>1. CASE UNCHANGED <<exec, inbox>> BY <2>1
  <2>2. CASE GivesUp
    <3>1. UNCHANGED inbox BY <2>2, GivesUpExec
    <3>2. ASSUME NEW c \in Commands, exec[c].state \in {"committed", "aborted"}
          PROVE  exec'[c] = exec[c]
      <4>1. /\ exec'[c].plan = exec[c].plan /\ exec'[c].wire = exec[c].wire
            /\ exec'[c].state = exec[c].state
        BY <2>2, <3>2, GivesUpExec
      <4>2. ExecutionsOK /\ ExecutionsOK'
        <5>1. TypeInv' BY TypeStep
        <5>2. ExecutionsOK' BY <5>1, TypeParts, PTL
        <5> QED BY <5>2, TypeParts
      <4> QED BY <4>1, <4>2 DEF ExecutionsOK
    <3> QED BY <3>1, <3>2
  <2>3. ASSUME NEW h \in Handlers, Reserve(h) PROVE Final
    <3>1. PICK c \in Commands : c = Subject(h) BY <2>3, SubjectType DEF Reserve
    <3>2. UNCHANGED inbox /\ (exec[c].state # "none" => UNCHANGED exec)
      BY <2>3, <3>1 DEF Reserve, Reservable
    <3>3. \A d \in Commands : d # c => exec'[d] = exec[d]
      BY <2>3, <3>1, TypeParts DEF Reserve, ExecutionsOK
    <3> QED BY <3>2, <3>3
  <2>4. ASSUME NEW h \in Handlers, Commit(h) PROVE Final
    <3>1. PICK c \in Commands : c = Subject(h) BY <2>4, SubjectType DEF Commit
    <3>2. exec[c].state = "prepared" /\ inbox[c].decision = "none"
      BY <2>4, <3>1 DEF Commit, RootAccepts
    <3>3. \A d \in Commands : d # c => exec'[d] = exec[d] /\ inbox'[d] = inbox[d]
      BY <2>4, <3>1, TypeParts DEF Commit, ExecutionsOK
    <3> QED BY <3>2, <3>3
  <2>5. ASSUME NEW h \in Handlers, Fail(h) PROVE Final BY <2>1, <2>5 DEF Fail, NoBusiness
  <2> QED BY <2>1, <2>2, <2>3, <2>4, <2>5, Kinds DEF GivesUp, Quiet
<1>2. TypeInv /\ ReceiverInv /\ [Next]_vars => [Final]_vars BY <1>1
<1>3. Spec => [][Final]_vars
  BY <1>2, TypeInit, TypeStep, ReceiverInit, ReceiverStep, PTL DEF Spec
<1> QED BY <1>3 DEF DecisionsFinal

=============================================================================
