--------------------------- MODULE CommandReceiver ---------------------------
(***************************************************************************)
(* How a command of QS becomes one durable business decision: the          *)
(* transaction command receiver, the planners, the admission root with its *)
(* Inbox row, archives and witness, the technical failure ledger, the      *)
(* quarantine, and the confirmation of published events.                   *)
(*                                                                         *)
(* A handler runs between transactions: it looks the request up, reads the *)
(* Inbox, plans on a snapshot, reserves an execution and only then enters  *)
(* the root, one committed transaction, where the business rules run again *)
(* on locked rows.  Deliveries of one wire may be handled concurrently, a  *)
(* handler may stop anywhere, and the Session the commands are about is    *)
(* changed by others meanwhile.                                            *)
(*                                                                         *)
(* The SDK (reservations, half messages, Checker, evidence) and the broker *)
(* are modelled from how the receiver uses them.  Encryption, bodies and   *)
(* identities are left out: a wire is a model value, and a plan is what    *)
(* its receipt says.                                                       *)
(*                                                                         *)
(* An operator named X_Flaw is X with a plausible bug; the specification   *)
(* uses none of them, and PROJECT.json says which property each violates.  *)
(***************************************************************************)
EXTENDS Integers, FiniteSets, FiniteSetsExt

CONSTANTS
  Commands,      \* command message ids: cancellations of one Session
  Key,           \* the idempotency key of a command
  Expected,      \* the Session version a command expects
  Wires,         \* sealed messages
  CommandOf,     \* the command a wire carries
  Forged,        \* wires that do not authenticate, from any topic
  Handlers,      \* concurrent deliveries
  NoWire,        \* what an idle handler holds
  AttemptLimit,  \* technical failures before a command is held (8 in the code)
  MaxVersion,    \* bounds the changes others make to the Session
  AckIds,        \* message ids of QS acknowledgements
  Acknowledged,  \* bounds the commands whose events QS acknowledges
  MaxFaults      \* bounds process stops, technical errors, forged wires, physical
                 \* failure notices and the changes others make

ASSUME ReceiverAssumption ==
  /\ Key \in [Commands -> STRING]
  /\ Expected \in [Commands -> Nat]
  /\ CommandOf \in [Wires -> Commands]
  /\ Forged \subseteq Wires
  /\ NoWire \notin Wires
  /\ AttemptLimit \in Nat \ {0}
  /\ MaxVersion \in Nat \ {0} /\ MaxFaults \in Nat

VARIABLES
  session,     \* the Session row: [version, status]
  idempotency, \* per key, the version its first receipt names, or 0
  exec,        \* the SDK execution of a command: [state, plan, wire]
  inbox,       \* messaging_inbox: the decision of a command
  archive,     \* transaction archive: the commands whose messages are stored
  attempts,    \* messaging_quarantine: the logical failures of a command
  raised,      \* how many handlers raised for a command, up to the limit
  quarantine,  \* messaging_quarantine: the code a wire is isolated with
  notices,     \* messaging_quarantine: physical failure notices of wires
  acked,       \* wires whose handler returned
  returned,    \* genuine wires that some handler finished with, acked or not
  published,   \* commands whose half messages the broker delivered
  confirmed,   \* event_receipts: per acknowledgement id [command, outcome]
  delivered,   \* result_outbox.delivered: state events QS has stored
  effects,     \* what the commands did: <<version, key>>
  pc,          \* where each handler is
  wire,        \* the wire each handler received
  plan,        \* the plan a handler made
  faults       \* faults so far

business == <<session, idempotency, effects>>
failures == <<attempts, raised, quarantine, notices>>
events == <<published, confirmed, delivered>>
tables == <<business, exec, inbox, archive, failures, events>>
handlers == <<pc, wire, plan, acked, returned>>
vars == <<tables, handlers, faults>>

Decisions == {"none", "accepted", "rejected", "held"}
Outcomes == {"stored", "technically_held"}
NoPlan == [decision |-> "none", sequence |-> 0, event |-> FALSE]
NoExecution == [state |-> "none", plan |-> NoPlan, wire |-> NoWire]
NoAck == [command |-> NoWire, outcome |-> "none"]

Init ==
  /\ session = [version |-> 1, status |-> "running"]
  /\ idempotency = [k \in Range(Key) |-> 0]
  /\ exec = [c \in Commands |-> NoExecution]
  /\ inbox = [c \in Commands |-> NoPlan]
  /\ archive = {} /\ published = {} /\ delivered = {} /\ notices = {}
  /\ quarantine = [w \in Wires |-> "none"]
  /\ attempts = [c \in Commands |-> 0] /\ raised = attempts
  /\ acked = {} /\ returned = {} /\ effects = {}
  /\ confirmed = [i \in AckIds |-> NoAck]
  /\ pc = [h \in Handlers |-> "idle"]
  /\ wire = [h \in Handlers |-> NoWire]
  /\ plan = [h \in Handlers |-> NoPlan]
  /\ faults = 0

Subject(h) == CommandOf[wire[h]]
GoTo(h, step) == pc' = [pc EXCEPT ![h] = step]

-----------------------------------------------------------------------------
(* The business rules, and the others that change the Session.              *)

\* _change: a key seen before repeats its first receipt, else the expected
\* version is compared and a final Session is not cancelled again.
Decide(c) ==
  IF idempotency[Key[c]] # 0
  THEN [decision |-> "accepted", sequence |-> idempotency[Key[c]],
        event |-> FALSE]
  ELSE IF session.version = Expected[c] /\ session.status = "running"
  THEN [decision |-> "accepted", sequence |-> session.version + 1,
        event |-> TRUE]
  ELSE [decision |-> "rejected", sequence |-> 1, event |-> FALSE]

\* What an accepted plan that is not a repetition writes.
Apply_Unrecorded(c, p) ==
  IF p.decision = "accepted" /\ p.event
  THEN /\ session' = [version |-> session.version + 1, status |-> "cancelled"]
       /\ effects' = effects \cup {<<session.version + 1, Key[c]>>}
       /\ UNCHANGED idempotency
  ELSE UNCHANGED business
Apply(c, p) ==
  IF p.decision = "accepted" /\ p.event
  THEN /\ session' = [version |-> session.version + 1, status |-> "cancelled"]
       /\ idempotency' = [idempotency EXCEPT ![Key[c]] = session.version + 1]
       /\ effects' = effects \cup {<<session.version + 1, Key[c]>>}
  ELSE UNCHANGED business

\* A worker of the Session claims, finishes or blocks it.
OthersChange ==
  /\ session.version < MaxVersion /\ session.status = "running"
  /\ faults < MaxFaults /\ faults' = faults + 1
  /\ \E s \in {"running", "completed"} :
       session' = [version |-> session.version + 1, status |-> s]
  /\ UNCHANGED <<failures, events, idempotency, exec, inbox, archive, effects,
                 handlers>>

-----------------------------------------------------------------------------
(* receive_command, one transaction or planning step at a time.             *)

\* The codes quarantine_wire admits.
QuarantineCodes == {"invalid_wire", "invalid_failure_wire",
                    "failure_wire_oversize", "authentication_failed",
                    "identity_conflict", "handler_failed"}

Genuine == Wires \ Forged

\* isolate: the wire is stored under its first code and the handler returns,
\* which acknowledges it; quarantine_wire raises on any other code.
Isolate(h, w, code) ==
  /\ quarantine' = IF code \in QuarantineCodes /\ quarantine[w] = "none"
                   THEN [quarantine EXCEPT ![w] = code] ELSE quarantine
  /\ acked' = acked \cup (IF code \in QuarantineCodes THEN {w} ELSE {})
  /\ returned' = returned \cup ({w} \cap Genuine)
  /\ pc' = [pc EXCEPT ![h] = "idle"]
  /\ wire' = [wire EXCEPT ![h] = NoWire]
  /\ plan' = [plan EXCEPT ![h] = NoPlan]

NoBusiness == UNCHANGED <<business, events, exec, inbox, archive, notices>>
NoFailure == UNCHANGED <<attempts, raised>>

\* A wire received from another topic or provider is isolated before anything
\* is read of it.
ReceiveMisrouted(h) ==
  \E w \in Forged :
    /\ pc[h] = "idle" /\ faults < MaxFaults
    /\ Isolate(h, w, "transaction_route_mismatch")
    /\ faults' = faults + 1
    /\ NoBusiness /\ NoFailure

\* resolve_command: what does not authenticate is isolated.
ReceiveForged(h) ==
  \E w \in Forged :
    /\ pc[h] = "idle" /\ faults < MaxFaults
    /\ Isolate(h, w, "authentication_failed")
    /\ faults' = faults + 1
    /\ NoBusiness /\ NoFailure

\* The broker may deliver a wire again and again, acknowledged or not.
Receive(h, w) ==
  /\ pc[h] = "idle"
  /\ GoTo(h, "lookup")
  /\ wire' = [wire EXCEPT ![h] = w]
  /\ UNCHANGED <<tables, plan, acked, returned, faults>>

\* What the receiver does with an execution that is already reserved.
Existing(h, state) ==
  GoTo(h, IF state = "committed" THEN "verify" ELSE "fail")

\* lookup: the request of this wire, which another wire of the command cannot
\* share.
Lookup(h) ==
  /\ pc[h] = "lookup"
  /\ exec[Subject(h)].wire \in {wire[h], NoWire}
  /\ IF exec[Subject(h)].state = "none"
     THEN GoTo(h, "inbox")
     ELSE Existing(h, exec[Subject(h)].state)
  /\ UNCHANGED <<tables, wire, plan, acked, returned, faults>>

\* A changed input is a MessageConflict or another error of the SDK.
LookupConflict(h) ==
  /\ pc[h] = "lookup"
  /\ exec[Subject(h)].wire \notin {wire[h], NoWire}
  /\ \/ /\ Isolate(h, wire[h], "identity_conflict")
        /\ NoBusiness /\ NoFailure
     \/ /\ GoTo(h, "fail")
        /\ UNCHANGED <<tables, wire, plan, acked, returned>>
  /\ UNCHANGED faults

\* An Inbox decision without an execution is taken for a historical one.
ReadInbox(h) ==
  /\ pc[h] = "inbox"
  /\ IF inbox[Subject(h)].decision # "none"
     THEN /\ Isolate(h, wire[h], "identity_conflict")
          /\ NoBusiness /\ NoFailure
     ELSE /\ GoTo(h, "plan")
          /\ UNCHANGED <<tables, wire, plan, acked, returned>>
  /\ UNCHANGED faults

\* freeze_technical_hold or the planner of the command: a plan on a snapshot.
Held(c) == [decision |-> "held", sequence |-> 1, event |-> FALSE]
Candidate(c) == IF attempts[c] >= AttemptLimit THEN Held(c) ELSE Decide(c)

Plan(h) ==
  /\ pc[h] = "plan"
  /\ plan' = [plan EXCEPT ![h] = Candidate(Subject(h))]
  /\ GoTo(h, "reserve")
  /\ UNCHANGED <<tables, wire, acked, returned, faults>>

\* reserve: the first plan of a request wins and is executed by whoever
\* reserved it; anyone else only learns of it.
Reservable_Aborted(c) == exec[c].state \in {"none", "aborted"}
Reservable(c) == exec[c].state = "none"

Reserve(h) ==
  /\ pc[h] = "reserve"
  /\ LET c == Subject(h) IN
     IF Reservable(c)
     THEN /\ exec' = [exec EXCEPT ![c] = [state |-> "prepared",
                                          plan |-> plan[h],
                                          wire |-> wire[h]]]
          /\ GoTo(h, "execute")
     ELSE /\ exec' = exec
          /\ IF exec[c].wire = wire[h] THEN Existing(h, exec[c].state)
                                       ELSE GoTo(h, "fail")
  /\ UNCHANGED <<business, failures, events, inbox, archive, wire, plan,
                 acked, returned, faults>>

-----------------------------------------------------------------------------
(* The admission root: commit_original around AdmissionRoot.write.          *)

\* What the business says when it runs again in the root.
Result(c) == IF exec[c].plan.decision = "held" THEN Held(c) ELSE Decide(c)

\* The receipt is compared, then the frozen state event must have been seen.
SameReceipt(p, q) == p.decision = q.decision /\ p.sequence = q.sequence
Transcribed_Never(p, q) == TRUE
Transcribed(p, q) == p.event = q.event

RootAccepts(c) ==
  /\ exec[c].state = "prepared"
  /\ inbox[c].decision = "none"
  /\ SameReceipt(exec[c].plan, Result(c))
  /\ Transcribed(exec[c].plan, Result(c))

\* Business, Inbox decision, archives and witness commit together.  When the
\* reply is lost the evidence is read afresh, which may fail too.
Commit(h) ==
  LET c == Subject(h) IN
  /\ pc[h] = "execute" /\ RootAccepts(c)
  /\ Apply(c, Result(c))
  /\ inbox' = [inbox EXCEPT ![c] = exec[c].plan]
  /\ archive' = archive \cup {c}
  /\ exec' = [exec EXCEPT ![c].state = "committed"]
  /\ \/ GoTo(h, "verify") /\ UNCHANGED faults
     \/ GoTo(h, "fail") /\ faults < MaxFaults /\ faults' = faults + 1
  /\ UNCHANGED <<failures, events, wire, plan, acked, returned>>

\* Rolled back, then aborted durably.
RootRefused(h) ==
  LET c == Subject(h) IN
  /\ pc[h] = "execute" /\ ~RootAccepts(c)
  /\ exec' = [exec EXCEPT ![c].state = IF @ = "prepared" THEN "aborted" ELSE @]
  /\ GoTo(h, "fail")
  /\ UNCHANGED <<business, failures, events, inbox, archive, wire, plan,
                 acked, returned, faults>>

\* A database error, an expired authorization or budget day, or a half message
\* that cannot be prepared; the abort itself may fail.
RootFails(h) ==
  LET c == Subject(h) IN
  /\ pc[h] = "execute" /\ faults < MaxFaults
  /\ \E s \in {"prepared", "aborted"} :
       exec' = [exec EXCEPT ![c].state = IF @ = "prepared" THEN s ELSE @]
  /\ GoTo(h, "fail")
  /\ faults' = faults + 1
  /\ UNCHANGED <<business, failures, events, inbox, archive, wire, plan,
                 acked, returned>>

\* _committed: exact witness, archives and Inbox decision, then the handler
\* returns.
Verify(h) ==
  LET c == Subject(h) IN
  /\ pc[h] = "verify"
  /\ IF exec[c].state = "committed" /\ c \in archive
        /\ inbox[c] = exec[c].plan
     THEN /\ acked' = acked \cup {wire[h]}
          /\ returned' = returned \cup {wire[h]}
          /\ GoTo(h, "idle")
          /\ wire' = [wire EXCEPT ![h] = NoWire]
          /\ plan' = [plan EXCEPT ![h] = NoPlan]
     ELSE /\ GoTo(h, "fail")
          /\ UNCHANGED <<acked, returned, wire, plan>>
  /\ UNCHANGED <<tables, faults>>

\* technical_failure, a ledger of its own, and the error: nothing is acked.
Fail_Swallowed(h) ==
  LET c == Subject(h) IN
  /\ pc[h] = "fail"
  /\ attempts' = [attempts EXCEPT ![c] = Min({AttemptLimit, @ + 1})]
  /\ raised' = [raised EXCEPT ![c] = Min({AttemptLimit, @ + 1})]
  /\ quarantine' = [quarantine EXCEPT ![wire[h]] = "handler_failed"]
  /\ acked' = acked \cup {wire[h]}
  /\ returned' = returned \cup {wire[h]}
  /\ GoTo(h, "idle")
  /\ wire' = [wire EXCEPT ![h] = NoWire]
  /\ plan' = [plan EXCEPT ![h] = NoPlan]
  /\ NoBusiness /\ UNCHANGED faults
Fail(h) ==
  LET c == Subject(h) IN
  /\ pc[h] = "fail"
  /\ attempts' = [attempts EXCEPT ![c] = Min({AttemptLimit, @ + 1})]
  /\ raised' = [raised EXCEPT ![c] = Min({AttemptLimit, @ + 1})]
  /\ quarantine' = [quarantine EXCEPT ![wire[h]] = "handler_failed"]
  /\ returned' = returned \cup {wire[h]}
  /\ GoTo(h, "idle")
  /\ wire' = [wire EXCEPT ![h] = NoWire]
  /\ plan' = [plan EXCEPT ![h] = NoPlan]
  /\ NoBusiness /\ UNCHANGED <<acked, faults>>

\* A read times out, the planner's source is unavailable, admission is closed.
TechnicalError(h) ==
  /\ pc[h] \in {"lookup", "inbox", "plan", "reserve", "verify"}
  /\ faults < MaxFaults /\ faults' = faults + 1
  /\ GoTo(h, "fail")
  /\ UNCHANGED <<tables, wire, plan, acked, returned>>

\* The process stops; the broker will deliver again.
Stop(h) ==
  /\ pc[h] # "idle" /\ faults < MaxFaults /\ faults' = faults + 1
  /\ GoTo(h, "idle")
  /\ wire' = [wire EXCEPT ![h] = NoWire]
  /\ plan' = [plan EXCEPT ![h] = NoPlan]
  /\ UNCHANGED <<tables, acked, returned>>

-----------------------------------------------------------------------------
(* The SDK and the broker.                                                  *)

\* The protocol aborter ends a preparation that expired, whether its owner
\* is gone or slow.
ExpirePreparation(c) ==
  /\ exec[c].state = "prepared"
  /\ \/ \A h \in Handlers : pc[h] = "execute" => Subject(h) # c
     \/ faults < MaxFaults
  /\ faults' = IF \E h \in Handlers : pc[h] = "execute" /\ Subject(h) = c
               THEN faults + 1 ELSE faults
  /\ exec' = [exec EXCEPT ![c].state = "aborted"]
  /\ UNCHANGED <<business, failures, events, inbox, archive, handlers>>

\* The final commit, or the Checker of any instance, releases the messages.
Publish(c) ==
  /\ exec[c].state = "committed" /\ c \notin published
  /\ published' = published \cup {c}
  /\ UNCHANGED <<business, exec, inbox, archive, failures, confirmed,
                 delivered, handlers, faults>>

\* failed_command: the notice of a physical failure is isolated, as a wire of
\* its own, and charges nothing.
PhysicalFailure(w) ==
  /\ w \in returned \ (acked \cup notices)
  /\ faults < MaxFaults /\ faults' = faults + 1
  /\ notices' = notices \cup {w}
  /\ UNCHANGED <<business, events, exec, inbox, archive, attempts, raised,
                 quarantine, handlers>>

\* confirm_event: the first receipt under an acknowledgement id is kept, and
\* only STORED settles the delivery of a state event.
FirstReceipt(i, ack) == confirmed[i] \in {NoAck, ack}

ReceiveAck(i, c, outcome) ==
  LET ack == [command |-> c, outcome |-> outcome] IN
  /\ c \in published
  /\ FirstReceipt(i, ack)
  /\ confirmed' = [confirmed EXCEPT ![i] = ack]
  /\ delivered' = delivered \cup
       (IF outcome = "stored" /\ inbox[c].event THEN {c} ELSE {})
  /\ UNCHANGED <<business, exec, inbox, archive, failures, published,
                 handlers, faults>>

-----------------------------------------------------------------------------
Next ==
  \/ OthersChange
  \/ \E h \in Handlers :
       \/ ReceiveMisrouted(h) \/ ReceiveForged(h)
       \/ \E w \in Genuine : Receive(h, w)
       \/ Lookup(h) \/ LookupConflict(h) \/ ReadInbox(h) \/ Plan(h) \/ Reserve(h)
       \/ Commit(h) \/ RootRefused(h) \/ Verify(h) \/ Fail(h) \/ RootFails(h) \/ TechnicalError(h) \/ Stop(h)
  \/ \E c \in Commands : ExpirePreparation(c) \/ Publish(c)
  \/ \E w \in Wires : PhysicalFailure(w)
  \/ \E i \in AckIds, c \in Acknowledged, o \in Outcomes : ReceiveAck(i, c, o)

Spec == Init /\ [][Next]_vars

-----------------------------------------------------------------------------
(* Properties.                                                              *)

PlanRow == [decision : Decisions, sequence : 0 .. MaxVersion + 1,
            event : BOOLEAN]

\* Every table and every handler is well typed.
TypeOK ==
  /\ session \in [version : 1 .. MaxVersion + 1,
                  status : {"running", "completed", "cancelled"}]
  /\ idempotency \in [Range(Key) -> 0 .. MaxVersion + 1]
  /\ exec \in [Commands ->
                 [state : {"none", "prepared", "committed", "aborted"},
                  plan : PlanRow, wire : Wires \cup {NoWire}]]
  /\ inbox \in [Commands -> PlanRow]
  /\ archive \subseteq Commands /\ published \subseteq Commands
  /\ delivered \subseteq Commands
  /\ attempts \in [Commands -> 0 .. AttemptLimit]
  /\ raised \in [Commands -> 0 .. AttemptLimit]
  /\ quarantine \in [Wires -> QuarantineCodes \cup {"none"}]
  /\ notices \subseteq Genuine
  /\ acked \subseteq Wires /\ returned \subseteq Wires
  /\ confirmed \in [AckIds -> [command : Commands, outcome : Outcomes]
                               \cup {NoAck}]
  /\ pc \in [Handlers -> {"idle", "lookup", "inbox", "plan", "reserve",
                          "execute", "verify", "fail"}]
  /\ wire \in [Handlers -> Wires \cup {NoWire}]
  /\ plan \in [Handlers -> PlanRow]
  /\ faults \in 0 .. MaxFaults

\* A key is cancelled once and only by a committed plan, whatever the number of
\* deliveries, handlers and commands that carry the key: the first receipt is
\* what every later command of the key repeats.
AppliedOnce ==
  /\ \A e, f \in effects : e[2] = f[2] => e = f
  /\ \A e \in effects : idempotency[e[2]] = e[1]

\* A receipt and a state event say what was done: an accepted Inbox decision
\* names the version its key really produced, and every change the commands
\* made is published by exactly one of them.
ReceiptTrue ==
  /\ \A c \in Commands : inbox[c].decision = "accepted" =>
        <<inbox[c].sequence, Key[c]>> \in effects
  /\ \A e \in effects :
        Cardinality({c \in Commands : c \in archive /\ inbox[c].event
                                     /\ inbox[c].sequence = e[1]}) = 1

\* The broker forgets a wire only when its command is decided, archived and
\* witnessed together, or the wire is in quarantine because it does not
\* authenticate or another wire of the command is being executed; a failure
\* that was only counted is delivered again.
AckedIsDurable ==
  \A w \in acked :
    \/ quarantine[w] = "authentication_failed"
    \/ quarantine[w] # "none" /\ exec[CommandOf[w]].wire \notin {w, NoWire}
    \/ /\ exec[CommandOf[w]].state = "committed"
       /\ inbox[CommandOf[w]] = exec[CommandOf[w]].plan
       /\ CommandOf[w] \in archive

\* A command is held only when its own handlers raised AttemptLimit times;
\* notices of physical failures do not count, and nothing of a held command
\* was done.
HeldBudget ==
  \A c \in Commands : inbox[c].decision = "held" =>
    /\ raised[c] = AttemptLimit
    /\ ~inbox[c].event

\* A delivery that QS only held is never taken for a stored one, and the first
\* acknowledgement under an identity stands.
DeliveredStored ==
  \A c \in delivered :
    \E i \in AckIds : confirmed[i] = [command |-> c, outcome |-> "stored"]

\* Everything the tables say of a command is true: its decision, its hold and
\* the delivery of its event.
RecordsTrue == TypeOK /\ ReceiptTrue /\ HeldBudget /\ DeliveredStored

\* A decision is final: an Inbox decision never changes, and an execution that
\* committed or was aborted is never executed again.
DecisionsFinal ==
  [][\A c \in Commands :
       /\ inbox[c].decision # "none" => inbox'[c] = inbox[c]
       /\ exec[c].state \in {"committed", "aborted"} =>
            exec'[c] = exec[c]]_vars

=============================================================================
