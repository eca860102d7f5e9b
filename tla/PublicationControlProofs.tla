---------------------- MODULE PublicationControlProofs ----------------------
(***************************************************************************)
(* Theorems about PublicationControl, for every set of selectors, Runs,    *)
(* commands, callers and sessions: a pointer moves only onto what is       *)
(* finally approved, the audit, the index and the answers tell the truth   *)
(* of the pointers, and an accepted session keeps its configuration.       *)
(***************************************************************************)
EXTENDS PublicationControl, FiniteSetTheorems, TLAPS

Ops == {"publish", "rollback", "disable"}
CallSteps == {"begun", "admitted", "locked", "checked", "duplicate", "answered"}
SessionSteps == {"new", "binding", "frozen", "root", "refused", "bound", "dispatched", "explained",
                 "unavailable"}
PointerRow == [version : Nat, active : Commands \cup {None}]
RequestRow == [op : Ops, sel : Selectors, expected : PointerRow,
               target : Runs \cup Commands \cup {None}, version : Nat]
CallRow == [pc : CallSteps, cmd : Commands, req : RequestRow]
PublicationRow == [sel : Selectors, run : Runs, version : Nat]
ChangeRow == [sel : Selectors, req : RequestRow, previous : PointerRow, current : PointerRow]
PlanRow == [publication : Commands, version : Nat]

\* The type of every table row, call and session.
TypeOK ==
    /\ run \in [Runs -> [version : Nat, approved : BOOLEAN]]
    /\ DOMAIN pubs \subseteq Commands
    /\ \A p \in DOMAIN pubs : pubs[p] \in PublicationRow
    /\ pointer \in [Selectors -> PointerRow]
    /\ DOMAIN changes \subseteq Commands /\ IsFiniteSet(DOMAIN changes)
    /\ \A c \in DOMAIN changes : changes[c] \in ChangeRow
    /\ call \in [Callers -> CallRow \cup {Idle}]
    /\ session \in [Sessions -> [pc : SessionSteps, plan : PlanRow \cup {None}]]

\* A publish names a Run, a rollback a retained publication.
Requested(req) ==
    /\ req.op = "publish" => req.target \in Runs
    /\ req.op = "rollback" => req.target \in DOMAIN pubs

RequestsInv ==
    /\ \A c \in DOMAIN changes : Requested(changes[c].req)
    /\ \A k \in Callers : call[k] # Idle => Requested(call[k].req)

TypeInv == TypeOK /\ RequestsInv

\* What a call has established stays true while it holds the Run.
Evidence(k) ==
    LET req == call[k].req IN
    /\ call[k].pc \in {"admitted", "locked", "checked"} /\ req.op # "disable" =>
         SameSelector(req) /\ run[Evaluated(req)].version = EvidenceVersion(req)
    /\ call[k].pc = "checked" /\ req.op # "disable" =>
         run[Evaluated(req)].approved /\ SelectorOf[Evaluated(req)] = req.sel
    /\ call[k].pc = "duplicate" => Accepted(k)
    /\ call[k].pc = "answered" => Accepted(k) /\ SameRequest(k)

EvidenceInv == \A k \in Callers : Evidence(k)

\* A publication has its receipt and the selector of its Run's profile, and a
\* pointer is empty or at a publication of its own selector.
PubsInv == \A p \in DOMAIN pubs : p \in DOMAIN changes /\ SelectorOf[pubs[p].run] = pubs[p].sel

PointersInv ==
    \A s \in Selectors :
        /\ pointer[s].version = 0 => pointer[s] = Empty
        /\ pointer[s].active # None =>
             pointer[s].active \in DOMAIN pubs /\ pubs[pointer[s].active].sel = s

\* A plan can be read for good.
Keeps(s) ==
    /\ session[s].plan # None =>
         session[s].plan.publication \in DOMAIN pubs /\ Readable(session[s].plan)
    /\ session[s].pc \in {"bound", "dispatched"} => session[s].plan # None
    /\ session[s].pc # "unavailable"

PlansInv == \A s \in Sessions : Keeps(s)

TablesInv == PubsInv /\ PointersInv /\ PointerAudited

\* While a root holds the pointers no change does, and they resolve to its plan.
RootsInv ==
    \A s \in Sessions : RootHolds(s) =>
        /\ session[s].plan = Resolved
        /\ \A k \in Callers : call[k].pc \notin {"locked", "checked"}

-----------------------------------------------------------------------------
(* Calls and requests.                                                      *)

LEMMA CallAt ==
  ASSUME TypeInv, NEW k \in Callers, call[k] # Idle
  PROVE  /\ call[k] \in CallRow /\ call[k].cmd \in Commands /\ call[k].req \in RequestRow
         /\ call[k].req.sel \in Selectors /\ call[k].req.op \in Ops
         /\ Requested(call[k].req)
<1>1. call[k] \in CallRow BY DEF TypeInv, TypeOK
<1>2. call[k].cmd \in Commands /\ call[k].req \in RequestRow BY <1>1 DEF CallRow
<1> QED BY <1>1, <1>2 DEF RequestRow, TypeInv, RequestsInv

LEMMA EvaluatedRun ==
  ASSUME TypeInv, NEW req \in RequestRow, req.op # "disable", Requested(req)
  PROVE  Evaluated(req) \in Runs
<1>1. req.op \in {"publish", "rollback"} BY DEF RequestRow, Ops
<1>2. CASE req.op = "publish" BY <1>2 DEF Evaluated, Requested
<1>3. CASE req.op = "rollback"
  <2>1. pubs[req.target] \in PublicationRow BY <1>3 DEF Requested, TypeInv, TypeOK
  <2> QED BY <1>3, <2>1 DEF Evaluated, PublicationRow
<1> QED BY <1>1, <1>2, <1>3

\* A caller that moves on or goes back to idle; the others stay.
LEMMA ToSteps ==
  ASSUME TypeInv, NEW k \in Callers, call[k] # Idle, NEW pc \in CallSteps, To(k, pc)
  PROVE  /\ call'[k] \in CallRow /\ call'[k].pc = pc /\ call'[k].cmd = call[k].cmd
         /\ call'[k].req = call[k].req /\ call'[k] # Idle
         /\ \A j \in Callers : j # k => call'[j] = call[j]
         /\ call' \in [Callers -> CallRow \cup {Idle}]
<1>1. call[k] \in CallRow BY CallAt
<1>2. call \in [Callers -> CallRow \cup {Idle}] BY DEF TypeInv, TypeOK
<1>3. call' = [call EXCEPT ![k] = [call[k] EXCEPT !.pc = pc]] BY DEF To
<1>4. call'[k] = [call[k] EXCEPT !.pc = pc] /\ \A j \in Callers : j # k => call'[j] = call[j]
  BY <1>2, <1>3
<1>5. /\ call'[k] \in CallRow /\ call'[k].pc = pc /\ call'[k].cmd = call[k].cmd
      /\ call'[k].req = call[k].req
  BY <1>1, <1>4 DEF CallRow
<1>6. call' \in [Callers -> CallRow \cup {Idle}] BY <1>1, <1>2, <1>3, <1>4, <1>5
<1>7. call'[k] # Idle BY <1>5 DEF Idle, CallSteps
<1> QED BY <1>4, <1>5, <1>6, <1>7

LEMMA EndSteps ==
  ASSUME TypeInv, NEW k \in Callers, End(k)
  PROVE  /\ call'[k] = Idle /\ \A j \in Callers : j # k => call'[j] = call[j]
         /\ call' \in [Callers -> CallRow \cup {Idle}]
  BY DEF TypeInv, TypeOK, End

\* A step after which every call is idle or asks what it asked before.
LEMMA CallsMove ==
  ASSUME TypeInv, UNCHANGED <<stores, session>>, call' \in [Callers -> CallRow \cup {Idle}],
         \A j \in Callers : call'[j] = Idle \/ (call[j] # Idle /\ call'[j].req = call[j].req)
  PROVE  TypeInv'
<1>1. TypeOK' BY DEF TypeInv, TypeOK, stores
<1>2. UNCHANGED <<pubs, changes>> BY DEF stores
<1>3. RequestsInv' BY <1>2 DEF TypeInv, RequestsInv, Requested
<1> QED BY <1>1, <1>3 DEF TypeInv

LEMMA ToType ==
  ASSUME TypeInv, NEW k \in Callers, call[k] # Idle, NEW pc \in CallSteps, To(k, pc),
         UNCHANGED <<stores, session>>
  PROVE  TypeInv'
  BY ToSteps, CallsMove

LEMMA EndType ==
  ASSUME TypeInv, NEW k \in Callers, End(k), UNCHANGED <<stores, session>>
  PROVE  TypeInv'
  BY EndSteps, CallsMove

LEMMA NotIdle == \A k \in Callers : call[k].pc \in CallSteps => call[k] # Idle
  BY DEF Idle, CallSteps

\* What a caller that moves without writing does.
Moves(k) ==
  /\ \/ \E pc \in CallSteps : To(k, pc)
     \/ End(k)
  /\ call[k] # Idle
  /\ UNCHANGED <<stores, session>>

LEMMA MovesType ==
  ASSUME TypeInv, NEW k \in Callers, Moves(k)
  PROVE  TypeInv'
  BY ToType, EndType DEF Moves

LEMMA CallersMove ==
  ASSUME NEW k \in Callers,
         \/ LockRun(k) \/ LockPointer(k) \/ Replay(k) \/ Decide(k) \/ Reread(k) \/ Leave(k)
         \/ Write(k) /\ Accepted(k)
  PROVE  Moves(k)
<1>1. CASE Leave(k) BY <1>1 DEF Leave, Moves
<1>2. call[k].pc \in CallSteps => call[k] # Idle BY NotIdle
<1>3. CASE LockRun(k) \/ LockPointer(k) BY <1>2, <1>3 DEF LockRun, LockPointer, Moves, CallSteps
<1>4. CASE Replay(k) \/ Reread(k) BY <1>2, <1>4 DEF Replay, Reread, Answer, Moves, CallSteps
<1>5. CASE Decide(k) BY <1>2, <1>5 DEF Decide, Moves, CallSteps
<1>6. CASE Write(k) /\ Accepted(k) BY <1>2, <1>6 DEF Write, Moves, CallSteps, stores
<1> QED BY <1>1, <1>3, <1>4, <1>5, <1>6

LEMMA SubmitType ==
  ASSUME TypeInv, NEW k \in Callers, Submit(k)
  PROVE  /\ TypeInv' /\ UNCHANGED <<stores, session>>
         /\ \A j \in Callers : j # k => call'[j] = call[j]
         /\ call'[k].pc = "begun"
<1>0. /\ call \in [Callers -> CallRow \cup {Idle}] /\ run \in [Runs -> [version : Nat, approved : BOOLEAN]]
      /\ pointer \in [Selectors -> PointerRow] /\ DOMAIN pubs \subseteq Commands
      /\ DOMAIN changes \subseteq Commands /\ \A c \in DOMAIN changes : changes[c] \in ChangeRow
  BY DEF TypeInv, TypeOK
<1>10. PICK c \in Commands : \E req \in PublishRequests \cup RollbackRequests \cup DisableRequests
                                        \cup EarlierRequests(c) :
         call' = [call EXCEPT ![k] = [pc |-> "begun", cmd |-> c, req |-> req]]
  BY DEF Submit
<1>1. PICK req \in PublishRequests \cup RollbackRequests \cup DisableRequests
                  \cup EarlierRequests(c) :
        call' = [call EXCEPT ![k] = [pc |-> "begun", cmd |-> c, req |-> req]]
  BY <1>10
<1>2. req \in RequestRow /\ Requested(req)
  <2>1. CASE req \in PublishRequests
    <3>1. PICK r \in Runs : req = Request("publish", SelectorOf[r], r, run[r].version)
      BY <2>1 DEF PublishRequests
    <3>2. /\ SelectorOf[r] \in Selectors /\ run[r].version \in Nat
          /\ pointer[SelectorOf[r]] \in PointerRow
      BY <1>0, PublicationAssumption
    <3> QED BY <3>1, <3>2 DEF Request, RequestRow, Ops, Requested
  <2>2. CASE req \in RollbackRequests
    <3>1. PICK s \in Selectors, p \in DOMAIN pubs : req = Request("rollback", s, p, 0)
      BY <2>2 DEF RollbackRequests
    <3>2. p \in Commands /\ pointer[s] \in PointerRow BY <1>0
    <3> QED BY <3>1, <3>2 DEF Request, RequestRow, Ops, Requested
  <2>3. CASE req \in DisableRequests
    <3>1. PICK s \in Selectors : req = Request("disable", s, None, 0) BY <2>3 DEF DisableRequests
    <3>2. pointer[s] \in PointerRow BY <1>0
    <3> QED BY <3>1, <3>2 DEF Request, RequestRow, Ops, Requested
  <2>4. CASE req \in EarlierRequests(c)
    <3>1. CASE \E d \in DOMAIN changes : req = changes[d].req
      <4>1. PICK d \in DOMAIN changes : req = changes[d].req BY <3>1
      <4>2. changes[d] \in ChangeRow BY <1>0
      <4> QED BY <4>1, <4>2 DEF ChangeRow, TypeInv, RequestsInv
    <3>2. CASE \E j \in Callers : call[j] # Idle /\ req = call[j].req BY <3>2, CallAt
    <3> QED BY <2>4, <3>1, <3>2 DEF EarlierRequests
  <2> QED BY <2>1, <2>2, <2>3, <2>4
<1>3. [pc |-> "begun", cmd |-> c, req |-> req] \in CallRow BY <1>2 DEF CallRow, CallSteps
<1>4. /\ call' \in [Callers -> CallRow \cup {Idle}]
      /\ call'[k] = [pc |-> "begun", cmd |-> c, req |-> req]
      /\ \A j \in Callers : j # k => call'[j] = call[j]
  BY <1>0, <1>1, <1>3
<1>5. UNCHANGED <<stores, session>> BY DEF Submit
<1>6. TypeOK' BY <1>4, <1>5 DEF TypeInv, TypeOK, stores
<1>7. RequestsInv'
  <2>1. UNCHANGED <<pubs, changes>> BY <1>5 DEF stores
  <2>2. call'[k].req = req BY <1>4
  <2> QED BY <1>2, <1>4, <2>1, <2>2 DEF TypeInv, RequestsInv, Requested
<1> QED BY <1>4, <1>5, <1>6, <1>7 DEF TypeInv

-----------------------------------------------------------------------------
(* The write.                                                               *)

\* Rows are only added.
Grows ==
  /\ \A p \in DOMAIN pubs : p \in DOMAIN pubs' /\ pubs'[p] = pubs[p]
  /\ \A c \in DOMAIN changes : c \in DOMAIN changes' /\ changes'[c] = changes[c]

\* A change that is written.
Changes(k) == Write(k) /\ ~Accepted(k)

LEMMA Written ==
  ASSUME TypeInv, PubsInv, NEW k \in Callers, Changes(k)
  PROVE  /\ call[k] # Idle /\ call[k].cmd \in Commands /\ call[k].req.sel \in Selectors
         /\ call[k].cmd \notin DOMAIN changes
         /\ Grows
         /\ DOMAIN changes' = DOMAIN changes \cup {call[k].cmd}
         /\ changes'[call[k].cmd] = [sel |-> call[k].req.sel, req |-> call[k].req,
                                     previous |-> pointer[call[k].req.sel], current |-> Moved(k)]
         /\ pointer'[call[k].req.sel] = Moved(k)
         /\ \A t \in Selectors : t # call[k].req.sel => pointer'[t] = pointer[t]
         /\ \/ /\ call[k].req.op = "publish" /\ DOMAIN pubs' = DOMAIN pubs \cup {call[k].cmd}
               /\ pubs'[call[k].cmd] = [sel |-> call[k].req.sel, run |-> call[k].req.target,
                                        version |-> call[k].req.version]
            \/ call[k].req.op # "publish" /\ pubs' = pubs
         /\ UNCHANGED <<run, enabled, session>> /\ To(k, "answered")
<1> DEFINE c == call[k].cmd
           s == call[k].req.sel
           row == [sel |-> s, req |-> call[k].req, previous |-> pointer[s], current |-> Moved(k)]
           pub == [sel |-> s, run |-> call[k].req.target, version |-> call[k].req.version]
<1>1. call[k] # Idle BY NotIdle DEF Changes, Write, CallSteps
<1>2. c \in Commands /\ s \in Selectors BY <1>1, CallAt
<1>3. c \notin DOMAIN changes BY DEF Changes, Accepted
<1>4. c \notin DOMAIN pubs BY <1>3 DEF PubsInv
<1>5. /\ changes' = Inserted(changes, c, row) /\ pointer' = [pointer EXCEPT ![s] = Moved(k)]
      /\ pubs' = NewPublication(k) /\ UNCHANGED <<run, enabled, session>> /\ To(k, "answered")
  BY DEF Changes, Write, Answer
<1>6. /\ DOMAIN changes' = DOMAIN changes \cup {c} /\ changes'[c] = row
      /\ \A d \in DOMAIN changes : changes'[d] = changes[d]
  BY <1>3, <1>5 DEF Inserted
<1>7. pointer'[s] = Moved(k) /\ \A t \in Selectors : t # s => pointer'[t] = pointer[t]
  BY <1>2, <1>5 DEF TypeInv, TypeOK
<1>8. CASE call[k].req.op = "publish"
  <2>1. pubs' = Inserted(pubs, c, pub) BY <1>5, <1>8 DEF NewPublication
  <2>2. /\ DOMAIN pubs' = DOMAIN pubs \cup {c} /\ pubs'[c] = pub
        /\ \A d \in DOMAIN pubs : pubs'[d] = pubs[d]
    BY <1>4, <2>1 DEF Inserted
  <2> QED BY <1>1, <1>2, <1>3, <1>5, <1>6, <1>7, <1>8, <2>2 DEF Grows
<1>9. CASE call[k].req.op # "publish"
  <2>1. pubs' = pubs BY <1>5, <1>9 DEF NewPublication
  <2> QED BY <1>1, <1>2, <1>3, <1>5, <1>6, <1>7, <1>9, <2>1 DEF Grows
<1> QED BY <1>8, <1>9

\* What the pointer is moved onto.
LEMMA MovedOnto ==
  ASSUME TypeInv, PubsInv, EvidenceInv, NEW k \in Callers, Changes(k)
  PROVE  /\ Target(k) \in Commands \cup {None}
         /\ Target(k) # None =>
              /\ Target(k) \in DOMAIN pubs' /\ pubs'[Target(k)].sel = call[k].req.sel
              /\ pubs'[Target(k)].run \in Runs
              /\ SelectorOf[pubs'[Target(k)].run] = pubs'[Target(k)].sel
              /\ run[pubs'[Target(k)].run].approved
              /\ run[pubs'[Target(k)].run].version = pubs'[Target(k)].version
<1>1. /\ call[k] # Idle /\ call[k].pc = "checked" /\ Evidence(k)
  BY Written DEF Changes, Write, EvidenceInv
<1>2. PICK req \in RequestRow : req = call[k].req BY <1>1, CallAt
<1>3. Requested(req) /\ req.op \in Ops /\ call[k].cmd \in Commands BY <1>1, <1>2, CallAt
<1>4. CASE req.op = "disable"
  <2>1. Target(k) = None BY <1>2, <1>4 DEF Target
  <2> QED BY <2>1
<1>5. CASE req.op = "publish"
  <2>1. Target(k) = call[k].cmd /\ Evaluated(req) = req.target /\ EvidenceVersion(req) = req.version
    BY <1>2, <1>5 DEF Target, Evaluated, EvidenceVersion
  <2>2. /\ call[k].cmd \in DOMAIN pubs'
        /\ pubs'[call[k].cmd] = [sel |-> req.sel, run |-> req.target, version |-> req.version]
    BY <1>2, <1>5, Written
  <2>3. /\ run[req.target].version = req.version /\ run[req.target].approved
        /\ SelectorOf[req.target] = req.sel
    BY <1>1, <1>2, <1>5, <2>1 DEF Evidence
  <2> QED BY <1>2, <1>3, <1>5, <2>1, <2>2, <2>3 DEF Requested
<1>6. CASE req.op = "rollback"
  <2>1. /\ Target(k) = req.target /\ Evaluated(req) = pubs[req.target].run
        /\ EvidenceVersion(req) = pubs[req.target].version
    BY <1>2, <1>6 DEF Target, Evaluated, EvidenceVersion
  <2>2. req.target \in DOMAIN pubs /\ pubs'[req.target] = pubs[req.target]
        /\ req.target \in DOMAIN pubs'
    BY <1>3, <1>6, Written DEF Requested, Grows
  <2>3. /\ pubs[req.target].sel = req.sel /\ run[pubs[req.target].run].approved
        /\ run[pubs[req.target].run].version = pubs[req.target].version
        /\ SelectorOf[pubs[req.target].run] = req.sel
    BY <1>1, <1>2, <1>6, <2>1 DEF Evidence, SameSelector
  <2>4. pubs[req.target].run \in Runs /\ req.target \in Commands
    BY <2>2 DEF TypeInv, TypeOK, PublicationRow
  <2> QED BY <1>2, <2>1, <2>2, <2>3, <2>4
<1> QED BY <1>3, <1>4, <1>5, <1>6 DEF Ops

LEMMA MovedType ==
  ASSUME TypeInv, PubsInv, EvidenceInv, NEW k \in Callers, Changes(k)
  PROVE  /\ Moved(k) \in PointerRow
         /\ Moved(k).version = pointer[call[k].req.sel].version + 1
         /\ Moved(k).active = Target(k)
<1>1. call[k].req.sel \in Selectors /\ Target(k) \in Commands \cup {None} BY Written, MovedOnto
<1>2. pointer[call[k].req.sel].version \in Nat BY <1>1 DEF TypeInv, TypeOK, PointerRow
<1> QED BY <1>1, <1>2 DEF Moved, PointerRow

LEMMA WriteType ==
  ASSUME TypeInv, PubsInv, EvidenceInv, NEW k \in Callers, Changes(k)
  PROVE  TypeInv'
<1>1. PICK c \in Commands, s \in Selectors, req \in RequestRow :
        c = call[k].cmd /\ s = req.sel /\ req = call[k].req
  BY Written, CallAt
<1>2. /\ DOMAIN changes' = DOMAIN changes \cup {c} /\ Grows
      /\ changes'[c] = [sel |-> s, req |-> req, previous |-> pointer[s], current |-> Moved(k)]
      /\ pointer'[s] = Moved(k) /\ \A t \in Selectors : t # s => pointer'[t] = pointer[t]
      /\ UNCHANGED <<run, enabled, session>> /\ To(k, "answered") /\ call[k] # Idle
  BY <1>1, Written
<1>3. Moved(k) \in PointerRow /\ pointer[s] \in PointerRow BY <1>1, MovedType DEF TypeInv, TypeOK
<1>4. changes'[c] \in ChangeRow BY <1>1, <1>2, <1>3 DEF ChangeRow
<1>5. \A d \in DOMAIN changes' : changes'[d] \in ChangeRow
  BY <1>2, <1>4 DEF Grows, TypeInv, TypeOK
<1>6. pointer' \in [Selectors -> PointerRow]
  BY <1>1, <1>3 DEF Changes, Write, TypeInv, TypeOK
<1>7. /\ DOMAIN pubs' \subseteq Commands /\ \A p \in DOMAIN pubs' : pubs'[p] \in PublicationRow
  <2>1. CASE req.op = "publish"
    <3>1. /\ DOMAIN pubs' = DOMAIN pubs \cup {c}
          /\ pubs'[c] = [sel |-> s, run |-> req.target, version |-> req.version]
      BY <1>1, <2>1, Written
    <3>2. req.target \in Runs BY <1>1, <1>2, <2>1, CallAt DEF Requested
    <3>3. req.version \in Nat BY DEF RequestRow
    <3>4. pubs'[c] \in PublicationRow BY <3>1, <3>2, <3>3 DEF PublicationRow
    <3> QED BY <1>2, <3>1, <3>4 DEF TypeInv, TypeOK, Grows
  <2>2. CASE req.op # "publish"
    <3>1. pubs' = pubs BY <1>1, <2>2, Written
    <3> QED BY <3>1 DEF TypeInv, TypeOK
  <2> QED BY <2>1, <2>2
<1>8. /\ call' \in [Callers -> CallRow \cup {Idle}] /\ call'[k].req = call[k].req
      /\ \A j \in Callers : j # k => call'[j] = call[j]
  BY <1>2, ToSteps DEF CallSteps
<1>9. IsFiniteSet(DOMAIN changes') BY <1>2, FS_AddElement DEF TypeInv, TypeOK
<1>10. TypeOK' BY <1>1, <1>2, <1>5, <1>6, <1>7, <1>8, <1>9 DEF TypeInv, TypeOK
<1>12. Requested(req) BY <1>1, <1>2, CallAt
<1>15. RequestsInv'
  <2>1. \A d \in DOMAIN changes' : /\ changes'[d].req.op = "publish" => changes'[d].req.target \in Runs
                                   /\ changes'[d].req.op = "rollback" => changes'[d].req.target \in DOMAIN pubs'
    BY <1>2, <1>12 DEF Grows, TypeInv, RequestsInv, Requested
  <2>2. \A j \in Callers : call'[j] # Idle =>
          /\ call'[j].req.op = "publish" => call'[j].req.target \in Runs
          /\ call'[j].req.op = "rollback" => call'[j].req.target \in DOMAIN pubs'
    BY <1>1, <1>2, <1>8, <1>12 DEF Grows, TypeInv, RequestsInv, Requested
  <2> QED BY <2>1, <2>2 DEF RequestsInv, Requested
<1> QED BY <1>10, <1>15 DEF TypeInv

-----------------------------------------------------------------------------
(* Sessions.                                                                *)

LEMMA MostSpecificOne ==
  ASSUME NEW S \in SUBSET Selectors, S # {}
  PROVE  MostSpecific(S) \in S
<1>1. \A s \in S : Specificity[s] \in 0 .. 2 BY PublicationAssumption
<1>2. \E s \in S : \A t \in S : Specificity[s] >= Specificity[t]
  <2>1. CASE \E s \in S : Specificity[s] = 2 BY <1>1, <2>1
  <2>2. CASE ~(\E s \in S : Specificity[s] = 2) /\ \E s \in S : Specificity[s] = 1
    BY <1>1, <2>2
  <2>3. CASE ~(\E s \in S : Specificity[s] = 2) /\ ~\E s \in S : Specificity[s] = 1
    <3>1. \A s \in S : Specificity[s] = 0 BY <1>1, <2>3
    <3> QED BY <3>1
  <2> QED BY <2>1, <2>2, <2>3
<1> QED BY <1>2 DEF MostSpecific

\* A plan that starts or keeps a session.
Sound(plan) ==
  /\ plan \in PlanRow \cup {None}
  /\ plan # None => plan.publication \in DOMAIN pubs /\ Readable(plan)

LEMMA PlannedSound ==
  ASSUME TypeInv, TablesInv
  PROVE  Sound(Planned)
<1>1. CASE Planned = None BY <1>1 DEF Sound
<1>2. CASE Planned # None
  <2>1. ActiveSelectors # {} /\ ActiveSelectors \in SUBSET Selectors
    BY <1>2 DEF Planned, Resolved, ActiveSelectors
  <2>2. PICK s \in ActiveSelectors : s = MostSpecific(ActiveSelectors) BY <2>1, MostSpecificOne
  <2>3. s \in Selectors /\ pointer[s].active # None BY <2>2 DEF ActiveSelectors
  <2>4. Planned = [publication |-> pointer[s].active, version |-> pointer[s].version]
    BY <1>2, <2>1, <2>2 DEF Planned, Resolved
  <2>5. pointer[s] \in PointerRow BY <2>3 DEF TypeInv, TypeOK
  <2>6. /\ pointer[s].active \in Commands /\ pointer[s].version \in Nat
        /\ pointer[s] = [version |-> pointer[s].version, active |-> pointer[s].active]
    BY <2>3, <2>5 DEF PointerRow
  <2>7. pointer[s].active \in DOMAIN pubs /\ pubs[pointer[s].active].sel = s
    BY <2>3 DEF TablesInv, PointersInv
  <2>8. pointer[s].version > 0
    <3>1. pointer[s].version # 0 BY <2>3 DEF TablesInv, PointersInv, Empty
    <3> QED BY <2>6, <3>1
  <2>9. PICK c \in History(s) : changes[c].current = pointer[s]
    BY <2>3, <2>8 DEF TablesInv, PointerAudited, Audited
  <2>10. c \in DOMAIN changes /\ changes[c].sel = s BY <2>9 DEF History
  <2>11. PICK plan : plan = Planned OBVIOUS
  <2>12. plan.publication = pointer[s].active /\ plan.version = pointer[s].version
    BY <2>4, <2>11
  <2>13. Readable(plan) BY <2>6, <2>7, <2>9, <2>10, <2>12 DEF Readable
  <2>14. plan \in PlanRow BY <2>4, <2>6, <2>11 DEF PlanRow
  <2> QED BY <2>7, <2>11, <2>12, <2>13, <2>14 DEF Sound
<1> QED BY <1>1, <1>2

LEMMA PlanAt ==
  ASSUME TypeInv, PlansInv, NEW s \in Sessions
  PROVE  Sound(session[s].plan) /\ session[s].pc \in SessionSteps
<1>1. session[s] \in [pc : SessionSteps, plan : PlanRow \cup {None}] BY DEF TypeInv, TypeOK
<1> QED BY <1>1 DEF PlansInv, Keeps, Sound

\* What a step of a session does: the plan it is left with is sound.
SessionStep(s) ==
  /\ \E pc \in SessionSteps \ {"unavailable"}, plan \in PlanRow \cup {None} :
        /\ Set(s, pc, plan) /\ Sound(plan)
        /\ pc \in {"bound", "dispatched"} => plan # None
  /\ NoPublication

LEMMA SessionsStep ==
  ASSUME TypeInv, TablesInv, PlansInv, NEW s \in Sessions,
         StartDirect(s) \/ CommitDirect(s) \/ FreezeStart(s) \/ StartRoot(s) \/ CommitRoot(s)
         \/ Execute(s)
  PROVE  SessionStep(s)
<1>1. PICK plan : plan = Planned OBVIOUS
<1>2. PICK old : old = session[s].plan OBVIOUS
<1>3. Sound(plan) /\ Sound(old) BY <1>1, <1>2, PlannedSound, PlanAt
<1>4. plan \in PlanRow \cup {None} /\ old \in PlanRow \cup {None} BY <1>3 DEF Sound
<1>5. Sound(None) BY DEF Sound
<1>6. NoPublication
  BY DEF StartDirect, CommitDirect, FreezeStart, StartRoot, CommitRoot, Execute
<1>7. CASE StartDirect(s)
  <2>1. Set(s, "binding", plan) BY <1>1, <1>7 DEF StartDirect
  <2> QED BY <1>3, <1>4, <1>6, <2>1 DEF SessionStep, SessionSteps
<1>8. CASE FreezeStart(s)
  <2>1. Set(s, "frozen", plan) BY <1>1, <1>8 DEF FreezeStart
  <2> QED BY <1>3, <1>4, <1>6, <2>1 DEF SessionStep, SessionSteps
<1>9. CASE CommitDirect(s)
  <2>1. \/ old = None /\ Set(s, "refused", old)
        \/ old # None /\ Set(s, "bound", old)
    BY <1>2, <1>9 DEF CommitDirect
  <2> QED BY <1>3, <1>4, <1>6, <2>1 DEF SessionStep, SessionSteps
<1>10. CASE StartRoot(s)
  <2>1. Set(s, "new", None) \/ Set(s, "root", old) BY <1>2, <1>10 DEF StartRoot
  <2> QED BY <1>3, <1>4, <1>5, <1>6, <2>1 DEF SessionStep, SessionSteps
<1>12. CASE CommitRoot(s)
  <2>1. \/ Set(s, "new", None)
        \/ old = None /\ Set(s, "refused", old)
        \/ old # None /\ Set(s, "bound", old)
    BY <1>2, <1>12 DEF CommitRoot
  <2> QED BY <1>3, <1>4, <1>5, <1>6, <2>1 DEF SessionStep, SessionSteps
<1>11. CASE Execute(s)
  <2>1. old # None BY <1>2, <1>11 DEF Execute, PlansInv, Keeps
  <2>2. Readable(old) BY <1>3, <2>1 DEF Sound
  <2>3. Set(s, "dispatched", old) \/ Set(s, "explained", old)
    BY <1>2, <1>11, <2>2 DEF Execute
  <2> QED BY <1>3, <1>4, <1>6, <2>1, <2>3 DEF SessionStep, SessionSteps
<1> QED BY <1>7, <1>8, <1>9, <1>10, <1>11, <1>12

-----------------------------------------------------------------------------
(* The steps, by what they change: a call that moves, a change that is      *)
(* written, a Run or its models, a session.                                 *)

\* A review moves a Run that no change holds; a deployment withdraws a model.
Reviews ==
  /\ \/ \E r \in Runs, approved \in BOOLEAN :
          /\ ~RunHeld(r)
          /\ run' = [run EXCEPT ![r] = [version |-> run[r].version + 1, approved |-> approved]]
     \/ run' = run
  /\ UNCHANGED <<pubs, pointer, changes, call, session>>

LEMMA NextSteps ==
  ASSUME TypeInv, TablesInv, PlansInv, Next
  PROVE  \/ \E k \in Callers : Submit(k) \/ Moves(k) \/ Changes(k)
         \/ Reviews
         \/ \E s \in Sessions : SessionStep(s)
<1>1. CASE \E k \in Callers : \/ Submit(k) \/ LockRun(k) \/ LockPointer(k) \/ Replay(k)
                              \/ Decide(k) \/ Write(k) \/ Reread(k) \/ Leave(k)
  BY <1>1, CallersMove DEF Changes
<1>2. CASE \E r \in Runs : Reopen(r) \/ Finalize(r) \/ WithdrawModel(r)
  BY <1>2 DEF Reopen, Finalize, WithdrawModel, Reviews
<1>3. CASE \E s \in Sessions : \/ StartDirect(s) \/ CommitDirect(s) \/ FreezeStart(s)
                               \/ StartRoot(s) \/ CommitRoot(s) \/ Execute(s)
  BY <1>3, SessionsStep
<1> QED BY <1>1, <1>2, <1>3 DEF Next

LEMMA ReviewsRuns ==
  ASSUME TypeInv, Reviews
  PROVE  /\ run' \in [Runs -> [version : Nat, approved : BOOLEAN]]
         /\ \A r \in Runs : RunHeld(r) => run'[r] = run[r]
<1>1. CASE run' = run BY <1>1 DEF TypeInv, TypeOK
<1>2. CASE \E r \in Runs, approved \in BOOLEAN :
             /\ ~RunHeld(r)
             /\ run' = [run EXCEPT ![r] = [version |-> run[r].version + 1, approved |-> approved]]
  <2>1. PICK r \in Runs, approved \in BOOLEAN :
          /\ ~RunHeld(r)
          /\ run' = [run EXCEPT ![r] = [version |-> run[r].version + 1, approved |-> approved]]
    BY <1>2
  <2>2. run \in [Runs -> [version : Nat, approved : BOOLEAN]] BY DEF TypeInv, TypeOK
  <2>3. [version |-> run[r].version + 1, approved |-> approved]
          \in [version : Nat, approved : BOOLEAN]
    BY <2>2
  <2> QED BY <2>1, <2>2, <2>3
<1> QED BY <1>1, <1>2 DEF Reviews

LEMMA SessionsAt ==
  ASSUME TypeInv, NEW s \in Sessions, SessionStep(s)
  PROVE  /\ session' \in [Sessions -> [pc : SessionSteps, plan : PlanRow \cup {None}]]
         /\ UNCHANGED <<run, enabled, pubs, pointer, changes, call>>
         /\ \A t \in Sessions : t # s => session'[t] = session[t]
         /\ Sound(session'[s].plan) /\ session'[s].pc # "unavailable"
         /\ session'[s].pc \in {"bound", "dispatched"} => session'[s].plan # None
<1>1. UNCHANGED <<run, enabled, pubs, pointer, changes, call>>
  BY DEF SessionStep, NoPublication, stores
<1>2. PICK pc \in SessionSteps \ {"unavailable"}, plan \in PlanRow \cup {None} :
        /\ Set(s, pc, plan) /\ Sound(plan)
        /\ pc \in {"bound", "dispatched"} => plan # None
  BY DEF SessionStep
<1>3. /\ session \in [Sessions -> [pc : SessionSteps, plan : PlanRow \cup {None}]]
      /\ session' = [session EXCEPT ![s] = [pc |-> pc, plan |-> plan]]
  BY <1>2 DEF TypeInv, TypeOK, Set
<1>4. [pc |-> pc, plan |-> plan] \in [pc : SessionSteps, plan : PlanRow \cup {None}]
  OBVIOUS
<1>5. /\ session' \in [Sessions -> [pc : SessionSteps, plan : PlanRow \cup {None}]]
      /\ session'[s] = [pc |-> pc, plan |-> plan]
      /\ \A t \in Sessions : t # s => session'[t] = session[t]
  BY <1>3, <1>4
<1>6. session'[s].pc = pc /\ session'[s].plan = plan BY <1>5
<1> QED BY <1>1, <1>2, <1>5, <1>6

LEMMA TypeStep ==
  ASSUME TypeInv, EvidenceInv, TablesInv, PlansInv, [Next]_vars
  PROVE  TypeInv'
<1>0. PubsInv BY DEF TablesInv
<1>1. CASE \E k \in Callers : Submit(k) \/ Moves(k) \/ Changes(k)
  BY <1>0, <1>1, SubmitType, MovesType, WriteType
<1>2. CASE Reviews
  <2>1. run' \in [Runs -> [version : Nat, approved : BOOLEAN]] BY <1>2, ReviewsRuns
  <2>2. UNCHANGED <<pubs, pointer, changes, call, session>> BY <1>2 DEF Reviews
  <2>3. TypeOK' BY <2>1, <2>2 DEF TypeInv, TypeOK
  <2>4. RequestsInv' BY <2>2 DEF TypeInv, RequestsInv, Requested
  <2> QED BY <2>3, <2>4 DEF TypeInv
<1>3. CASE \E s \in Sessions : SessionStep(s)
  <2>1. session' \in [Sessions -> [pc : SessionSteps, plan : PlanRow \cup {None}]]
    BY <1>3, SessionsAt
  <2>2. UNCHANGED <<run, pubs, pointer, changes, call>> BY <1>3, SessionsAt
  <2>3. TypeOK' BY <2>1, <2>2 DEF TypeInv, TypeOK
  <2>4. RequestsInv' BY <2>2 DEF TypeInv, RequestsInv, Requested
  <2> QED BY <2>3, <2>4 DEF TypeInv
<1>4. CASE UNCHANGED vars BY <1>4 DEF vars, TypeInv, TypeOK, RequestsInv, Requested
<1> QED BY <1>1, <1>2, <1>3, <1>4, NextSteps

-----------------------------------------------------------------------------
(* What a call has established.                                             *)

LEMMA RequestStays ==
  ASSUME Grows, NEW req \in RequestRow, Requested(req)
  PROVE  /\ Evaluated(req)' = Evaluated(req) /\ (SameSelector(req) => SameSelector(req)')
         /\ req.op # "disable" => EvidenceVersion(req)' = EvidenceVersion(req)
<1>1. req.op \in Ops BY DEF RequestRow
<1>2. CASE req.op # "rollback" BY <1>1, <1>2 DEF Ops, Evaluated, SameSelector, EvidenceVersion
<1>3. CASE req.op = "rollback"
  <2>1. pubs'[req.target] = pubs[req.target] BY <1>3 DEF Requested, Grows
  <2> QED BY <1>3, <2>1 DEF Evaluated, SameSelector, EvidenceVersion
<1> QED BY <1>2, <1>3

LEMMA EvidenceStays ==
  ASSUME TypeInv, Grows, NEW j \in Callers, Evidence(j), call'[j] = call[j],
         \A r \in Runs : RunHeld(r) => run'[r] = run[r]
  PROVE  Evidence(j)'
<1>1. PICK req : req = call[j].req OBVIOUS
<1>2. PICK pc : pc = call[j].pc OBVIOUS
<1>3. call'[j].req = req /\ call'[j].pc = pc /\ call'[j].cmd = call[j].cmd BY <1>1, <1>2
<1>4. CASE pc \notin CallSteps BY <1>3, <1>4 DEF Evidence, CallSteps
<1>5. CASE pc \in CallSteps
  <2>1. call[j] # Idle BY <1>2, <1>5, NotIdle
  <2>2. req \in RequestRow /\ Requested(req) BY <1>1, <2>1, CallAt
  <2>3. /\ Evaluated(req)' = Evaluated(req) /\ (SameSelector(req) => SameSelector(req)')
        /\ req.op # "disable" => EvidenceVersion(req)' = EvidenceVersion(req)
    BY <2>2, RequestStays
  <2>4. pc \in {"admitted", "locked", "checked"} /\ req.op # "disable" =>
          run'[Evaluated(req)] = run[Evaluated(req)]
    BY <1>1, <1>2, <2>2, EvaluatedRun DEF RunHeld
  <2>5. pc \in {"admitted", "locked", "checked"} /\ req.op # "disable" =>
          SameSelector(req)' /\ run'[Evaluated(req)'].version = EvidenceVersion(req)'
    BY <1>1, <1>2, <2>3, <2>4 DEF Evidence
  <2>6. pc = "checked" /\ req.op # "disable" =>
          run'[Evaluated(req)'].approved /\ SelectorOf[Evaluated(req)'] = req.sel
    BY <1>1, <1>2, <2>3, <2>4 DEF Evidence
  <2>7. pc = "duplicate" => Accepted(j)' BY <1>2, <1>3 DEF Evidence, Accepted, Grows
  <2>8. pc = "answered" => Accepted(j)' /\ SameRequest(j)'
    BY <1>1, <1>2, <1>3 DEF Evidence, Accepted, SameRequest, Grows
  <2> QED BY <1>3, <2>5, <2>6, <2>7, <2>8 DEF Evidence
<1> QED BY <1>4, <1>5

LEMMA Stored ==
  ASSUME UNCHANGED <<pubs, changes>>
  PROVE  Grows
  BY DEF Grows

\* The evidence of the caller that moves, action by action.
LEMMA EvidenceMoves ==
  ASSUME TypeInv, NEW k \in Callers, Evidence(k),
         \/ LockRun(k) \/ LockPointer(k) \/ Replay(k) \/ Decide(k) \/ Reread(k) \/ Leave(k)
         \/ Write(k) /\ Accepted(k)
  PROVE  Evidence(k)'
<1>1. call[k] # Idle /\ UNCHANGED <<run, pubs, changes>> BY CallersMove DEF Moves, stores
<1>2. PICK req : req = call[k].req OBVIOUS
<1>3. PICK cmd : cmd = call[k].cmd OBVIOUS
<1>4. req \in RequestRow /\ Requested(req) /\ req.op \in Ops BY <1>1, <1>2, CallAt
<1>5. CASE End(k)
  <2>1. call'[k].pc = "idle" BY <1>5, EndSteps DEF Idle
  <2> QED BY <2>1 DEF Evidence
<1>6. ASSUME NEW pc \in CallSteps, To(k, pc)
      PROVE  call'[k].pc = pc /\ call'[k].req = req /\ call'[k].cmd = cmd
  BY <1>1, <1>2, <1>3, <1>6, ToSteps
<1>7. /\ Evaluated(req)' = Evaluated(req) /\ SameSelector(req)' = SameSelector(req)
      /\ EvidenceVersion(req)' = EvidenceVersion(req)
  BY <1>1 DEF Evaluated, SameSelector, EvidenceVersion
<1>8. CASE LockRun(k) /\ To(k, "admitted")
  <2>1. call'[k].pc = "admitted" /\ call'[k].req = req BY <1>6, <1>8 DEF CallSteps
  <2>2. req.op # "disable" => SameSelector(req) /\ run[Evaluated(req)].version = EvidenceVersion(req)
    <3>1. CASE \/ req.op = "disable"
               \/ SameSelector(req) /\ run[Evaluated(req)].version = EvidenceVersion(req)
      BY <3>1
    <3>2. CASE ~(\/ req.op = "disable"
                 \/ SameSelector(req) /\ run[Evaluated(req)].version = EvidenceVersion(req))
      <4>1. End(k) BY <1>2, <1>8, <3>2 DEF LockRun
      <4>2. call'[k].pc = "idle" BY <4>1, EndSteps DEF Idle
      <4> QED BY <2>1, <4>2
    <3> QED BY <3>1, <3>2
  <2> QED BY <1>1, <1>7, <2>1, <2>2 DEF Evidence
<1>9. CASE LockPointer(k)
  <2>1. call'[k].pc = "locked" /\ call'[k].req = req BY <1>6, <1>9 DEF CallSteps, LockPointer
  <2>2. req.op # "disable" => SameSelector(req) /\ run[Evaluated(req)].version = EvidenceVersion(req)
    BY <1>2, <1>9 DEF LockPointer, Evidence
  <2> QED BY <1>1, <1>7, <2>1, <2>2 DEF Evidence
<1>10. CASE (Replay(k) \/ Reread(k)) /\ ~End(k)
  <2>1. Accepted(k) /\ SameRequest(k) /\ To(k, "answered")
    BY <1>10 DEF Replay, Reread, Evidence, Answer
  <2>2. call'[k].pc = "answered" /\ call'[k].req = req /\ call'[k].cmd = cmd
    BY <1>6, <2>1 DEF CallSteps
  <2>3. Accepted(k)' /\ SameRequest(k)' BY <1>1, <1>2, <1>3, <2>1, <2>2 DEF Accepted, SameRequest
  <2> QED BY <2>2, <2>3 DEF Evidence
<1>11. CASE Decide(k) /\ ~End(k)
  <2>1. To(k, "checked") /\ (req.op # "disable" => Proven(req)) /\ call[k].pc = "locked"
    BY <1>2, <1>11 DEF Decide
  <2>2. call'[k].pc = "checked" /\ call'[k].req = req BY <1>6, <2>1 DEF CallSteps
  <2>3. req.op # "disable" => SameSelector(req) /\ run[Evaluated(req)].version = EvidenceVersion(req)
    BY <1>2, <2>1 DEF Evidence
  <2>4. req.op # "disable" => run[Evaluated(req)].approved /\ SelectorOf[Evaluated(req)] = req.sel
    BY <2>1 DEF Proven
  <2> QED BY <1>1, <1>7, <2>2, <2>3, <2>4 DEF Evidence
<1>12. CASE Write(k) /\ Accepted(k)
  <2>1. To(k, "duplicate") BY <1>12 DEF Write
  <2>2. call'[k].pc = "duplicate" /\ call'[k].cmd = cmd BY <1>6, <2>1 DEF CallSteps
  <2>3. Accepted(k)' BY <1>1, <1>3, <1>12, <2>2 DEF Accepted
  <2> QED BY <2>2, <2>3 DEF Evidence
<1>13. LockRun(k) => To(k, "admitted") \/ End(k) BY DEF LockRun
<1>14. Leave(k) => End(k) BY DEF Leave
<1> QED BY <1>5, <1>8, <1>9, <1>10, <1>11, <1>12, <1>13, <1>14

LEMMA EvidenceStep ==
  ASSUME TypeInv, EvidenceInv, TablesInv, PlansInv, [Next]_vars
  PROVE  EvidenceInv'
<1>0. PubsInv /\ \A j \in Callers : Evidence(j) BY DEF TablesInv, EvidenceInv
<1>1. ASSUME NEW k \in Callers, Submit(k)
      PROVE  EvidenceInv'
  <2>1. UNCHANGED <<run, pubs, changes>> /\ call'[k].pc = "begun"
        /\ \A j \in Callers : j # k => call'[j] = call[j]
    BY <1>1, SubmitType DEF stores
  <2>2. Evidence(k)' BY <2>1 DEF Evidence
  <2>3. \A j \in Callers : j # k => Evidence(j)' BY <1>0, <2>1, Stored, EvidenceStays
  <2> QED BY <2>2, <2>3 DEF EvidenceInv
<1>2. ASSUME NEW k \in Callers,
             \/ LockRun(k) \/ LockPointer(k) \/ Replay(k) \/ Decide(k) \/ Reread(k) \/ Leave(k)
             \/ Write(k) /\ Accepted(k)
      PROVE  EvidenceInv'
  <2>1. Moves(k) BY <1>2, CallersMove
  <2>2. UNCHANGED <<run, pubs, changes>> /\ \A j \in Callers : j # k => call'[j] = call[j]
    BY <2>1, ToSteps, EndSteps DEF Moves, stores
  <2>3. Evidence(k)' BY <1>0, <1>2, EvidenceMoves
  <2>4. \A j \in Callers : j # k => Evidence(j)' BY <1>0, <2>2, Stored, EvidenceStays
  <2> QED BY <2>3, <2>4 DEF EvidenceInv
<1>3. ASSUME NEW k \in Callers, Changes(k)
      PROVE  EvidenceInv'
  <2>1. Grows /\ UNCHANGED run /\ call[k] # Idle /\ To(k, "answered") BY <1>0, <1>3, Written
  <2>2. /\ call'[k].pc = "answered" /\ call'[k].cmd = call[k].cmd /\ call'[k].req = call[k].req
        /\ \A j \in Callers : j # k => call'[j] = call[j]
    BY <2>1, ToSteps DEF CallSteps
  <2>3. call[k].cmd \in DOMAIN changes' /\ changes'[call[k].cmd].req = call[k].req
    <3>1. /\ DOMAIN changes' = DOMAIN changes \cup {call[k].cmd}
          /\ changes'[call[k].cmd] = [sel |-> call[k].req.sel, req |-> call[k].req,
                                      previous |-> pointer[call[k].req.sel], current |-> Moved(k)]
      BY <1>0, <1>3, Written
    <3> QED BY <3>1
  <2>4. Accepted(k)' /\ SameRequest(k)' BY <2>2, <2>3 DEF Accepted, SameRequest
  <2>5. Evidence(k)' BY <2>2, <2>4 DEF Evidence
  <2>6. \A j \in Callers : j # k => Evidence(j)' BY <1>0, <2>1, <2>2, EvidenceStays
  <2> QED BY <2>5, <2>6 DEF EvidenceInv
<1>4. ASSUME UNCHANGED <<pubs, changes, call>>, \A r \in Runs : RunHeld(r) => run'[r] = run[r]
      PROVE  EvidenceInv'
  BY <1>0, <1>4, Stored, EvidenceStays DEF EvidenceInv
<1>5. CASE Reviews BY <1>4, <1>5, ReviewsRuns DEF Reviews
<1>6. CASE \E s \in Sessions : SessionStep(s) BY <1>4, <1>6, SessionsAt
<1>7. CASE UNCHANGED vars BY <1>4, <1>7 DEF vars
<1>8. CASE \E k \in Callers : \/ Submit(k) \/ LockRun(k) \/ LockPointer(k) \/ Replay(k)
                              \/ Decide(k) \/ Write(k) \/ Reread(k) \/ Leave(k)
  BY <1>1, <1>2, <1>3, <1>8 DEF Changes
<1>9. CASE \E r \in Runs : Reopen(r) \/ Finalize(r) \/ WithdrawModel(r)
  BY <1>5, <1>9 DEF Reopen, Finalize, WithdrawModel, Reviews
<1>10. CASE \E s \in Sessions : \/ StartDirect(s) \/ CommitDirect(s) \/ FreezeStart(s)
                                \/ StartRoot(s) \/ CommitRoot(s) \/ Execute(s)
  BY <1>6, <1>10, SessionsStep
<1> QED BY <1>7, <1>8, <1>9, <1>10 DEF Next

-----------------------------------------------------------------------------
(* The tables.                                                              *)

\* Steps other than a written change leave the tables alone.
LEMMA TablesStay ==
  ASSUME TypeInv, TablesInv, PlansInv, [Next]_vars, \A k \in Callers : ~Changes(k)
  PROVE  UNCHANGED <<pubs, pointer, changes>>
<1>1. CASE \E k \in Callers : Submit(k) \/ Moves(k) \/ Changes(k)
  BY <1>1 DEF Submit, Moves, stores
<1>2. CASE Reviews BY <1>2 DEF Reviews
<1>3. CASE \E s \in Sessions : SessionStep(s) BY <1>3, SessionsAt
<1>4. CASE UNCHANGED vars BY <1>4 DEF vars
<1> QED BY <1>1, <1>2, <1>3, <1>4, NextSteps

LEMMA PubsWritten ==
  ASSUME TypeInv, PubsInv, EvidenceInv, NEW k \in Callers, Changes(k)
  PROVE  PubsInv'
<1>1. Grows /\ DOMAIN changes' = DOMAIN changes \cup {call[k].cmd} BY Written
<1>2. \A p \in DOMAIN pubs : p \in DOMAIN changes' /\ SelectorOf[pubs'[p].run] = pubs'[p].sel
  BY <1>1 DEF PubsInv, Grows
<1>3. CASE call[k].req.op # "publish"
  <2>1. pubs' = pubs BY <1>3, Written
  <2> QED BY <1>2, <2>1 DEF PubsInv
<1>4. CASE call[k].req.op = "publish"
  <2>1. DOMAIN pubs' = DOMAIN pubs \cup {call[k].cmd} BY <1>4, Written
  <2>2. Target(k) = call[k].cmd BY <1>4 DEF Target
  <2>3. call[k].cmd # None BY PublicationAssumption, Written
  <2>4. SelectorOf[pubs'[call[k].cmd].run] = pubs'[call[k].cmd].sel BY <2>2, <2>3, MovedOnto
  <2> QED BY <1>1, <1>2, <2>1, <2>4 DEF PubsInv
<1> QED BY <1>3, <1>4

LEMMA PointersWritten ==
  ASSUME TypeInv, TablesInv, EvidenceInv, NEW k \in Callers, Changes(k)
  PROVE  PointersInv'
<1>0. PubsInv BY DEF TablesInv
<1>1. PICK s \in Selectors : s = call[k].req.sel BY <1>0, Written
<1>2. /\ pointer'[s] = Moved(k) /\ \A t \in Selectors : t # s => pointer'[t] = pointer[t]
      /\ Grows
  BY <1>0, <1>1, Written
<1>3. pointer'[s].version = pointer[s].version + 1 /\ pointer'[s].active = Target(k)
  BY <1>0, <1>1, <1>2, MovedType
<1>4. pointer'[s].version # 0
  <2>1. pointer[s].version \in Nat BY DEF TypeInv, TypeOK, PointerRow
  <2> QED BY <1>3, <2>1
<1>5. pointer'[s].active # None =>
        pointer'[s].active \in DOMAIN pubs' /\ pubs'[pointer'[s].active].sel = s
  BY <1>0, <1>1, <1>3, MovedOnto
<1>6. ASSUME NEW t \in Selectors, t # s
      PROVE  /\ pointer'[t].version = 0 => pointer'[t] = Empty
             /\ pointer'[t].active # None =>
                  pointer'[t].active \in DOMAIN pubs' /\ pubs'[pointer'[t].active].sel = t
  BY <1>2, <1>6 DEF TablesInv, PointersInv, Grows
<1> QED BY <1>4, <1>5, <1>6 DEF PointersInv

\* The receipt extends the chain of its selector and no other.
LEMMA AuditWritten ==
  ASSUME TypeInv, TablesInv, EvidenceInv, NEW k \in Callers, Changes(k)
  PROVE  PointerAudited'
<1>0. PubsInv BY DEF TablesInv
<1>1. PICK s \in Selectors : s = call[k].req.sel BY <1>0, Written
<1>2. PICK c \in Commands : c = call[k].cmd BY <1>0, Written
<1>3. /\ pointer'[s] = Moved(k) /\ \A t \in Selectors : t # s => pointer'[t] = pointer[t]
      /\ Grows /\ DOMAIN changes' = DOMAIN changes \cup {c} /\ c \notin DOMAIN changes
  BY <1>0, <1>1, <1>2, Written
<1>4. changes'[c] = [sel |-> s, req |-> call[k].req, previous |-> pointer[s], current |-> Moved(k)]
  BY <1>0, <1>1, <1>2, Written
<1>5. changes'[c].sel = s /\ changes'[c].previous = pointer[s] /\ changes'[c].current = Moved(k)
  BY <1>4
<1>6. /\ Moved(k).version = pointer[s].version + 1 /\ pointer[s].version \in Nat
  BY <1>0, <1>1, MovedType DEF TypeInv, TypeOK, PointerRow
<1>7. \A d \in DOMAIN changes : changes'[d] = changes[d] BY <1>3 DEF Grows
<1>8. ASSUME NEW t \in Selectors, t # s
      PROVE  Audited(t)'
  <2>1. History(t)' = History(t) BY <1>3, <1>5, <1>7, <1>8 DEF History
  <2>2. \A d \in History(t) : changes'[d] = changes[d] BY <1>7 DEF History
  <2>3. pointer'[t] = pointer[t] BY <1>3, <1>8
  <2>4. /\ {changes[d].current.version : d \in History(t)} = 1..pointer[t].version
        /\ Cardinality(History(t)) = pointer[t].version
        /\ \A d \in History(t) :
              IF changes[d].previous.version = 0 THEN changes[d].previous = Empty
              ELSE \E e \in History(t) : changes[e].current = changes[d].previous
        /\ pointer[t].version > 0 =>
              \E d \in History(t) : changes[d].current = pointer[t]
    BY DEF TablesInv, PointerAudited, Audited
  <2>5. {changes'[d].current.version : d \in History(t)}
          = {changes[d].current.version : d \in History(t)}
    BY <2>2
  <2>6. /\ \A d \in History(t) :
             IF changes'[d].previous.version = 0 THEN changes'[d].previous = Empty
             ELSE \E e \in History(t) : changes'[e].current = changes'[d].previous
        /\ pointer[t].version > 0 => \E d \in History(t) : changes'[d].current = pointer[t]
    BY <2>2, <2>4
  <2> QED BY <2>1, <2>3, <2>4, <2>5, <2>6 DEF Audited
<1>9. Audited(s)'
  <2>1. History(s)' = History(s) \cup {c} BY <1>3, <1>5, <1>7 DEF History
  <2>2. \A d \in History(s) : changes'[d] = changes[d] BY <1>7 DEF History
  <2>3. c \notin History(s) BY <1>3 DEF History
  <2>4. /\ {changes[d].current.version : d \in History(s)} = 1..pointer[s].version
        /\ Cardinality(History(s)) = pointer[s].version
        /\ \A d \in History(s) :
              IF changes[d].previous.version = 0 THEN changes[d].previous = Empty
              ELSE \E e \in History(s) : changes[e].current = changes[d].previous
        /\ pointer[s].version > 0 =>
              \E d \in History(s) : changes[d].current = pointer[s]
    BY DEF TablesInv, PointerAudited, Audited
  <2>5. {changes'[d].current.version : d \in History(s)'} = 1..pointer'[s].version
    <3>1. {changes'[d].current.version : d \in History(s)'}
            = {changes[d].current.version : d \in History(s)} \cup {pointer[s].version + 1}
      BY <1>5, <1>6, <2>1, <2>2
    <3>2. 1..(pointer[s].version + 1) = 1..pointer[s].version \cup {pointer[s].version + 1}
      BY <1>6
    <3> QED BY <1>3, <1>6, <2>4, <3>1, <3>2
  <2>6. Cardinality(History(s)') = pointer'[s].version
    <3>1. IsFiniteSet(History(s)) BY FS_Subset DEF History, TypeInv, TypeOK
    <3>2. Cardinality(History(s) \cup {c}) = Cardinality(History(s)) + 1
      BY <2>3, <3>1, FS_AddElement
    <3> QED BY <1>3, <1>6, <2>1, <2>4, <3>2
  <2>7. ASSUME NEW d \in History(s)', changes'[d].previous.version # 0
        PROVE  \E e \in History(s)' : changes'[e].current = changes'[d].previous
    <3>1. CASE d = c
      <4>1. changes'[d].previous = pointer[s] BY <1>5, <3>1
      <4>2. pointer[s].version > 0 BY <1>6, <2>7, <4>1
      <4> QED BY <2>1, <2>2, <2>4, <4>1, <4>2
    <3>2. CASE d # c
      <4>1. d \in History(s) /\ changes'[d] = changes[d] BY <2>1, <2>2, <3>2
      <4>2. PICK e \in History(s) : changes[e].current = changes[d].previous BY <2>4, <2>7, <4>1
      <4> QED BY <2>1, <2>2, <4>1, <4>2
    <3> QED BY <3>1, <3>2
  <2>8. ASSUME NEW d \in History(s)', changes'[d].previous.version = 0
        PROVE  changes'[d].previous = Empty
    <3>1. CASE d = c BY <1>5, <2>8, <3>1 DEF TablesInv, PointersInv
    <3>2. CASE d # c BY <2>1, <2>2, <2>4, <2>8, <3>2
    <3> QED BY <3>1, <3>2
  <2>9. \E d \in History(s)' : changes'[d].current = pointer'[s] BY <1>3, <1>5, <2>1
  <2> QED BY <2>5, <2>6, <2>7, <2>8, <2>9 DEF Audited
<1> QED BY <1>8, <1>9 DEF PointerAudited

LEMMA TablesStep ==
  ASSUME TypeInv, EvidenceInv, TablesInv, PlansInv, [Next]_vars
  PROVE  TablesInv'
<1>1. CASE \E k \in Callers : Changes(k)
  BY <1>1, PubsWritten, PointersWritten, AuditWritten DEF TablesInv
<1>2. CASE \A k \in Callers : ~Changes(k)
  <2>1. UNCHANGED <<pubs, pointer, changes>> BY <1>2, TablesStay
  <2>2. PubsInv' /\ PointersInv' BY <2>1 DEF TablesInv, PubsInv, PointersInv
  <2>3. PointerAudited' BY <2>1 DEF TablesInv, PointerAudited, Audited, History
  <2> QED BY <2>2, <2>3 DEF TablesInv
<1> QED BY <1>1, <1>2

-----------------------------------------------------------------------------
(* The plans of sessions.                                                   *)

LEMMA SoundStays ==
  ASSUME Grows, NEW plan, Sound(plan)
  PROVE  Sound(plan)'
<1>1. CASE plan = None BY <1>1 DEF Sound
<1>2. CASE plan # None
  <2>1. /\ plan.publication \in DOMAIN pubs' /\ pubs'[plan.publication] = pubs[plan.publication]
    BY <1>2 DEF Sound, Grows
  <2>2. PICK c \in DOMAIN changes :
          /\ changes[c].sel = pubs[plan.publication].sel
          /\ changes[c].current = [version |-> plan.version, active |-> plan.publication]
    BY <1>2 DEF Sound, Readable
  <2>3. c \in DOMAIN changes' /\ changes'[c] = changes[c] BY <2>2 DEF Grows
  <2>4. Readable(plan)' BY <2>1, <2>2, <2>3 DEF Readable
  <2> QED BY <2>1, <2>4 DEF Sound
<1> QED BY <1>1, <1>2

LEMMA PlansStep ==
  ASSUME TypeInv, EvidenceInv, TablesInv, PlansInv, [Next]_vars
  PROVE  PlansInv'
<1>0. PubsInv BY DEF TablesInv
<1>1. Grows
  <2>1. CASE \E k \in Callers : Changes(k) BY <1>0, <2>1, Written
  <2>2. CASE \A k \in Callers : ~Changes(k) BY <2>2, TablesStay, Stored
  <2> QED BY <2>1, <2>2
<1>2. ASSUME NEW s \in Sessions, session'[s] = session[s]
      PROVE  Keeps(s)'
  <2>1. PICK plan : plan = session[s].plan OBVIOUS
  <2>2. Sound(plan)' BY <1>1, <2>1, PlanAt, SoundStays
  <2>3. session'[s].plan = plan /\ session'[s].pc = session[s].pc BY <1>2, <2>1
  <2> QED BY <2>1, <2>2, <2>3 DEF PlansInv, Keeps, Sound, Readable
<1>3. CASE \E s \in Sessions : SessionStep(s)
  <2>1. PICK s \in Sessions : SessionStep(s) BY <1>3
  <2>2. /\ UNCHANGED <<pubs, changes>>
        /\ \A t \in Sessions : t # s => session'[t] = session[t]
        /\ Sound(session'[s].plan) /\ session'[s].pc # "unavailable"
        /\ session'[s].pc \in {"bound", "dispatched"} => session'[s].plan # None
    BY <2>1, SessionsAt
  <2>3. Keeps(s)' BY <2>2 DEF Sound, Readable, Keeps
  <2> QED BY <1>2, <2>2, <2>3 DEF PlansInv
<1>4. CASE UNCHANGED session BY <1>2, <1>4 DEF PlansInv
<1>5. (\E k \in Callers : Submit(k) \/ Moves(k)) => UNCHANGED session BY DEF Submit, Moves
<1>6. (\E k \in Callers : Changes(k)) => UNCHANGED session BY <1>0, Written
<1> QED BY <1>3, <1>4, <1>5, <1>6, NextSteps DEF Reviews, vars

-----------------------------------------------------------------------------
(* The theorems.                                                            *)

-----------------------------------------------------------------------------
(* The roots.                                                               *)

\* A root's plan still resolves: the pointers only move under a lock that no
\* change gets before the root has ended.
LEMMA RootsStay ==
  ASSUME RootsInv, UNCHANGED <<pointer, session>>,
         \A k \in Callers : call'[k].pc \in {"locked", "checked"} =>
                               call[k].pc \in {"locked", "checked"}
  PROVE  RootsInv'
<1>1. Resolved' = Resolved BY DEF Resolved, ActiveSelectors, MostSpecific
<1>2. \A s \in Sessions : RootHolds(s)' = RootHolds(s) BY DEF RootHolds
<1> QED BY <1>1, <1>2 DEF RootsInv

LEMMA NoRoots ==
  ASSUME \A s \in Sessions : ~RootHolds(s), UNCHANGED session
  PROVE  RootsInv'
<1>1. \A s \in Sessions : RootHolds(s)' = RootHolds(s) BY DEF RootHolds
<1> QED BY <1>1 DEF RootsInv

LEMMA RootsCalls ==
  ASSUME TypeInv, TablesInv, RootsInv, NEW k \in Callers,
         \/ Submit(k) \/ LockRun(k) \/ LockPointer(k) \/ Replay(k)
         \/ Decide(k) \/ Write(k) \/ Reread(k) \/ Leave(k)
  PROVE  RootsInv'
<1>1. ASSUME Moves(k), call'[k].pc \in {"locked", "checked"} => call[k].pc \in {"locked", "checked"}
      PROVE  RootsInv'
  <2>1. \A j \in Callers : j # k => call'[j] = call[j] BY <1>1, ToSteps, EndSteps DEF Moves
  <2> QED BY <1>1, <2>1, RootsStay DEF Moves, stores
<1>2. CASE Submit(k)
  <2>1. /\ UNCHANGED <<pointer, session>> /\ call'[k].pc = "begun"
        /\ \A j \in Callers : j # k => call'[j] = call[j]
    BY <1>2, SubmitType DEF stores
  <2> QED BY <2>1, RootsStay
<1>3. CASE LockPointer(k)
  <2>1. \A s \in Sessions : ~RootHolds(s) BY <1>3 DEF LockPointer, PointerHeld
  <2> QED BY <1>3, <2>1, NoRoots DEF LockPointer
<1>4. CASE Write(k) /\ ~Accepted(k)
  <2>1. call[k].pc = "checked" /\ UNCHANGED session BY <1>4 DEF Write
  <2>2. \A s \in Sessions : ~RootHolds(s) BY <2>1 DEF RootsInv
  <2> QED BY <2>1, <2>2, NoRoots
<1>5. CASE Decide(k)
  <2>1. Moves(k) /\ call[k].pc = "locked" BY <1>5, CallersMove DEF Decide
  <2> QED BY <1>1, <2>1
<1>6. CASE \/ LockRun(k) \/ Replay(k) \/ Reread(k) \/ Leave(k) \/ (Write(k) /\ Accepted(k))
  <2>1. Moves(k) BY <1>6, CallersMove
  <2>2. \/ \E pc \in {"admitted", "answered", "duplicate"} : To(k, pc)
        \/ End(k)
    BY <1>6 DEF LockRun, Replay, Reread, Leave, Write, Answer
  <2>3. call'[k].pc \notin {"locked", "checked"}
    <3>1. CASE End(k)
      <4>1. call'[k].pc = "idle" BY <3>1, EndSteps DEF Idle
      <4> QED BY <4>1
    <3>2. CASE \E pc \in {"admitted", "answered", "duplicate"} : To(k, pc)
      <4>1. PICK pc \in {"admitted", "answered", "duplicate"} : To(k, pc) BY <3>2
      <4>2. call'[k].pc = pc BY <2>1, <4>1, ToSteps DEF Moves, CallSteps
      <4> QED BY <4>2
    <3> QED BY <2>2, <3>1, <3>2
  <2> QED BY <1>1, <2>1, <2>3
<1>7. CASE Write(k)
  <2>1. Accepted(k) \/ ~Accepted(k) OBVIOUS
  <2> QED BY <1>4, <1>6, <1>7, <2>1
<1>8. CASE LockRun(k) \/ Replay(k) \/ Reread(k) \/ Leave(k) BY <1>6, <1>8
<1> QED BY <1>2, <1>3, <1>5, <1>7, <1>8

\* A root takes the pointers when no change has one.
LEMMA RootsSessions ==
  ASSUME TypeInv, TablesInv, PlansInv, RootsInv, NEW s \in Sessions,
         \/ StartDirect(s) \/ CommitDirect(s) \/ FreezeStart(s)
         \/ StartRoot(s) \/ CommitRoot(s) \/ Execute(s)
  PROVE  RootsInv'
<1>1. SessionStep(s) BY SessionsStep
<1>2. /\ UNCHANGED <<pointer, call>> /\ \A t \in Sessions : t # s => session'[t] = session[t]
      /\ session \in [Sessions -> [pc : SessionSteps, plan : PlanRow \cup {None}]]
  BY <1>1, SessionsAt DEF TypeInv, TypeOK
<1>3. Resolved' = Resolved BY <1>2 DEF Resolved, ActiveSelectors, MostSpecific
<1>4. \A t \in Sessions : t # s => RootHolds(t)' = RootHolds(t) BY <1>2 DEF RootHolds
<1>5. RootHolds(s)' => /\ session'[s].plan = Resolved
                       /\ \A k \in Callers : call[k].pc \notin {"locked", "checked"}
  <2>1. CASE ~StartRoot(s)
    <3>1. \E pc \in SessionSteps \ {"root"}, plan \in PlanRow \cup {None} : Set(s, pc, plan)
      <4>1. PICK new \in PlanRow \cup {None} : new = Planned
        BY PlannedSound DEF Sound
      <4>2. PICK old \in PlanRow \cup {None} : old = session[s].plan BY <1>2
      <4> QED BY <2>1, <4>1, <4>2 DEF StartDirect, CommitDirect, FreezeStart, CommitRoot, Execute,
                                      SessionSteps
    <3>2. session'[s].pc # "root" BY <1>2, <3>1 DEF Set
    <3> QED BY <3>2 DEF RootHolds
  <2>2. CASE StartRoot(s)
    <3>1. CASE Planned # session[s].plan
      <4>1. session'[s].pc = "new" BY <1>2, <2>2, <3>1 DEF StartRoot, Set
      <4> QED BY <4>1 DEF RootHolds
    <3>2. CASE Planned = session[s].plan
      <4>1. session'[s].plan = session[s].plan BY <1>2, <2>2, <3>2 DEF StartRoot, Set
      <4>2. CASE session[s].plan = None BY <4>1, <4>2 DEF RootHolds
      <4>3. CASE session[s].plan # None
        <5>1. session'[s].plan = Resolved BY <3>2, <4>1, <4>3 DEF Planned
        <5>2. \A t \in Selectors : ~PointerHeld(t) BY <2>2, <4>3 DEF StartRoot
        <5>3. ASSUME NEW k \in Callers, call[k].pc \in {"locked", "checked"}
              PROVE  FALSE
          <6>1. call[k] # Idle BY <5>3, NotIdle DEF CallSteps
          <6>2. call[k].req.sel \in Selectors BY <6>1, CallAt
          <6> QED BY <5>2, <5>3, <6>2 DEF PointerHeld
        <5> QED BY <5>1, <5>3
      <4> QED BY <4>2, <4>3
    <3> QED BY <3>1, <3>2
  <2> QED BY <2>1, <2>2
<1> QED BY <1>2, <1>3, <1>4, <1>5 DEF RootsInv

LEMMA RootsStep ==
  ASSUME TypeInv, TablesInv, PlansInv, RootsInv, [Next]_vars
  PROVE  RootsInv'
<1>1. CASE \E k \in Callers : \/ Submit(k) \/ LockRun(k) \/ LockPointer(k) \/ Replay(k)
                              \/ Decide(k) \/ Write(k) \/ Reread(k) \/ Leave(k)
  BY <1>1, RootsCalls
<1>2. CASE \E r \in Runs : Reopen(r) \/ Finalize(r) \/ WithdrawModel(r)
  <2>1. UNCHANGED <<pointer, call, session>> BY <1>2 DEF Reopen, Finalize, WithdrawModel
  <2> QED BY <2>1, RootsStay
<1>3. CASE \E s \in Sessions : \/ StartDirect(s) \/ CommitDirect(s) \/ FreezeStart(s)
                               \/ StartRoot(s) \/ CommitRoot(s) \/ Execute(s)
  BY <1>3, RootsSessions
<1>4. CASE UNCHANGED vars BY <1>4, RootsStay DEF vars
<1> QED BY <1>1, <1>2, <1>3, <1>4 DEF Next

-----------------------------------------------------------------------------
Inv == TypeInv /\ EvidenceInv /\ TablesInv /\ PlansInv /\ RootsInv

LEMMA InitInv == Init => Inv
<1> SUFFICES ASSUME Init PROVE Inv OBVIOUS
<1>1. /\ DOMAIN pubs = {} /\ DOMAIN changes = {} /\ \A k \in Callers : call[k] = Idle
      /\ \A s \in Selectors : pointer[s] = Empty
      /\ \A s \in Sessions : session[s] = Fresh
  BY DEF Init
<1>2. TypeOK
  <2>1. run \in [Runs -> [version : Nat, approved : BOOLEAN]] BY DEF Init
  <2>2. pointer \in [Selectors -> PointerRow] BY DEF Init, Empty, PointerRow
  <2>3. call \in [Callers -> CallRow \cup {Idle}] BY DEF Init
  <2>4. session \in [Sessions -> [pc : SessionSteps, plan : PlanRow \cup {None}]]
    BY DEF Init, Fresh, SessionSteps
  <2> QED BY <1>1, <2>1, <2>2, <2>3, <2>4, FS_EmptySet DEF TypeOK
<1>3. TypeInv BY <1>1, <1>2 DEF TypeInv, RequestsInv
<1>4. EvidenceInv BY <1>1 DEF EvidenceInv, Evidence, Idle
<1>5. PubsInv /\ PointersInv BY <1>1 DEF PubsInv, PointersInv, Empty
<1>6. PointerAudited
  <2>1. \A s \in Selectors : History(s) = {} /\ pointer[s].version = 0 BY <1>1 DEF History, Empty
  <2>2. Cardinality({}) = 0 BY FS_EmptySet
  <2> QED BY <2>1, <2>2 DEF PointerAudited, Audited
<1>7. PlansInv BY <1>1 DEF PlansInv, Keeps, Fresh
<1>8. RootsInv BY <1>1 DEF RootsInv, RootHolds, Fresh
<1> QED BY <1>3, <1>4, <1>5, <1>6, <1>7, <1>8 DEF Inv, TablesInv

\* The inductive invariant: rows have their types and requests name what
\* exists; what a call checked under its lock still holds; the tables chain;
\* what a root planned under its locks still resolves.
LEMMA InvHolds == Spec => []Inv
<1>1. Inv /\ [Next]_vars => Inv' BY TypeStep, EvidenceStep, TablesStep, PlansStep, RootsStep DEF Inv
<1> QED BY <1>1, InitInv, PTL DEF Spec

\* A pointer moves only onto a publication whose Run is finally approved, at
\* that moment, at the version it was published from: the Run that a change
\* locked cannot be reopened before the change is written (change_publication
\* under the checkpoint lock).
THEOREM MovesOntoApproved == Spec => MovedOntoApproved
<1>1. Inv /\ [Next]_vars =>
        [\A s \in Selectors :
            LET p == pointer'[s].active IN
            p # None /\ pointer'[s] # pointer[s] =>
                /\ run[pubs'[p].run].approved
                /\ run[pubs'[p].run].version = pubs'[p].version]_vars
  <2> SUFFICES ASSUME Inv, [Next]_vars, NEW s \in Selectors,
                      pointer'[s].active # None, pointer'[s] # pointer[s]
               PROVE  /\ run[pubs'[pointer'[s].active].run].approved
                      /\ run[pubs'[pointer'[s].active].run].version
                           = pubs'[pointer'[s].active].version
    OBVIOUS
  <2>0. TypeInv /\ EvidenceInv /\ TablesInv /\ PlansInv /\ PubsInv BY DEF Inv, TablesInv
  <2>1. PICK k \in Callers : Changes(k) BY <2>0, TablesStay
  <2>2. s = call[k].req.sel /\ pointer'[s] = Moved(k) BY <2>0, <2>1, Written
  <2>3. pointer'[s].active = Target(k) BY <2>0, <2>1, <2>2, MovedType
  <2> QED BY <2>0, <2>1, <2>3, MovedOnto
<1> QED BY <1>1, InvHolds, PTL DEF MovedOntoApproved, Spec

\* A root that commits a frozen start binds what the pointers resolve to when
\* it commits, although they were read some steps earlier: plan_configuration
\* locks every candidate, and no change moves one before the root has ended.
THEOREM RootsBindCurrent == Spec => RootBindsCurrent
<1>1. Inv /\ [Next]_vars =>
        [\A s \in Sessions :
            session[s].pc = "root" /\ session'[s].pc = "bound" => session'[s].plan = Resolved]_vars
  <2> SUFFICES ASSUME Inv, Next, NEW s \in Sessions,
                      session[s].pc = "root", session'[s].pc = "bound"
               PROVE  session'[s].plan = Resolved
    BY DEF vars
  <2>0. TypeInv /\ TablesInv /\ PlansInv /\ PubsInv /\ RootsInv
        /\ session \in [Sessions -> [pc : SessionSteps, plan : PlanRow \cup {None}]]
    BY DEF Inv, TablesInv, TypeInv, TypeOK
  <2>1. CASE \E k \in Callers : \/ Submit(k) \/ LockRun(k) \/ LockPointer(k) \/ Replay(k)
                                \/ Decide(k) \/ Write(k) \/ Reread(k) \/ Leave(k)
    BY <2>1 DEF Submit, LockRun, LockPointer, Replay, Decide, Write, Reread, Leave
  <2>2. CASE \E r \in Runs : Reopen(r) \/ Finalize(r) \/ WithdrawModel(r)
    BY <2>2 DEF Reopen, Finalize, WithdrawModel
  <2>3. CASE \E t \in Sessions : \/ StartDirect(t) \/ CommitDirect(t) \/ FreezeStart(t)
                                 \/ StartRoot(t) \/ CommitRoot(t) \/ Execute(t)
    <3>1. PICK t \in Sessions : \/ StartDirect(t) \/ CommitDirect(t) \/ FreezeStart(t)
                                \/ StartRoot(t) \/ CommitRoot(t) \/ Execute(t)
      BY <2>3
    <3>2. \E pc, plan : Set(t, pc, plan)
      BY <3>1 DEF StartDirect, CommitDirect, FreezeStart, StartRoot, CommitRoot, Execute
    <3>3. t = s BY <2>0, <3>2 DEF Set
    <3>4. CommitRoot(s)
      BY <3>1, <3>3 DEF StartDirect, CommitDirect, FreezeStart, StartRoot, Execute
    <3>5. session'[s].plan = session[s].plan /\ session[s].plan # None
      BY <2>0, <3>4 DEF CommitRoot, Set
    <3>6. session[s].plan = Resolved BY <2>0, <3>5 DEF RootsInv, RootHolds
    <3> QED BY <3>5, <3>6
  <2> QED BY <2>1, <2>2, <2>3 DEF Next
<1> QED BY <1>1, InvHolds, PTL DEF RootBindsCurrent, Spec

\* The audit chain, the profile index and the answers agree with the pointers.
THEOREM CatalogIsTrue == Spec => []CatalogTrue
<1>1. Inv => CatalogTrue
  <2> SUFFICES ASSUME Inv PROVE CatalogTrue OBVIOUS
  <2>0. TypeInv /\ EvidenceInv /\ PubsInv /\ PointersInv /\ PointerAudited
    BY DEF Inv, TablesInv
  <2>1. ToldTheTruth BY <2>0 DEF EvidenceInv, Evidence, ToldTheTruth, SameRequest
  <2>2. ASSUME NEW r \in Runs
        PROVE  IndexedStatus(r) = LifecycleStatus(r)
    <3>1. \A p \in PublicationsOf(r) : p \in DOMAIN pubs /\ pubs[p].sel = SelectorOf[r] /\ p # None
      BY <2>0, PublicationAssumption DEF PublicationsOf, PubsInv, TypeInv, TypeOK
    <3>2. SelectorOf[r] \in Selectors BY PublicationAssumption
    <3>3. (\E s \in Selectors : pointer[s].active \in PublicationsOf(r))
            <=> pointer[SelectorOf[r]].active \in PublicationsOf(r)
      BY <2>0, <3>1, <3>2 DEF PointersInv
    <3>4. PublicationsOf(r) # {} <=> \E p \in PublicationsOf(r) : pubs[p].sel = SelectorOf[r]
      BY <3>1
    <3> QED BY <3>3, <3>4 DEF IndexedStatus, LifecycleStatus
  <2> QED BY <2>0, <2>1, <2>2 DEF CatalogTrue, LifecycleAgrees
<1> QED BY <1>1, InvHolds, PTL

\* A session accepted with a publication can always read it (read_configuration
\* finds the audit of the version it was bound to).
THEOREM AcceptedIsKept == Spec => []AcceptedKeeps
<1>1. Inv => AcceptedKeeps BY DEF Inv, PlansInv, Keeps, AcceptedKeeps
<1> QED BY <1>1, InvHolds, PTL

=============================================================================
