------------------------- MODULE PublicationControl -------------------------
(***************************************************************************)
(* Publication of evaluated configurations and their binding to accepted   *)
(* sessions.  Operators publish an approved evaluation Run at a selector,  *)
(* roll the selector back to a retained publication or disable it; every   *)
(* change moves the selector's pointer by one version and leaves a receipt.*)
(* A start resolves the most specific active pointer and binds the         *)
(* publication to the session, which executes with it from then on.  A     *)
(* frozen start is planned first and bound later, by a root transaction    *)
(* that plans again with the pointers locked.                              *)
(*                                                                         *)
(* A change locks the Run, then the pointer, reads its snapshot and writes.*)
(* A row that a transaction holds FOR UPDATE is held in the pc of its call *)
(* or of its session.                                                      *)
(* A pointer row at version 0 is never committed: it is absent.            *)
(***************************************************************************)
EXTENDS Naturals, FiniteSets, FiniteSetsExt

CONSTANTS
    Selectors,   \* the selectors that match the sessions' query
    Specificity, \* how specific each of them is: kind 0, code 1, version 2
    Runs,        \* evaluation Runs
    SelectorOf,  \* the selector in the profile of each Run's release
    Commands,    \* command identities chosen by operators
    Callers,     \* operator calls in progress
    Sessions,    \* participant sessions to start
    MaxCalls,    \* bound on the calls submitted
    MaxReviews,  \* bound on the reopenings and decisions of Runs
    None

ASSUME PublicationAssumption ==
    /\ Specificity \in [Selectors -> 0 .. 2]
    /\ SelectorOf \in [Runs -> Selectors]
    /\ \A s, t \in Selectors : Specificity[s] = Specificity[t] => s = t
    /\ None \notin Commands

VARIABLES
    run,      \* version of each Run and whether it is finally approved
    enabled,  \* Runs whose release uses models the hosts still admit
    pubs,     \* retained publications, by the command that made them
    pointer,  \* version and active publication of each selector
    changes,  \* receipts, by command
    call,     \* the call each caller has in progress
    session,  \* admission and binding of each session
    calls     \* calls submitted so far

vars == <<run, enabled, pubs, pointer, changes, call, session, calls>>
stores == <<run, enabled, pubs, pointer, changes>>

Idle == [pc |-> "idle"]
Fresh == [pc |-> "new", plan |-> None]
Empty == [version |-> 0, active |-> None]

Init ==
    /\ run = [r \in Runs |-> [version |-> 1, approved |-> TRUE]]
    /\ enabled = Runs
    /\ pubs = <<>>
    /\ pointer = [s \in Selectors |-> Empty]
    /\ changes = <<>>
    /\ call = [k \in Callers |-> Idle]
    /\ session = [s \in Sessions |-> Fresh]
    /\ calls = 0

-----------------------------------------------------------------------------
(* Requests.  An operator confirms what the catalog showed: the pointer's  *)
(* version and active publication, and the Run at its version.             *)

Request(op, s, target, version) ==
    [op |-> op, sel |-> s, expected |-> pointer[s], target |-> target, version |-> version]

\* A Run is confirmed for the selector of its profile; Proven checks it again.
PublishRequests ==
    {Request("publish", SelectorOf[r], r, run[r].version) : r \in Runs}
RollbackRequests ==
    {Request("rollback", s, p, 0) : s \in Selectors, p \in DOMAIN pubs}
DisableRequests ==
    {Request("disable", s, None, 0) : s \in Selectors}

\* What the command's receipt, or a call still in progress, was asked for.
EarlierRequests(c) ==
         {changes[d].req : d \in DOMAIN changes \cap {c}}
    \cup {call[k].req : k \in {j \in Callers : call[j] # Idle /\ call[j].cmd = c}}

\* A command identity goes with a new request, used before or not, or
\* repeats one whose answer the operator did not get.
Submit(k) ==
    /\ call[k] = Idle
    /\ calls < MaxCalls
    /\ \E c \in Commands :
         \E req \in PublishRequests \cup RollbackRequests \cup DisableRequests
                    \cup EarlierRequests(c) :
            call' = [call EXCEPT ![k] = [pc |-> "begun", cmd |-> c, req |-> req]]
    /\ calls' = calls + 1
    /\ UNCHANGED <<stores, session>>

-----------------------------------------------------------------------------
(* Row locks. *)

\* The Run whose checkpoint the request locks; none to disable.
Evaluated(req) ==
    CASE req.op = "publish" -> req.target
      [] req.op = "rollback" -> pubs[req.target].run
      [] OTHER -> None

\* Flawed variant: the Run is not locked.
RunHeld_Flaw(r) == FALSE

RunHeld(r) ==
    \E k \in Callers : /\ call[k].pc \in {"admitted", "locked", "checked"}
                       /\ Evaluated(call[k].req) = r

\* A root that binds a publication holds every candidate pointer, absent
\* ones included, until it commits.
RootHolds(s) == session[s].pc = "root" /\ session[s].plan # None

\* Flawed variant: a change does not wait for the roots.
PointerHeld_Flaw(s) ==
    \E k \in Callers : call[k].pc \in {"locked", "checked"} /\ call[k].req.sel = s

PointerHeld(s) ==
    \/ \E k \in Callers : call[k].pc \in {"locked", "checked"} /\ call[k].req.sel = s
    \/ \E t \in Sessions : RootHolds(t)

To(k, pc) == call' = [call EXCEPT ![k].pc = pc]
End(k) == call' = [call EXCEPT ![k] = Idle]

\* The Run version the change relies on.
EvidenceVersion(req) ==
    IF req.op = "publish" THEN req.version ELSE pubs[req.target].version

\* A retained publication goes back only to its own selector.
SameSelector(req) == req.op = "rollback" => pubs[req.target].sel = req.sel

\* Rollback reads its target and publish and rollback lock their Run, which
\* must still have the confirmed version.
LockRun(k) ==
    LET req == call[k].req IN
    /\ call[k].pc = "begun"
    /\ req.op # "disable" => ~RunHeld(Evaluated(req))
    /\ IF \/ req.op = "disable"
          \/ SameSelector(req) /\ run[Evaluated(req)].version = EvidenceVersion(req)
       THEN To(k, "admitted") ELSE End(k)
    /\ UNCHANGED <<stores, session, calls>>

LockPointer(k) ==
    /\ call[k].pc = "admitted"
    /\ ~PointerHeld(call[k].req.sel)
    /\ To(k, "locked")
    /\ UNCHANGED <<stores, session, calls>>

-----------------------------------------------------------------------------
(* The change, decided on the snapshot that starts after the locks. *)

Accepted(k) == call[k].cmd \in DOMAIN changes
SameRequest(k) == changes[call[k].cmd].req = call[k].req

\* The caller has the receipt of its command.
Answer(k) == To(k, "answered")

\* publication_evidence: every gate passed in the final approval, for a
\* release whose profile has the selector and whose models are admitted.
Proven(req) ==
    LET r == Evaluated(req) IN
    /\ run[r].approved
    /\ SelectorOf[r] = req.sel
    /\ r \in enabled

\* change_publication.
Allowed(req) ==
    /\ pointer[req.sel] = req.expected
    /\ req.op = "disable" => pointer[req.sel].active # None
    /\ req.op = "rollback" => pointer[req.sel].version > 0
    /\ req.op = "rollback" => pointer[req.sel].active # req.target

Replay(k) ==
    /\ call[k].pc = "locked" /\ Accepted(k)
    /\ IF SameRequest(k) THEN Answer(k) ELSE End(k)
    /\ UNCHANGED <<stores, session, calls>>

Decide(k) ==
    LET req == call[k].req IN
    /\ call[k].pc = "locked" /\ ~Accepted(k)
    /\ IF (req.op # "disable" => Proven(req)) /\ Allowed(req)
       THEN To(k, "checked") ELSE End(k)
    /\ UNCHANGED <<stores, session, calls>>

\* A row is inserted under the command's key, which has no row yet.
Inserted(rows, c, row) ==
    [d \in DOMAIN rows \cup {c} |-> IF d \in DOMAIN rows THEN rows[d] ELSE row]

NewPublication(k) ==
    LET req == call[k].req IN
    IF req.op = "publish"
    THEN Inserted(pubs, call[k].cmd,
                  [sel |-> req.sel, run |-> req.target, version |-> req.version])
    ELSE pubs

Target(k) ==
    CASE call[k].req.op = "publish" -> call[k].cmd
      [] call[k].req.op = "rollback" -> call[k].req.target
      [] OTHER -> None

\* Flawed variant: disabling keeps the version.
Moved_Flaw(k) ==
    LET old == pointer[call[k].req.sel] IN
    [version |-> IF Target(k) = None THEN old.version ELSE old.version + 1,
     active |-> Target(k)]

Moved(k) ==
    [version |-> pointer[call[k].req.sel].version + 1, active |-> Target(k)]

\* Publication, pointer and receipt commit together; the receipt's key is
\* the command, which another selector's change may have used meanwhile.
Write(k) ==
    LET s == call[k].req.sel IN
    /\ call[k].pc = "checked"
    /\ \/ /\ ~Accepted(k)
          /\ pubs' = NewPublication(k)
          /\ pointer' = [pointer EXCEPT ![s] = Moved(k)]
          /\ changes' = Inserted(changes, call[k].cmd,
                                 [sel |-> s, req |-> call[k].req,
                                  previous |-> pointer[s], current |-> Moved(k)])
          /\ Answer(k)
       \/ /\ Accepted(k)
          /\ To(k, "duplicate")
          /\ UNCHANGED <<pubs, pointer, changes>>
    /\ UNCHANGED <<run, enabled, session, calls>>

\* All writes rolled back; only the exact accepted request is answered.
Reread(k) ==
    /\ call[k].pc = "duplicate"
    /\ IF SameRequest(k) THEN Answer(k) ELSE End(k)
    /\ UNCHANGED <<stores, session, calls>>

\* The answer is taken; or the host or its connection is lost and the
\* transaction rolls back.
Leave(k) ==
    /\ call[k] # Idle
    /\ End(k)
    /\ UNCHANGED <<stores, session, calls>>

-----------------------------------------------------------------------------
(* Evaluations go on: an approved Run may be reopened, then decided again; *)
(* a deployment may withdraw a model.                                      *)

MoreReviews == MapThenSumSet(LAMBDA r : run[r].version - 1, Runs) < MaxReviews

Reopen(r) ==
    /\ run[r].approved /\ ~RunHeld(r) /\ MoreReviews
    /\ run' = [run EXCEPT ![r] = [version |-> @.version + 1, approved |-> FALSE]]
    /\ UNCHANGED <<enabled, pubs, pointer, changes, call, session, calls>>

Finalize(r) ==
    /\ ~run[r].approved /\ ~RunHeld(r) /\ MoreReviews
    /\ run' = [run EXCEPT ![r] = [version |-> @.version + 1, approved |-> TRUE]]
    /\ UNCHANGED <<enabled, pubs, pointer, changes, call, session, calls>>

WithdrawModel(r) ==
    /\ r \in enabled
    /\ enabled' = enabled \ {r}
    /\ UNCHANGED <<run, pubs, pointer, changes, call, session, calls>>

-----------------------------------------------------------------------------
(* Admission of a session. *)

ActiveSelectors == {s \in Selectors : pointer[s].active # None}

MostSpecific(S) == CHOOSE s \in S : \A t \in S : Specificity[s] >= Specificity[t]

\* resolve_publication: the most specific active publication.
Resolved ==
    IF ActiveSelectors = {} THEN None
    ELSE LET s == MostSpecific(ActiveSelectors) IN
         [publication |-> pointer[s].active, version |-> pointer[s].version]

\* plan_configuration: it is refused when a model of its release is no
\* longer admitted.
Planned ==
    IF Resolved = None THEN None
    ELSE IF pubs[Resolved.publication].run \in enabled THEN Resolved ELSE None

Set(s, pc, plan) == session' = [session EXCEPT ![s] = [pc |-> pc, plan |-> plan]]
NoPublication == UNCHANGED <<stores, call, calls>>

\* The original start reads the pointers unlocked in its own transaction and
\* commits the binding or a durable refusal.
StartDirect(s) ==
    /\ session[s].pc = "new"
    /\ Set(s, "binding", Planned)
    /\ NoPublication

CommitDirect(s) ==
    /\ session[s].pc = "binding"
    /\ Set(s, IF session[s].plan = None THEN "refused" ELSE "bound", session[s].plan)
    /\ NoPublication

\* The frozen start plans without locks, long before its root.
FreezeStart(s) ==
    /\ session[s].pc = "new"
    /\ Set(s, "frozen", Planned)
    /\ NoPublication

\* The root plans again: a frozen publication with every candidate pointer
\* locked until the root's commit, a frozen refusal without locks.  A
\* different outcome aborts the frozen plan, which is then planned afresh.
StartRoot(s) ==
    /\ session[s].pc = "frozen"
    /\ session[s].plan # None => \A t \in Selectors : ~PointerHeld(t)
    /\ IF Planned # session[s].plan THEN Set(s, "new", None)
       ELSE Set(s, "root", session[s].plan)
    /\ NoPublication

\* Binding, receipts and witness commit together, or the root is rolled back.
CommitRoot(s) ==
    /\ session[s].pc = "root"
    /\ \/ Set(s, IF session[s].plan = None THEN "refused" ELSE "bound", session[s].plan)
       \/ Set(s, "new", None)
    /\ NoPublication

\* Flawed variant: execution insists on what is published now.
Readable_Flaw(plan) ==
    LET p == pubs[plan.publication] IN pointer[p.sel].active = plan.publication

\* read_configuration: the binding's pointer version has an audit that made
\* this publication active.
Readable(plan) ==
    LET p == pubs[plan.publication] IN
    \E c \in DOMAIN changes :
        /\ changes[c].sel = p.sel
        /\ changes[c].current = [version |-> plan.version, active |-> plan.publication]

\* The configuration is read before the dispatch and again before the
\* artifact is accepted.
Execute(s) ==
    /\ session[s].pc \in {"bound", "dispatched"}
    /\ Set(s, IF ~Readable(session[s].plan) THEN "unavailable"
              ELSE IF session[s].pc = "bound" THEN "dispatched" ELSE "explained",
           session[s].plan)
    /\ NoPublication

-----------------------------------------------------------------------------
Next ==
    \/ \E k \in Callers : \/ Submit(k) \/ LockRun(k) \/ LockPointer(k) \/ Replay(k)
                          \/ Decide(k) \/ Write(k) \/ Reread(k) \/ Leave(k)
    \/ \E r \in Runs : Reopen(r) \/ Finalize(r) \/ WithdrawModel(r)
    \/ \E s \in Sessions : \/ StartDirect(s) \/ CommitDirect(s) \/ FreezeStart(s)
                           \/ StartRoot(s) \/ CommitRoot(s) \/ Execute(s)

Spec == Init /\ [][Next]_vars

-----------------------------------------------------------------------------
(* Profile lifecycle: the status a profile is listed under. *)

PublicationsOf(r) == {p \in DOMAIN pubs : pubs[p].run = r}

\* lifecycle_status: the SQL index looks at every pointer.
IndexedStatus(r) ==
    IF \E s \in Selectors : pointer[s].active \in PublicationsOf(r) THEN "published"
    ELSE IF PublicationsOf(r) # {} THEN "disabled" ELSE "draft"

\* lifecycle: the validated status starts from the profile's own selector.
LifecycleStatus(r) ==
    IF pointer[SelectorOf[r]].active \in PublicationsOf(r) THEN "published"
    ELSE IF \E p \in PublicationsOf(r) : pubs[p].sel = SelectorOf[r] THEN "disabled"
    ELSE "draft"

History(s) == {c \in DOMAIN changes : changes[c].sel = s}

\* Every selector's receipts form one chain from the empty pointer to the
\* current one, each starting where its predecessor ended: load_pointer
\* always finds the audit of the pointer's version, and the history that
\* operators page through has neither gaps nor forks.
Audited(s) ==
    /\ {changes[c].current.version : c \in History(s)} = 1..pointer[s].version
    /\ Cardinality(History(s)) = pointer[s].version
    /\ \A c \in History(s) :
          IF changes[c].previous.version = 0 THEN changes[c].previous = Empty
          ELSE \E d \in History(s) : changes[d].current = changes[c].previous
    /\ pointer[s].version > 0 =>
          \E c \in History(s) : changes[c].current = pointer[s]

PointerAudited == \A s \in Selectors : Audited(s)

\* The status by which profiles are filtered is the one their publications
\* validate to, whatever was published, replaced, rolled back or disabled:
\* the lifecycle query never reports its index broken.
LifecycleAgrees == \A r \in Runs : IndexedStatus(r) = LifecycleStatus(r)

\* Whoever reopens a Run while it is being published or rolled back to, a
\* pointer only ever moves onto a publication whose Run is, at that moment,
\* finally approved at the very version the publication was made from.
MovedOntoApproved ==
    [][\A s \in Selectors :
          LET p == pointer'[s].active IN
          p # None /\ pointer'[s] # pointer[s] =>
              /\ run[pubs'[p].run].approved
              /\ run[pubs'[p].run].version = pubs'[p].version]_vars

\* An operator is only told of a change that was made for the very request
\* sent, also when one command identity raced at two selectors.
ToldTheTruth ==
    \A k \in Callers : call[k].pc = "answered" => Accepted(k) /\ changes[call[k].cmd].req = call[k].req

\* Operators see one truth: the audit chain, the profile index and the
\* answers all agree with the pointers that Sessions are started from.
CatalogTrue == PointerAudited /\ LifecycleAgrees /\ ToldTheTruth

\* A root that commits a frozen start binds what the pointers resolve to at
\* the instant of its commit, not at that of its plan: no publication, disable
\* or more specific selector committed before it is missed.
RootBindsCurrent ==
    [][\A s \in Sessions :
          session[s].pc = "root" /\ session'[s].pc = "bound" => session'[s].plan = Resolved]_vars

\* A session accepted with a publication can read it for its dispatch and
\* its artifact, however its selector was moved, disabled or replaced since.
AcceptedKeeps == \A s \in Sessions : session[s].pc # "unavailable"

=============================================================================
