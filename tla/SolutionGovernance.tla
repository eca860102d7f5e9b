------------------------- MODULE SolutionGovernance -------------------------
(***************************************************************************)
(* The governance workspace: prompt drafts, judge (semantic) drafts,       *)
(* freezes, profile and suite registrations, and the solutions that own a  *)
(* draft, save through it and finally prepare it into frozen assets and an *)
(* evaluation Run.  Operators reach every table through commands with an   *)
(* idempotency key, from several hosts at once.                            *)
(*                                                                         *)
(* A call reads the receipts without a lock, takes the row locks its       *)
(* transaction needs, checks again and writes; everything after the locks  *)
(* is one step, and a duplicate key sends the call back to the receipts.   *)
(* PrepareSolution is served either by MySQLSolutions directly or by the   *)
(* transactional dispatcher (plan, reserve, local root).                   *)
(***************************************************************************)
EXTENDS Naturals, Sequences, FiniteSets

CONSTANTS
    Solutions, \* solution identities
    Drafts,    \* prompt drafts created outside a solution
    Judges,    \* semantic drafts
    Commands,  \* command identities chosen by operators
    Callers,   \* calls in progress at the hosts
    Contents,  \* edited prompt contents
    Existing,  \* solutions and judge drafts there from the start
    Earlier,   \* the command that created them
    Original,  \* the content of the source prompt asset
    MaxCalls,  \* bound on the calls submitted
    MaxRevision, \* bound on the revision a request may expect
    None

VARIABLES
    draft,    \* draft heads, their revisions and their freeze
    asset,    \* immutable assets, by kind and version
    solution, \* solution revisions (the current row)
    run,      \* evaluation runs created by a preparation
    receipts, \* command receipts, by table and command identity
    tx,       \* transaction executions reserved for a preparation
    call,     \* the call each caller has in progress
    answers,  \* the answers given from a receipt
    calls     \* calls submitted so far

vars == <<draft, asset, solution, run, receipts, tx, call, answers, calls>>

-----------------------------------------------------------------------------
(* Identities.  A solution derives its draft, its target version and its   *)
(* Run from its own identity, and its inner commands from the command's.   *)

Prompt(s) == <<"prompt", s>>
Version(s) == <<"solution", s>>
Inner(step, c) == <<step, c>>
DraftIds == Drafts \cup Judges \cup {Prompt(s) : s \in Solutions}

\* What a draft may be created for: its own version, or one that a solution
\* will want.
Targets(d) == {<<"own", d>>} \cup {Version(s) : s \in Solutions}

AssetKind(d) == IF d \in Judges THEN "judge" ELSE "prompt"

\* The receipt table an operation writes.
Table(req) ==
    CASE req.op \in {"create", "save", "prepare"} -> "solution"
      [] req.op = "register" -> req.kind
      [] req.op \in {"draft", "revise", "freeze"} ->
            IF req.draft \in Judges THEN "judge"
            ELSE IF req.op = "freeze" THEN "freeze" ELSE "draft"

Revisions == 1..MaxRevision

DraftRequests ==
    {r \in [op : {"draft"}, draft : Drafts, target : UNION {Targets(d) : d \in Drafts}] :
        r.target \in Targets(r.draft)}
RevisionRequests ==
    [op : {"revise"}, draft : DraftIds \ Judges, expected : Revisions, content : Contents]
FreezeRequests == [op : {"freeze"}, draft : DraftIds \ Judges, expected : Revisions]
JudgeRequests ==
         {[op |-> "draft", draft |-> j, target |-> <<"own", j>>] : j \in Judges}
    \cup [op : {"revise"}, draft : Judges, expected : Revisions, content : Contents]
    \cup [op : {"freeze"}, draft : Judges, expected : Revisions]
ProfileRequests == [op : {"register"}, kind : {"profile"}, version : {Version(s) : s \in Solutions}]
SuiteRequests == [op : {"register"}, kind : {"suite"}, version : {Version(s) : s \in Solutions}]
CreateRequests == [op : {"create"}, solution : Solutions]
SaveRequests ==
    [op : {"save"}, solution : Solutions, expected : Revisions,
     content : Contents, judge : {None} \cup Judges]
PrepareRequests == [op : {"prepare"}, solution : Solutions, expected : Revisions]

Requests ==
    UNION {DraftRequests, RevisionRequests, FreezeRequests, JudgeRequests, ProfileRequests,
           SuiteRequests, CreateRequests, SaveRequests, PrepareRequests}

Idle == [pc |-> "idle"]
Absent == [target |-> None, revs |-> <<>>, frozen |-> None]

Revision(content, seen, by) == [content |-> content, seen |-> seen, by |-> by]

\* The content of the prompt of the publication, Run or template a draft or
\* a solution is derived from.
Source == Original

Created(target, by) ==
    [target |-> target, revs |-> <<Revision(Source, 0, by)>>, frozen |-> None]

NewSolution == [rev |-> 1, draftRev |-> 1, judge |-> None, prepared |-> None]

-----------------------------------------------------------------------------
(* The columns of the tables. *)

\* Commands and the identities derived from them.
Authors ==
    LET ids == Commands \cup {Earlier} IN
    ids \cup {Inner(step, c) : step \in {"prompt-create", "prompt-save", "freeze", "profile", "suite"},
                               c \in ids}

TargetIds == UNION {Targets(d) : d \in DraftIds}
RevisionRows == [content : Contents \cup {Original}, seen : Nat, by : Authors]
DraftRows == [target : TargetIds \cup {None}, revs : Seq(RevisionRows), frozen : Authors \cup {None}]
AssetRows == [by : Authors, content : Contents \cup {Original, None} \cup Judges]
SolutionRows ==
    [rev : Nat, draftRev : Nat, judge : Judges \cup {None}, prepared : Commands \cup {None}]
RunRows == [content : Contents \cup {Original}, judge : Judges \cup {None}]
ReceiptRows ==
    [request : Requests, value : DraftRows \cup AssetRows \cup SolutionRows,
     via : {"direct", "dispatch", "inner"}]
Plans == [source : SolutionRows, draft : DraftRows, target : SolutionRows]
Executions == [state : {"reserved", "committed", "aborted"}, request : Requests, plan : Plans]

\* Identities of different kinds differ, and an identity derived from a
\* command is never one an operator chooses.
ASSUME GovernanceAssumption ==
    /\ Drafts \cap Judges = {}
    /\ \A s \in Solutions \cup Existing : Prompt(s) \notin Drafts \cup Judges \cup Existing
    /\ \A c \in Commands, step \in {"prompt-create", "prompt-save", "freeze"} : Inner(step, c) \notin Commands
    /\ None \notin Authors \cup SolutionRows \cup ReceiptRows \cup Plans \cup Executions

\* The solutions and judge drafts of Existing were created earlier.
Init ==
    /\ draft = [d \in DraftIds |->
                  IF d \in Existing THEN Created(<<"own", d>>, Earlier)
                  ELSE IF d \in {Prompt(s) : s \in Existing}
                  THEN Created(Version(d[2]), Inner("prompt-create", Earlier))
                  ELSE Absent]
    /\ asset = <<>>
    /\ solution = [s \in Solutions |-> IF s \in Existing THEN NewSolution ELSE None]
    /\ run = [s \in Solutions |-> None]
    /\ receipts = <<>>
    /\ tx = [c \in Commands |-> None]
    /\ call = [k \in Callers |-> Idle]
    /\ answers = {}
    /\ calls = 0

-----------------------------------------------------------------------------
(* Reading the tables. *)

Exists(d) == draft[d].revs # <<>>
Latest(d) == Len(draft[d].revs)
Content(d) == draft[d].revs[Latest(d)].content
Taken(kind, version) == <<kind, version>> \in DOMAIN asset

Key(k) == <<Table(call[k].req), call[k].cmd>>

\* The committed receipt of the command, or None.
Receipt(c, req) ==
    IF <<Table(req), c>> \in DOMAIN receipts THEN receipts[<<Table(req), c>>] ELSE None

Prior(k) == Receipt(call[k].cmd, call[k].req)

\* Flawed variant: a receipt answers any request that reuses its identity.
SameRequest_Flaw(k) == TRUE

\* The request bytes of the receipt are those of this call.
SameRequest(k) == Prior(k).request = call[k].req

At(k, pc) == call[k].pc = pc
To(k, pc) == call' = [call EXCEPT ![k].pc = pc]
End(k) == call' = [call EXCEPT ![k] = Idle]

Tables == <<draft, asset, solution, run, receipts>>

\* The table with one more row.
Insert(rows, key, row) ==
    [x \in DOMAIN rows \cup {key} |-> IF x = key THEN row ELSE rows[x]]

\* The call ends with the original receipt of its command.
Replay(k) ==
    /\ answers' = answers \cup {[key |-> Key(k), request |-> call[k].req, value |-> Prior(k).value]}
    /\ End(k)
    /\ UNCHANGED <<Tables, tx, calls>>

\* The call ends with a conflict; nothing was written.
Conflict(k) == End(k) /\ UNCHANGED <<Tables, tx, answers, calls>>

Move(k, pc) == To(k, pc) /\ UNCHANGED <<Tables, tx, answers, calls>>

\* The receipt of an inner command, written before the command's own.
InnerReceipt(table, id, request, value) ==
    Insert(receipts, <<table, id>>, [request |-> request, value |-> value, via |-> "inner"])

\* The transaction commits its rows with the command's receipt.
Commit(k, value, rows) ==
    /\ receipts' = Insert(rows, Key(k), [request |-> call[k].req, value |-> value, via |-> call[k].mode])
    /\ End(k)
    /\ UNCHANGED <<answers, calls>>

-----------------------------------------------------------------------------
(* A call arrives and takes its first, unlocked, look at the receipts. *)

Started(c, req, mode, pc) ==
    [pc |-> pc, cmd |-> c, req |-> req, mode |-> mode, saved |-> Receipt(c, req), plan |-> None]

\* A receipt of the same request is the answer; of another, a conflict.
Submit(k) ==
    /\ At(k, "idle") /\ calls < MaxCalls
    /\ calls' = calls + 1
    /\ \E c \in Commands, req \in Requests :
          LET seen == Receipt(c, req) IN
          \/ /\ seen = None
             /\ call' = [call EXCEPT ![k] = Started(c, req, "direct", "write")]
             /\ UNCHANGED answers
          \/ /\ seen # None /\ seen.request = req
             /\ answers' = answers \cup {[key |-> <<Table(req), c>>, request |-> req, value |-> seen.value]}
             /\ UNCHANGED call
    /\ UNCHANGED <<Tables, tx>>

\* The dispatcher keeps what it saw and goes on to the executions.
SubmitDispatch(k) ==
    /\ At(k, "idle") /\ calls < MaxCalls
    /\ calls' = calls + 1
    /\ \E c \in Commands, req \in PrepareRequests :
          /\ Receipt(c, req) # None => Receipt(c, req).request = req
          /\ call' = [call EXCEPT ![k] = Started(c, req, "dispatch", "lookup")]
    /\ UNCHANGED <<Tables, tx, answers>>

-----------------------------------------------------------------------------
(* What each command requires once its rows are locked. *)

\* Flawed variant: the freeze of the draft is not looked at.
Editable_Flaw(d, expected) == Exists(d) /\ expected = Latest(d)

\* A draft may be edited or frozen at the revision its editor saw.
Editable(d, expected) ==
    /\ Exists(d) /\ draft[d].frozen = None
    /\ expected = Latest(d)

\* Flawed variant: the linked draft's revision is not compared.
Workable_Flaw(s, expected) ==
    solution[s] # None /\ solution[s].rev = expected /\ solution[s].prepared = None

\* The solution is at the revision its operator saw and is not prepared, and
\* nobody edited its draft outside the workspace.
Workable(s, expected) ==
    /\ solution[s] # None
    /\ solution[s].rev = expected /\ solution[s].prepared = None
    /\ solution[s].draftRev = Latest(Prompt(s))

Judged(judge) == judge # None => Taken("judge", <<"own", judge>>)

Freezable(d, expected) ==
    /\ Editable(d, expected)
    /\ ~Taken(AssetKind(d), draft[d].target)

\* Every asset version a preparation would write is still free.
Preparable(s, expected) ==
    /\ Workable(s, expected)
    /\ Freezable(Prompt(s), solution[s].draftRev)
    /\ ~Taken("profile", Version(s)) /\ ~Taken("suite", Version(s))

Admitted(req) ==
    CASE req.op = "draft" -> ~Taken(AssetKind(req.draft), req.target)
      [] req.op = "revise" -> Editable(req.draft, req.expected)
      [] req.op = "freeze" -> Freezable(req.draft, req.expected)
      [] req.op = "register" -> TRUE
      [] req.op = "create" -> ~Taken("prompt", Version(req.solution))
      [] req.op = "save" -> /\ Workable(req.solution, req.expected)
                            /\ Editable(Prompt(req.solution), Latest(Prompt(req.solution)))
                            /\ Judged(req.judge)
      [] req.op = "prepare" -> Preparable(req.solution, req.expected)

\* The first insert that meets a committed row: it raises MySQL's 1062.
Duplicate(req) ==
    CASE req.op = "draft" -> Exists(req.draft)
      [] req.op = "create" -> Exists(Prompt(req.solution)) \/ solution[req.solution] # None
      [] req.op = "register" -> Taken(req.kind, req.version)
      [] OTHER -> FALSE

\* The commands that lock a row look at the receipts again behind the lock.
Locks(req) == req.op \notin {"draft", "create", "register"}

-----------------------------------------------------------------------------
(* The rows each command writes. *)

Revised(d, content, seen, by) ==
    [draft[d] EXCEPT !.revs = Append(@, Revision(content, seen, by))]

Frozen(d, by) == [draft[d] EXCEPT !.frozen = by]

\* Freezing a judge draft is itself a revision of it.
FrozenJudge(j, by) == [Revised(j, Content(j), Latest(j), by) EXCEPT !.frozen = by]

FrozenAsset(d, by) ==
    Insert(asset, <<AssetKind(d), draft[d].target>>, [by |-> by, content |-> Content(d)])

WriteDraft(k) ==
    LET req == call[k].req  new == Created(req.target, call[k].cmd) IN
    /\ req.op = "draft"
    /\ draft' = [draft EXCEPT ![req.draft] = new]
    /\ Commit(k, new, receipts)
    /\ UNCHANGED <<asset, solution, run, tx>>

WriteRevision(k) ==
    LET req == call[k].req
        new == Revised(req.draft, req.content, req.expected, call[k].cmd) IN
    /\ req.op = "revise"
    /\ draft' = [draft EXCEPT ![req.draft] = new]
    /\ Commit(k, new, receipts)
    /\ UNCHANGED <<asset, solution, run, tx>>

WriteFreeze(k) ==
    LET req == call[k].req
        new == IF req.draft \in Judges THEN FrozenJudge(req.draft, call[k].cmd)
               ELSE Frozen(req.draft, call[k].cmd) IN
    /\ req.op = "freeze"
    /\ draft' = [draft EXCEPT ![req.draft] = new]
    /\ asset' = FrozenAsset(req.draft, call[k].cmd)
    /\ Commit(k, new, receipts)
    /\ UNCHANGED <<solution, run, tx>>

WriteProfile(k) ==
    LET row == [by |-> call[k].cmd, content |-> None] IN
    /\ call[k].req \in ProfileRequests
    /\ asset' = Insert(asset, <<"profile", call[k].req.version>>, row)
    /\ Commit(k, row, receipts)
    /\ UNCHANGED <<draft, solution, run, tx>>

WriteSuite(k) ==
    LET row == [by |-> call[k].cmd, content |-> None] IN
    /\ call[k].req \in SuiteRequests
    /\ asset' = Insert(asset, <<"suite", call[k].req.version>>, row)
    /\ Commit(k, row, receipts)
    /\ UNCHANGED <<draft, solution, run, tx>>

WriteSolution(k) ==
    LET s == call[k].req.solution
        by == Inner("prompt-create", call[k].cmd)
        head == Created(Version(s), by)
        new == NewSolution IN
    /\ call[k].req.op = "create"
    /\ draft' = [draft EXCEPT ![Prompt(s)] = head]
    /\ solution' = [solution EXCEPT ![s] = new]
    /\ Commit(k, new, InnerReceipt("draft", by, call[k].req, head))
    /\ UNCHANGED <<asset, run, tx>>

WriteSave(k) ==
    LET req == call[k].req  s == req.solution
        by == Inner("prompt-save", call[k].cmd)
        head == Revised(Prompt(s), req.content, solution[s].draftRev, by)
        new == [solution[s] EXCEPT !.rev = @ + 1, !.draftRev = Latest(Prompt(s)) + 1,
                                   !.judge = IF req.judge = None THEN @ ELSE req.judge] IN
    /\ req.op = "save"
    /\ draft' = [draft EXCEPT ![Prompt(s)] = head]
    /\ solution' = [solution EXCEPT ![s] = new]
    /\ Commit(k, new, InnerReceipt("draft", by, req, head))
    /\ UNCHANGED <<asset, run, tx>>

\* The solution row a preparation of it by the command leaves.
PreparedRow(row, c) == [row EXCEPT !.rev = @ + 1, !.prepared = c]

\* The assets it freezes: prompt, profile and suite of the target version
\* (and the two routes, whose revisions no other command can name).
PreparedAssets(s, c) ==
    LET frozen == FrozenAsset(Prompt(s), Inner("freeze", c))
        profiled == Insert(frozen, <<"profile", Version(s)>>, [by |-> Inner("profile", c), content |-> None]) IN
    Insert(profiled, <<"suite", Version(s)>>, [by |-> Inner("suite", c), content |-> solution[s].judge])

\* The Run it requests evaluates the frozen prompt with the chosen judge.
PreparedRun(s) == [content |-> Content(Prompt(s)), judge |-> solution[s].judge]

\* Assets, Run, solution and receipts are written in one commit.
WritePreparation(k) ==
    LET s == call[k].req.solution  c == call[k].cmd
        frozen == Frozen(Prompt(s), Inner("freeze", c))
        new == PreparedRow(solution[s], c) IN
    /\ call[k].req.op = "prepare"
    /\ draft' = [draft EXCEPT ![Prompt(s)] = frozen]
    /\ asset' = PreparedAssets(s, c)
    /\ run' = [run EXCEPT ![s] = PreparedRun(s)]
    /\ solution' = [solution EXCEPT ![s] = new]
    /\ Commit(k, new, InnerReceipt("freeze", Inner("freeze", c), call[k].req, frozen))

\* The locked part of a direct call.
Write(k) ==
    /\ At(k, "write") /\ call[k].mode = "direct"
    /\ IF Locks(call[k].req) /\ Prior(k) # None
       THEN IF SameRequest(k) THEN Replay(k) ELSE Conflict(k)
       ELSE IF ~Admitted(call[k].req) THEN Conflict(k)
       ELSE IF Duplicate(call[k].req) \/ Prior(k) # None THEN Move(k, "reread")
       ELSE \/ WriteDraft(k) \/ WriteRevision(k) \/ WriteFreeze(k) \/ WriteProfile(k) \/ WriteSuite(k)
            \/ WriteSolution(k) \/ WriteSave(k) \/ (WritePreparation(k) /\ UNCHANGED tx)

\* After a duplicate key only the exact accepted request is replayed.
Reread(k) ==
    /\ At(k, "reread")
    /\ IF Prior(k) # None /\ SameRequest(k) THEN Replay(k) ELSE Conflict(k)

-----------------------------------------------------------------------------
(* The transactional dispatcher of PrepareSolution. *)

Execution(k) == tx[call[k].cmd]

\* An execution found for the command decides alone: only a committed one,
\* whose receipt is the frozen target, answers; any other stays pending.
Recovered(k) ==
    IF /\ Execution(k).state = "committed" /\ Execution(k).request = call[k].req
       /\ Prior(k) # None /\ Prior(k).value = Execution(k).plan.target
    THEN Replay(k) ELSE Conflict(k)

\* A receipt without an execution is a direct preparation's; the execution is
\* looked for a second time before the receipt answers alone.
DispatchLookup(k) ==
    /\ At(k, "lookup")
    /\ IF Execution(k) # None THEN Recovered(k)
       ELSE Move(k, IF call[k].saved = None THEN "plan" ELSE "lookup again")

DispatchLookupAgain(k) ==
    /\ At(k, "lookup again")
    /\ IF Execution(k) # None THEN Recovered(k) ELSE Replay(k)

\* The source, draft and target a candidate freezes.
Candidate(s, c) ==
    [source |-> solution[s], draft |-> draft[Prompt(s)], target |-> PreparedRow(solution[s], c)]

\* The candidate is planned from one snapshot, without a lock.
DispatchPlan(k) ==
    /\ At(k, "plan")
    /\ LET req == call[k].req  s == req.solution IN
       IF Prior(k) # None
       THEN IF ~SameRequest(k) THEN Conflict(k) ELSE Move(k, "lookup again")
       ELSE IF ~Preparable(s, req.expected) THEN Conflict(k)
       ELSE /\ call' = [call EXCEPT ![k].pc = "reserve", ![k].plan = Candidate(s, call[k].cmd)]
            /\ UNCHANGED <<Tables, tx, answers, calls>>

DispatchReserve(k) ==
    /\ At(k, "reserve")
    /\ IF Execution(k) # None THEN Recovered(k)
       ELSE /\ tx' = [tx EXCEPT ![call[k].cmd] =
                        [state |-> "reserved", request |-> call[k].req, plan |-> call[k].plan]]
            /\ To(k, "root")
            /\ UNCHANGED <<Tables, answers, calls>>

\* Bind the execution, lock, compare with the plan, apply and witness.
Bound(k) == Execution(k).state = "reserved"

Unchanged(k) ==
    LET s == call[k].req.solution IN
    /\ solution[s] = Execution(k).plan.source
    /\ draft[Prompt(s)] = Execution(k).plan.draft

DispatchRoot(k) ==
    /\ At(k, "root") /\ Bound(k)
    /\ Unchanged(k) /\ Prior(k) = None /\ Preparable(call[k].req.solution, call[k].req.expected)
    /\ WritePreparation(k)
    /\ tx' = [tx EXCEPT ![call[k].cmd].state = "committed"]

\* Any other end of the root rolls back and aborts the execution, if it can.
DispatchRollback(k) ==
    /\ At(k, "root")
    /\ ~(Bound(k) /\ Unchanged(k) /\ Prior(k) = None
         /\ Preparable(call[k].req.solution, call[k].req.expected))
    /\ \/ tx' = [tx EXCEPT ![call[k].cmd].state = "aborted"]
       \/ UNCHANGED tx
    /\ End(k)
    /\ UNCHANGED <<Tables, answers, calls>>

\* The messaging library settles a reservation nobody will finish.
AbortExecution(c) ==
    /\ tx[c] # None /\ tx[c].state = "reserved"
    /\ tx' = [tx EXCEPT ![c].state = "aborted"]
    /\ UNCHANGED <<Tables, call, answers, calls>>

\* The host is lost with a reservation in hand.  A call lost earlier has
\* written nothing, and one lost after its commit is sent again.
Lost(k) ==
    /\ At(k, "root")
    /\ End(k)
    /\ UNCHANGED <<Tables, tx, answers, calls>>

Next ==
    \/ \E k \in Callers :
          \/ Submit(k) \/ SubmitDispatch(k) \/ Write(k) \/ Reread(k) \/ Lost(k)
          \/ DispatchLookup(k) \/ DispatchLookupAgain(k)
          \/ DispatchPlan(k) \/ DispatchReserve(k) \/ DispatchRoot(k) \/ DispatchRollback(k)
    \/ \E c \in Commands : AbortExecution(c)

Spec == Init /\ [][Next]_vars

-----------------------------------------------------------------------------
(* Properties. *)

\* A command answers with one result for ever: whichever host, retry, lost
\* race or duplicate key the call met, a successful answer is the committed
\* receipt of exactly the request that was sent (solutions.prior, the replay of
\* prompt drafts and freezes, registrations, the dispatcher's recovery).
AnswersFaithful ==
    \A a \in answers :
        /\ a.key \in DOMAIN receipts
        /\ receipts[a.key].request = a.request
        /\ receipts[a.key].value = a.value

\* No edit is overwritten unseen: the author of every revision of a draft,
\* directly or by saving a solution, had seen the revision just before it.
NoLostEdit ==
    \A d \in DraftIds : \A i \in 1..Len(draft[d].revs) : draft[d].revs[i].seen = i - 1

\* A prepared solution stays what its operator last saved: its draft is frozen
\* by the preparation at the revision the workspace wrote, nobody has edited it
\* since, the frozen prompt, the suite and the Run carry that content and judge,
\* and the profile and suite are the preparation's own.
PreparedAsSaved ==
    \A s \in Solutions :
        solution[s] # None /\ solution[s].prepared # None =>
            LET c == solution[s].prepared  d == draft[Prompt(s)]  last == d.revs[Len(d.revs)] IN
            /\ d.frozen = Inner("freeze", c)
            /\ Len(d.revs) = solution[s].draftRev
            /\ \E e \in Commands \cup {Earlier} : last.by \in {Inner("prompt-create", e), Inner("prompt-save", e)}
            /\ asset[<<"prompt", Version(s)>>] = [by |-> Inner("freeze", c), content |-> last.content]
            /\ asset[<<"profile", Version(s)>>].by = Inner("profile", c)
            /\ asset[<<"suite", Version(s)>>] = [by |-> Inner("suite", c), content |-> solution[s].judge]
            /\ run[s] = [content |-> last.content, judge |-> solution[s].judge]

\* The witness of a preparation is true: an execution is committed exactly when
\* the preparation its plan froze is the command's receipt, and an aborted one
\* never left a preparation behind.
Witnessed(c) ==
    LET key == <<"solution", c>> IN
    /\ tx[c] # None /\ tx[c].state = "committed" =>
          /\ key \in DOMAIN receipts /\ receipts[key].via = "dispatch"
          /\ receipts[key].request = tx[c].request
          /\ receipts[key].value = tx[c].plan.target
    /\ key \in DOMAIN receipts /\ receipts[key].via = "dispatch" =>
          tx[c] # None /\ tx[c].state = "committed"

WitnessProves == \A c \in Commands : Witnessed(c)

\* Receipts, answers and witnesses all speak of the same change.
CommandsFaithful == AnswersFaithful /\ WitnessProves
=============================================================================
