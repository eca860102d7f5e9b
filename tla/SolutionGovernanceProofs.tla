---------------------- MODULE SolutionGovernanceProofs ----------------------
(***************************************************************************)
(* Theorems about SolutionGovernance, for every set of solutions, drafts,  *)
(* commands and callers: no edit is lost, every answer and every witness   *)
(* is the committed receipt, and a prepared solution stays as saved.       *)
(***************************************************************************)
EXTENDS SolutionGovernance, TLAPS

Steps == {"write", "reread", "lookup", "lookup again", "plan", "reserve", "root"}

CallRows ==
    [pc : Steps, cmd : Commands, req : Requests, mode : {"direct", "dispatch"},
     saved : ReceiptRows \cup {None}, plan : Plans \cup {None}]

\* The type of every table row and call.
TypeOK ==
    /\ draft \in [DraftIds -> DraftRows]
    /\ solution \in [Solutions -> SolutionRows \cup {None}]
    /\ run \in [Solutions -> RunRows \cup {None}]
    /\ \A key \in DOMAIN receipts : receipts[key] \in ReceiptRows
    /\ tx \in [Commands -> Executions \cup {None}]
    /\ call \in [Callers -> CallRows \cup {Idle}]

\* The receipt of the call's command is there and is of its request.
Recorded(k) == Key(k) \in DOMAIN receipts /\ receipts[Key(k)].request = call[k].req

\* What a call in progress has established.
CallInv(k) ==
    /\ call[k].pc \in Steps \ {"write", "reread"} =>
         call[k].mode = "dispatch" /\ call[k].req.op = "prepare"
    /\ call[k].pc = "lookup" /\ call[k].saved # None => Recorded(k)
    /\ call[k].pc = "lookup again" => Recorded(k)
    /\ call[k].pc = "reserve" =>
         call[k].plan # None /\ call[k].plan.target = PreparedRow(call[k].plan.source, call[k].cmd)
    /\ call[k].pc = "root" =>
         /\ tx[call[k].cmd] # None /\ tx[call[k].cmd].state # "committed"
         /\ tx[call[k].cmd].request = call[k].req

CallsInv == \A k \in Callers : CallInv(k)

\* The target of an execution is its source, prepared.
TxInv == \A c \in Commands : tx[c] # None => tx[c].plan.target = PreparedRow(tx[c].plan.source, c)

\* An execution is in one root at most.
RootOnce ==
    \A j, k \in Callers :
        call[j].pc = "root" /\ call[k].pc = "root" /\ call[j].cmd = call[k].cmd => j = k

\* The receipts of inner commands come with the receipt of their command.
InnerInv ==
    \A c \in Commands, step \in {"prompt-create", "prompt-save", "freeze"}, t \in {"draft", "freeze"} :
        <<t, Inner(step, c)>> \in DOMAIN receipts => <<"solution", c>> \in DOMAIN receipts

\* The revision a solution saved last is the workspace's own.
Saved(s) ==
    /\ solution[s].draftRev \in 1..Len(draft[Prompt(s)].revs)
    /\ \E e \in Commands \cup {Earlier} :
          draft[Prompt(s)].revs[solution[s].draftRev].by
            \in {Inner("prompt-create", e), Inner("prompt-save", e)}

\* What a preparation of the solution by the command leaves.
Prepared(s, c) ==
    LET d == draft[Prompt(s)]  last == d.revs[Len(d.revs)] IN
    /\ d.frozen = Inner("freeze", c)
    /\ Len(d.revs) = solution[s].draftRev
    /\ {<<"prompt", Version(s)>>, <<"profile", Version(s)>>, <<"suite", Version(s)>>} \subseteq DOMAIN asset
    /\ asset[<<"prompt", Version(s)>>] = [by |-> Inner("freeze", c), content |-> last.content]
    /\ asset[<<"profile", Version(s)>>].by = Inner("profile", c)
    /\ asset[<<"suite", Version(s)>>] = [by |-> Inner("suite", c), content |-> solution[s].judge]
    /\ run[s] = [content |-> last.content, judge |-> solution[s].judge]

SolutionInv(s) ==
    /\ Exists(Prompt(s)) => draft[Prompt(s)].target = Version(s)
    /\ solution[s] # None => Saved(s)
    /\ solution[s] # None /\ solution[s].prepared # None => Prepared(s, solution[s].prepared)

SolutionsInv == \A s \in Solutions : SolutionInv(s)

-----------------------------------------------------------------------------
(* Requests and identities.                                                 *)

Ops == {"draft", "revise", "freeze", "register", "create", "save", "prepare"}

\* The columns that each operation's request has.
LEMMA RequestAt ==
  ASSUME NEW req \in Requests
  PROVE  /\ req.op \in Ops
         /\ req.op = "draft" => req.draft \in Drafts \cup Judges /\ req.target \in Targets(req.draft)
         /\ req.op = "revise" => req.draft \in DraftIds /\ req.content \in Contents
         /\ req.op = "freeze" => req.draft \in DraftIds
         /\ req.op = "register" => req.kind \in {"profile", "suite"}
         /\ req.op \in {"create", "save", "prepare"} => req.solution \in Solutions
         /\ req.op = "save" => req.content \in Contents /\ req.judge \in Judges \cup {None}
<1>1. CASE req \in DraftRequests BY <1>1 DEF DraftRequests, Ops
<1>2. CASE req \in RevisionRequests BY <1>2 DEF RevisionRequests, Ops
<1>3. CASE req \in FreezeRequests BY <1>3 DEF FreezeRequests, Ops
<1>4. CASE req \in JudgeRequests
  <2>1. CASE \E j \in Judges : req = [op |-> "draft", draft |-> j, target |-> <<"own", j>>]
    <3>1. PICK j \in Judges : req = [op |-> "draft", draft |-> j, target |-> <<"own", j>>]
      BY <2>1
    <3>2. req.op = "draft" /\ req.draft = j /\ req.target = <<"own", j>> BY <3>1
    <3> QED BY <3>2 DEF Targets, Ops
  <2>2. CASE req \in [op : {"revise"}, draft : Judges, expected : Revisions, content : Contents]
    BY <2>2 DEF DraftIds, Ops
  <2>3. CASE req \in [op : {"freeze"}, draft : Judges, expected : Revisions]
    BY <2>3 DEF DraftIds, Ops
  <2> QED BY <1>4, <2>1, <2>2, <2>3 DEF JudgeRequests
<1>5. CASE req \in ProfileRequests BY <1>5 DEF ProfileRequests, Ops
<1>6. CASE req \in SuiteRequests BY <1>6 DEF SuiteRequests, Ops
<1>7. CASE req \in CreateRequests BY <1>7 DEF CreateRequests, Ops
<1>8. CASE req \in SaveRequests BY <1>8 DEF SaveRequests, Ops
<1>9. CASE req \in PrepareRequests BY <1>9 DEF PrepareRequests, Ops
<1> QED BY <1>1, <1>2, <1>3, <1>4, <1>5, <1>6, <1>7, <1>8, <1>9 DEF Requests

LEMMA PrepareAt ==
  ASSUME NEW req \in PrepareRequests
  PROVE  req \in Requests /\ req.op = "prepare"
  BY DEF Requests, PrepareRequests

LEMMA TableAt ==
  ASSUME NEW req \in Requests
  PROVE  /\ req.op \in {"create", "save", "prepare"} => Table(req) = "solution"
         /\ Table(req) = "solution" => req.op \in {"create", "save", "prepare"}
<1>1. req.op \in Ops /\ (req.op = "register" => req.kind \in {"profile", "suite"}) BY RequestAt
<1>2. CASE req.op \in {"create", "save", "prepare"} BY <1>2 DEF Table
<1>3. CASE req.op = "register" BY <1>1, <1>3 DEF Table
<1>4. CASE req.op \in {"draft", "revise", "freeze"} BY <1>4 DEF Table
<1> QED BY <1>1, <1>2, <1>3, <1>4 DEF Ops

\* The drafts of solutions are their own.
LEMMA PromptAt ==
  ASSUME NEW s \in Solutions
  PROVE  /\ Prompt(s) \in DraftIds /\ Prompt(s) \notin Drafts \cup Judges
         /\ AssetKind(Prompt(s)) = "prompt"
         /\ \A t \in Solutions : Prompt(t) = Prompt(s) => t = s
  BY GovernanceAssumption DEF Prompt, DraftIds, AssetKind

LEMMA AuthorAt ==
  ASSUME NEW c \in Commands \cup {Earlier}
  PROVE  /\ c \in Authors /\ Inner("prompt-create", c) \in Authors
         /\ Inner("prompt-save", c) \in Authors /\ Inner("freeze", c) \in Authors
         /\ Inner("profile", c) \in Authors /\ Inner("suite", c) \in Authors
  BY DEF Authors

LEMMA CallAt ==
  ASSUME TypeOK, NEW k \in Callers, call[k].pc # "idle"
  PROVE  /\ call[k] \in CallRows /\ call[k].pc \in Steps /\ call[k].cmd \in Commands
         /\ call[k].req \in Requests /\ call[k].mode \in {"direct", "dispatch"}
         /\ call[k].saved \in ReceiptRows \cup {None} /\ call[k].plan \in Plans \cup {None}
<1>1. call[k] \in CallRows BY DEF TypeOK, Idle
<1> QED BY <1>1 DEF CallRows

\* A call without a receipt has a free key.
LEMMA PriorAt ==
  ASSUME TypeOK, NEW k \in Callers
  PROVE  /\ Prior(k) = None <=> Key(k) \notin DOMAIN receipts
         /\ Key(k) \in DOMAIN receipts => Prior(k) = receipts[Key(k)]
<1>1. \A key \in DOMAIN receipts : receipts[key] # None BY GovernanceAssumption DEF TypeOK
<1> QED BY <1>1 DEF Prior, Receipt, Key

-----------------------------------------------------------------------------
(* Draft rows.                                                              *)

\* Each revision was made by someone who saw the one before it.
Follows(row) == \A i \in 1..Len(row.revs) : row.revs[i].seen = i - 1

LEMMA CreatedRow ==
  ASSUME NEW target \in TargetIds, NEW by \in Authors
  PROVE  /\ Created(target, by) \in DraftRows /\ Follows(Created(target, by))
         /\ Created(target, by).target = target /\ Created(target, by).frozen = None
         /\ Len(Created(target, by).revs) = 1 /\ Created(target, by).revs[1].by = by
<1>1. PICK rev : rev = Revision(Source, 0, by) OBVIOUS
<1>2. rev \in RevisionRows /\ rev.seen = 0 /\ rev.by = by
  BY <1>1 DEF Revision, Source, RevisionRows
<1>3. Created(target, by) = [target |-> target, revs |-> <<rev>>, frozen |-> None]
  BY <1>1 DEF Created
<1>4. <<rev>> \in Seq(RevisionRows) /\ Len(<<rev>>) = 1 /\ <<rev>>[1] = rev BY <1>2
<1>5. PICK row : row = Created(target, by) OBVIOUS
<1>6. row.target = target /\ row.revs = <<rev>> /\ row.frozen = None BY <1>3, <1>5
<1>7. row \in DraftRows BY <1>3, <1>4, <1>5 DEF DraftRows
<1>8. \A i \in 1..Len(row.revs) : row.revs[i].seen = i - 1 BY <1>2, <1>4, <1>6
<1> QED BY <1>2, <1>4, <1>5, <1>6, <1>7, <1>8 DEF Follows

LEMMA RevisedRow ==
  ASSUME TypeOK, NEW d \in DraftIds, NEW content \in Contents \cup {Original}, NEW seen \in Nat,
         NEW by \in Authors, Follows(draft[d]), seen = Latest(d)
  PROVE  /\ Revised(d, content, seen, by) \in DraftRows /\ Follows(Revised(d, content, seen, by))
         /\ Revised(d, content, seen, by).target = draft[d].target
         /\ Revised(d, content, seen, by).frozen = draft[d].frozen
         /\ Len(Revised(d, content, seen, by).revs) = Len(draft[d].revs) + 1
         /\ \A i \in 1..Len(draft[d].revs) :
              Revised(d, content, seen, by).revs[i] = draft[d].revs[i]
         /\ Revised(d, content, seen, by).revs[Len(draft[d].revs) + 1].by = by
<1>1. PICK old \in DraftRows : old = draft[d] BY DEF TypeOK
<1>2. PICK rev : rev = Revision(content, seen, by) OBVIOUS
<1>3. rev \in RevisionRows /\ rev.seen = seen /\ rev.by = by BY <1>2 DEF Revision, RevisionRows
<1>4. old.revs \in Seq(RevisionRows) /\ old = [target |-> old.target, revs |-> old.revs, frozen |-> old.frozen]
      /\ old.target \in TargetIds \cup {None} /\ old.frozen \in Authors \cup {None}
  BY DEF DraftRows
<1>5. PICK revs : revs = Append(old.revs, rev) OBVIOUS
<1>6. /\ revs \in Seq(RevisionRows) /\ Len(revs) = Len(old.revs) + 1 /\ Len(old.revs) \in Nat
      /\ \A i \in 1..Len(old.revs) : revs[i] = old.revs[i]
      /\ revs[Len(old.revs) + 1] = rev
  BY <1>3, <1>4, <1>5
<1>7. PICK row : row = Revised(d, content, seen, by) OBVIOUS
<1>8. row = [old EXCEPT !.revs = revs] BY <1>1, <1>2, <1>5, <1>7 DEF Revised
<1>9. row = [target |-> old.target, revs |-> revs, frozen |-> old.frozen] BY <1>4, <1>8
<1>10. row.target = old.target /\ row.revs = revs /\ row.frozen = old.frozen BY <1>9
<1>11. row \in DraftRows BY <1>4, <1>6, <1>9 DEF DraftRows
<1>12. seen = Len(old.revs) BY <1>1 DEF Latest
<1>13. \A i \in 1..Len(old.revs) : old.revs[i].seen = i - 1 BY <1>1 DEF Follows
<1>14. \A i \in 1..Len(revs) : revs[i].seen = i - 1
  <2> SUFFICES ASSUME NEW i \in 1..Len(revs) PROVE revs[i].seen = i - 1 OBVIOUS
  <2>1. CASE i \in 1..Len(old.revs) BY <1>6, <1>13, <2>1
  <2>2. CASE i = Len(old.revs) + 1 BY <1>3, <1>6, <1>12, <2>2
  <2> QED BY <1>6, <2>1, <2>2
<1> QED BY <1>1, <1>3, <1>6, <1>7, <1>10, <1>11, <1>14 DEF Follows

LEMMA FrozenRow ==
  ASSUME NEW row \in DraftRows, NEW by \in Authors, Follows(row)
  PROVE  /\ [row EXCEPT !.frozen = by] \in DraftRows /\ Follows([row EXCEPT !.frozen = by])
         /\ [row EXCEPT !.frozen = by].target = row.target
         /\ [row EXCEPT !.frozen = by].revs = row.revs
         /\ [row EXCEPT !.frozen = by].frozen = by
<1>1. row = [target |-> row.target, revs |-> row.revs, frozen |-> row.frozen]
      /\ row.target \in TargetIds \cup {None} /\ row.revs \in Seq(RevisionRows)
  BY DEF DraftRows
<1>2. PICK new : new = [row EXCEPT !.frozen = by] OBVIOUS
<1>3. new = [target |-> row.target, revs |-> row.revs, frozen |-> by] BY <1>1, <1>2
<1>4. new.target = row.target /\ new.revs = row.revs /\ new.frozen = by BY <1>3
<1>5. new \in DraftRows BY <1>1, <1>3 DEF DraftRows
<1>6. Follows(new) BY <1>4 DEF Follows
<1> QED BY <1>2, <1>4, <1>5, <1>6

LEMMA ContentAt ==
  ASSUME TypeOK, NEW d \in DraftIds, Exists(d)
  PROVE  Content(d) \in Contents \cup {Original} /\ Latest(d) \in Nat \ {0}
<1>1. draft[d].revs \in Seq(RevisionRows) BY DEF TypeOK, DraftRows
<1>2. Len(draft[d].revs) \in Nat \ {0} BY <1>1 DEF Exists
<1>3. draft[d].revs[Len(draft[d].revs)] \in RevisionRows BY <1>1, <1>2
<1> QED BY <1>2, <1>3 DEF Content, Latest, RevisionRows

-----------------------------------------------------------------------------
(* Receipts.                                                                *)

ReceiptsGrow ==
  \A key \in DOMAIN receipts : key \in DOMAIN receipts' /\ receipts'[key] = receipts[key]

AssetsGrow ==
  \A key \in DOMAIN asset : key \in DOMAIN asset' /\ asset'[key] = asset[key]

InnerSteps == {"prompt-create", "prompt-save", "freeze"}

\* A commit of the call: its receipt, maybe after the receipt of an inner
\* command of a solution's, and no other.
Committed(k, value) ==
  /\ ReceiptsGrow
  /\ Key(k) \notin DOMAIN receipts /\ Key(k) \in DOMAIN receipts'
  /\ receipts'[Key(k)] = [request |-> call[k].req, value |-> value, via |-> call[k].mode]
  /\ \A key \in DOMAIN receipts' :
       /\ receipts'[key] \in ReceiptRows
       /\ \/ key \in DOMAIN receipts \/ key = Key(k)
          \/ /\ Table(call[k].req) = "solution"
             /\ \E step \in InnerSteps, t \in {"draft", "freeze"} : key = <<t, Inner(step, call[k].cmd)>>
  /\ End(k) /\ UNCHANGED answers

LEMMA PlainCommit ==
  ASSUME TypeOK, NEW k \in Callers, call[k].pc # "idle", Prior(k) = None,
         NEW value \in DraftRows \cup AssetRows \cup SolutionRows, Commit(k, value, receipts)
  PROVE  Committed(k, value)
<1>1. PICK row : row = [request |-> call[k].req, value |-> value, via |-> call[k].mode] OBVIOUS
<1>2. row \in ReceiptRows BY <1>1, CallAt DEF ReceiptRows
<1>3. PICK new : new = Key(k) OBVIOUS
<1>4. new \notin DOMAIN receipts BY <1>3, PriorAt
<1>5. receipts' = [x \in DOMAIN receipts \cup {new} |-> IF x = new THEN row ELSE receipts[x]]
  BY <1>1, <1>3 DEF Commit, Insert
<1>6. /\ ReceiptsGrow /\ new \in DOMAIN receipts' /\ receipts'[new] = row
      /\ \A key \in DOMAIN receipts' :
           receipts'[key] \in ReceiptRows /\ (key \in DOMAIN receipts \/ key = new)
  BY <1>2, <1>4, <1>5 DEF ReceiptsGrow, TypeOK
<1>7. End(k) /\ UNCHANGED answers BY DEF Commit
<1> QED BY <1>1, <1>3, <1>4, <1>6, <1>7 DEF Committed

LEMMA InnerCommit ==
  ASSUME TypeOK, InnerInv, NEW k \in Callers, call[k].pc # "idle", Prior(k) = None,
         NEW value \in DraftRows \cup AssetRows \cup SolutionRows,
         NEW inner \in DraftRows \cup AssetRows \cup SolutionRows,
         NEW step \in InnerSteps, NEW t \in {"draft", "freeze"}, Table(call[k].req) = "solution",
         Commit(k, value, InnerReceipt(t, Inner(step, call[k].cmd), call[k].req, inner))
  PROVE  Committed(k, value)
<1>1. PICK row : row = [request |-> call[k].req, value |-> value, via |-> call[k].mode] OBVIOUS
<1>2. PICK first : first = [request |-> call[k].req, value |-> inner, via |-> "inner"] OBVIOUS
<1>3. row \in ReceiptRows /\ first \in ReceiptRows BY <1>1, <1>2, CallAt DEF ReceiptRows
<1>4. PICK new : new = Key(k) OBVIOUS
<1>5. PICK old : old = <<t, Inner(step, call[k].cmd)>> OBVIOUS
<1>6. new \notin DOMAIN receipts BY <1>4, PriorAt
<1>7. call[k].cmd \in Commands BY CallAt
<1>8. new = <<"solution", call[k].cmd>> BY <1>4 DEF Key
<1>9. old \notin DOMAIN receipts BY <1>5, <1>6, <1>7, <1>8 DEF InnerInv, InnerSteps
<1>10. old # new BY <1>5, <1>8
<1>11. PICK rows : rows = Insert(receipts, old, first) OBVIOUS
<1>12. rows = [x \in DOMAIN receipts \cup {old} |-> IF x = old THEN first ELSE receipts[x]]
  BY <1>11 DEF Insert
<1>13. receipts' = [x \in DOMAIN rows \cup {new} |-> IF x = new THEN row ELSE rows[x]]
  BY <1>1, <1>2, <1>4, <1>5, <1>11 DEF Commit, InnerReceipt, Insert
<1>14. /\ ReceiptsGrow /\ new \in DOMAIN receipts' /\ receipts'[new] = row
       /\ DOMAIN receipts' = DOMAIN receipts \cup {old, new} /\ receipts'[old] = first
  BY <1>6, <1>9, <1>10, <1>12, <1>13 DEF ReceiptsGrow
<1>15. \A key \in DOMAIN receipts' :
         receipts'[key] \in ReceiptRows /\ (key \in DOMAIN receipts \/ key = new \/ key = old)
  BY <1>3, <1>14 DEF ReceiptsGrow, TypeOK
<1>16. End(k) /\ UNCHANGED answers BY DEF Commit
<1> QED BY <1>1, <1>4, <1>5, <1>6, <1>14, <1>15, <1>16 DEF Committed

\* What a commit does to the receipts of solution commands.
LEMMA CommitAt ==
  ASSUME TypeOK, NEW k \in Callers, call[k].pc # "idle", NEW value, Committed(k, value)
  PROVE  /\ \A c \in Commands :
              <<"solution", c>> \in DOMAIN receipts' => <<"solution", c>> \in DOMAIN receipts \cup {Key(k)}
         /\ \A c \in Commands, step \in InnerSteps, t \in {"draft", "freeze"} :
              <<t, Inner(step, c)>> \in DOMAIN receipts' =>
                 \/ <<t, Inner(step, c)>> \in DOMAIN receipts
                 \/ c = call[k].cmd /\ Key(k) = <<"solution", c>>
<1>1. call[k].cmd \in Commands BY CallAt
<1>2. \A key \in DOMAIN receipts' :
        \/ key \in DOMAIN receipts \/ key = Key(k)
        \/ /\ Table(call[k].req) = "solution"
           /\ \E step \in InnerSteps, t \in {"draft", "freeze"} : key = <<t, Inner(step, call[k].cmd)>>
  BY DEF Committed
<1>3. ASSUME NEW c \in Commands, <<"solution", c>> \in DOMAIN receipts'
      PROVE  <<"solution", c>> \in DOMAIN receipts \cup {Key(k)}
  BY <1>2, <1>3
<1>4. ASSUME NEW c \in Commands, NEW step \in InnerSteps, NEW t \in {"draft", "freeze"},
             <<t, Inner(step, c)>> \in DOMAIN receipts', <<t, Inner(step, c)>> \notin DOMAIN receipts
      PROVE  c = call[k].cmd /\ Key(k) = <<"solution", c>>
  <2>1. <<t, Inner(step, c)>> # Key(k)
    BY <1>1, GovernanceAssumption DEF Key, InnerSteps
  <2>2. Table(call[k].req) = "solution" BY <1>2, <1>4, <2>1
  <2>3. PICK step2 \in InnerSteps, t2 \in {"draft", "freeze"} :
          <<t, Inner(step, c)>> = <<t2, Inner(step2, call[k].cmd)>>
    BY <1>2, <1>4, <2>1
  <2>4. c = call[k].cmd BY <2>3 DEF Inner
  <2> QED BY <2>2, <2>4 DEF Key
<1> QED BY <1>3, <1>4

LEMMA InnerStep ==
  ASSUME TypeOK, InnerInv, NEW k \in Callers, call[k].pc # "idle", NEW value, Committed(k, value)
  PROVE  InnerInv'
<1> SUFFICES ASSUME NEW c \in Commands, NEW step \in {"prompt-create", "prompt-save", "freeze"},
                    NEW t \in {"draft", "freeze"}, <<t, Inner(step, c)>> \in DOMAIN receipts'
             PROVE  <<"solution", c>> \in DOMAIN receipts'
  BY DEF InnerInv
<1>1. \/ <<t, Inner(step, c)>> \in DOMAIN receipts
      \/ c = call[k].cmd /\ Key(k) = <<"solution", c>>
  BY CommitAt DEF InnerSteps
<1> QED BY <1>1 DEF InnerInv, Committed, ReceiptsGrow

LEMMA AnswersStay ==
  ASSUME AnswersFaithful, ReceiptsGrow, UNCHANGED answers
  PROVE  AnswersFaithful'
  BY DEF AnswersFaithful, ReceiptsGrow

-----------------------------------------------------------------------------
(* Calls and executions.                                                    *)

LEMMA EndAt ==
  ASSUME TypeOK, NEW k \in Callers, End(k)
  PROVE  /\ call' \in [Callers -> CallRows \cup {Idle}] /\ call'[k].pc = "idle"
         /\ \A j \in Callers : j # k => call'[j] = call[j]
  BY DEF TypeOK, End, Idle

LEMMA ToAt ==
  ASSUME TypeOK, NEW k \in Callers, call[k].pc # "idle", NEW pc \in Steps, To(k, pc)
  PROVE  /\ call' \in [Callers -> CallRows \cup {Idle}] /\ call'[k] = [call[k] EXCEPT !.pc = pc]
         /\ call'[k].pc = pc /\ call'[k].cmd = call[k].cmd /\ call'[k].req = call[k].req
         /\ call'[k].mode = call[k].mode /\ call'[k].saved = call[k].saved
         /\ call'[k].plan = call[k].plan
         /\ \A j \in Callers : j # k => call'[j] = call[j]
<1>1. call[k] \in CallRows BY CallAt
<1>2. PICK new : new = [call[k] EXCEPT !.pc = pc] OBVIOUS
<1>3. /\ new.pc = pc /\ new.cmd = call[k].cmd /\ new.req = call[k].req /\ new.mode = call[k].mode
      /\ new.saved = call[k].saved /\ new.plan = call[k].plan /\ new \in CallRows
  BY <1>1, <1>2 DEF CallRows
<1>4. call' = [call EXCEPT ![k] = new] BY <1>2 DEF To
<1>5. call \in [Callers -> CallRows \cup {Idle}] BY DEF TypeOK
<1>6. /\ call' \in [Callers -> CallRows \cup {Idle}] /\ call'[k] = new
      /\ \A j \in Callers : j # k => call'[j] = call[j]
  BY <1>3, <1>4, <1>5
<1> QED BY <1>2, <1>3, <1>6

\* The others' calls rely on receipts that stay and, in a root, on their own
\* execution.
LEMMA CallStays ==
  ASSUME NEW j \in Callers, CallInv(j), ReceiptsGrow, call'[j] = call[j],
         call[j].pc = "root" =>
           /\ tx'[call[j].cmd] # None /\ tx'[call[j].cmd].state # "committed"
           /\ tx'[call[j].cmd].request = tx[call[j].cmd].request
  PROVE  CallInv(j)'
<1>1. Key(j)' = Key(j) BY DEF Key, Table
<1>2. Recorded(j) => Recorded(j)' BY <1>1 DEF Recorded, ReceiptsGrow
<1>3. PICK row : row = call[j] OBVIOUS
<1>4. call'[j] = row BY <1>3
<1>5. row.plan.target = PreparedRow(row.plan.source, row.cmd) =>
        call'[j].plan.target = PreparedRow(call[j].plan.source, call[j].cmd)'
  BY <1>3, <1>4 DEF PreparedRow
<1> QED BY <1>2, <1>3, <1>4, <1>5 DEF CallInv, PreparedRow

LEMMA RootStays ==
  ASSUME RootOnce, NEW k \in Callers,
         \A j \in Callers : j # k => call'[j] = call[j],
         call'[k].pc # "root"
  PROVE  RootOnce'
  BY DEF RootOnce

LEMMA WitnessStays ==
  ASSUME NEW c \in Commands, Witnessed(c), tx'[c] = tx[c], ReceiptsGrow,
         <<"solution", c>> \in DOMAIN receipts' => <<"solution", c>> \in DOMAIN receipts
  PROVE  Witnessed(c)'
  BY DEF Witnessed, ReceiptsGrow

-----------------------------------------------------------------------------
(* Rows written by the commands.                                            *)

LEMMA InsertAt ==
  ASSUME NEW key, NEW row, key \notin DOMAIN asset, asset' = Insert(asset, key, row)
  PROVE  AssetsGrow /\ key \in DOMAIN asset' /\ asset'[key] = row
  BY DEF Insert, AssetsGrow

\* A draft is replaced by one of its kind.
LEMMA DraftStep ==
  ASSUME TypeOK, NoLostEdit, NEW d \in DraftIds, NEW new \in DraftRows, Follows(new),
         draft' = [draft EXCEPT ![d] = new]
  PROVE  /\ draft' \in [DraftIds -> DraftRows] /\ draft'[d] = new /\ NoLostEdit'
         /\ \A e \in DraftIds : e # d => draft'[e] = draft[e]
<1>1. draft \in [DraftIds -> DraftRows] BY DEF TypeOK
<1>2. /\ draft' \in [DraftIds -> DraftRows] /\ draft'[d] = new
      /\ \A e \in DraftIds : e # d => draft'[e] = draft[e]
  BY <1>1
<1>3. NoLostEdit' BY <1>2 DEF NoLostEdit, Follows
<1> QED BY <1>2, <1>3

\* A solution whose rows are left alone.
LEMMA SolutionFrame ==
  ASSUME NEW s \in Solutions, SolutionInv(s), AssetsGrow, draft'[Prompt(s)] = draft[Prompt(s)],
         solution'[s] = solution[s], run'[s] = run[s]
  PROVE  SolutionInv(s)'
<1>1. PICK row : row = draft[Prompt(s)] OBVIOUS
<1>2. PICK own : own = solution[s] OBVIOUS
<1>3. draft'[Prompt(s)] = row /\ solution'[s] = own BY <1>1, <1>2
<1>4. Exists(Prompt(s))' => Exists(Prompt(s)) BY <1>1, <1>3 DEF Exists, Prompt
<1>5. (Exists(Prompt(s)) => draft[Prompt(s)].target = Version(s)) =>
        (Exists(Prompt(s))' => draft'[Prompt(s)].target = Version(s))
  BY <1>1, <1>3, <1>4
<1>6. own # None => Saved(s)' BY <1>1, <1>2, <1>3 DEF SolutionInv, Saved, Prompt
<1>7. ASSUME own # None, own.prepared # None
      PROVE  Prepared(s, own.prepared)'
  <2>1. Prepared(s, own.prepared) BY <1>2, <1>7 DEF SolutionInv
  <2> QED BY <1>1, <1>2, <1>3, <2>1 DEF Prepared, AssetsGrow, Prompt
<1> QED BY <1>3, <1>5, <1>6, <1>7 DEF SolutionInv, Prompt, Version, Saved, Prepared

\* An edit or freeze of a draft that is not frozen keeps what its solution
\* saved: it is not prepared yet.
LEMMA EditStep ==
  ASSUME TypeOK, SolutionsInv, NEW d \in DraftIds, Exists(d), draft[d].frozen = None,
         NEW new \in DraftRows, new.target = draft[d].target,
         Len(new.revs) >= Len(draft[d].revs),
         \A i \in 1..Len(draft[d].revs) : new.revs[i] = draft[d].revs[i],
         draft'[d] = new, \A e \in DraftIds : e # d => draft'[e] = draft[e],
         AssetsGrow, UNCHANGED <<solution, run>>
  PROVE  SolutionsInv'
<1> SUFFICES ASSUME NEW s \in Solutions PROVE SolutionInv(s)' BY DEF SolutionsInv
<1>1. SolutionInv(s) BY DEF SolutionsInv
<1>2. CASE Prompt(s) # d BY <1>1, <1>2, PromptAt, SolutionFrame
<1>3. CASE Prompt(s) = d
  <2>1. solution[s] # None => solution[s].prepared = None
    <3> SUFFICES ASSUME solution[s] # None, solution[s].prepared # None PROVE FALSE OBVIOUS
    <3>1. solution[s].prepared \in Commands BY DEF TypeOK, SolutionRows
    <3>2. draft[d].frozen = Inner("freeze", solution[s].prepared)
      BY <1>1, <1>3 DEF SolutionInv, Prepared
    <3>3. Inner("freeze", solution[s].prepared) # None
      BY <3>1, AuthorAt, GovernanceAssumption
    <3> QED BY <3>2, <3>3
  <2>2. draft'[Prompt(s)].target = Version(s) BY <1>1, <1>3 DEF SolutionInv
  <2>3. solution[s] # None => Saved(s)'
    <3> SUFFICES ASSUME solution[s] # None PROVE Saved(s)' OBVIOUS
    <3>1. Saved(s) BY <1>1 DEF SolutionInv
    <3>2. PICK n : n = solution[s].draftRev OBVIOUS
    <3>3. solution'[s].draftRev = n /\ draft'[Prompt(s)] = new BY <1>3, <3>2
    <3>4. n \in 1..Len(draft[d].revs) BY <1>3, <3>1, <3>2 DEF Saved
    <3>5. Len(draft[d].revs) \in Nat /\ Len(new.revs) \in Nat BY DEF TypeOK, DraftRows
    <3>6. n \in 1..Len(new.revs) /\ new.revs[n] = draft[d].revs[n] BY <3>4, <3>5
    <3>7. \E e \in Commands \cup {Earlier} :
            new.revs[n].by \in {Inner("prompt-create", e), Inner("prompt-save", e)}
      BY <1>3, <3>1, <3>2, <3>6 DEF Saved
    <3> QED BY <3>3, <3>6, <3>7 DEF Saved, Prompt, Inner
  <2> QED BY <2>1, <2>2, <2>3 DEF SolutionInv, Prompt, Version
<1> QED BY <1>2, <1>3

\* What holds where a command writes its rows.
Writing(k) ==
  /\ call[k].pc # "idle" /\ Prior(k) = None
  /\ Admitted(call[k].req) /\ ~Duplicate(call[k].req)

\* The tables after a write.
TablesSound ==
  /\ draft' \in [DraftIds -> DraftRows]
  /\ solution' \in [Solutions -> SolutionRows \cup {None}]
  /\ run' \in [Solutions -> RunRows \cup {None}]
  /\ NoLostEdit' /\ SolutionsInv'

LEMMA DraftWrites ==
  ASSUME TypeOK, NoLostEdit, SolutionsInv, NEW k \in Callers, Writing(k), WriteDraft(k)
  PROVE  TablesSound /\ \E value : Committed(k, value)
<1>1. PICK req \in Requests : req = call[k].req BY CallAt DEF Writing
<1>2. req.draft \in Drafts \cup Judges /\ req.target \in Targets(req.draft)
  BY <1>1, RequestAt DEF WriteDraft
<1>3. req.draft \in DraftIds BY <1>2 DEF DraftIds
<1>4. req.target \in TargetIds /\ call[k].cmd \in Authors
  BY <1>2, <1>3, CallAt, AuthorAt DEF TargetIds, Writing
<1>5. PICK new : new = Created(req.target, call[k].cmd) OBVIOUS
<1>6. new \in DraftRows /\ Follows(new) BY <1>4, <1>5, CreatedRow
<1>7. /\ draft' = [draft EXCEPT ![req.draft] = new] /\ Commit(k, new, receipts)
      /\ UNCHANGED <<asset, solution, run>>
  BY <1>1, <1>5 DEF WriteDraft
<1>8. /\ draft' \in [DraftIds -> DraftRows] /\ NoLostEdit'
      /\ \A e \in DraftIds : e # req.draft => draft'[e] = draft[e]
  BY <1>3, <1>6, <1>7, DraftStep
<1>9. AssetsGrow BY <1>7 DEF AssetsGrow
<1>10. ASSUME NEW s \in Solutions PROVE SolutionInv(s)'
  BY <1>2, <1>7, <1>8, <1>9, PromptAt, SolutionFrame DEF SolutionsInv
<1>11. Committed(k, new) BY <1>6, <1>7, PlainCommit DEF Writing
<1> QED BY <1>7, <1>8, <1>10, <1>11 DEF TablesSound, SolutionsInv, TypeOK

LEMMA RevisionWrites ==
  ASSUME TypeOK, NoLostEdit, SolutionsInv, NEW k \in Callers, Writing(k), WriteRevision(k)
  PROVE  TablesSound /\ \E value : Committed(k, value)
<1>1. PICK req \in Requests : req = call[k].req BY CallAt DEF Writing
<1>2. req.op = "revise" /\ req.draft \in DraftIds /\ req.content \in Contents
  BY <1>1, RequestAt DEF WriteRevision
<1>3. Exists(req.draft) /\ draft[req.draft].frozen = None /\ req.expected = Latest(req.draft)
  BY <1>1, <1>2 DEF Writing, Admitted, Editable
<1>4. call[k].cmd \in Authors /\ req.expected \in Nat
  BY <1>2, <1>3, CallAt, AuthorAt, ContentAt DEF Writing
<1>5. PICK new : new = Revised(req.draft, req.content, req.expected, call[k].cmd) OBVIOUS
<1>6. Follows(draft[req.draft]) BY <1>2 DEF NoLostEdit, Follows
<1>7. /\ new \in DraftRows /\ Follows(new) /\ new.target = draft[req.draft].target
      /\ Len(new.revs) = Len(draft[req.draft].revs) + 1
      /\ \A i \in 1..Len(draft[req.draft].revs) : new.revs[i] = draft[req.draft].revs[i]
  BY <1>2, <1>3, <1>4, <1>5, <1>6, RevisedRow
<1>8. /\ draft' = [draft EXCEPT ![req.draft] = new] /\ Commit(k, new, receipts)
      /\ UNCHANGED <<asset, solution, run>>
  BY <1>1, <1>5 DEF WriteRevision
<1>9. /\ draft' \in [DraftIds -> DraftRows] /\ NoLostEdit' /\ draft'[req.draft] = new
      /\ \A e \in DraftIds : e # req.draft => draft'[e] = draft[e]
  BY <1>2, <1>7, <1>8, DraftStep
<1>10. AssetsGrow BY <1>8 DEF AssetsGrow
<1>11. Len(new.revs) >= Len(draft[req.draft].revs)
  BY <1>2, <1>3, <1>7, ContentAt DEF Latest
<1>12. SolutionsInv' BY <1>2, <1>3, <1>7, <1>8, <1>9, <1>10, <1>11, EditStep
<1>13. Committed(k, new) BY <1>7, <1>8, PlainCommit DEF Writing
<1> QED BY <1>8, <1>9, <1>12, <1>13 DEF TablesSound, TypeOK

LEMMA FreezeWrites ==
  ASSUME TypeOK, NoLostEdit, SolutionsInv, NEW k \in Callers, Writing(k), WriteFreeze(k)
  PROVE  TablesSound /\ \E value : Committed(k, value)
<1>1. PICK req \in Requests : req = call[k].req BY CallAt DEF Writing
<1>2. req.op = "freeze" /\ req.draft \in DraftIds BY <1>1, RequestAt DEF WriteFreeze
<1>3. PICK d \in DraftIds : d = req.draft BY <1>2
<1>4. /\ Exists(d) /\ draft[d].frozen = None /\ ~Taken(AssetKind(d), draft[d].target)
  BY <1>1, <1>2, <1>3 DEF Writing, Admitted, Freezable, Editable
<1>5. /\ call[k].cmd \in Authors /\ Latest(d) \in Nat /\ Content(d) \in Contents \cup {Original}
      /\ Len(draft[d].revs) \in Nat
  BY <1>4, CallAt, AuthorAt, ContentAt DEF Writing, Latest
<1>6. PICK new : new = IF d \in Judges THEN FrozenJudge(d, call[k].cmd) ELSE Frozen(d, call[k].cmd)
  OBVIOUS
<1>7. Follows(draft[d]) /\ draft[d] \in DraftRows BY DEF NoLostEdit, Follows, TypeOK
<1>8. /\ new \in DraftRows /\ Follows(new) /\ new.target = draft[d].target
      /\ Len(new.revs) >= Len(draft[d].revs)
      /\ \A i \in 1..Len(draft[d].revs) : new.revs[i] = draft[d].revs[i]
  <2>1. CASE d \in Judges
    <3>1. PICK rev : rev = Revised(d, Content(d), Latest(d), call[k].cmd) OBVIOUS
    <3>2. /\ rev \in DraftRows /\ Follows(rev) /\ rev.target = draft[d].target
          /\ Len(rev.revs) = Len(draft[d].revs) + 1
          /\ \A i \in 1..Len(draft[d].revs) : rev.revs[i] = draft[d].revs[i]
      BY <1>5, <1>7, <3>1, RevisedRow
    <3>3. new = [rev EXCEPT !.frozen = call[k].cmd] BY <1>6, <2>1, <3>1 DEF FrozenJudge
    <3>4. new \in DraftRows /\ Follows(new) /\ new.target = rev.target /\ new.revs = rev.revs
      BY <1>5, <3>2, <3>3, FrozenRow
    <3> QED BY <1>5, <3>2, <3>4
  <2>2. CASE d \notin Judges
    <3>1. new = [draft[d] EXCEPT !.frozen = call[k].cmd] BY <1>6, <2>2 DEF Frozen
    <3>2. new \in DraftRows /\ Follows(new) /\ new.target = draft[d].target /\ new.revs = draft[d].revs
      BY <1>5, <1>7, <3>1, FrozenRow
    <3> QED BY <1>5, <3>2
  <2> QED BY <2>1, <2>2
<1>9. /\ draft' = [draft EXCEPT ![d] = new] /\ Commit(k, new, receipts)
      /\ asset' = FrozenAsset(d, call[k].cmd) /\ UNCHANGED <<solution, run>>
  BY <1>1, <1>3, <1>6 DEF WriteFreeze
<1>10. /\ draft' \in [DraftIds -> DraftRows] /\ NoLostEdit' /\ draft'[d] = new
       /\ \A e \in DraftIds : e # d => draft'[e] = draft[e]
  BY <1>8, <1>9, DraftStep
<1>11. AssetsGrow BY <1>4, <1>9, InsertAt DEF FrozenAsset, Taken
<1>12. SolutionsInv' BY <1>4, <1>8, <1>9, <1>10, <1>11, EditStep
<1>13. Committed(k, new) BY <1>8, <1>9, PlainCommit DEF Writing
<1> QED BY <1>9, <1>10, <1>12, <1>13 DEF TablesSound, TypeOK

LEMMA RegistrationWrites ==
  ASSUME TypeOK, NoLostEdit, SolutionsInv, NEW k \in Callers, Writing(k),
         WriteProfile(k) \/ WriteSuite(k)
  PROVE  TablesSound /\ \E value : Committed(k, value)
<1>1. PICK req \in Requests : req = call[k].req BY CallAt DEF Writing
<1>2. PICK row : row = [by |-> call[k].cmd, content |-> None] OBVIOUS
<1>3. row \in AssetRows BY <1>2, CallAt, AuthorAt DEF Writing, AssetRows
<1>4. /\ asset' = Insert(asset, <<req.kind, req.version>>, row) /\ Commit(k, row, receipts)
      /\ req.op = "register" /\ UNCHANGED <<draft, solution, run>>
  BY <1>1, <1>2 DEF WriteProfile, WriteSuite, ProfileRequests, SuiteRequests
<1>5. <<req.kind, req.version>> \notin DOMAIN asset
  BY <1>1, <1>4 DEF Writing, Duplicate, Taken
<1>6. AssetsGrow BY <1>4, <1>5, InsertAt
<1>7. SolutionsInv' BY <1>4, <1>6, SolutionFrame DEF SolutionsInv
<1>8. NoLostEdit' BY <1>4 DEF NoLostEdit
<1>9. Committed(k, row) BY <1>3, <1>4, PlainCommit DEF Writing
<1> QED BY <1>4, <1>7, <1>8, <1>9 DEF TablesSound, TypeOK

LEMMA SolutionWrites ==
  ASSUME TypeOK, NoLostEdit, SolutionsInv, InnerInv, NEW k \in Callers, Writing(k), WriteSolution(k)
  PROVE  TablesSound /\ \E value : Committed(k, value)
<1>1. PICK req \in Requests : req = call[k].req BY CallAt DEF Writing
<1>2. req.op = "create" /\ req.solution \in Solutions /\ Table(req) = "solution"
  BY <1>1, RequestAt, TableAt DEF WriteSolution
<1>3. PICK s \in Solutions : s = req.solution BY <1>2
<1>4. PICK by : by = Inner("prompt-create", call[k].cmd) OBVIOUS
<1>5. by \in Authors /\ call[k].cmd \in Commands BY <1>4, CallAt, AuthorAt DEF Writing
<1>6. PICK d \in DraftIds : d = Prompt(s) BY PromptAt
<1>7. Version(s) \in TargetIds BY <1>6 DEF TargetIds, Targets
<1>8. PICK head : head = Created(Version(s), by) OBVIOUS
<1>9. /\ head \in DraftRows /\ Follows(head) /\ head.target = Version(s) /\ head.frozen = None
      /\ Len(head.revs) = 1 /\ head.revs[1].by = by
  BY <1>5, <1>7, <1>8, CreatedRow
<1>10. NewSolution \in SolutionRows BY DEF NewSolution, SolutionRows
<1>11. /\ draft' = [draft EXCEPT ![d] = head] /\ solution' = [solution EXCEPT ![s] = NewSolution]
       /\ Commit(k, NewSolution, InnerReceipt("draft", by, call[k].req, head))
       /\ UNCHANGED <<asset, run>>
  BY <1>1, <1>3, <1>4, <1>6, <1>8 DEF WriteSolution
<1>12. /\ draft' \in [DraftIds -> DraftRows] /\ NoLostEdit' /\ draft'[d] = head
       /\ \A e \in DraftIds : e # d => draft'[e] = draft[e]
  BY <1>9, <1>11, DraftStep
<1>13. /\ solution' \in [Solutions -> SolutionRows \cup {None}] /\ solution'[s] = NewSolution
       /\ \A u \in Solutions : u # s => solution'[u] = solution[u]
  BY <1>10, <1>11 DEF TypeOK
<1>14. AssetsGrow BY <1>11 DEF AssetsGrow
<1>15. ASSUME NEW u \in Solutions, u # s PROVE SolutionInv(u)'
  <2>1. Prompt(u) # d /\ Prompt(u) \in DraftIds BY <1>6, <1>15, PromptAt
  <2> QED BY <1>11, <1>12, <1>13, <1>14, <1>15, <2>1, SolutionFrame DEF SolutionsInv
<1>16. SolutionInv(s)'
  <2>1. solution'[s].draftRev = 1 /\ solution'[s].prepared = None BY <1>13 DEF NewSolution
  <2>2. Saved(s)' BY <1>4, <1>5, <1>6, <1>9, <1>12, <2>1 DEF Saved, Prompt, Inner
  <2>3. draft'[Prompt(s)].target = Version(s) BY <1>6, <1>9, <1>12
  <2> QED BY <2>1, <2>2, <2>3 DEF SolutionInv, Prompt, Version
<1>17. Committed(k, NewSolution)
  BY <1>1, <1>2, <1>4, <1>9, <1>10, <1>11, InnerCommit DEF Writing, InnerSteps
<1> QED BY <1>11, <1>12, <1>13, <1>15, <1>16, <1>17 DEF TablesSound, SolutionsInv, TypeOK

LEMMA SaveWrites ==
  ASSUME TypeOK, NoLostEdit, SolutionsInv, InnerInv, NEW k \in Callers, Writing(k), WriteSave(k)
  PROVE  TablesSound /\ \E value : Committed(k, value)
<1>1. PICK req \in Requests : req = call[k].req BY CallAt DEF Writing
<1>2. /\ req.op = "save" /\ req.solution \in Solutions /\ Table(req) = "solution"
      /\ req.content \in Contents /\ req.judge \in Judges \cup {None}
  BY <1>1, RequestAt, TableAt DEF WriteSave
<1>3. PICK s \in Solutions : s = req.solution BY <1>2
<1>4. PICK by : by = Inner("prompt-save", call[k].cmd) OBVIOUS
<1>5. by \in Authors /\ call[k].cmd \in Commands BY <1>4, CallAt, AuthorAt DEF Writing
<1>6. PICK d \in DraftIds : d = Prompt(s) BY PromptAt
<1>7. /\ solution[s] # None /\ solution[s].prepared = None /\ solution[s].draftRev = Latest(d)
      /\ Exists(d)
  BY <1>1, <1>2, <1>3, <1>6 DEF Writing, Admitted, Workable, Editable
<1>8. PICK old \in SolutionRows : old = solution[s] BY <1>7 DEF TypeOK
<1>9. Latest(d) \in Nat /\ Follows(draft[d]) /\ Len(draft[d].revs) = Latest(d)
  BY <1>7, ContentAt DEF NoLostEdit, Follows, Latest
<1>10. PICK head : head = Revised(d, req.content, solution[s].draftRev, by) OBVIOUS
<1>11. /\ head \in DraftRows /\ Follows(head) /\ head.target = draft[d].target
       /\ Len(head.revs) = Latest(d) + 1 /\ head.revs[Latest(d) + 1].by = by
  BY <1>2, <1>5, <1>7, <1>9, <1>10, RevisedRow
<1>12. PICK judge : judge = IF req.judge = None THEN old.judge ELSE req.judge OBVIOUS
<1>13. PICK new : new = [old EXCEPT !.rev = @ + 1, !.draftRev = Latest(d) + 1, !.judge = judge]
  OBVIOUS
<1>14. /\ new = [rev |-> old.rev + 1, draftRev |-> Latest(d) + 1, judge |-> judge,
                 prepared |-> old.prepared]
       /\ judge \in Judges \cup {None} /\ old.rev \in Nat /\ old.prepared = None
  BY <1>2, <1>7, <1>8, <1>12, <1>13 DEF SolutionRows
<1>15. new \in SolutionRows /\ new.draftRev = Latest(d) + 1 /\ new.prepared = None
  BY <1>9, <1>14 DEF SolutionRows
<1>16. /\ draft' = [draft EXCEPT ![d] = head] /\ solution' = [solution EXCEPT ![s] = new]
       /\ Commit(k, new, InnerReceipt("draft", by, call[k].req, head))
       /\ UNCHANGED <<asset, run>>
  BY <1>1, <1>3, <1>4, <1>6, <1>8, <1>10, <1>12, <1>13 DEF WriteSave
<1>17. /\ draft' \in [DraftIds -> DraftRows] /\ NoLostEdit' /\ draft'[d] = head
       /\ \A e \in DraftIds : e # d => draft'[e] = draft[e]
  BY <1>11, <1>16, DraftStep
<1>18. /\ solution' \in [Solutions -> SolutionRows \cup {None}] /\ solution'[s] = new
       /\ \A u \in Solutions : u # s => solution'[u] = solution[u]
  BY <1>15, <1>16 DEF TypeOK
<1>19. AssetsGrow BY <1>16 DEF AssetsGrow
<1>20. ASSUME NEW u \in Solutions, u # s PROVE SolutionInv(u)'
  <2>1. Prompt(u) # d /\ Prompt(u) \in DraftIds BY <1>6, <1>20, PromptAt
  <2> QED BY <1>16, <1>17, <1>18, <1>19, <1>20, <2>1, SolutionFrame DEF SolutionsInv
<1>21. SolutionInv(s)'
  <2>1. Saved(s)'
    <3>1. PICK n : n = Latest(d) + 1 OBVIOUS
    <3>2. n \in 1..Len(head.revs) /\ head.revs[n].by = Inner("prompt-save", call[k].cmd)
      BY <1>4, <1>9, <1>11, <3>1
    <3>3. solution'[s].draftRev = n /\ draft'[Prompt(s)] = head BY <1>6, <1>15, <1>17, <1>18, <3>1
    <3> QED BY <1>5, <3>2, <3>3 DEF Saved, Prompt, Inner
  <2>2. draft[d].target = Version(s) BY <1>6, <1>7 DEF SolutionsInv, SolutionInv
  <2>3. draft'[Prompt(s)].target = Version(s) BY <1>6, <1>11, <1>17, <2>2
  <2> QED BY <1>15, <1>18, <2>1, <2>3 DEF SolutionInv, Prompt, Version
<1>22. Committed(k, new)
  BY <1>1, <1>2, <1>4, <1>11, <1>15, <1>16, InnerCommit DEF Writing, InnerSteps
<1> QED BY <1>16, <1>17, <1>18, <1>20, <1>21, <1>22 DEF TablesSound, SolutionsInv, TypeOK

LEMMA PreparedAt ==
  ASSUME NEW row \in SolutionRows, NEW c \in Commands
  PROVE  /\ PreparedRow(row, c) \in SolutionRows /\ PreparedRow(row, c).draftRev = row.draftRev
         /\ PreparedRow(row, c).judge = row.judge /\ PreparedRow(row, c).prepared = c
<1>1. PICK new : new = PreparedRow(row, c) OBVIOUS
<1>2. /\ new = [rev |-> row.rev + 1, draftRev |-> row.draftRev, judge |-> row.judge, prepared |-> c]
      /\ row.rev \in Nat /\ row.draftRev \in Nat /\ row.judge \in Judges \cup {None}
  BY <1>1 DEF PreparedRow, SolutionRows
<1> QED BY <1>1, <1>2 DEF SolutionRows

\* The three assets of a preparation are new.
LEMMA AssetsPrepared ==
  ASSUME NEW s \in Solutions, NEW c \in Commands, AssetKind(Prompt(s)) = "prompt",
         draft[Prompt(s)].target = Version(s), ~Taken("prompt", Version(s)),
         ~Taken("profile", Version(s)), ~Taken("suite", Version(s)), asset' = PreparedAssets(s, c)
  PROVE  /\ AssetsGrow
         /\ {<<"prompt", Version(s)>>, <<"profile", Version(s)>>, <<"suite", Version(s)>>}
              \subseteq DOMAIN asset'
         /\ asset'[<<"prompt", Version(s)>>]
              = [by |-> Inner("freeze", c), content |-> Content(Prompt(s))]
         /\ asset'[<<"profile", Version(s)>>].by = Inner("profile", c)
         /\ asset'[<<"suite", Version(s)>>] = [by |-> Inner("suite", c), content |-> solution[s].judge]
<1>1. PICK p : p = <<"prompt", Version(s)>> OBVIOUS
<1>2. PICK q : q = <<"profile", Version(s)>> OBVIOUS
<1>3. PICK r : r = <<"suite", Version(s)>> OBVIOUS
<1>4. p # q /\ p # r /\ q # r BY <1>1, <1>2, <1>3
<1>5. p \notin DOMAIN asset /\ q \notin DOMAIN asset /\ r \notin DOMAIN asset
  BY <1>1, <1>2, <1>3 DEF Taken
<1>6. PICK a : a = [by |-> Inner("freeze", c), content |-> Content(Prompt(s))] OBVIOUS
<1>7. PICK b : b = [by |-> Inner("profile", c), content |-> None] OBVIOUS
<1>8. PICK e : e = [by |-> Inner("suite", c), content |-> solution[s].judge] OBVIOUS
<1>9. PICK one : one = [x \in DOMAIN asset \cup {p} |-> IF x = p THEN a ELSE asset[x]] OBVIOUS
<1>10. PICK two : two = [x \in DOMAIN one \cup {q} |-> IF x = q THEN b ELSE one[x]] OBVIOUS
<1>11. asset' = [x \in DOMAIN two \cup {r} |-> IF x = r THEN e ELSE two[x]]
  BY <1>1, <1>2, <1>3, <1>6, <1>7, <1>8, <1>9, <1>10 DEF PreparedAssets, FrozenAsset, Insert
<1>12. /\ AssetsGrow /\ {p, q, r} \subseteq DOMAIN asset'
       /\ asset'[p] = a /\ asset'[q] = b /\ asset'[r] = e
  BY <1>4, <1>5, <1>9, <1>10, <1>11 DEF AssetsGrow
<1>13. b.by = Inner("profile", c) BY <1>7
<1> QED BY <1>1, <1>2, <1>3, <1>6, <1>8, <1>12, <1>13

LEMMA PreparationWrites ==
  ASSUME TypeOK, NoLostEdit, SolutionsInv, InnerInv, NEW k \in Callers, Writing(k), WritePreparation(k)
  PROVE  TablesSound /\ Committed(k, PreparedRow(solution[call[k].req.solution], call[k].cmd))
<1>1. PICK req \in Requests : req = call[k].req BY CallAt DEF Writing
<1>2. req.op = "prepare" /\ req.solution \in Solutions /\ Table(req) = "solution"
  BY <1>1, RequestAt, TableAt DEF WritePreparation
<1>3. PICK s \in Solutions : s = req.solution BY <1>2
<1>4. PICK c \in Commands : c = call[k].cmd BY CallAt DEF Writing
<1>5. PICK by : by = Inner("freeze", c) OBVIOUS
<1>6. by \in Authors BY <1>5, AuthorAt
<1>7. PICK d \in DraftIds : d = Prompt(s) BY PromptAt
<1>8. /\ solution[s] # None /\ solution[s].draftRev = Latest(d) /\ Exists(d)
      /\ ~Taken(AssetKind(d), draft[d].target)
      /\ ~Taken("profile", Version(s)) /\ ~Taken("suite", Version(s))
  BY <1>1, <1>2, <1>3, <1>7 DEF Writing, Admitted, Preparable, Freezable, Workable, Editable
<1>9. AssetKind(d) = "prompt" /\ draft[d].target = Version(s)
  BY <1>7, <1>8, PromptAt DEF SolutionsInv, SolutionInv
<1>10. PICK old \in SolutionRows : old = solution[s] BY <1>8 DEF TypeOK
<1>11. draft[d] \in DraftRows /\ Follows(draft[d]) BY DEF NoLostEdit, Follows, TypeOK
<1>12. PICK frozen : frozen = [draft[d] EXCEPT !.frozen = by] OBVIOUS
<1>13. /\ frozen \in DraftRows /\ Follows(frozen) /\ frozen.target = draft[d].target
       /\ frozen.revs = draft[d].revs /\ frozen.frozen = by
  BY <1>6, <1>11, <1>12, FrozenRow
<1>14. PICK new : new = PreparedRow(old, c) OBVIOUS
<1>15. /\ new \in SolutionRows /\ new.draftRev = Latest(d) /\ new.judge = old.judge /\ new.prepared = c
  BY <1>8, <1>10, <1>14, PreparedAt
<1>16. PICK made : made = PreparedRun(s) OBVIOUS
<1>17. made = [content |-> Content(d), judge |-> old.judge] /\ made \in RunRows
  BY <1>7, <1>8, <1>10, <1>16, ContentAt DEF PreparedRun, RunRows, SolutionRows
<1>18. /\ draft' = [draft EXCEPT ![d] = frozen] /\ solution' = [solution EXCEPT ![s] = new]
       /\ Commit(k, new, InnerReceipt("freeze", by, call[k].req, frozen))
       /\ run' = [run EXCEPT ![s] = made] /\ asset' = PreparedAssets(s, c)
  BY <1>1, <1>3, <1>4, <1>5, <1>7, <1>10, <1>12, <1>14, <1>16 DEF WritePreparation, Frozen
<1>19. /\ draft' \in [DraftIds -> DraftRows] /\ NoLostEdit' /\ draft'[d] = frozen
       /\ \A e \in DraftIds : e # d => draft'[e] = draft[e]
  BY <1>13, <1>18, DraftStep
<1>20. /\ solution' \in [Solutions -> SolutionRows \cup {None}] /\ solution'[s] = new
       /\ run' \in [Solutions -> RunRows \cup {None}] /\ run'[s] = made
       /\ \A u \in Solutions : u # s => solution'[u] = solution[u] /\ run'[u] = run[u]
  BY <1>15, <1>17, <1>18 DEF TypeOK
<1>21. /\ AssetsGrow
       /\ {<<"prompt", Version(s)>>, <<"profile", Version(s)>>, <<"suite", Version(s)>>}
            \subseteq DOMAIN asset'
       /\ asset'[<<"prompt", Version(s)>>] = [by |-> Inner("freeze", c), content |-> Content(d)]
       /\ asset'[<<"profile", Version(s)>>].by = Inner("profile", c)
       /\ asset'[<<"suite", Version(s)>>] = [by |-> Inner("suite", c), content |-> old.judge]
  BY <1>7, <1>8, <1>9, <1>10, <1>18, AssetsPrepared
<1>22. ASSUME NEW u \in Solutions, u # s PROVE SolutionInv(u)'
  <2>1. Prompt(u) # d /\ Prompt(u) \in DraftIds BY <1>7, <1>22, PromptAt
  <2> QED BY <1>19, <1>20, <1>21, <1>22, <2>1, SolutionFrame DEF SolutionsInv
<1>23. SolutionInv(s)'
  <2>1. PICK revs : revs = draft[d].revs OBVIOUS
  <2>2. /\ draft'[Prompt(s)].revs = revs /\ draft'[Prompt(s)].frozen = by
        /\ draft'[Prompt(s)].target = Version(s)
    BY <1>7, <1>9, <1>13, <1>19, <2>1
  <2>3. Latest(d) = Len(revs) /\ Content(d) = revs[Len(revs)].content
    BY <2>1 DEF Latest, Content
  <2>4. Saved(s)'
    <3>1. /\ Len(revs) \in 1..Len(revs)
          /\ \E e \in Commands \cup {Earlier} :
               revs[Len(revs)].by \in {Inner("prompt-create", e), Inner("prompt-save", e)}
      BY <1>7, <1>8, <2>1, <2>3 DEF SolutionsInv, SolutionInv, Saved
    <3> QED BY <1>15, <1>20, <2>2, <2>3, <3>1 DEF Saved, Prompt, Inner
  <2>5. Prepared(s, c)'
    BY <1>5, <1>15, <1>17, <1>20, <1>21, <2>2, <2>3 DEF Prepared, Prompt, Version, Inner
  <2> QED BY <1>15, <1>20, <2>2, <2>4, <2>5 DEF SolutionInv, Prompt, Version, Prepared, Inner
<1>24. Committed(k, new)
  BY <1>1, <1>2, <1>4, <1>5, <1>13, <1>15, <1>18, InnerCommit DEF Writing, InnerSteps
<1> QED BY <1>1, <1>3, <1>4, <1>10, <1>14, <1>19, <1>20, <1>22, <1>23, <1>24
     DEF TablesSound, SolutionsInv

-----------------------------------------------------------------------------
(* The steps.                                                               *)

Inv ==
  /\ TypeOK /\ NoLostEdit /\ CallsInv /\ TxInv /\ RootOnce /\ InnerInv
  /\ AnswersFaithful /\ WitnessProves /\ SolutionsInv

\* Steps that leave the tables and the answers alone and at most end a call or
\* abort an execution that is not committed.
LEMMA CalmStep ==
  ASSUME Inv, UNCHANGED <<Tables, answers>>, call' \in [Callers -> CallRows \cup {Idle}],
         \A j \in Callers : call'[j] = call[j] \/ call'[j].pc = "idle",
         tx' \in [Commands -> Executions \cup {None}],
         \A c \in Commands :
           \/ tx'[c] = tx[c]
           \/ /\ tx[c] # None /\ tx[c].state # "committed" /\ tx'[c] # None
              /\ tx'[c].state # "committed" /\ tx'[c].request = tx[c].request
              /\ tx'[c].plan = tx[c].plan
  PROVE  Inv'
<1>0. /\ TypeOK /\ NoLostEdit /\ CallsInv /\ TxInv /\ RootOnce /\ InnerInv
      /\ AnswersFaithful /\ WitnessProves /\ SolutionsInv
  BY DEF Inv
<1>1. UNCHANGED <<draft, asset, solution, run, receipts>> BY DEF Tables
<1>2. TypeOK' BY <1>0, <1>1 DEF TypeOK
<1>3. NoLostEdit' BY <1>0, <1>1 DEF NoLostEdit
<1>4. ReceiptsGrow /\ AssetsGrow BY <1>1 DEF ReceiptsGrow, AssetsGrow
<1>5. ASSUME NEW j \in Callers PROVE CallInv(j)'
  <2>1. CASE call'[j].pc = "idle" BY <2>1 DEF CallInv, Steps
  <2>2. CASE call'[j] = call[j] /\ call[j].pc # "idle"
    <3>1. CallInv(j) /\ call[j].cmd \in Commands BY <1>0, <2>2, CallAt DEF CallsInv
    <3>2. call[j].pc = "root" =>
            /\ tx'[call[j].cmd] # None /\ tx'[call[j].cmd].state # "committed"
            /\ tx'[call[j].cmd].request = tx[call[j].cmd].request
      BY <3>1 DEF CallInv
    <3> QED BY <1>4, <2>2, <3>1, <3>2, CallStays
  <2> QED BY <2>1, <2>2
<1>6. TxInv'
  <2>1. \A c \in Commands : tx'[c] # None =>
          tx[c] # None /\ tx'[c].plan = tx[c].plan
    OBVIOUS
  <2> QED BY <1>0, <2>1 DEF TxInv, PreparedRow
<1>7. RootOnce' BY <1>0 DEF RootOnce
<1>8. InnerInv' BY <1>0, <1>1 DEF InnerInv, Inner
<1>9. AnswersFaithful' BY <1>0, <1>4, AnswersStay
<1>10. ASSUME NEW c \in Commands PROVE Witnessed(c)'
  <2>1. Witnessed(c) BY <1>0 DEF WitnessProves
  <2>2. CASE tx'[c] = tx[c] BY <1>1, <1>4, <2>1, <2>2, WitnessStays
  <2>3. CASE tx'[c] # tx[c] BY <1>1, <2>1, <2>3 DEF Witnessed
  <2> QED BY <2>2, <2>3
<1>11. SolutionsInv' BY <1>0, <1>1, <1>4, SolutionFrame DEF SolutionsInv
<1> QED BY <1>2, <1>3, <1>5, <1>6, <1>7, <1>8, <1>9, <1>10, <1>11 DEF Inv, CallsInv, WitnessProves

LEMMA ConflictStep ==
  ASSUME Inv, NEW k \in Callers, Conflict(k)
  PROVE  Inv'
<1>1. TypeOK BY DEF Inv
<1>2. /\ call' \in [Callers -> CallRows \cup {Idle}]
      /\ \A j \in Callers : call'[j] = call[j] \/ call'[j].pc = "idle"
  BY <1>1, EndAt DEF Conflict
<1>3. UNCHANGED <<Tables, answers>> /\ UNCHANGED tx BY DEF Conflict
<1>4. tx' \in [Commands -> Executions \cup {None}] BY <1>1, <1>3 DEF TypeOK
<1> QED BY <1>2, <1>3, <1>4, CalmStep

\* A call that moves on its own, with what it has established.
LEMMA CallerStep ==
  ASSUME Inv, UNCHANGED Tables, UNCHANGED tx, NEW k \in Callers,
         call' \in [Callers -> CallRows \cup {Idle}],
         \A j \in Callers : j # k => call'[j] = call[j],
         CallInv(k)', call'[k].pc # "root", AnswersFaithful'
  PROVE  Inv'
<1>0. /\ TypeOK /\ NoLostEdit /\ CallsInv /\ TxInv /\ RootOnce /\ InnerInv
      /\ WitnessProves /\ SolutionsInv
  BY DEF Inv
<1>1. UNCHANGED <<draft, asset, solution, run, receipts>> BY DEF Tables
<1>2. TypeOK' BY <1>0, <1>1 DEF TypeOK
<1>3. NoLostEdit' BY <1>0, <1>1 DEF NoLostEdit
<1>4. ReceiptsGrow /\ AssetsGrow BY <1>1 DEF ReceiptsGrow, AssetsGrow
<1>5. ASSUME NEW j \in Callers, j # k PROVE CallInv(j)'
  BY <1>0, <1>4, <1>5, CallStays DEF CallsInv, CallInv
<1>6. TxInv' BY <1>0 DEF TxInv, PreparedRow
<1>7. RootOnce' BY <1>0, RootStays
<1>8. InnerInv' BY <1>0, <1>1 DEF InnerInv, Inner
<1>9. WitnessProves' BY <1>0, <1>1, <1>4, WitnessStays DEF WitnessProves
<1>10. SolutionsInv' BY <1>0, <1>1, <1>4, SolutionFrame DEF SolutionsInv
<1> QED BY <1>2, <1>3, <1>5, <1>6, <1>7, <1>8, <1>9, <1>10 DEF Inv, CallsInv

\* The answer of a recorded receipt.
LEMMA ReplayStep ==
  ASSUME Inv, NEW k \in Callers, Recorded(k), Replay(k)
  PROVE  Inv'
<1>1. TypeOK /\ AnswersFaithful BY DEF Inv
<1>2. UNCHANGED Tables /\ UNCHANGED tx /\ UNCHANGED receipts BY DEF Replay, Tables
<1>3. /\ call' \in [Callers -> CallRows \cup {Idle}] /\ call'[k].pc = "idle"
      /\ \A j \in Callers : j # k => call'[j] = call[j]
  BY <1>1, EndAt DEF Replay
<1>4. CallInv(k)' BY <1>3 DEF CallInv, Steps
<1>5. PICK new : new = [key |-> Key(k), request |-> call[k].req, value |-> Prior(k).value] OBVIOUS
<1>6. new.key = Key(k) /\ new.request = call[k].req /\ new.value = receipts[Key(k)].value
  BY <1>1, <1>5, PriorAt DEF Recorded
<1>7. answers' = answers \cup {new} BY <1>5 DEF Replay
<1>8. AnswersFaithful' BY <1>1, <1>2, <1>6, <1>7 DEF AnswersFaithful, Recorded
<1> QED BY <1>2, <1>3, <1>4, <1>8, CallerStep

LEMMA MoveStep ==
  ASSUME Inv, NEW k \in Callers, call[k].pc # "idle", NEW pc \in Steps \ {"root", "reserve"}, Move(k, pc),
         pc \notin {"write", "reread"} => call[k].mode = "dispatch" /\ call[k].req.op = "prepare",
         pc = "lookup again" => Recorded(k), pc # "lookup"
  PROVE  Inv'
<1>1. TypeOK /\ AnswersFaithful BY DEF Inv
<1>2. UNCHANGED Tables /\ UNCHANGED tx /\ UNCHANGED receipts /\ UNCHANGED answers
  BY DEF Move, Tables
<1>3. /\ call' \in [Callers -> CallRows \cup {Idle}] /\ call'[k].pc = pc
      /\ call'[k].cmd = call[k].cmd /\ call'[k].req = call[k].req /\ call'[k].mode = call[k].mode
      /\ \A j \in Callers : j # k => call'[j] = call[j]
  BY <1>1, ToAt DEF Move
<1>4. Key(k)' = Key(k) BY <1>3 DEF Key, Table
<1>5. Recorded(k) => Recorded(k)' BY <1>2, <1>3, <1>4 DEF Recorded
<1>6. CallInv(k)' BY <1>3, <1>5 DEF CallInv
<1>7. AnswersFaithful' BY <1>1, <1>2 DEF AnswersFaithful
<1> QED BY <1>2, <1>3, <1>6, <1>7, CallerStep

\* An execution that is committed has the receipt of its request.
LEMMA RecoveredStep ==
  ASSUME Inv, NEW k \in Callers, call[k].pc # "idle", call[k].req.op = "prepare",
         Execution(k) # None, Recovered(k)
  PROVE  Inv'
<1>1. CASE Conflict(k) BY <1>1, ConflictStep
<1>2. CASE Replay(k) /\ ~Conflict(k)
  <2>1. TypeOK /\ WitnessProves BY DEF Inv
  <2>2. call[k].cmd \in Commands /\ call[k].req \in Requests BY <2>1, CallAt
  <2>3. Key(k) = <<"solution", call[k].cmd>> BY <2>2, TableAt DEF Key
  <2>4. Execution(k).state = "committed" /\ Execution(k).request = call[k].req
    BY <1>2 DEF Recovered
  <2>5. Recorded(k) BY <2>1, <2>2, <2>3, <2>4 DEF WitnessProves, Witnessed, Execution, Recorded
  <2> QED BY <1>2, <2>5, ReplayStep
<1> QED BY <1>1, <1>2 DEF Recovered

\* A commit of a direct call, which no execution witnesses.
LEMMA DirectCommit ==
  ASSUME Inv, NEW k \in Callers, Writing(k), TablesSound, NEW value, Committed(k, value),
         UNCHANGED tx, call[k].mode = "direct"
  PROVE  Inv'
<1>0. /\ TypeOK /\ CallsInv /\ TxInv /\ RootOnce /\ InnerInv /\ AnswersFaithful /\ WitnessProves
      /\ call[k].pc # "idle"
  BY DEF Inv, Writing
<1>1. ReceiptsGrow /\ UNCHANGED answers /\ Key(k) \notin DOMAIN receipts
      /\ \A key \in DOMAIN receipts' : receipts'[key] \in ReceiptRows
  BY DEF Committed
<1>2. /\ call' \in [Callers -> CallRows \cup {Idle}] /\ call'[k].pc = "idle"
      /\ \A j \in Callers : j # k => call'[j] = call[j]
  BY <1>0, EndAt DEF Committed
<1>3. TypeOK' BY <1>0, <1>1, <1>2 DEF TypeOK, TablesSound
<1>4. CallInv(k)' BY <1>2 DEF CallInv, Steps
<1>5. ASSUME NEW j \in Callers, j # k PROVE CallInv(j)'
  BY <1>0, <1>1, <1>2, <1>5, CallStays DEF CallsInv, CallInv
<1>6. TxInv' BY <1>0 DEF TxInv, PreparedRow
<1>7. RootOnce' BY <1>0, <1>2, RootStays
<1>8. InnerInv' BY <1>0, InnerStep
<1>9. AnswersFaithful' BY <1>0, <1>1, AnswersStay
<1>10. ASSUME NEW c \in Commands PROVE Witnessed(c)'
  <2>0. Witnessed(c) BY <1>0 DEF WitnessProves
  <2>1. CASE <<"solution", c>> # Key(k)
    <3>1. <<"solution", c>> \in DOMAIN receipts' => <<"solution", c>> \in DOMAIN receipts
      BY <1>0, <2>1, CommitAt
    <3> QED BY <1>1, <2>0, <3>1, WitnessStays
  <2>2. CASE <<"solution", c>> = Key(k)
    <3>1. receipts'[<<"solution", c>>].via = "direct"
      <4>1. receipts'[Key(k)] = [request |-> call[k].req, value |-> value, via |-> call[k].mode]
        BY DEF Committed
      <4> QED BY <2>2, <4>1
    <3>2. ~(tx[c] # None /\ tx[c].state = "committed") BY <1>1, <2>0, <2>2 DEF Witnessed
    <3> QED BY <3>1, <3>2 DEF Witnessed
  <2> QED BY <2>1, <2>2
<1> QED BY <1>3, <1>4, <1>5, <1>6, <1>7, <1>8, <1>9, <1>10
     DEF Inv, CallsInv, WitnessProves, TablesSound

LEMMA WriteStep ==
  ASSUME Inv, NEW k \in Callers, Write(k)
  PROVE  Inv'
<1>0. TypeOK /\ NoLostEdit /\ SolutionsInv /\ InnerInv BY DEF Inv
<1>1. call[k].pc = "write" /\ call[k].mode = "direct" BY DEF Write, At
<1>2. CASE Conflict(k) BY <1>2, ConflictStep
<1>3. CASE Move(k, "reread") BY <1>1, <1>3, MoveStep DEF Steps
<1>4. CASE Prior(k) # None /\ SameRequest(k) /\ Replay(k)
  <2>1. Recorded(k) BY <1>0, <1>4, PriorAt DEF SameRequest, Recorded
  <2> QED BY <1>4, <2>1, ReplayStep
<1>5. CASE /\ Prior(k) = None /\ Admitted(call[k].req) /\ ~Duplicate(call[k].req)
           /\ \/ WriteDraft(k) \/ WriteRevision(k) \/ WriteFreeze(k) \/ WriteProfile(k) \/ WriteSuite(k)
              \/ WriteSolution(k) \/ WriteSave(k) \/ (WritePreparation(k) /\ UNCHANGED tx)
  <2>1. Writing(k) BY <1>1, <1>5 DEF Writing
  <2>2. TablesSound /\ \E value : Committed(k, value)
    BY <1>0, <1>5, <2>1, DraftWrites, RevisionWrites, FreezeWrites, RegistrationWrites,
       SolutionWrites, SaveWrites, PreparationWrites
  <2>3. UNCHANGED tx
    BY <1>5 DEF WriteDraft, WriteRevision, WriteFreeze, WriteProfile, WriteSuite, WriteSolution,
                WriteSave
  <2> QED BY <1>1, <2>1, <2>2, <2>3, DirectCommit
<1> QED BY <1>2, <1>3, <1>4, <1>5 DEF Write

LEMMA RereadStep ==
  ASSUME Inv, NEW k \in Callers, Reread(k)
  PROVE  Inv'
<1>1. CASE Conflict(k) BY <1>1, ConflictStep
<1>2. CASE Prior(k) # None /\ SameRequest(k) /\ Replay(k)
  <2>1. Recorded(k) BY <1>2, PriorAt DEF Inv, SameRequest, Recorded
  <2> QED BY <1>2, <2>1, ReplayStep
<1> QED BY <1>1, <1>2 DEF Reread

LEMMA StartedAt ==
  ASSUME TypeOK, NEW k \in Callers, NEW c \in Commands, NEW req \in Requests,
         NEW mode \in {"direct", "dispatch"}, NEW pc \in Steps,
         call' = [call EXCEPT ![k] = Started(c, req, mode, pc)]
  PROVE  /\ call' \in [Callers -> CallRows \cup {Idle}]
         /\ call'[k].pc = pc /\ call'[k].cmd = c /\ call'[k].req = req /\ call'[k].mode = mode
         /\ call'[k].saved = Receipt(c, req)
         /\ \A j \in Callers : j # k => call'[j] = call[j]
<1>1. Receipt(c, req) \in ReceiptRows \cup {None} BY DEF Receipt, TypeOK
<1>2. PICK row : row = Started(c, req, mode, pc) OBVIOUS
<1>3. /\ row.pc = pc /\ row.cmd = c /\ row.req = req /\ row.mode = mode
      /\ row.saved = Receipt(c, req) /\ row \in CallRows
  BY <1>1, <1>2 DEF Started, CallRows
<1>4. call \in [Callers -> CallRows \cup {Idle}] /\ call' = [call EXCEPT ![k] = row]
  BY <1>2 DEF TypeOK
<1>5. /\ call' \in [Callers -> CallRows \cup {Idle}] /\ call'[k] = row
      /\ \A j \in Callers : j # k => call'[j] = call[j]
  BY <1>3, <1>4
<1> QED BY <1>3, <1>5

LEMMA SubmitStep ==
  ASSUME Inv, NEW k \in Callers, Submit(k)
  PROVE  Inv'
<1>0. TypeOK /\ AnswersFaithful /\ CallsInv BY DEF Inv
<1>1. UNCHANGED Tables /\ UNCHANGED tx /\ UNCHANGED receipts /\ call[k].pc = "idle"
  BY DEF Submit, Tables, At
<1>2. ASSUME NEW c \in Commands, NEW req \in Requests, UNCHANGED answers,
             call' = [call EXCEPT ![k] = Started(c, req, "direct", "write")]
      PROVE  Inv'
  <2>1. /\ call' \in [Callers -> CallRows \cup {Idle}] /\ call'[k].pc = "write"
        /\ \A j \in Callers : j # k => call'[j] = call[j]
    BY <1>0, <1>2, StartedAt DEF Steps
  <2>2. CallInv(k)' BY <2>1 DEF CallInv
  <2>3. AnswersFaithful' BY <1>0, <1>1, <1>2 DEF AnswersFaithful
  <2> QED BY <1>1, <2>1, <2>2, <2>3, CallerStep
<1>3. ASSUME NEW c \in Commands, NEW req \in Requests, Receipt(c, req) # None,
             Receipt(c, req).request = req, UNCHANGED call,
             answers' = answers \cup
               {[key |-> <<Table(req), c>>, request |-> req, value |-> Receipt(c, req).value]}
      PROVE  Inv'
  <2>1. PICK key : key = <<Table(req), c>> OBVIOUS
  <2>2. key \in DOMAIN receipts /\ Receipt(c, req) = receipts[key] BY <1>3, <2>1 DEF Receipt
  <2>3. PICK new : new = [key |-> key, request |-> req, value |-> Receipt(c, req).value] OBVIOUS
  <2>4. new.key = key /\ new.request = req /\ new.value = receipts[key].value BY <2>2, <2>3
  <2>5. answers' = answers \cup {new} BY <1>3, <2>1, <2>3
  <2>6. AnswersFaithful' BY <1>0, <1>1, <1>3, <2>2, <2>4, <2>5 DEF AnswersFaithful
  <2>7. call' \in [Callers -> CallRows \cup {Idle}] /\ call'[k].pc = "idle"
    BY <1>0, <1>1, <1>3 DEF TypeOK
  <2>8. CallInv(k)' BY <2>7 DEF CallInv, Steps
  <2> QED BY <1>1, <1>3, <2>6, <2>7, <2>8, CallerStep
<1> QED BY <1>2, <1>3 DEF Submit

LEMMA SubmitDispatchStep ==
  ASSUME Inv, NEW k \in Callers, SubmitDispatch(k)
  PROVE  Inv'
<1>0. TypeOK /\ AnswersFaithful BY DEF Inv
<1>1. /\ UNCHANGED Tables /\ UNCHANGED tx /\ UNCHANGED receipts /\ UNCHANGED answers
  BY DEF SubmitDispatch, Tables
<1>2. PICK c \in Commands, req \in Requests :
        /\ req.op = "prepare" /\ (Receipt(c, req) # None => Receipt(c, req).request = req)
        /\ call' = [call EXCEPT ![k] = Started(c, req, "dispatch", "lookup")]
  BY PrepareAt DEF SubmitDispatch
<1>3. c \in Commands /\ req \in Requests /\ req.op = "prepare" BY <1>2
<1>b. call' = [call EXCEPT ![k] = Started(c, req, "dispatch", "lookup")] BY <1>2
<1>4. /\ call' \in [Callers -> CallRows \cup {Idle}] /\ call'[k].pc = "lookup"
      /\ call'[k].cmd = c /\ call'[k].req = req /\ call'[k].mode = "dispatch"
      /\ call'[k].saved = Receipt(c, req)
      /\ \A j \in Callers : j # k => call'[j] = call[j]
  <2>1. Receipt(c, req) \in ReceiptRows \cup {None} BY <1>0 DEF Receipt, TypeOK
  <2>2. PICK row : row = Started(c, req, "dispatch", "lookup") OBVIOUS
  <2>3. /\ row.pc = "lookup" /\ row.cmd = c /\ row.req = req /\ row.mode = "dispatch"
        /\ row.saved = Receipt(c, req) /\ row \in CallRows
    BY <1>3, <2>1, <2>2 DEF Started, CallRows, Steps
  <2>4. call' = [call EXCEPT ![k] = row] BY <1>b, <2>2
  <2> QED BY <1>0, <2>3, <2>4 DEF TypeOK
<1>5. PICK key : key = <<Table(req), c>> OBVIOUS
<1>6. Receipt(c, req) # None => key \in DOMAIN receipts /\ receipts[key].request = req
  BY <1>2, <1>5 DEF Receipt
<1>7. Key(k)' = key BY <1>4, <1>5 DEF Key, Table
<1>8. call'[k].saved # None => Recorded(k)' BY <1>1, <1>4, <1>6, <1>7 DEF Recorded
<1>9. CallInv(k)' BY <1>3, <1>4, <1>8 DEF CallInv
<1>10. AnswersFaithful' BY <1>0, <1>1 DEF AnswersFaithful
<1> QED BY <1>1, <1>4, <1>9, <1>10, CallerStep

LEMMA LookupStep ==
  ASSUME Inv, NEW k \in Callers, DispatchLookup(k) \/ DispatchLookupAgain(k)
  PROVE  Inv'
<1>1. CallInv(k) /\ call[k].pc \in {"lookup", "lookup again"}
  BY DEF Inv, CallsInv, DispatchLookup, DispatchLookupAgain, At
<1>2. call[k].mode = "dispatch" /\ call[k].req.op = "prepare" BY <1>1 DEF CallInv, Steps
<1>3. CASE Execution(k) # None
  BY <1>1, <1>2, <1>3, RecoveredStep DEF DispatchLookup, DispatchLookupAgain
<1>4. CASE Execution(k) = None /\ DispatchLookup(k)
  <2>1. CASE call[k].saved = None
    <3>1. Move(k, "plan") BY <1>4, <2>1 DEF DispatchLookup
    <3> QED BY <1>1, <1>2, <3>1, MoveStep DEF Steps
  <2>2. CASE call[k].saved # None
    <3>1. Move(k, "lookup again") /\ call[k].pc = "lookup" BY <1>4, <2>2 DEF DispatchLookup, At
    <3>2. Recorded(k) BY <1>1, <2>2, <3>1 DEF CallInv
    <3> QED BY <1>1, <1>2, <3>1, <3>2, MoveStep DEF Steps
  <2> QED BY <2>1, <2>2
<1>5. CASE Execution(k) = None /\ DispatchLookupAgain(k)
  <2>1. Replay(k) /\ call[k].pc = "lookup again" BY <1>5 DEF DispatchLookupAgain, At
  <2> QED BY <1>1, <2>1, ReplayStep DEF CallInv
<1> QED BY <1>3, <1>4, <1>5

LEMMA PlanStep ==
  ASSUME Inv, NEW k \in Callers, DispatchPlan(k)
  PROVE  Inv'
<1>0. TypeOK /\ AnswersFaithful /\ CallInv(k) /\ call[k].pc = "plan"
  BY DEF Inv, CallsInv, DispatchPlan, At
<1>1. call[k].mode = "dispatch" /\ call[k].req.op = "prepare" BY <1>0 DEF CallInv, Steps
<1>2. CASE Conflict(k) BY <1>2, ConflictStep
<1>3. CASE Prior(k) # None /\ SameRequest(k) /\ Move(k, "lookup again")
  <2>1. Recorded(k) BY <1>0, <1>3, PriorAt DEF SameRequest, Recorded
  <2> QED BY <1>0, <1>1, <1>3, <2>1, MoveStep DEF Steps
<1>4. CASE /\ Preparable(call[k].req.solution, call[k].req.expected)
           /\ call' = [call EXCEPT ![k].pc = "reserve",
                                   ![k].plan = Candidate(call[k].req.solution, call[k].cmd)]
           /\ UNCHANGED <<Tables, tx, answers, calls>>
  <2>1. /\ call[k] \in CallRows /\ call[k].cmd \in Commands /\ call[k].req.solution \in Solutions
    BY <1>0, <1>1, CallAt, RequestAt
  <2>2. PICK s \in Solutions : s = call[k].req.solution BY <2>1
  <2>3. PICK c \in Commands : c = call[k].cmd BY <2>1
  <2>4. PICK source \in SolutionRows : source = solution[s]
    BY <1>0, <1>4, <2>2 DEF Preparable, Workable, TypeOK
  <2>5. draft[Prompt(s)] \in DraftRows BY <1>0, PromptAt DEF TypeOK
  <2>6. PICK plan : plan = Candidate(s, c) OBVIOUS
  <2>7. plan = [source |-> source, draft |-> draft[Prompt(s)], target |-> PreparedRow(source, c)]
    BY <2>4, <2>6 DEF Candidate
  <2>8. plan.target = PreparedRow(source, c) /\ plan.source = source BY <2>7
  <2>9. plan \in Plans BY <2>5, <2>7, PreparedAt DEF Plans
  <2>10. plan # None /\ plan.target = PreparedRow(plan.source, c)
    BY <2>8, <2>9, GovernanceAssumption
  <2>11. PICK new : new = [call[k] EXCEPT !.pc = "reserve", !.plan = plan] OBVIOUS
  <2>12. /\ new.pc = "reserve" /\ new.cmd = c /\ new.req = call[k].req /\ new.mode = call[k].mode
         /\ new.plan = plan /\ new \in CallRows
    BY <2>1, <2>3, <2>9, <2>11 DEF CallRows, Steps
  <2>13. call \in [Callers -> CallRows \cup {Idle}] /\ call' = [call EXCEPT ![k] = new]
    BY <1>0, <1>4, <2>2, <2>3, <2>6, <2>11 DEF TypeOK
  <2>14. /\ call' \in [Callers -> CallRows \cup {Idle}] /\ call'[k] = new
         /\ \A j \in Callers : j # k => call'[j] = call[j]
    BY <2>12, <2>13
  <2>15. CallInv(k)' BY <1>1, <2>10, <2>12, <2>14 DEF CallInv, PreparedRow
  <2>16. AnswersFaithful' BY <1>0, <1>4 DEF AnswersFaithful, Tables
  <2> QED BY <1>4, <2>12, <2>14, <2>15, <2>16, CallerStep
<1> QED BY <1>2, <1>3, <1>4 DEF DispatchPlan

\* The reservation: the execution was free, so no root has it.
LEMMA ReserveStep ==
  ASSUME Inv, NEW k \in Callers, DispatchReserve(k)
  PROVE  Inv'
<1>0. /\ TypeOK /\ NoLostEdit /\ CallsInv /\ TxInv /\ RootOnce /\ InnerInv
      /\ AnswersFaithful /\ WitnessProves /\ SolutionsInv /\ call[k].pc = "reserve"
  BY DEF Inv, DispatchReserve, At
<1>1. CallInv(k) /\ call[k].mode = "dispatch" /\ call[k].req.op = "prepare"
  BY <1>0 DEF CallsInv, CallInv, Steps
<1>2. CASE Execution(k) # None BY <1>0, <1>1, <1>2, RecoveredStep DEF DispatchReserve
<1>3. CASE Execution(k) = None
  <2>1. PICK c \in Commands : c = call[k].cmd BY <1>0, CallAt
  <2>2. PICK req \in Requests : req = call[k].req BY <1>0, CallAt
  <2>3. PICK plan \in Plans : plan = call[k].plan BY <1>0, <1>1, CallAt DEF CallInv
  <2>4. plan.target = PreparedRow(plan.source, c) BY <1>0, <1>1, <2>1, <2>3 DEF CallInv
  <2>5. PICK row : row = [state |-> "reserved", request |-> req, plan |-> plan] OBVIOUS
  <2>6. row \in Executions /\ row.state = "reserved" /\ row.request = req /\ row.plan = plan
    BY <2>5 DEF Executions
  <2>7. tx[c] = None BY <1>3, <2>1 DEF Execution
  <2>8. /\ tx' = [tx EXCEPT ![c] = row] /\ To(k, "root") /\ UNCHANGED Tables /\ UNCHANGED answers
    BY <1>3, <2>1, <2>2, <2>3, <2>5 DEF DispatchReserve
  <2>9. /\ tx' \in [Commands -> Executions \cup {None}] /\ tx'[c] = row
        /\ \A b \in Commands : b # c => tx'[b] = tx[b]
    BY <1>0, <2>6, <2>8 DEF TypeOK
  <2>10. /\ call' \in [Callers -> CallRows \cup {Idle}] /\ call'[k].pc = "root"
         /\ call'[k].cmd = c /\ call'[k].req = req /\ call'[k].mode = call[k].mode
         /\ \A j \in Callers : j # k => call'[j] = call[j]
    BY <1>0, <2>1, <2>2, <2>8, ToAt DEF Steps
  <2>11. UNCHANGED <<draft, asset, solution, run, receipts>> BY <2>8 DEF Tables
  <2>12. ReceiptsGrow /\ AssetsGrow BY <2>11 DEF ReceiptsGrow, AssetsGrow
  <2>13. TypeOK' BY <1>0, <2>9, <2>10, <2>11 DEF TypeOK
  <2>14. NoLostEdit' BY <1>0, <2>11 DEF NoLostEdit
  <2>15. row # None BY <2>6, GovernanceAssumption
  <2>16. CallInv(k)' BY <1>1, <2>2, <2>6, <2>9, <2>10, <2>15 DEF CallInv
  <2>17. ASSUME NEW j \in Callers, call[j].pc = "root" PROVE call[j].cmd # c /\ call[j].cmd \in Commands
    BY <1>0, <2>7, <2>17, CallAt DEF CallsInv, CallInv
  <2>18. ASSUME NEW j \in Callers, j # k PROVE CallInv(j)'
    <3>1. CallInv(j) BY <1>0 DEF CallsInv
    <3>2. call[j].pc = "root" =>
            /\ tx'[call[j].cmd] # None /\ tx'[call[j].cmd].state # "committed"
            /\ tx'[call[j].cmd].request = tx[call[j].cmd].request
      BY <2>9, <2>17, <3>1 DEF CallInv
    <3> QED BY <2>10, <2>12, <2>18, <3>1, <3>2, CallStays
  <2>19. TxInv'
    <3>1. \A b \in Commands : tx'[b] # None => tx'[b].plan.target = PreparedRow(tx'[b].plan.source, b)
      BY <1>0, <2>4, <2>6, <2>9 DEF TxInv
    <3> QED BY <3>1 DEF TxInv, PreparedRow
  <2>20. RootOnce' BY <1>0, <2>10, <2>17 DEF RootOnce
  <2>21. InnerInv' BY <1>0, <2>11 DEF InnerInv, Inner
  <2>22. AnswersFaithful' BY <1>0, <2>8, <2>12, AnswersStay
  <2>23. ASSUME NEW b \in Commands PROVE Witnessed(b)'
    <3>1. Witnessed(b) BY <1>0 DEF WitnessProves
    <3>2. CASE b # c BY <2>9, <2>11, <2>12, <3>1, <3>2, WitnessStays
    <3>3. CASE b = c BY <2>6, <2>7, <2>9, <2>11, <3>1, <3>3 DEF Witnessed
    <3> QED BY <3>2, <3>3
  <2>24. SolutionsInv' BY <1>0, <2>11, <2>12, SolutionFrame DEF SolutionsInv
  <2> QED BY <2>13, <2>14, <2>16, <2>18, <2>19, <2>20, <2>21, <2>22, <2>23, <2>24
       DEF Inv, CallsInv, WitnessProves
<1> QED BY <1>2, <1>3

\* The root commits the preparation its plan froze together with its witness.
LEMMA RootStep ==
  ASSUME Inv, NEW k \in Callers, DispatchRoot(k)
  PROVE  Inv'
<1>0. /\ TypeOK /\ NoLostEdit /\ CallsInv /\ TxInv /\ RootOnce /\ InnerInv
      /\ AnswersFaithful /\ WitnessProves /\ SolutionsInv /\ call[k].pc = "root"
  BY DEF Inv, DispatchRoot, At
<1>1. CallInv(k) /\ call[k].mode = "dispatch" /\ call[k].req.op = "prepare"
  BY <1>0 DEF CallsInv, CallInv, Steps
<1>2. PICK c \in Commands : c = call[k].cmd BY <1>0, CallAt
<1>3. PICK req \in Requests : req = call[k].req BY <1>0, CallAt
<1>4. tx[c] # None /\ tx[c].request = req BY <1>0, <1>1, <1>2, <1>3 DEF CallInv
<1>5. PICK old \in Executions : old = tx[c] BY <1>0, <1>4 DEF TypeOK
<1>6. Writing(k)
  BY <1>0, <1>1 DEF Writing, DispatchRoot, Admitted, Duplicate
<1>7. PICK value : value = PreparedRow(solution[req.solution], c) OBVIOUS
<1>8. TablesSound /\ Committed(k, value)
  BY <1>0, <1>2, <1>3, <1>6, <1>7, PreparationWrites DEF DispatchRoot
<1>9. value = old.plan.target
  <2>1. solution[req.solution] = old.plan.source
    BY <1>2, <1>3, <1>5 DEF DispatchRoot, Unchanged, Execution
  <2>2. old.plan.target = PreparedRow(old.plan.source, c) BY <1>0, <1>4, <1>5 DEF TxInv
  <2> QED BY <1>7, <2>1, <2>2
<1>10. PICK new : new = [old EXCEPT !.state = "committed"] OBVIOUS
<1>11. /\ new \in Executions /\ new.state = "committed" /\ new.request = old.request
       /\ new.plan = old.plan
  BY <1>10 DEF Executions
<1>12. tx' = [tx EXCEPT ![c] = new] BY <1>2, <1>5, <1>10 DEF DispatchRoot
<1>13. /\ tx' \in [Commands -> Executions \cup {None}] /\ tx'[c] = new
       /\ \A b \in Commands : b # c => tx'[b] = tx[b]
  BY <1>0, <1>11, <1>12 DEF TypeOK
<1>14. ReceiptsGrow /\ UNCHANGED answers /\ Key(k) \notin DOMAIN receipts /\ Key(k) \in DOMAIN receipts'
       /\ \A key \in DOMAIN receipts' : receipts'[key] \in ReceiptRows
  BY <1>8 DEF Committed
<1>15. receipts'[Key(k)] = [request |-> req, value |-> value, via |-> "dispatch"]
  BY <1>1, <1>3, <1>8 DEF Committed
<1>16. Key(k) = <<"solution", c>> BY <1>1, <1>2, <1>3, TableAt DEF Key
<1>17. /\ call' \in [Callers -> CallRows \cup {Idle}] /\ call'[k].pc = "idle"
       /\ \A j \in Callers : j # k => call'[j] = call[j]
  BY <1>0, <1>8, EndAt DEF Committed
<1>18. TypeOK' BY <1>8, <1>13, <1>14, <1>17 DEF TypeOK, TablesSound
<1>19. CallInv(k)' BY <1>17 DEF CallInv, Steps
<1>20. ASSUME NEW j \in Callers, j # k PROVE CallInv(j)'
  <2>1. CallInv(j) BY <1>0 DEF CallsInv
  <2>2. call[j].pc = "root" => call[j].cmd # c /\ call[j].cmd \in Commands
    BY <1>0, <1>2, <1>20, CallAt DEF RootOnce
  <2>3. call[j].pc = "root" =>
          /\ tx'[call[j].cmd] # None /\ tx'[call[j].cmd].state # "committed"
          /\ tx'[call[j].cmd].request = tx[call[j].cmd].request
    BY <1>13, <2>1, <2>2 DEF CallInv
  <2> QED BY <1>14, <1>17, <1>20, <2>1, <2>3, CallStays
<1>21. TxInv'
  <2>1. \A b \in Commands : tx'[b] # None => tx[b] # None /\ tx'[b].plan = tx[b].plan
    BY <1>4, <1>5, <1>11, <1>13
  <2> QED BY <1>0, <2>1 DEF TxInv, PreparedRow
<1>22. RootOnce' BY <1>0, <1>17, RootStays
<1>23. InnerInv' BY <1>0, <1>8, InnerStep
<1>24. AnswersFaithful' BY <1>0, <1>14, AnswersStay
<1>25. ASSUME NEW b \in Commands PROVE Witnessed(b)'
  <2>1. Witnessed(b) BY <1>0 DEF WitnessProves
  <2>2. CASE b # c
    <3>1. <<"solution", b>> \in DOMAIN receipts' => <<"solution", b>> \in DOMAIN receipts
      BY <1>0, <1>8, <1>16, <2>2, CommitAt
    <3> QED BY <1>13, <1>14, <2>1, <2>2, <3>1, WitnessStays
  <2>3. CASE b = c
    <3>1. PICK key : key = <<"solution", c>> OBVIOUS
    <3>2. /\ key \in DOMAIN receipts' /\ receipts'[key].via = "dispatch"
          /\ receipts'[key].request = req /\ receipts'[key].value = value
      BY <1>14, <1>15, <1>16, <3>1
    <3>3. new # None BY <1>11, GovernanceAssumption
    <3> QED BY <1>4, <1>5, <1>9, <1>11, <1>13, <2>3, <3>1, <3>2, <3>3 DEF Witnessed
  <2> QED BY <2>2, <2>3
<1> QED BY <1>8, <1>18, <1>19, <1>20, <1>21, <1>22, <1>23, <1>24, <1>25
     DEF Inv, CallsInv, WitnessProves, TablesSound

\* Roots that end without a commit and executions that are aborted.
LEMMA AbortStep ==
  ASSUME Inv, NEW c \in Commands, tx[c] # None, tx[c].state # "committed",
         tx' = [tx EXCEPT ![c].state = "aborted"] \/ UNCHANGED tx,
         UNCHANGED <<Tables, answers>>, UNCHANGED call \/ \E k \in Callers : End(k)
  PROVE  Inv'
<1>0. TypeOK BY DEF Inv
<1>1. /\ call' \in [Callers -> CallRows \cup {Idle}]
      /\ \A j \in Callers : call'[j] = call[j] \/ call'[j].pc = "idle"
  BY <1>0, EndAt DEF TypeOK
<1>2. CASE UNCHANGED tx BY <1>0, <1>1, <1>2, CalmStep DEF TypeOK
<1>3. CASE tx' = [tx EXCEPT ![c].state = "aborted"]
  <2>1. PICK old \in Executions : old = tx[c] BY <1>0 DEF TypeOK
  <2>2. PICK new : new = [old EXCEPT !.state = "aborted"] OBVIOUS
  <2>3. /\ new \in Executions /\ new.state = "aborted" /\ new.request = old.request
        /\ new.plan = old.plan
    BY <2>2 DEF Executions
  <2>4. new # None BY <2>3, GovernanceAssumption
  <2>5. tx' = [tx EXCEPT ![c] = new] BY <1>3, <2>1, <2>2
  <2>6. /\ tx' \in [Commands -> Executions \cup {None}] /\ tx'[c] = new
        /\ \A b \in Commands : b # c => tx'[b] = tx[b]
    BY <1>0, <2>3, <2>5 DEF TypeOK
  <2>7. ASSUME NEW b \in Commands
        PROVE  \/ tx'[b] = tx[b]
               \/ /\ tx[b] # None /\ tx[b].state # "committed" /\ tx'[b] # None
                  /\ tx'[b].state # "committed" /\ tx'[b].request = tx[b].request
                  /\ tx'[b].plan = tx[b].plan
    BY <2>1, <2>3, <2>4, <2>6
  <2> QED BY <1>1, <2>6, <2>7, CalmStep
<1> QED BY <1>2, <1>3

-----------------------------------------------------------------------------
(* The theorems.                                                            *)

LEMMA InitInv == Init => Inv
<1> SUFFICES ASSUME Init PROVE Inv OBVIOUS
<1>1. /\ DOMAIN receipts = {} /\ answers = {} /\ \A k \in Callers : call[k] = Idle
      /\ \A c \in Commands : tx[c] = None
  BY DEF Init
<1>2. ASSUME NEW d \in DraftIds PROVE draft[d] \in DraftRows /\ Follows(draft[d])
  <2>1. CASE d \in Existing
    <3>1. draft[d] = Created(<<"own", d>>, Earlier) BY <2>1 DEF Init
    <3>2. <<"own", d>> \in TargetIds /\ Earlier \in Authors BY AuthorAt DEF TargetIds, Targets
    <3> QED BY <3>1, <3>2, CreatedRow
  <2>2. CASE d \notin Existing /\ d \in {Prompt(s) : s \in Existing}
    <3>1. PICK s \in Existing : d = Prompt(s) BY <2>2
    <3>2. d[2] = s BY <3>1 DEF Prompt
    <3>3. draft[d] = Created(Version(s), Inner("prompt-create", Earlier)) BY <2>2, <3>2 DEF Init
    <3>4. s \in Solutions
      <4>1. d \notin Drafts \cup Judges BY <3>1, GovernanceAssumption
      <4>2. PICK u \in Solutions : d = Prompt(u) BY <4>1 DEF DraftIds
      <4>3. d[2] = u BY <4>2 DEF Prompt
      <4> QED BY <3>2, <4>3
    <3>5. Version(s) \in TargetIds /\ Inner("prompt-create", Earlier) \in Authors
      BY <3>4, AuthorAt DEF TargetIds, Targets
    <3> QED BY <3>3, <3>5, CreatedRow
  <2>3. CASE d \notin Existing /\ d \notin {Prompt(s) : s \in Existing}
    <3>1. draft[d] = Absent BY <2>3 DEF Init
    <3>2. Absent.revs = <<>> /\ Absent \in DraftRows BY DEF Absent, DraftRows
    <3> QED BY <3>1, <3>2 DEF Follows
  <2> QED BY <2>1, <2>2, <2>3
<1>3. TypeOK
  <2>1. draft \in [DraftIds -> DraftRows] BY <1>2 DEF Init
  <2>2. NewSolution \in SolutionRows BY DEF NewSolution, SolutionRows
  <2>3. solution \in [Solutions -> SolutionRows \cup {None}] BY <2>2 DEF Init
  <2>4. run \in [Solutions -> RunRows \cup {None}] BY DEF Init
  <2>5. tx \in [Commands -> Executions \cup {None}] BY DEF Init
  <2>6. call \in [Callers -> CallRows \cup {Idle}] BY DEF Init
  <2>7. DOMAIN asset = {} BY DEF Init
  <2> QED BY <1>1, <2>1, <2>3, <2>4, <2>5, <2>6, <2>7 DEF TypeOK
<1>4. NoLostEdit BY <1>2 DEF NoLostEdit, Follows
<1>5. CallsInv /\ RootOnce
  <2>1. \A k \in Callers : call[k].pc = "idle" BY <1>1 DEF Idle
  <2>2. ASSUME NEW k \in Callers PROVE CallInv(k) BY <2>1 DEF CallInv, Steps
  <2>3. RootOnce BY <2>1 DEF RootOnce
  <2> QED BY <2>2, <2>3 DEF CallsInv
<1>6. TxInv /\ InnerInv /\ AnswersFaithful BY <1>1 DEF TxInv, InnerInv, AnswersFaithful
<1>7. WitnessProves BY <1>1 DEF WitnessProves, Witnessed
<1>8. ASSUME NEW s \in Solutions PROVE SolutionInv(s)
  <2>1. Prompt(s) \in DraftIds /\ Prompt(s) \notin Existing BY PromptAt, GovernanceAssumption
  <2>2. CASE s \in Existing
    <3>1. Prompt(s)[2] = s /\ Prompt(s) \in {Prompt(u) : u \in Existing} BY <2>2 DEF Prompt
    <3>2. draft[Prompt(s)] = Created(Version(s), Inner("prompt-create", Earlier))
      BY <2>1, <3>1 DEF Init
    <3>3. Version(s) \in TargetIds /\ Inner("prompt-create", Earlier) \in Authors
      BY <2>1, AuthorAt DEF TargetIds, Targets
    <3>4. /\ draft[Prompt(s)].target = Version(s) /\ Len(draft[Prompt(s)].revs) = 1
          /\ draft[Prompt(s)].revs[1].by = Inner("prompt-create", Earlier)
      BY <3>2, <3>3, CreatedRow
    <3>5. solution[s].draftRev = 1 /\ solution[s].prepared = None BY <2>2 DEF Init, NewSolution
    <3>6. Saved(s) BY <3>4, <3>5 DEF Saved
    <3> QED BY <3>4, <3>5, <3>6 DEF SolutionInv
  <2>3. CASE s \notin Existing
    <3>1. Prompt(s) \notin {Prompt(u) : u \in Existing} BY <2>3 DEF Prompt
    <3>2. draft[Prompt(s)] = Absent BY <2>1, <3>1 DEF Init
    <3>3. ~Exists(Prompt(s)) BY <3>2 DEF Exists, Absent
    <3>4. solution[s] = None BY <2>3 DEF Init
    <3> QED BY <3>3, <3>4 DEF SolutionInv
  <2> QED BY <2>2, <2>3
<1> QED BY <1>3, <1>4, <1>5, <1>6, <1>7, <1>8 DEF Inv, SolutionsInv

LEMMA NextInv == Inv /\ [Next]_vars => Inv'
<1> SUFFICES ASSUME Inv, [Next]_vars PROVE Inv' OBVIOUS
<1>0. TypeOK /\ CallsInv BY DEF Inv
<1>1. ASSUME NEW k \in Callers, DispatchRollback(k) \/ Lost(k) PROVE Inv'
  <2>1. call[k].pc = "root" BY <1>1 DEF DispatchRollback, Lost, At
  <2>2. PICK c \in Commands : c = call[k].cmd BY <1>0, <2>1, CallAt
  <2>3. tx[c] # None /\ tx[c].state # "committed" BY <1>0, <2>1, <2>2 DEF CallsInv, CallInv
  <2>4. /\ tx' = [tx EXCEPT ![c].state = "aborted"] \/ UNCHANGED tx
        /\ UNCHANGED <<Tables, answers>> /\ End(k)
    BY <1>1, <2>2 DEF DispatchRollback, Lost
  <2> QED BY <2>3, <2>4, AbortStep
<1>2. ASSUME NEW c \in Commands, AbortExecution(c) PROVE Inv'
  BY <1>2, AbortStep DEF AbortExecution
<1>3. CASE UNCHANGED vars
  <2>1. UNCHANGED <<Tables, answers>> /\ UNCHANGED <<call, tx>> BY <1>3 DEF vars, Tables
  <2>2. call' \in [Callers -> CallRows \cup {Idle}] /\ tx' \in [Commands -> Executions \cup {None}]
    BY <1>0, <2>1 DEF TypeOK
  <2> QED BY <2>1, <2>2, CalmStep
<1> QED BY <1>1, <1>2, <1>3, SubmitStep, SubmitDispatchStep, WriteStep, RereadStep, LookupStep,
           PlanStep, ReserveStep, RootStep DEF Next

LEMMA InvHolds == Spec => []Inv
  BY InitInv, NextInv, PTL DEF Spec

\* No edit is overwritten unseen, whoever edits a draft: the author of every
\* revision had seen the one before it (the expected revision compared behind
\* the draft's row lock).
THEOREM EditsAreSeen == Spec => []NoLostEdit
<1>1. Inv => NoLostEdit BY DEF Inv
<1> QED BY <1>1, InvHolds, PTL

\* Every answer is the committed receipt of exactly the request that was sent,
\* and an execution is committed exactly when the preparation its plan froze is
\* the command's receipt.
THEOREM CommandsAreFaithful == Spec => []CommandsFaithful
<1>1. Inv => CommandsFaithful BY DEF Inv, CommandsFaithful
<1> QED BY <1>1, InvHolds, PTL

\* A prepared solution stays what its operator last saved: nobody edits its
\* draft or replaces its assets afterwards, and its Run evaluates them.
THEOREM PreparedStays == Spec => []PreparedAsSaved
<1>1. Inv => PreparedAsSaved
  <2> SUFFICES ASSUME Inv, NEW s \in Solutions, solution[s] # None, solution[s].prepared # None
               PROVE  LET c == solution[s].prepared  d == draft[Prompt(s)]
                          last == d.revs[Len(d.revs)] IN
                      /\ d.frozen = Inner("freeze", c)
                      /\ Len(d.revs) = solution[s].draftRev
                      /\ \E e \in Commands \cup {Earlier} :
                           last.by \in {Inner("prompt-create", e), Inner("prompt-save", e)}
                      /\ asset[<<"prompt", Version(s)>>] = [by |-> Inner("freeze", c), content |-> last.content]
                      /\ asset[<<"profile", Version(s)>>].by = Inner("profile", c)
                      /\ asset[<<"suite", Version(s)>>] = [by |-> Inner("suite", c), content |-> solution[s].judge]
                      /\ run[s] = [content |-> last.content, judge |-> solution[s].judge]
    BY DEF PreparedAsSaved
  <2>1. Saved(s) /\ Prepared(s, solution[s].prepared) BY DEF Inv, SolutionsInv, SolutionInv
  <2> QED BY <2>1 DEF Saved, Prepared
<1> QED BY <1>1, InvHolds, PTL

=============================================================================
