-------------------------- MODULE SchemaConversion --------------------------
(***************************************************************************)
(* The resumable conversion of the live MySQL schema between the legacy    *)
(* layout ("old") and the module layout ("new"), as the command line       *)
(* program qs_ai.maintenance.schema_refactor performs it: plan, prepare,   *)
(* copy, verify, switch, fast rollback and cleanup, each a process of its  *)
(* own that may stop between any two statements and is run again.          *)
(*                                                                         *)
(* A schema is its layout, the number of writes its rows hold and its      *)
(* AUTO_INCREMENT counter; the writes are numbered, so rows = n means the  *)
(* first n.  DDL commits by itself: a schema may be left half built, rows  *)
(* are committed by the first ALTER that follows them, and a RENAME whose  *)
(* client is gone may still happen in the server.  The journal is a file   *)
(* replaced atomically, so it lags or leads the database by one statement. *)
(*                                                                         *)
(* The reverse mode of the rollback command, which no host program asks    *)
(* for, is left out; what the columns hold and how a digest is computed is *)
(* data.  An operator named X_Flaw is X with a plausible bug; the          *)
(* specification uses none of them.                                        *)
(***************************************************************************)
EXTENDS Integers

CONSTANTS
  MaxWrites,   \* bounds the writes of the running release
  MaxStops     \* bounds the processes that stop in the middle

ASSUME ConversionAssumption == MaxWrites \in Nat \ {0} /\ MaxStops \in Nat

Schemas == {"ai", "refactor", "backup", "rollback", "failed", "restored_failed"}
Journals == {"forward", "reverse"}
Layouts == {"absent", "empty", "partial", "old", "new"}
Clocks == {"stop", "rollback_stop"}

\* The columns of a journal that plan fixes.
Source == "ai"
Target == [forward |-> "refactor", reverse |-> "rollback"]
Archive == [forward |-> "backup", reverse |-> "failed"]
SourceHead == [forward |-> "old", reverse |-> "new"]
TargetHead == [forward |-> "new", reverse |-> "old"]
StopOf == [forward |-> "stop", reverse |-> "rollback_stop"]

\* A clock is unset, or 0 while copies and exchanges are allowed (25 minutes),
\* 1 while a release may still be started (30 minutes), and then 2.
Unset == -1

VARIABLES
  schema,   \* the schemas of the server: [layout, rows, counter]
  journal,  \* the journal files
  windows,  \* how much of each stop window is over
  aged,     \* archives whose 30 days of retention are over
  cli,      \* the running command: [cmd, j, pc, mem, attached]
  reply,    \* what the last attached command returned to the host
  orphan,   \* the journal whose RENAME is in flight without a client, or "none"
  serving,  \* the release whose containers run, "none", "old" or "new"
  acked,    \* writes acknowledged by any release
  stops

conversion == <<schema, journal, windows, aged, cli, reply, orphan, serving, acked, stops>>

\* old_projection: the rows of either layout read as the legacy tables.
LegacyRows(s) == schema[s].rows

\* _forward_projection and old_projection, written into the other layout: they
\* are meant to be lossless, but that is for verify to find out, so the rows a
\* copy may arrive with are all of them or fewer.
Projection(s) == 0 .. LegacyRows(s)

Absent == [layout |-> "absent", rows |-> 0, counter |-> 0]
Empty == [layout |-> "empty", rows |-> 0, counter |-> 0]
Fresh(head) == [layout |-> head, rows |-> 0, counter |-> 0]

\* manifest: the projection of either layout onto the legacy tables, so equal
\* data have equal manifests whatever their layout.
Manifest(s) == <<LegacyRows(s), schema[s].counter>>
NoManifest == <<0, 0>>

\* A retained archive of a journal: what it held when it was put away.
Retained(s, manifest) ==
  [schema |-> s, layout |-> schema[s].layout, manifest |-> manifest, empty |-> FALSE, drop |-> "no"]

NoJournal == [phase |-> "none", manifest |-> NoManifest, before |-> NoManifest, retained |-> {}]
NoCommand == [cmd |-> "none", j |-> "forward", pc |-> "idle", mem |-> NoJournal, attached |-> FALSE]

ConversionInit ==
  /\ schema = [s \in Schemas |-> IF s = Source THEN [layout |-> "old", rows |-> 1, counter |-> 1]
                                 ELSE Absent]
  /\ journal = [j \in Journals |-> NoJournal]
  /\ windows = [k \in Clocks |-> Unset]
  /\ aged = {}
  /\ cli = NoCommand /\ reply = "none" /\ orphan = "none"
  /\ serving = "old" /\ acked = 1 /\ stops = 0

-----------------------------------------------------------------------------
(* Who else is connected, and how much time is left.                       *)

Active == cli.pc # "idle"

\* GET_LOCK('qs-ai-schema-cutover', 0) lives as long as the session: a RENAME
\* without a client still holds it.
Locked == Active \/ orphan # "none"

\* fenced: no other connection in the schemas, of a release or of an orphan.
Fenced_Flaw == serving = "none"
Fenced == serving = "none" /\ orphan = "none"

\* deadline: a copy or an exchange needs the first part of the window.
InTime(k) == windows[k] = 0

\* operation_deadline: which commands may still be started; an overdue pending
\* exchange only gets a probe.
MayStart(cmd, j) ==
  CASE cmd \in {"copy", "verify"} -> InTime(StopOf[j])
    [] cmd = "switch" -> windows[StopOf[j]] \in {0, 1} \/ journal[j].phase = "switch_pending"
    [] cmd = "rollback" -> InTime("stop") \/ journal[j].phase = "rollback_pending"
    [] OTHER -> TRUE

-----------------------------------------------------------------------------
(* Steps of a command: it advances with its memory, saves its journal, and *)
(* ends with a commit and a last save, or with an error.                   *)

Memory(changes) == [f \in DOMAIN cli.mem |-> IF f \in DOMAIN changes THEN changes[f] ELSE cli.mem[f]]
Advance(pc, changes) == cli' = [cli EXCEPT !.pc = pc, !.mem = Memory(changes)]
Save(changes) == journal' = [journal EXCEPT ![cli.j] = Memory(changes)]
Answer(r) == reply' = IF cli.attached THEN r ELSE reply

\* execute_command: commit, then the save of the advanced phase.
Finish(changes) ==
  /\ Save(changes)
  /\ cli' = NoCommand /\ Answer("ok")

outside == <<windows, aged, serving, acked, stops>>

\* The host runs a command; a held lock, an overdue deadline or a server that
\* cannot be reached is an error before anything is changed.  The program reads
\* its journal and computes its deadline just before it takes the lock: a stale
\* phase is refused by the phase test of the command or repeats what is done.
Invoke(cmd, j) ==
  /\ IF ~Locked /\ MayStart(cmd, j)
       THEN /\ cli' = [cmd |-> cmd, j |-> j, pc |-> cmd, mem |-> journal[j], attached |-> TRUE]
            /\ reply' = "none"
       ELSE /\ cli' = cli /\ reply' = "failed"
  /\ UNCHANGED <<schema, journal, windows, aged, orphan, serving, acked, stops>>

-----------------------------------------------------------------------------
(* plan and prepare.                                                       *)

PlanAdmitted ==
  LET j == cli.j IN
  /\ schema[Source].layout = SourceHead[j]
  /\ j = "reverse" => journal["forward"].phase \in {"switched", "cleaned"}
  /\ schema[Target[j]].layout = "absent" /\ schema[Archive[j]].layout = "absent"

Plan ==
  /\ cli.pc = "plan" /\ PlanAdmitted
  /\ Finish([phase |-> "planned"])
  /\ UNCHANGED <<schema, orphan, outside>>

PrepareAdmitted ==
  LET j == cli.j IN
  /\ cli.mem.phase \in {"planned", "prepare_pending"}
  /\ schema[Source].layout = SourceHead[j]
  /\ cli.mem.phase = "planned" =>
       schema[Target[j]].layout = "absent" /\ schema[Archive[j]].layout = "absent"

\* The ownership of the destinations is saved before either is created.
PrepareOwn ==
  /\ cli.pc = "prepare" /\ PrepareAdmitted
  /\ Save([phase |-> "prepare_pending"])
  /\ Advance("ddl", [phase |-> "prepare_pending"])
  /\ UNCHANGED <<schema, reply, orphan, outside>>

\* _resume_isolated: a half built schema is dropped and built anew; a complete
\* one must be pristine.
Resumable(s, head) ==
  \/ schema[s].layout \in {"absent", "partial"}
  \/ schema[s] = Fresh(head)

ResumeIsolated ==
  /\ cli.pc = "ddl" /\ Resumable(Target[cli.j], TargetHead[cli.j])
  /\ schema' = [schema EXCEPT ![Target[cli.j]] = [Empty EXCEPT !.layout = "partial"]]
  /\ Advance("upgrade", << >>)
  /\ UNCHANGED <<journal, reply, orphan, outside>>

\* upgrade_isolated: the DDL of Alembic, committed statement by statement.
UpgradeIsolated ==
  /\ cli.pc = "upgrade"
  /\ schema' = [schema EXCEPT ![Target[cli.j]] = Fresh(TargetHead[cli.j])]
  /\ Advance("archive", << >>)
  /\ UNCHANGED <<journal, reply, orphan, outside>>

EmptyArchive(s) == schema[s].layout \in {"absent", "empty"}

PrepareArchive ==
  /\ cli.pc = "archive" /\ EmptyArchive(Archive[cli.j])
  /\ schema' = [schema EXCEPT ![Archive[cli.j]] = Empty]
  /\ Advance("prepared", << >>)
  /\ UNCHANGED <<journal, reply, orphan, outside>>

Prepared ==
  /\ cli.pc = "prepared"
  /\ Finish([phase |-> "prepared"])
  /\ UNCHANGED <<schema, orphan, outside>>

-----------------------------------------------------------------------------
(* copy and verify.                                                        *)

Pristine(s) == schema[s].rows = 0
RowsEqual(s, t) == LegacyRows(s) = LegacyRows(t)
LayoutsFit(j) == schema[Source].layout = SourceHead[j] /\ schema[Target[j]].layout = TargetHead[j]

CopyAdmitted ==
  LET j == cli.j IN
  /\ cli.mem.phase \in {"prepared", "copy_pending", "copied"}
  /\ InTime(StopOf[j]) /\ Fenced /\ LayoutsFit(j)
  /\ cli.mem.phase # "prepared" => Manifest(Source) = cli.mem.manifest

CopyBegin ==
  /\ cli.pc = "copy" /\ CopyAdmitted
  /\ LET pending == [phase |-> "copy_pending", manifest |-> Manifest(Source)]
         next == IF Pristine(Target[cli.j]) THEN "rows" ELSE "realign"
     IN IF cli.mem.phase = "prepared"
          THEN Save(pending) /\ Advance(next, pending)
          ELSE journal' = journal /\ Advance(next, << >>)
  /\ UNCHANGED <<schema, reply, orphan, outside>>

\* copy_data: every row in one transaction, committed by the first ALTER.
CopyRows ==
  /\ cli.pc = "rows" /\ InTime(StopOf[cli.j])
  /\ \E n \in Projection(Source) : schema' = [schema EXCEPT ![Target[cli.j]].rows = n]
  /\ Advance("align", << >>)
  /\ UNCHANGED <<journal, reply, orphan, outside>>

\* A target that already holds rows, of an interrupted copy, is compared before
\* its counters are aligned and once more after; a fresh copy only by verify.
AlignAdmitted ==
  /\ InTime(StopOf[cli.j])
  /\ cli.pc = "realign" => RowsEqual(Source, Target[cli.j])

AlignCounters ==
  /\ cli.pc \in {"align", "realign"} /\ AlignAdmitted
  /\ schema' = [schema EXCEPT ![Target[cli.j]].counter = schema[Source].counter]
  /\ Advance(IF cli.pc = "align" THEN "copied" ELSE "recopied", << >>)
  /\ UNCHANGED <<journal, reply, orphan, outside>>

CopyVerified ==
  /\ InTime(StopOf[cli.j])
  /\ cli.pc = "recopied" => Manifest(Source) = Manifest(Target[cli.j])

Copied ==
  /\ cli.pc \in {"copied", "recopied"} /\ CopyVerified
  /\ Finish([phase |-> "copied"])
  /\ UNCHANGED <<schema, orphan, outside>>

\* verified: source and target agree, counters included, and nothing has
\* changed since the copy.
VerifyAdmitted ==
  /\ cli.mem.phase \in {"copied", "verified", "switch_pending"}
  /\ InTime(StopOf[cli.j]) /\ Fenced /\ LayoutsFit(cli.j)
  /\ Manifest(Source) = Manifest(Target[cli.j])
  /\ Manifest(Source) = cli.mem.manifest

Verify ==
  /\ cli.pc = "verify" /\ VerifyAdmitted
  /\ Finish([phase |-> "verified"])
  /\ UNCHANGED <<schema, orphan, outside>>

-----------------------------------------------------------------------------
(* switch: one RENAME moves the live tables into the archive and the       *)
(* target's into the live schema.                                          *)

Renamed(target, archive) ==
  [schema EXCEPT ![archive] = schema[Source], ![Source] = schema[target], ![target] = Empty]

\* _exchanged: the live head decides, and an outcome that is neither is refused.
HeadExchanged(j) == schema[Source].layout = TargetHead[j]
Recognized(j) ==
  IF HeadExchanged(j) THEN schema[Archive[j]].layout = SourceHead[j] /\ schema[Target[j]].layout = "empty"
                  ELSE schema[Source].layout = SourceHead[j]

SwitchAdmitted ==
  /\ cli.mem.phase \in {"verified", "switch_pending", "switched"}
  /\ Fenced /\ Recognized(cli.j)
  /\ cli.mem.phase = "switched" => HeadExchanged(cli.j)
  /\ ~HeadExchanged(cli.j) => VerifyAdmitted

SwitchBegin ==
  /\ cli.pc = "switch" /\ SwitchAdmitted
  /\ \/ /\ cli.mem.phase = "switched"
        /\ Finish(<< >>)
     \/ /\ cli.mem.phase # "switched" /\ HeadExchanged(cli.j)
        /\ Advance("post", << >>)
        /\ UNCHANGED <<journal, reply>>
     \/ /\ ~HeadExchanged(cli.j)
        /\ Save([phase |-> "switch_pending"])
        /\ Advance("rename", [phase |-> "switch_pending"])
        /\ UNCHANGED reply
  /\ UNCHANGED <<schema, orphan, outside>>

RenameAdmitted == InTime(StopOf[cli.j]) /\ schema[Archive[cli.j]].layout = "empty"

SwitchRename ==
  /\ cli.pc = "rename" /\ RenameAdmitted
  /\ schema' = Renamed(Target[cli.j], Archive[cli.j])
  /\ Advance("post", << >>)
  /\ UNCHANGED <<journal, reply, orphan, outside>>

\* The checks after the exchange, on both sides of it.
PostAdmitted ==
  LET j == cli.j IN
  /\ HeadExchanged(j) /\ Recognized(j)
  /\ Manifest(Source) = cli.mem.manifest /\ Manifest(Archive[j]) = cli.mem.manifest

Switched ==
  /\ cli.pc = "post" /\ PostAdmitted
  /\ Finish([phase |-> "switched",
             retained |-> cli.mem.retained \cup {Retained(Archive[cli.j], cli.mem.manifest)}])
  /\ UNCHANGED <<schema, orphan, outside>>

-----------------------------------------------------------------------------
(* rollback --runtime-never-started: the archive becomes live again.       *)

RolledBack(j) == schema[Source].layout = SourceHead[j]

RollbackAdmitted ==
  LET j == cli.j IN
  /\ cli.mem.phase \in {"switched", "switch_pending", "rollback_pending", "rolled_back"}
  /\ Fenced
  /\ CASE cli.mem.phase = "rolled_back" -> RolledBack(j)
       [] cli.mem.phase = "rollback_pending" -> TRUE
       [] OTHER ->
            /\ InTime("stop") /\ HeadExchanged(j) /\ Recognized(j)
            /\ Manifest(Source) = cli.mem.manifest /\ Manifest(Archive[j]) = Manifest(Source)
            /\ schema["restored_failed"].layout = "absent"

RollbackStart ==
  /\ cli.pc = "rollback" /\ RollbackAdmitted
  /\ LET kept == {r \in cli.mem.retained : r.schema = Archive[cli.j]}
         pending == [phase |-> "rollback_pending", before |-> Manifest(Source),
                     retained |-> IF kept # {} THEN cli.mem.retained
                                  ELSE {Retained(Archive[cli.j], cli.mem.manifest)}]
     IN \/ /\ cli.mem.phase = "rolled_back"
           /\ Finish(<< >>)
        \/ /\ cli.mem.phase = "rollback_pending"
           /\ Advance("restore", << >>)
           /\ UNCHANGED <<journal, reply>>
        \/ /\ cli.mem.phase \in {"switched", "switch_pending"}
           /\ Save(pending) /\ Advance("restore", pending)
           /\ UNCHANGED reply
  /\ UNCHANGED <<schema, orphan, outside>>

\* _rollback_complete: an exchange that happened is only confirmed.
RestorationAdmitted ==
  LET j == cli.j IN
  IF RolledBack(j)
    THEN /\ schema["restored_failed"].layout = TargetHead[j] /\ schema[Archive[j]].layout = "empty"
         /\ Manifest(Source) = cli.mem.before /\ Manifest("restored_failed") = cli.mem.before
    ELSE /\ InTime("stop") /\ Fenced /\ Manifest(Source) = cli.mem.before
         /\ EmptyArchive("restored_failed")
         /\ Manifest(Archive[j]) = cli.mem.before

RollbackPrepare ==
  /\ cli.pc = "restore" /\ RestorationAdmitted
  /\ IF RolledBack(cli.j)
       THEN schema' = schema /\ Advance("restored", << >>)
       ELSE /\ schema' = [schema EXCEPT !["restored_failed"] = Empty]
            /\ Advance("unrename", << >>)
  /\ UNCHANGED <<journal, reply, orphan, outside>>

RollbackRename ==
  /\ cli.pc = "unrename" /\ InTime("stop")
  /\ schema' = Renamed(Archive[cli.j], "restored_failed")
  /\ Advance("restored", << >>)
  /\ UNCHANGED <<journal, reply, orphan, outside>>

\* The archive that was restored is empty now and recorded so; the failed
\* layout is retained in its place.
RollbackRecords ==
  {IF r.schema = Archive[cli.j] THEN [r EXCEPT !.empty = TRUE] ELSE r : r \in cli.mem.retained}
    \cup {Retained("restored_failed", cli.mem.before)}

RollbackDone ==
  /\ cli.pc = "restored"
  /\ Finish([phase |-> "rolled_back", retained |-> RollbackRecords])
  /\ UNCHANGED <<schema, orphan, outside>>

-----------------------------------------------------------------------------
(* cleanup, 30 days later: every archive is checked before one is dropped. *)

RecordIntact(r) ==
  /\ r.schema \in aged
  /\ IF schema[r.schema].layout = "absent" THEN r.drop # "no"
     ELSE IF r.empty THEN schema[r.schema].layout = "empty"
     ELSE schema[r.schema].layout = r.layout /\ Manifest(r.schema) = r.manifest

CleanupAdmitted ==
  /\ cli.mem.phase \in {"switched", "rolled_back", "cleanup_pending", "cleaned"}
  /\ cli.mem.retained # {}
  /\ \A r \in cli.mem.retained : RecordIntact(r)

CleanupBegin ==
  /\ cli.pc = "cleanup" /\ CleanupAdmitted
  /\ Save([phase |-> "cleanup_pending"])
  /\ Advance("drop", [phase |-> "cleanup_pending"])
  /\ UNCHANGED <<schema, reply, orphan, outside>>

Marked(r, mark) == (cli.mem.retained \ {r}) \cup {[r EXCEPT !.drop = mark]}

\* The intention to drop is durable before the DROP.
CleanupMark(r) ==
  /\ cli.pc = "drop" /\ r.drop = "no"
  /\ \A other \in cli.mem.retained : other.drop # "pending"
  /\ LET marked == [retained |-> Marked(r, "pending")]
     IN Save(marked) /\ Advance("drop", marked)
  /\ UNCHANGED <<schema, reply, orphan, outside>>

CleanupDrop(r) ==
  /\ cli.pc = "drop" /\ r.drop = "pending"
  /\ schema' = [schema EXCEPT ![r.schema] = Absent]
  /\ LET done == [retained |-> Marked(r, "done")]
     IN \/ Save(done) /\ Advance("drop", done) /\ UNCHANGED <<reply, stops>>
        \/ /\ stops < MaxStops /\ stops' = stops + 1   \* the process stops in between
           /\ cli' = NoCommand /\ Answer("failed") /\ UNCHANGED journal
  /\ UNCHANGED <<orphan, windows, aged, serving, acked>>

Cleaned ==
  /\ cli.pc = "drop" /\ \A r \in cli.mem.retained : r.drop = "done"
  /\ Finish([phase |-> "cleaned"])
  /\ UNCHANGED <<schema, orphan, outside>>

-----------------------------------------------------------------------------
(* Errors, stopped processes and time.                                     *)

Admitted ==
  CASE cli.pc = "plan" -> PlanAdmitted
    [] cli.pc = "prepare" -> PrepareAdmitted
    [] cli.pc = "ddl" -> Resumable(Target[cli.j], TargetHead[cli.j])
    [] cli.pc = "archive" -> EmptyArchive(Archive[cli.j])
    [] cli.pc = "copy" -> CopyAdmitted
    [] cli.pc = "rows" -> InTime(StopOf[cli.j])
    [] cli.pc \in {"align", "realign"} -> AlignAdmitted
    [] cli.pc \in {"copied", "recopied"} -> CopyVerified
    [] cli.pc = "verify" -> VerifyAdmitted
    [] cli.pc = "switch" -> SwitchAdmitted
    [] cli.pc = "rename" -> RenameAdmitted
    [] cli.pc = "post" -> PostAdmitted
    [] cli.pc = "rollback" -> RollbackAdmitted
    [] cli.pc = "restore" -> RestorationAdmitted
    [] cli.pc = "unrename" -> InTime("stop")
    [] cli.pc = "cleanup" -> CleanupAdmitted
    [] OTHER -> TRUE

Refuse ==
  /\ Active /\ ~Admitted
  /\ cli' = NoCommand /\ Answer("failed")
  /\ UNCHANGED <<schema, journal, orphan, outside>>

\* The process stops, its deadline passes or its connection breaks.  A RENAME
\* already sent stays in the server: the KILL of the session may be lost.
Stop ==
  /\ Active /\ stops < MaxStops
  /\ stops' = stops + 1
  /\ orphan' \in {orphan} \cup
       (CASE cli.pc = "rename" /\ RenameAdmitted -> {"forward", "reverse"} \cap {cli.j}
          [] cli.pc = "unrename" /\ InTime("stop") -> {"unrename"}
          [] OTHER -> {})
  /\ cli' = NoCommand /\ Answer("failed")
  /\ UNCHANGED <<schema, journal, windows, aged, serving, acked>>

\* The server performs the orphaned RENAME, or its session ends first.
OrphanLands ==
  /\ orphan # "none"
  /\ schema' = IF orphan = "unrename" THEN Renamed(Archive["forward"], "restored_failed")
               ELSE Renamed(Target[orphan], Archive[orphan])
  /\ orphan' = "none"
  /\ UNCHANGED <<journal, cli, reply, outside>>

OrphanEnds ==
  /\ orphan # "none" /\ orphan' = "none"
  /\ UNCHANGED <<schema, journal, cli, reply, outside>>

WindowTick(k) ==
  /\ windows[k] \in {0, 1}
  /\ windows' = [windows EXCEPT ![k] = @ + 1]
  /\ UNCHANGED <<schema, journal, aged, cli, reply, orphan, serving, acked, stops>>

\* Thirty days pass for an archive that some journal retains.
Age(s) ==
  /\ s \notin aged /\ \E j \in Journals : \E r \in journal[j].retained : r.schema = s
  /\ \A k \in Clocks : windows[k] \in {Unset, 2}
  /\ aged' = aged \cup {s}
  /\ UNCHANGED <<schema, journal, windows, cli, reply, orphan, serving, acked, stops>>

\* A release writes; each write takes the next number.
Write ==
  /\ serving # "none" /\ schema[Source].layout = serving /\ acked < MaxWrites
  /\ acked' = acked + 1
  /\ schema' = [schema EXCEPT ![Source].rows = @ + 1, ![Source].counter = @ + 1]
  /\ UNCHANGED <<journal, windows, aged, cli, reply, orphan, serving, stops>>

ConversionNext ==
  \/ Plan
  \/ PrepareOwn \/ ResumeIsolated \/ UpgradeIsolated \/ PrepareArchive \/ Prepared
  \/ CopyBegin \/ CopyRows \/ AlignCounters \/ Copied \/ Verify
  \/ SwitchBegin \/ SwitchRename \/ Switched
  \/ RollbackStart \/ RollbackPrepare \/ RollbackRename \/ RollbackDone
  \/ CleanupBegin \/ Cleaned
  \/ \E r \in cli.mem.retained : CleanupMark(r) \/ CleanupDrop(r)
  \/ Refuse \/ Stop \/ OrphanLands \/ OrphanEnds \/ Write
  \/ \E k \in Clocks : WindowTick(k)
  \/ \E s \in Schemas : Age(s)

-----------------------------------------------------------------------------
(* Properties.                                                             *)

\* The live schema is complete and holds every acknowledged write, with the
\* counters that follow it, at every moment of a conversion, of its retries
\* and of its rollbacks: an exchange never replaces the live tables by a copy
\* a writer has outrun.
NoWriteLost ==
  /\ schema[Source].layout \in {"old", "new"}
  /\ Manifest(Source) = <<acked, acked>>

\* A release only ever runs on the layout it was built for, although an
\* exchange may still be in flight when the host decides what to start.
LayoutServed == serving # "none" => schema[Source].layout = serving

\* What a journal says it retains is there, unchanged, until its deletion is
\* recorded; cleanup therefore never meets an archive it cannot account for.
ArchivesKept ==
  \A j \in Journals : \A r \in journal[j].retained :
    (r.drop = "no" /\ journal[j].phase # "rollback_pending") =>
       IF r.empty THEN schema[r.schema].layout = "empty"
       ELSE schema[r.schema].layout = r.layout /\ Manifest(r.schema) = r.manifest

\* Neither the live data nor what a journal keeps to go back to is lost.
DataKept == NoWriteLost /\ ArchivesKept
=============================================================================
