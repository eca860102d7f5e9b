------------------------- MODULE SchemaMaintenance -------------------------
(***************************************************************************)
(* The host program of the first cut-over (deploy/serverA/                 *)
(* schema_maintenance.py) around the conversion commands: prepare,         *)
(* rehearse, switch and rollback, one at a time under the deployment       *)
(* locks.  It stops and starts the releases, keeps host.json, and decides  *)
(* after an error between recovering the old release and keeping every     *)
(* writer stopped.  It may die at any point; the container of the command  *)
(* it was waiting for then goes on by itself.                              *)
(*                                                                         *)
(* Identities of releases, images, files and servers never change here, so *)
(* the checks that they have not changed are left out; the conversions the *)
(* rehearsal performs on its clone are their outcome only.                 *)
(***************************************************************************)
EXTENDS SchemaConversion

VARIABLES
  maint,     \* host.json: [phase, rehearsed, started, aborted, backup]
  files,     \* backup files on the host, which are never overwritten
  current,   \* state.json: the current release
  process    \* the host process: [cmd, pc, release, stop, j, wait]

cutover == <<conversion, maint, files, current, process>>

NoHost == [cmd |-> "none", pc |-> "idle", release |-> "old", stop |-> "stop",
           j |-> "forward", wait |-> FALSE]

CutoverInit ==
  /\ ConversionInit
  /\ maint = [phase |-> "none", rehearsed |-> FALSE, started |-> FALSE, aborted |-> FALSE,
              backup |-> NoManifest]
  /\ files = {} /\ current = "old" /\ process = NoHost

\* remaining(stop, WINDOW_SECONDS): releases may still be stopped and started.
WindowOpen(k) == windows[k] \in {0, 1}

\* actual: the live schema is validated and its head read; the fenced form
\* also refuses while any other connection is open.
Validated == schema[Source].layout \in {"old", "new"}
ValidatedFenced_Flaw == Validated /\ ~Active
ValidatedFenced == Validated /\ Fenced /\ ~Active

HostAt(pc) == process.pc = pc /\ ~process.wait
HostGoTo(pc) == process' = [process EXCEPT !.pc = pc]
HostBegin(cmd, pc) == process.pc = "idle" /\ process' = [NoHost EXCEPT !.cmd = cmd, !.pc = pc]

\* A command of the conversion, in its container; the host waits for it.
Call(cmd, pc) ==
  /\ Invoke(cmd, process.j)
  /\ process' = [process EXCEPT !.pc = pc, !.wait = TRUE]
  /\ UNCHANGED <<maint, files, current>>

\* An error: inside the try block of _switch it is handled, otherwise the
\* program ends and nothing else is done.
Handled == process.cmd = "switch"
Fail == process' = IF Handled THEN [process EXCEPT !.pc = "handler", !.wait = FALSE] ELSE NoHost

Return ==
  /\ process.wait /\ reply # "none"
  /\ IF reply = "ok" THEN process' = [process EXCEPT !.wait = FALSE] ELSE Fail
  /\ reply' = "none"
  /\ UNCHANGED <<schema, journal, windows, aged, cli, orphan, serving, acked, stops,
                 maint, files, current>>

\* A step of the host that touches neither the conversion nor the releases.
Locally == UNCHANGED conversion

-----------------------------------------------------------------------------
(* prepare and rehearse.                                                   *)

\* preflight: the clone must be absent, unless it is the one this maintenance
\* restored and rehearsed on.
OwnedClone == maint.rehearsed
Permitted == "clone" \notin files \/ OwnedClone

PrepareHost ==
  /\ HostBegin("prepare", "plan")
  /\ maint.phase \in {"none", "preparing", "prepared"} /\ windows["stop"] = Unset /\ Permitted
  /\ maint' = [maint EXCEPT !.phase = "preparing"]
  /\ UNCHANGED <<files, current>> /\ Locally

\* plan: the journal once, then its preparation until it is complete.
PlanJournal ==
  /\ HostAt("plan")
  /\ \/ journal[process.j].phase = "none" /\ Call("plan", "plan")
     \/ journal[process.j].phase \in {"planned", "prepare_pending"} /\ Call("prepare", "plan")
     \/ /\ journal[process.j].phase \notin {"none", "planned", "prepare_pending"}
        /\ IF process.cmd = "prepare"
             THEN process' = NoHost /\ maint' = [maint EXCEPT !.phase = "prepared"]
             ELSE HostGoTo("copy") /\ UNCHANGED maint
        /\ UNCHANGED <<files, current>> /\ Locally

\* rehearse: backup, restore and both conversions on a clone.  Neither the
\* backup nor the clone is ever overwritten, so a rehearsal that failed after
\* them cannot be repeated.
RehearseBackup ==
  /\ maint.phase = "prepared" /\ "rehearsal" \notin files
  /\ HostBegin("rehearse", "restore")
  /\ files' = files \cup {"rehearsal"}
  /\ UNCHANGED <<maint, current>> /\ Locally

RehearseRestore ==
  /\ HostAt("restore") /\ "clone" \notin files
  /\ files' = files \cup {"clone"}
  /\ HostGoTo("convert")
  /\ UNCHANGED <<maint, current>> /\ Locally

\* The conversions of the clone take the same lock as those of the live schema.
RehearseConvert ==
  /\ HostAt("convert") /\ ~Locked
  /\ maint' = [maint EXCEPT !.rehearsed = TRUE] /\ process' = NoHost
  /\ UNCHANGED <<files, current>> /\ Locally

-----------------------------------------------------------------------------
(* switch.                                                                 *)

\* The stop clock starts once and is never reset.
Clock(k) == windows' = IF windows[k] = Unset THEN [windows EXCEPT ![k] = 0] ELSE windows

SwitchHost_Flaw ==
  /\ HostBegin("switch", "stop")
  /\ maint.rehearsed /\ ~maint.started /\ Permitted /\ Validated
  /\ Clock("stop")
  /\ UNCHANGED <<schema, journal, aged, cli, reply, orphan, serving, acked, stops,
                 maint, files, current>>

SwitchHost ==
  /\ HostBegin("switch", "stop")
  /\ maint.rehearsed /\ ~maint.started /\ ~maint.aborted /\ Permitted /\ Validated
  /\ Clock("stop")
  /\ UNCHANGED <<schema, journal, aged, cli, reply, orphan, serving, acked, stops,
                 maint, files, current>>

\* stop_release: the containers are drained and seen to be gone.
StopReleases ==
  /\ HostAt("stop") /\ WindowOpen(process.stop)
  /\ serving' = "none"
  /\ HostGoTo(IF process.cmd = "switch" THEN "backup" ELSE IF maint.started THEN "budget" ELSE "recover")
  /\ UNCHANGED <<schema, journal, windows, aged, cli, reply, orphan, acked, stops,
                 maint, files, current>>

\* The stopped backup is taken once; its file is written before host.json says so.
TakeBackup ==
  /\ HostAt("backup") /\ maint.backup = NoManifest
  /\ InTime("stop") /\ "stopped" \notin files
  /\ files' = files \cup {"stopped"}
  /\ process' = [process EXCEPT !.pc = "backed"]
  /\ UNCHANGED <<maint, current>> /\ Locally

SaveBackup ==
  /\ \/ HostAt("backed") /\ maint' = [maint EXCEPT !.backup = Manifest(Source)]
     \/ HostAt("backup") /\ maint.backup # NoManifest /\ UNCHANGED maint
  /\ HostGoTo("budget")
  /\ UNCHANGED <<files, current>> /\ Locally

\* operation_budget: a new exchange needs the first part of the window, an
\* exchange that was pending only a probe.
Budget ==
  /\ HostAt("budget")
  /\ journal[process.j].phase \in {"switch_pending", "switched"} \/ InTime(process.stop)
  /\ HostGoTo(IF process.cmd = "switch" THEN "copy" ELSE "plan")
  /\ UNCHANGED <<maint, files, current>> /\ Locally

\* exchange: copy, verify and switch, as far as the journal has not got.
ExchangeCopy ==
  /\ HostAt("copy")
  /\ IF journal[process.j].phase \in {"prepared", "copy_pending", "copied"}
       THEN Call("copy", "verify")
       ELSE HostGoTo("verify") /\ UNCHANGED <<maint, files, current>> /\ Locally

ExchangeVerify ==
  /\ HostAt("verify")
  /\ IF journal[process.j].phase = "copied"
       THEN Call("verify", "exchange")
       ELSE HostGoTo("exchange") /\ UNCHANGED <<maint, files, current>> /\ Locally

ExchangeSwitch ==
  /\ HostAt("exchange") /\ journal[process.j].phase \in {"verified", "switch_pending", "switched"}
  /\ Call("switch", "compare")

\* The accepted manifest is the stopped backup's; then the new image probes.
Accepted ==
  /\ journal[process.j].phase = "switched" /\ WindowOpen(process.stop)
  /\ process.cmd = "switch" => journal["forward"].manifest = maint.backup
\* require_runtime_schema: the image accepts the live layout as its own.
RuntimeSchema(release) == schema[Source].layout = release
ProbedFor(release) == RuntimeSchema(release)

Compare ==
  LET release == IF process.cmd = "switch" THEN "new" ELSE "old" IN
  /\ HostAt("compare") /\ Accepted /\ ProbedFor(release)
  /\ process' = [process EXCEPT !.pc = "start", !.release = release]
  /\ UNCHANGED <<maint, files, current>> /\ Locally

-----------------------------------------------------------------------------
(* start_verified: host.json says that a release may have written before   *)
(* its containers are started.                                             *)

StartSave ==
  /\ HostAt("start") /\ WindowOpen(process.stop)
  /\ maint' = [maint EXCEPT !.started = @ \/ process.release = "new", !.phase = "starting"]
  /\ HostGoTo("up")
  /\ UNCHANGED <<files, current>> /\ Locally

StartUp ==
  /\ HostAt("up") /\ WindowOpen(process.stop)
  /\ serving' = process.release
  /\ HostGoTo("ready")
  /\ UNCHANGED <<schema, journal, windows, aged, cli, reply, orphan, acked, stops,
                 maint, files, current>>

\* record_ready and the final phase; recover_old leaves state.json alone.
RecordCutover ==
  /\ HostAt("ready") /\ WindowOpen(process.stop)
  /\ current' = IF process.cmd = "recover" THEN current ELSE process.release
  /\ maint' = [maint EXCEPT !.phase = IF process.release = "new" THEN "switched"
                                      ELSE IF process.cmd = "recover" THEN "recovered_old"
                                      ELSE "rolled_back"]
  /\ process' = NoHost
  /\ UNCHANGED files /\ Locally

\* Readiness failed or came too late: stop_failed_release.
StartFails ==
  /\ HostAt("ready")
  /\ serving' = "none" /\ Fail
  /\ UNCHANGED <<schema, journal, windows, aged, cli, reply, orphan, acked, stops,
                 maint, files, current>>

-----------------------------------------------------------------------------
(* The handler of _switch and recover_old.                                 *)

HostHandler ==
  /\ HostAt("handler")
  /\ IF maint.started
       THEN serving' = "none" /\ process' = NoHost
       ELSE serving' = serving /\ process' = [process EXCEPT !.cmd = "recover", !.pc = "recover"]
  /\ UNCHANGED <<schema, journal, windows, aged, cli, reply, orphan, acked, stops,
                 maint, files, current>>

\* The live head decides between resuming at once and a fast rollback first.
RecoverOld ==
  /\ HostAt("recover") /\ WindowOpen("stop") /\ ValidatedFenced
  /\ process' = [process EXCEPT !.cmd = "recover", !.pc = IF schema[Source].layout = "new" THEN "fast"
                                                    ELSE "resume"]
  /\ UNCHANGED <<maint, files, current>> /\ Locally

FastRollback ==
  /\ HostAt("fast") /\ InTime("stop")
  /\ Call("rollback", "confirm")

ConfirmRollback ==
  /\ HostAt("confirm") /\ journal["forward"].phase = "rolled_back"
  /\ ValidatedFenced /\ schema[Source].layout = "old"
  /\ HostGoTo("resume")
  /\ UNCHANGED <<maint, files, current>> /\ Locally

\* The old image probes, and this cut-over is over for good.
ResumeOld ==
  /\ HostAt("resume") /\ WindowOpen("stop") /\ ProbedFor("old")
  /\ maint' = [maint EXCEPT !.aborted = TRUE]
  /\ process' = [process EXCEPT !.pc = "start", !.release = "old"]
  /\ UNCHANGED <<files, current>> /\ Locally

-----------------------------------------------------------------------------
(* rollback, cleanup by an operator and the errors of the host.            *)

\* A release that may have written is rolled back with its data by a reverse
\* conversion under a clock of its own.
RollbackHost ==
  /\ windows["stop"] # Unset /\ Permitted /\ Validated /\ process.pc = "idle"
  /\ IF maint.started
       THEN /\ process' = [NoHost EXCEPT !.cmd = "rollback", !.pc = "stop",
                                      !.stop = "rollback_stop", !.j = "reverse"]
            /\ Clock("rollback_stop")
       ELSE /\ process' = [NoHost EXCEPT !.cmd = "rollback", !.pc = "stop"]
            /\ windows' = windows
  /\ UNCHANGED <<schema, journal, aged, cli, reply, orphan, serving, acked, stops,
                 maint, files, current>>

\* The retained archives are dropped by the command alone, run by an operator.
OperatorCleanup(j) ==
  /\ ~Locked /\ journal[j].retained # {}
  /\ cli' = [cmd |-> "cleanup", j |-> j, pc |-> "cleanup", mem |-> journal[j], attached |-> FALSE]
  /\ UNCHANGED <<schema, journal, windows, aged, reply, orphan, serving, acked, stops,
                 maint, files, current, process>>

\* A condition of the code does not hold: an exception.
Proceeds ==
  CASE process.pc \in {"stop", "start", "up"} -> WindowOpen(process.stop)
    [] process.pc = "backup" -> maint.backup # NoManifest \/ (InTime("stop") /\ "stopped" \notin files)
    [] process.pc = "budget" ->
         journal[process.j].phase \in {"switch_pending", "switched"} \/ InTime(process.stop)
    [] process.pc = "restore" -> "clone" \notin files
    [] process.pc = "convert" -> ~Locked
    [] process.pc = "exchange" -> journal[process.j].phase \in {"verified", "switch_pending", "switched"}
    [] process.pc = "compare" -> Accepted /\ ProbedFor(IF process.cmd = "switch" THEN "new" ELSE "old")
    [] process.pc = "recover" -> WindowOpen("stop") /\ ValidatedFenced
    [] process.pc = "fast" -> InTime("stop")
    [] process.pc = "confirm" ->
         journal["forward"].phase = "rolled_back" /\ ValidatedFenced /\ schema[Source].layout = "old"
    [] process.pc = "resume" -> WindowOpen("stop") /\ ProbedFor("old")
    [] OTHER -> TRUE

HostRaise ==
  /\ process.pc \notin {"idle", "ready"} /\ ~process.wait /\ ~Proceeds
  /\ Fail
  /\ UNCHANGED <<maint, files, current>> /\ Locally

\* A container or a command of the host fails although nothing forbids it.
HostError ==
  /\ process.pc \notin {"idle", "ready", "handler"} /\ ~process.wait /\ stops < MaxStops
  /\ stops' = stops + 1 /\ Fail
  /\ UNCHANGED <<schema, journal, windows, aged, cli, reply, orphan, serving, acked,
                 maint, files, current>>

\* The host dies; the command it started goes on in its container.
HostStops ==
  /\ process.pc # "idle" /\ stops < MaxStops
  /\ stops' = stops + 1
  /\ process' = NoHost /\ reply' = "none" /\ cli' = [cli EXCEPT !.attached = FALSE]
  /\ UNCHANGED <<schema, journal, windows, aged, orphan, serving, acked, maint, files, current>>

HostNext ==
  \/ PrepareHost \/ PlanJournal \/ RehearseBackup \/ RehearseRestore \/ RehearseConvert
  \/ SwitchHost \/ StopReleases \/ TakeBackup \/ SaveBackup \/ Budget
  \/ ExchangeCopy \/ ExchangeVerify \/ ExchangeSwitch \/ Compare
  \/ StartSave \/ StartUp \/ RecordCutover \/ StartFails
  \/ HostHandler \/ RecoverOld \/ FastRollback \/ ConfirmRollback \/ ResumeOld
  \/ RollbackHost \/ Return \/ HostRaise \/ HostError \/ HostStops
  \/ \E j \in Journals : OperatorCleanup(j)

CutoverNext ==
  \/ HostNext
  \/ ConversionNext /\ UNCHANGED <<maint, files, current, process>>

CutoverSpec == CutoverInit /\ [][CutoverNext]_cutover

\* Once a release may have written on the new layout, or the old one resumed,
\* the forward exchange never happens again: going on from such a state with
\* the journal of the cut-over would bring back the copy it was made from.
ForwardOnce ==
  [][schema[Source].layout = "old" /\ schema'[Source].layout = "new"
       => ~maint.started /\ ~maint.aborted]_cutover
=============================================================================
