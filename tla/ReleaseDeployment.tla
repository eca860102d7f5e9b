-------------------------- MODULE ReleaseDeployment --------------------------
(***************************************************************************)
(* Releases on the server after the cut-over (deploy/serverA/deploy.py,    *)
(* schema_followup.py, runtime_handoff.py and the image retention they     *)
(* call): staging, deploying and restoring a release, adopting a runtime   *)
(* that has no release state, and the follow-up context that makes every   *)
(* later change of the runtime a durable operation with one stop window.   *)
(*                                                                         *)
(* One command runs at a time, under both deployment locks.  It may fail   *)
(* at any container it starts and die between any two of its durable       *)
(* writes; containers survive it.  All releases share one Compose project, *)
(* so stopping any of them stops whatever runs.                            *)
(*                                                                         *)
(* The reverse conversion is its journal's phase and the live head, its    *)
(* statements being those of SchemaConversion.  Checksums, identities and  *)
(* key material do not change here.  X_Flaw is X with a plausible bug.     *)
(***************************************************************************)
EXTENDS Integers, Sequences, FiniteSets, SequencesExt

CONSTANTS
  Releases,    \* releases after the legacy one
  Next41,      \* those of them whose image migrates to a later head
  First,       \* the release of the cut-over
  Executor,    \* the release whose image runs the follow-up
  KeepLast,    \* successful images kept by retention (3)
  MaxCommands, \* bounds the commands that are run
  MaxFaults    \* bounds failed containers and dying commands

ASSUME DeploymentAssumption ==
  /\ {"old", "none"} \cap Releases = {}
  /\ Next41 \subseteq Releases /\ {First, Executor} \subseteq Releases \ Next41
  /\ KeepLast \in Nat \ {0} /\ MaxCommands \in Nat /\ MaxFaults \in Nat

Old == "old"
None == "none"
All == Releases \cup {Old}

\* The schema head an image expects, and the two families no release crosses.
HeadOf(r) == IF r = Old THEN 38 ELSE IF r \in Next41 THEN 41 ELSE 40
Family(head) == IF head <= 38 THEN "legacy" ELSE "modules"

VARIABLES
  state,     \* state.json: [current, previous]
  verified,  \* releases whose verification.json is ready
  loaded,    \* images in the Docker daemon
  kept,      \* the retention state: [successful, bootstrap]
  head,      \* the head of the live schema
  running,   \* the release whose containers run
  checkpoint,\* runtime_handoff: the state the prepared checkpoint has seen
  context,   \* the follow-up's host.json: [phase, rehearsal, bootstrap, saved],
             \* saved being the operation it copied last (0: none yet)
  pointer,   \* active-v2.json: the bound release
  intent,    \* operation-v2.json: [phase, id, kind, source, target]
  clock,     \* of the pending operation: 0 copy, 1 window, 2 over
  reverse,   \* the reverse journal of each bound release
  host,      \* the running command: [cmd, pc, source, target, before]
  commands,  \* commands run so far
  faults

vars == <<state, verified, loaded, kept, head, running, checkpoint, context, pointer, intent,
          clock, reverse, host, commands, faults>>
disk == <<verified, loaded, kept, checkpoint>>
followup == <<context, pointer, intent, clock, reverse>>

Command(cmd, pc, source, target) ==
  [cmd |-> cmd, pc |-> pc, source |-> source, target |-> target, before |-> 0]
Idle == Command(None, "idle", None, None)
NoIntent == [phase |-> None, id |-> 0, kind |-> None, source |-> None, target |-> None]
NoCheckpoint == [seen |-> None, state |-> [current |-> None, previous |-> None]]

\* The cut-over left its release running with its release state, or that is
\* a runtime started without one.
Init ==
  /\ running = First /\ loaded = {Old, First}
  /\ state \in {[current |-> First, previous |-> Old], [current |-> None, previous |-> None]}
  /\ verified = {Old, state.current} \ {None}
  /\ kept = [successful |-> << >>, bootstrap |-> {}] /\ head = 40
  /\ checkpoint = NoCheckpoint
  /\ context = [phase |-> None, rehearsal |-> "no", bootstrap |-> None, saved |-> 0]
  /\ pointer = None /\ intent = NoIntent /\ clock = 0
  /\ reverse = [r \in Releases |-> None]
  /\ host = Idle /\ commands = 0 /\ faults = 0

-----------------------------------------------------------------------------
(* Commands and their steps.                                               *)

Pending == intent.phase = "pending"
At(pc) == host.pc = pc
Run == At("idle") /\ commands < MaxCommands /\ commands' = commands + 1
GoTo(pc) == host' = [host EXCEPT !.pc = pc]

\* Inside an operation of the follow-up; everything it starts has the window.
Operating == host.cmd \in {"release", "runtime_restore", "rollback"}
InWindow == Operating => clock < 2

\* A checked archive becomes an image; the image a release is bound to is
\* compared with the daemon's before every use.
Load(r) == loaded' = loaded \cup {r}
Usable(r) == r \in loaded

\* stop_release, and verify: the containers are up before the head is probed.
Stopped == running' = None
Started(r, pc, failed) ==
  Usable(r) /\ running' = r /\ GoTo(IF HeadOf(r) = head THEN pc ELSE failed)

\* guard_current_runtime: the running image is the one state.json names.
CurrentRuns == running = state.current

\* deployment_guard: no operation but the caller's own is unfinished.
Guard == Pending => Operating
Settled == pointer # None => state.current \in {pointer} \cup
             (IF Operating THEN {intent.source, intent.target} ELSE {})

\* A successful release is never deployed again.
Overwrites(r) == r \in {state.current, state.previous} \cup verified

\* guard_schema_transition.
SameFamily(r) == Family(head) = Family(HeadOf(r))

-----------------------------------------------------------------------------
(* deploy.py: prepare, release and rollback.                               *)

\* stage_prepare: the image is loaded and its contract read.
StagePrepare(r) ==
  /\ Run /\ ~Overwrites(r)
  /\ Load(r)
  /\ UNCHANGED <<state, verified, kept, checkpoint, head, running, followup, host, faults>>

\* main: a release without a follow-up context is applied directly.
Deploy(r) ==
  /\ Run /\ CurrentRuns /\ pointer = None /\ ~Pending
  /\ host' = Command("deploy", "apply", state.current, r)
  /\ UNCHANGED <<state, disk, head, running, followup, faults>>

RestorePrevious ==
  /\ Run /\ CurrentRuns /\ pointer = None /\ ~Pending /\ state.previous # None
  /\ host' = Command("restore", "restore", state.current, state.previous)
  /\ UNCHANGED <<state, disk, head, running, followup, faults>>

\* apply: guards, image, probe; the migration keeps the service running.
ApplyAdmitted ==
  /\ Guard /\ Settled /\ ~Overwrites(host.target) /\ SameFamily(host.target)
  /\ host.target \in Next41 \/ HeadOf(host.target) = head
Apply ==
  /\ At("apply") /\ ApplyAdmitted /\ InWindow
  /\ Load(host.target)
  /\ head' = IF host.target \in Next41 THEN HeadOf(host.target) ELSE head
  /\ host' = [host EXCEPT !.pc = "stop", !.before = head]
  /\ UNCHANGED <<commands, state, verified, kept, checkpoint, running, followup, faults>>

\* restore: both images must require the exact current head.
RestoreAdmitted_Flaw == Guard /\ Settled /\ Usable(host.target)
RestoreAdmitted ==
  /\ Guard /\ Settled /\ Usable(host.target) /\ SameFamily(host.target)
  /\ head = HeadOf(host.source) /\ head = HeadOf(host.target)
Restore ==
  /\ At("restore") /\ RestoreAdmitted /\ InWindow
  /\ host' = [host EXCEPT !.pc = "stop", !.before = head]
  /\ UNCHANGED <<commands, state, disk, head, running, followup, faults>>

StopSource ==
  /\ At("stop") /\ InWindow
  /\ Stopped /\ GoTo("up")
  /\ UNCHANGED <<commands, state, disk, head, followup, faults>>

StartTarget ==
  /\ At("up") /\ InWindow /\ Started(host.target, "ready", "recover")
  /\ UNCHANGED <<commands, state, disk, head, followup, faults>>

\* verification.json, then state.json, then the binding of the context.
RecordReady ==
  /\ At("ready")
  /\ verified' = IF host.cmd \in {"deploy", "release"} THEN verified \cup {host.target} ELSE verified
  /\ GoTo("record")
  /\ UNCHANGED <<commands, state, loaded, kept, checkpoint, head, running, followup, faults>>

RecordState ==
  /\ At("record")
  /\ state' = [current |-> host.target, previous |-> host.source]
  /\ GoTo("publish")
  /\ UNCHANGED <<commands, disk, head, running, followup, faults>>

\* schema_followup_publish, which refuses an unknown head.
Publish ==
  /\ At("publish") /\ Guard
  /\ pointer' = IF pointer = None THEN None ELSE host.target
  /\ pointer # None => head \in {38, 40}
  /\ GoTo(IF Operating THEN "validate" ELSE "retain")
  /\ UNCHANGED <<commands, state, disk, head, running, context, intent, clock, reverse, faults>>

\* The handler of apply and restore: the source again, unless the head moved;
\* a first release is only taken down.
Recover ==
  /\ At("recover")
  /\ IF host.before = head /\ host.source # None
       THEN Stopped /\ GoTo("resume")
       ELSE (IF host.source = None THEN Stopped ELSE UNCHANGED running) /\ GoTo("raise")
  /\ UNCHANGED <<commands, state, disk, head, followup, faults>>

Resume ==
  /\ At("resume") /\ InWindow /\ Started(host.source, "raise", "raise")
  /\ UNCHANGED <<commands, state, disk, head, followup, faults>>

-----------------------------------------------------------------------------
(* Image retention after a success; its failure changes nothing else.      *)

ProtectedImages ==
  {state.previous} \cup (IF pointer = None THEN {} ELSE {Executor, Old})

\* The pin of the cut-over keeps a container of the legacy image.
Referenced == {running, Old}

History ==
  LET all == <<state.current>> \o SelectSeq(kept.successful, LAMBDA r : r # state.current)
  IN SubSeq(all, 1, IF Len(all) < KeepLast THEN Len(all) ELSE KeepLast)

\* The newest images of the first call, in an order of creation not known
\* here, and the protected ones count as history until there is enough of it.
Bootstraps ==
  IF Len(History) >= KeepLast THEN {{}}
  ELSE IF kept.bootstrap # {} THEN {kept.bootstrap}
  ELSE {top \cup (ProtectedImages \cap loaded) :
          top \in kSubset(IF Cardinality(loaded) < KeepLast THEN Cardinality(loaded) ELSE KeepLast,
                          loaded)}

Retain ==
  /\ At("retain") /\ running = state.current
  /\ \E set \in Bootstraps :
       /\ kept' = [successful |-> History, bootstrap |-> set]
       /\ loaded' = loaded \cap (ToSet(History) \cup set \cup Referenced \cup ProtectedImages)
  /\ host' = Idle
  /\ UNCHANGED <<commands, state, verified, checkpoint, head, running, followup, faults>>

-----------------------------------------------------------------------------
(* runtime_handoff.py: a running release without release state is adopted. *)

HandoffPrepare ==
  /\ Run /\ pointer = None /\ ~Pending
  /\ running # None /\ HeadOf(running) = head
  /\ checkpoint' = [seen |-> running, state |-> state]
  /\ UNCHANGED <<state, verified, loaded, kept, head, running, followup, host, faults>>

\* The facts of the checkpoint are observed again before and after the probes.
\* A release is its image here; the adoption names it by a new directory.
HandoffAdopt ==
  /\ Run /\ pointer = None /\ ~Pending
  /\ checkpoint.seen # None /\ checkpoint = [seen |-> running, state |-> state]
  /\ HeadOf(running) = head
  /\ verified' = verified \cup {running}
  /\ host' = Command("adopt", "adopt", None, running)
  /\ UNCHANGED <<state, loaded, kept, checkpoint, head, running, followup, faults>>

HandoffState ==
  /\ At("adopt")
  /\ state' = [current |-> host.target, previous |-> None]
  /\ host' = Idle
  /\ UNCHANGED <<commands, disk, head, running, followup, faults>>

-----------------------------------------------------------------------------
(* The follow-up context: bootstrap, rehearse, prepare, cleanup.           *)

\* bound: state.json names the binding or a release of the pending operation.
Bound ==
  /\ context.phase # None /\ pointer # None /\ Usable(Executor) /\ Usable(pointer)
  /\ state.current \in {pointer} \cup (IF Pending THEN {intent.source, intent.target} ELSE {})

BootstrapBegin ==
  /\ Run /\ ~Pending /\ context.phase = None
  /\ Usable(Executor) /\ state.current # None /\ Usable(state.current)
  /\ HeadOf(state.current) = 40 /\ head = 40
  /\ context' = [context EXCEPT !.phase = "bootstrap_pending", !.bootstrap = state.current]
  /\ host' = Command("bootstrap", "bind", None, state.current)
  /\ UNCHANGED <<state, disk, head, running, pointer, intent, clock, reverse, faults>>

\* An interrupted bootstrap goes on only while its release is still current.
BootstrapResume_Flaw ==
  /\ Run /\ ~Pending /\ context.phase = "bootstrap_pending" /\ head = 40
  /\ host' = Command("bootstrap", "bind", None, context.bootstrap)
  /\ UNCHANGED <<state, disk, head, running, followup, faults>>
BootstrapResume ==
  /\ Run /\ ~Pending /\ context.phase = "bootstrap_pending" /\ head = 40
  /\ state.current = context.bootstrap /\ {context.bootstrap, Executor} \subseteq loaded
  /\ host' = Command("bootstrap", "bind", None, context.bootstrap)
  /\ UNCHANGED <<state, disk, head, running, followup, faults>>

\* append_binding: the immutable binding, then the pointer.
AppendBinding ==
  /\ At("bind")
  /\ pointer' = host.target
  /\ GoTo("bound")
  /\ UNCHANGED <<commands, state, disk, head, running, context, intent, clock, reverse, faults>>

BootstrapReady ==
  /\ At("bound")
  /\ context' = [context EXCEPT !.phase = "ready"]
  /\ host' = Idle
  /\ UNCHANGED <<commands, state, disk, head, running, pointer, intent, clock, reverse, faults>>

\* rehearse is attempted once: an attempt that did not pass stays.
Rehearse ==
  /\ Run /\ Bound /\ ~Pending /\ head = 40 /\ context.rehearsal = "no"
  /\ \/ context' = [context EXCEPT !.rehearsal = "passed"] /\ UNCHANGED faults
     \/ /\ faults < MaxFaults /\ faults' = faults + 1
        /\ context' = [context EXCEPT !.rehearsal = "started"]
  /\ UNCHANGED <<state, disk, head, running, pointer, intent, clock, reverse, host>>

\* prepare: the reverse journal of the bound release.
PrepareReverse ==
  /\ Run /\ Bound /\ ~Pending /\ head = 40 /\ reverse[pointer] = None
  /\ reverse' = [reverse EXCEPT ![pointer] = "prepared"]
  /\ UNCHANGED <<state, disk, head, running, context, pointer, intent, clock, host, faults>>

-----------------------------------------------------------------------------
(* release and runtime restore as an operation.                            *)

\* An operation starts its work while its window is open, or, past the copy
\* budget, to find out what became of a recorded exchange.
Exchanged(r) == reverse[r] \in {"switch_pending", "switched"}
MayWork(kind, source) ==
  IF kind = "rollback" THEN clock = 0 \/ Exchanged(source) ELSE clock < 2
Entry(kind, target) ==
  IF kind = "rollback" THEN "facts"
  ELSE IF state.current = target THEN "up_again"
  ELSE IF kind = "release" THEN "apply" ELSE "restore"

\* _begin: a pending operation is taken up again only as itself, with the
\* window it has, and only if host.json copied it or never copied any.
TakenUp_Flaw(kind, source, target) == Pending /\ context.saved \in {0, intent.id}
TakenUp(kind, source, target) ==
  /\ Pending /\ intent.kind = kind /\ intent.source = source /\ intent.target = target
  /\ context.saved \in {0, intent.id}

\* Otherwise the intent is durable before anything is stopped ...
Begin(kind, source, target) ==
  \/ /\ TakenUp(kind, source, target) /\ MayWork(kind, source)
     /\ host' = Command(kind, Entry(kind, target), source, target)
     /\ UNCHANGED <<intent, clock>>
  \/ /\ ~Pending
     /\ intent' = [phase |-> "pending", id |-> intent.id + 1, kind |-> kind,
                   source |-> source, target |-> target]
     /\ clock' = 0
     /\ host' = Command(kind, "begin", source, target)

\* ... and host.json copies it in a second write.
SaveIntent ==
  /\ At("begin")
  /\ context' = [context EXCEPT !.phase = host.cmd, !.saved = intent.id]
  /\ IF MayWork(host.cmd, host.source) THEN GoTo(Entry(host.cmd, host.target)) ELSE host' = Idle
  /\ UNCHANGED <<commands, state, disk, head, running, pointer, intent, clock, reverse, faults>>

\* ordinary_release, ordinary_restore and the release command.  The first two
\* come from deploy.py, which insists on the current runtime.
Handoff(kind, target) ==
  LET source == IF Pending THEN intent.source ELSE pointer IN
  /\ Run /\ Bound /\ context.rehearsal = "passed"
  /\ kind = "runtime_restore" => CurrentRuns
  /\ HeadOf(target) = 40 /\ HeadOf(source) = 40 /\ head = 40 /\ {source, target} \subseteq loaded
  /\ Begin(kind, source, target)
  /\ UNCHANGED <<state, disk, head, running, context, pointer, reverse, faults>>

FollowupRelease(r) == Handoff("release", r)
OrdinaryRestore ==
  LET target == IF Pending THEN intent.target ELSE state.previous IN
  target # None /\ Handoff("runtime_restore", target)

\* The target is current already: it is verified again.
StartAgain ==
  /\ At("up_again") /\ InWindow /\ Started(host.target, "validate", "undo")
  /\ UNCHANGED <<commands, state, disk, head, followup, faults>>

\* _validate, and _close: the runtime is bound and seen to run, then host.json
\* and last the operation are closed.
Closing == IF host.pc = "undone" THEN host.source ELSE host.target
Validate ==
  /\ host.pc \in {"validate", "undone"} /\ InWindow
  /\ head = HeadOf(Closing) /\ state.current = Closing
  /\ pointer' = Closing
  /\ host' = [host EXCEPT !.pc = "proof", !.target = Closing]
  /\ UNCHANGED <<commands, state, disk, head, running, context, intent, clock, reverse, faults>>

RuntimeProof ==
  /\ At("proof") /\ InWindow /\ running = pointer
  /\ context' = [context EXCEPT !.saved = intent.id,
                   !.phase = IF host.cmd = "rollback" THEN "rolled_back" ELSE "ready"]
  /\ GoTo("close")
  /\ UNCHANGED <<commands, state, disk, head, running, pointer, intent, clock, reverse, faults>>

Close ==
  /\ At("close")
  /\ intent' = [intent EXCEPT !.phase = "closed"]
  /\ IF host.cmd # "rollback" /\ host.target = intent.target THEN GoTo("retain") ELSE host' = Idle
  /\ UNCHANGED <<commands, state, disk, head, running, context, pointer, clock, reverse, faults>>

\* The handler of release: back to the source, or everything stays stopped.
UndoStop ==
  /\ At("undo") /\ InWindow
  /\ Stopped /\ GoTo("undo_up")
  /\ UNCHANGED <<commands, state, disk, head, followup, faults>>

UndoStart ==
  /\ At("undo_up") /\ InWindow /\ Started(intent.source, "undo_state", "unresolved")
  /\ UNCHANGED <<commands, state, disk, head, followup, faults>>

UndoState ==
  /\ At("undo_state")
  /\ state' = [current |-> intent.source, previous |-> None]
  /\ host' = [host EXCEPT !.pc = "undone", !.source = intent.source]
  /\ UNCHANGED <<commands, disk, head, running, followup, faults>>

\* stop_failed_release has a budget of its own.
Unresolved ==
  /\ At("unresolved")
  /\ Stopped /\ host' = Idle
  /\ UNCHANGED <<commands, state, disk, head, followup, faults>>

-----------------------------------------------------------------------------
(* rollback: to the legacy release, with the facts of the current one.     *)

\* The source release of a retry and its reverse journal are the intent's.
RollbackBegin ==
  LET source == IF Pending THEN intent.source ELSE pointer IN
  /\ Run /\ Bound /\ ~(context.phase = "rolled_back" /\ ~Pending)
  /\ source # Old /\ Usable(source)
  /\ Begin("rollback", source, Old)
  /\ UNCHANGED <<state, disk, head, running, context, pointer, reverse, faults>>

\* The copy budget, or a short probe for an exchange that was recorded; the
\* live head then says whether it happened.
RollbackFacts ==
  /\ At("facts") /\ (clock = 0 \/ Exchanged(host.source))
  /\ IF head = 38
       THEN /\ Exchanged(host.source)
            /\ reverse' = [reverse EXCEPT ![host.source] = "switched"]
            /\ running' = running /\ GoTo("legacy")
       ELSE Stopped /\ GoTo("reverse") /\ UNCHANGED reverse
  /\ UNCHANGED <<commands, state, disk, head, context, pointer, intent, clock, faults>>

\* The journal's next command; copies and exchanges need stopped writers.
ReverseStep == [none |-> "prepared", prepared |-> "copied", copied |-> "verified",
                verified |-> "switch_pending", switch_pending |-> "switched"]
ReverseConversion ==
  /\ At("reverse") /\ reverse[host.source] # "switched" /\ running = None
  /\ clock = 0
  /\ reverse' = [reverse EXCEPT ![host.source] = ReverseStep[@]]
  /\ head' = IF reverse[host.source] = "switch_pending" THEN 38 ELSE head
  /\ UNCHANGED <<commands, state, disk, running, context, pointer, intent, clock, host, faults>>

\* The exchange happens and the command ends before its journal says so.
ExchangeUnrecorded ==
  /\ At("reverse") /\ reverse[host.source] = "switch_pending" /\ running = None /\ clock = 0
  /\ faults < MaxFaults /\ faults' = faults + 1
  /\ head' = 38 /\ GoTo("unresolved")
  /\ UNCHANGED <<commands, state, disk, running, followup>>

ReverseDone ==
  /\ At("reverse") /\ reverse[host.source] = "switched"
  /\ GoTo("legacy")
  /\ UNCHANGED <<commands, state, disk, head, running, followup, faults>>

\* Fenced validation of the legacy layout, then host.json, then the start.
LegacyAdmitted == InWindow /\ head = 38 /\ running = None /\ Usable(Old)
RollbackStarting ==
  /\ At("legacy") /\ LegacyAdmitted
  /\ context' = [context EXCEPT !.phase = "rollback_starting"]
  /\ GoTo("legacy_up")
  /\ UNCHANGED <<commands, state, disk, head, running, pointer, intent, clock, reverse, faults>>

LegacyStart ==
  /\ At("legacy_up") /\ InWindow /\ Started(Old, "legacy_state", "unresolved")
  /\ UNCHANGED <<commands, state, disk, head, followup, faults>>

LegacyState ==
  /\ At("legacy_state")
  /\ state' = [current |-> Old, previous |-> host.source]
  /\ GoTo("validate")
  /\ UNCHANGED <<commands, disk, head, running, followup, faults>>

-----------------------------------------------------------------------------
(* Errors, death and time.                                                 *)

\* Where an error goes: the handlers of apply and restore, then that of the
\* operation, then its last resort; a plain command just ends.
Handler(pc) ==
  IF pc = "retain" THEN "idle"
  ELSE IF pc \in {"stop", "up"} /\ host.cmd # "rollback" THEN "recover"
  ELSE IF host.cmd \in {"release", "runtime_restore"} THEN
    IF pc \in {"apply", "restore", "recover", "resume", "raise", "ready", "record", "publish",
               "up_again", "validate"}
       \/ (pc \in {"proof", "close"} /\ host.target = intent.target)
    THEN "undo" ELSE "unresolved"
  ELSE IF host.cmd = "rollback" THEN "unresolved"
  ELSE "idle"

Failed == IF Handler(host.pc) = "idle" THEN host' = Idle ELSE GoTo(Handler(host.pc))

\* The guards of the steps above and the checks they make first, negated: the
\* command raises where it stands.
Blocked ==
  CASE host.pc = "apply" -> ~ApplyAdmitted \/ ~InWindow
    [] host.pc = "restore" -> ~RestoreAdmitted \/ ~InWindow
    [] host.pc \in {"stop", "undo"} -> ~InWindow
    [] host.pc \in {"up", "up_again"} -> ~InWindow \/ ~Usable(host.target)
    [] host.pc = "publish" -> ~Guard \/ (pointer # None /\ head \notin {38, 40})
    [] host.pc = "resume" -> ~InWindow \/ ~Usable(host.source)
    [] host.pc = "retain" -> running # state.current
    [] host.pc \in {"validate", "undone"} -> ~InWindow \/ head # HeadOf(Closing) \/ state.current # Closing
    [] host.pc = "proof" -> ~InWindow \/ running # pointer
    [] host.pc = "undo_up" -> ~InWindow \/ ~Usable(intent.source)
    [] host.pc = "facts" -> ~Exchanged(host.source) /\ (clock # 0 \/ head = 38)
    [] host.pc = "reverse" -> reverse[host.source] # "switched" /\ (running # None \/ clock # 0)
    [] host.pc = "legacy" -> ~LegacyAdmitted
    [] host.pc = "legacy_up" -> ~InWindow \/ ~Usable(Old)
    [] host.pc = "raise" -> TRUE
    [] OTHER -> FALSE

Raise ==
  /\ ~At("idle") /\ Blocked
  /\ Failed
  /\ UNCHANGED <<commands, state, disk, head, running, followup, faults>>

\* A container or a check fails; one that was starting may be left running.
Fault ==
  /\ host.pc \notin {"idle", "raise", "unresolved", "adopt", "bind", "bound", "begin"} /\ ~Blocked
  /\ faults < MaxFaults /\ faults' = faults + 1
  /\ Failed
  /\ running' \in {running} \cup
       (IF host.pc \in {"up", "up_again"} THEN {host.target}
        ELSE IF host.pc \in {"resume"} THEN {host.source}
        ELSE IF host.pc = "undo_up" THEN {intent.source}
        ELSE IF host.pc = "legacy_up" THEN {Old} ELSE {})
  /\ UNCHANGED <<commands, state, disk, head, followup>>

\* The runtime itself stops.
RuntimeFails ==
  /\ running # None /\ faults < MaxFaults
  /\ faults' = faults + 1 /\ running' = None
  /\ UNCHANGED <<commands, state, disk, head, followup, host>>

HostDies ==
  /\ ~At("idle") /\ faults < MaxFaults
  /\ faults' = faults + 1 /\ host' = Idle
  /\ UNCHANGED <<commands, state, disk, head, running, followup>>

Tick ==
  /\ Pending /\ clock < 2
  /\ clock' = clock + 1
  /\ UNCHANGED <<commands, state, disk, head, running, context, pointer, intent, reverse, host, faults>>

Next ==
  \/ \E r \in Releases : StagePrepare(r) \/ Deploy(r) \/ FollowupRelease(r)
  \/ RestorePrevious \/ Apply \/ Restore \/ StopSource \/ StartTarget
  \/ RecordReady \/ RecordState \/ Publish \/ Recover \/ Resume \/ Retain
  \/ HandoffPrepare \/ HandoffAdopt \/ HandoffState
  \/ BootstrapBegin \/ BootstrapResume \/ AppendBinding \/ BootstrapReady
  \/ Rehearse \/ PrepareReverse
  \/ OrdinaryRestore \/ SaveIntent \/ StartAgain \/ Validate \/ RuntimeProof \/ Close
  \/ UndoStop \/ UndoStart \/ UndoState \/ Unresolved
  \/ RollbackBegin \/ RollbackFacts \/ ReverseConversion \/ ExchangeUnrecorded \/ ReverseDone
  \/ RollbackStarting \/ LegacyStart \/ LegacyState
  \/ Raise \/ Fault \/ RuntimeFails \/ HostDies \/ Tick

Spec == Init /\ [][Next]_vars

-----------------------------------------------------------------------------
(* Properties.                                                             *)

\* Whatever fails, dies or is retried, no release ever runs on a schema of the
\* other family: the legacy release never on the module layout or after it.
FamilyServed == running # None => Family(HeadOf(running)) = Family(head)

\* Once a follow-up context is active, state.json names its bound release, or
\* one of the two releases of the unfinished operation that owns the window.
Accountable ==
  pointer # None =>
    state.current \in (IF Pending THEN {intent.source, intent.target} ELSE {pointer})

\* An operation is closed only on one of its own two releases, on the head
\* that release expects, when state.json and the active context both name it
\* and nothing else runs: no retry turns it into another operation.
ClosedAsIntended ==
  [][Pending /\ intent'.phase = "closed" =>
       /\ pointer \in {intent.source, intent.target} /\ state.current = pointer
       /\ running \in {pointer, None} /\ HeadOf(pointer) = head]_vars

\* Retention never removes an image that a restore, the follow-up's executor
\* or the way back to the legacy release still needs.
ImagesKept ==
  /\ {state.current, state.previous} \ {None} \subseteq loaded
  /\ pointer # None => {pointer, Executor, Old} \subseteq loaded
  /\ Pending => {intent.source, intent.target} \subseteq loaded

\* An operation that host.json did not copy, after it had copied another, is
\* never taken up again once its command died: it has touched nothing, and the
\* binding and state.json are still its source's (_begin).
Stranded == Pending /\ context.saved \notin {0, intent.id}
StrandedUntouched == Stranded => state.current = intent.source /\ pointer = intent.source

\* What the host's files name is accounted for and can still be started.
StateAccountable == Accountable /\ ImagesKept /\ StrandedUntouched
=============================================================================
